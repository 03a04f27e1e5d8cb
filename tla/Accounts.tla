------------------------------ MODULE Accounts ------------------------------
(***************************************************************************)
(* The account handlers of src/src/server/auth.c and github.c.  A request  *)
(* runs one handler once; each of its queries is a transaction of its own, *)
(* so other requests' queries fall between any two of them.                *)
(*                                                                         *)
(* A query that fails is seen by its handler as NULL (no connection, or    *)
(* the statement could not be prepared) or as a result that holds an error *)
(* and no rows (it failed while it ran); the handlers treat these two      *)
(* differently, and not each in the same way.                              *)
(*                                                                         *)
(* pc of a request names its next query or call:                           *)
(*   register  check, insert, token, mail, session                         *)
(*   login     lookup, session            logout  logout                   *)
(*   verify    valid, mark                resend  getUser, unverified,     *)
(*   forgot    forgot, resetToken, mail           token, mail              *)
(*   reset     resettable, update         auth    cleanup, store           *)
(*   callback  cleanup, consume, github, identity, refresh or create and   *)
(*             connect, session                                            *)
(***************************************************************************)
EXTENDS Naturals, Sequences, FiniteSets

CONSTANTS
  Requests,
  Earlier,      \* stands for the requests of the time before
  Logins,
  Known,        \* those that may have registered earlier
  Passwords,
  Usable,       \* those with 8 to 128 characters
  Identities,   \* GitHub accounts
  GitHubLogin,  \* the login of each
  None,
  MaxFaults     \* bound on failing queries and mails, restarts and expired tokens

ASSUME AccountsAssumption ==
  /\ Earlier \notin Requests
  /\ Usable \subseteq Passwords /\ Known \subseteq Logins
  /\ GitHubLogin \in [Identities -> Logins]
  /\ None \notin Requests \cup Logins \cup Passwords \cup Identities \cup {Earlier}
  /\ MaxFaults \in Nat

(* A token is random; the request that generated it is its name. *)
Tokens == Requests \cup {Earlier}

VARIABLES
  users,          \* in the order of their ids; nothing deletes one
  sessions, verifications, resets, states, oauth,  \* the other tables
  expired,        \* rows whose time has passed, by table and token
  mail,           \* what has reached a mailbox
  pc, ask,        \* each request's place and input
  user,           \* userId, as an index of users
  identity,       \* github_id
  answer, faults

tables == <<users, sessions, verifications, resets, states, oauth>>
outside == <<expired, mail>>
vars == <<tables, outside, pc, ask, user, identity, answer, faults>>

Kinds == {"none", "register", "login", "logout", "verify", "resend",
          "forgot", "reset", "auth", "callback"}
PC == {"idle", "done", "check", "insert", "token", "mail", "session", "lookup",
       "logout", "valid", "mark", "getUser", "unverified", "forgot",
       "resetToken", "resettable", "update", "cleanup", "store", "consume",
       "github", "identity", "refresh", "create", "connect"}
Answers == {"none", "failed", "taken", "registered", "invalid", "loggedIn",
            "loggedOut", "verified", "already", "sent", "reset", "redirect"}

Ask(kind, login, password, token) ==
  [kind |-> kind, login |-> login, password |-> password, token |-> token]
Ids == 1..Len(users)

(* hash is the password: the salt is the same for all.  "" is None. *)
UserRow == [login : Logins, hash : Passwords \cup {None}, type : {"local", "oauth"}]
TokenRow == [token : Tokens, user : Ids, spent : BOOLEAN]

TypeOK ==
  /\ users \in Seq(UserRow)
  /\ sessions \subseteq [token : Tokens, user : Ids]
  /\ verifications \subseteq TokenRow /\ resets \subseteq TokenRow
  /\ states \subseteq Tokens
  /\ oauth \subseteq [identity : Identities, user : Ids]
  /\ expired \subseteq {"sessions", "verifications", "resets", "states"} \X Tokens
  /\ mail \subseteq [to : Logins, table : {"verifications", "resets"}, token : Tokens]
  /\ pc \in [Requests -> PC]
  /\ ask \in [Requests -> [kind : Kinds, login : Logins \cup {None},
                           password : Passwords \cup {None}, token : Tokens \cup {None}]]
  /\ user \in [Requests -> Ids \cup {0}]
  /\ identity \in [Requests -> Identities \cup {None}]
  /\ answer \in [Requests -> Answers]
  /\ faults \in 0..MaxFaults

(* The database is new, or somebody has registered in it, has not verified *)
(* the address yet, and has forgotten the password.                         *)
Init ==
  /\ \/ /\ users = <<>> /\ sessions = {} /\ verifications = {} /\ resets = {}
        /\ mail = {}
     \/ \E l \in Known, p \in Usable :
          /\ users = <<[login |-> l, hash |-> p, type |-> "local"]>>
          /\ sessions = {[token |-> Earlier, user |-> 1]}
          /\ verifications = {[token |-> Earlier, user |-> 1, spent |-> FALSE]}
          /\ resets = verifications
          /\ mail = [to : {l}, table : {"verifications", "resets"}, token : {Earlier}]
  /\ states \in {{}, {Earlier}}
  /\ oauth = {} /\ expired = {}
  /\ pc = [r \in Requests |-> "idle"]
  /\ ask = [r \in Requests |-> Ask("none", None, None, None)]
  /\ user = [r \in Requests |-> 0]
  /\ identity = [r \in Requests |-> None]
  /\ answer = [r \in Requests |-> "none"]
  /\ faults = 0

Goto(r, l) == pc' = [pc EXCEPT ![r] = l] /\ UNCHANGED answer
Reply(r, a) == pc' = [pc EXCEPT ![r] = "done"] /\ answer' = [answer EXCEPT ![r] = a]
WithLogin(l) == {u \in Ids : users[u].login = l}
Valid(table, row) == <<table, row.token>> \notin expired /\ ~row.spent

-----------------------------------------------------------------------------
(* A request arrives *)

(* A request that lacks a field, whose passwords differ, or for which no  *)
(* salt or GitHub client is configured is answered before its first query: *)
(* it is as if it had not arrived.                                          *)

(* What a browser may send: logins and passwords that are typed, links     *)
(* that were mailed, cookies and states that an answer carried.             *)
Mailed(table) == {m.token : m \in {n \in mail : n.table = table}}
Given(answers) == {t \in Requests : answer[t] \in answers} \cup {Earlier}
Cookies == Given({"registered", "loggedIn"})

Begin(r, a, l) ==
  /\ pc[r] = "idle"
  /\ ask' = [ask EXCEPT ![r] = a]
  /\ pc' = [pc EXCEPT ![r] = l]
  /\ UNCHANGED <<tables, outside, user, identity, answer, faults>>

Arrive(r) ==
  \/ \E l \in Logins, p \in Passwords :
       \/ Begin(r, Ask("register", l, p, None), "check")
       \/ Begin(r, Ask("login", l, p, None), "lookup")
  \/ \E t \in Cookies :
       \/ Begin(r, Ask("logout", None, None, t), "logout")
       \/ Begin(r, Ask("resend", None, None, t), "getUser")
  \/ \E t \in Mailed("verifications") : Begin(r, Ask("verify", None, None, t), "valid")
  \/ \E l \in Logins : Begin(r, Ask("forgot", l, None, None), "forgot")
  \/ \E t \in Mailed("resets"), p \in Passwords :
       Begin(r, Ask("reset", None, p, t), "resettable")
  \/ Begin(r, Ask("auth", None, None, r), "cleanup")
  \/ \E t \in Given({"redirect"}) : Begin(r, Ask("callback", None, None, t), "cleanup")

-----------------------------------------------------------------------------
(* Steps that several handlers share *)

(* createVerificationToken *)
InsertToken(r) ==
  /\ pc[r] = "token"
  /\ verifications' = verifications \cup {[token |-> r, user |-> user[r], spent |-> FALSE]}
  /\ Goto(r, "mail")
  /\ UNCHANGED <<users, sessions, resets, states, oauth, outside,
                 ask, user, identity, faults>>

(* The address is the login that was typed, or for resend the user's. *)
Letter(r) ==
  [to |-> IF ask[r].kind = "resend" THEN users[user[r]].login ELSE ask[r].login,
   table |-> IF ask[r].kind = "forgot" THEN "resets" ELSE "verifications",
   token |-> r]

(* sendVerificationEmail, sendPasswordResetEmail: the service is reached,  *)
(* whatever its answer, so the mail may still be lost.                      *)
SendMail(r) ==
  /\ pc[r] = "mail"
  /\ mail' \in {mail, mail \cup {Letter(r)}}
  /\ IF ask[r].kind = "register" THEN Goto(r, "session") ELSE Reply(r, "sent")
  /\ UNCHANGED <<tables, expired, ask, user, identity, faults>>

(* createSession, the last query of three handlers *)
CreateSession(r) ==
  /\ pc[r] = "session"
  /\ sessions' = sessions \cup {[token |-> r, user |-> user[r]]}
  /\ Reply(r, IF ask[r].kind = "register" THEN "registered" ELSE "loggedIn")
  /\ UNCHANGED <<users, verifications, resets, states, oauth, outside,
                 ask, user, identity, faults>>

-----------------------------------------------------------------------------
(* handleRegisterRequest *)

Check(r) ==
  /\ pc[r] = "check"
  /\ IF WithLogin(ask[r].login) # {} THEN Reply(r, "taken") ELSE Goto(r, "insert")
  /\ UNCHANGED <<tables, outside, ask, user, identity, faults>>

NewUser(r, u) ==
  /\ users' = Append(users, u)
  /\ user' = [user EXCEPT ![r] = Len(users) + 1]

LocalUser(r) == [login |-> ask[r].login, hash |-> ask[r].password, type |-> "local"]

(* Mutant: neither login nor email is UNIQUE. *)
Insert_NotUnique(r) ==
  /\ pc[r] = "insert"
  /\ NewUser(r, LocalUser(r))
  /\ Goto(r, "token")
  /\ UNCHANGED <<sessions, verifications, resets, states, oauth, outside,
                 ask, identity, faults>>

(* Mutant: the mail is sent first, and the token's row forgotten. *)
Insert_MailsFirst(r) ==
  /\ pc[r] = "insert"
  /\ WithLogin(ask[r].login) = {}
  /\ NewUser(r, LocalUser(r))
  /\ Goto(r, "mail")
  /\ UNCHANGED <<sessions, verifications, resets, states, oauth, outside,
                 ask, identity, faults>>

(* login and email are UNIQUE, and both are the login here. *)
Insert(r) ==
  /\ pc[r] = "insert"
  /\ WithLogin(ask[r].login) = {}
  /\ NewUser(r, LocalUser(r))
  /\ Goto(r, "token")
  /\ UNCHANGED <<sessions, verifications, resets, states, oauth, outside,
                 ask, identity, faults>>

(* The INSERT violates UNIQUE: another request was faster. *)
InsertFails(r) ==
  /\ pc[r] = "insert"
  /\ WithLogin(ask[r].login) # {}
  /\ Reply(r, "failed")
  /\ UNCHANGED <<tables, outside, ask, user, identity, faults>>

-----------------------------------------------------------------------------
(* handleLoginRequest, handleLogoutRequest *)

(* verifyPassword; the hash of a GitHub user is empty and matches nothing. *)
Matches(password, u) == password \in Usable /\ users[u].hash = password

Lookup(r) ==
  /\ pc[r] = "lookup"
  /\ \E u \in WithLogin(ask[r].login) :
       /\ Matches(ask[r].password, u)
       /\ user' = [user EXCEPT ![r] = u]
  /\ Goto(r, "session")
  /\ UNCHANGED <<tables, outside, ask, identity, faults>>

LookupFails(r) ==
  /\ pc[r] = "lookup"
  /\ \A u \in WithLogin(ask[r].login) : ~Matches(ask[r].password, u)
  /\ Reply(r, "invalid")
  /\ UNCHANGED <<tables, outside, ask, user, identity, faults>>

Logout(r) ==
  /\ pc[r] = "logout"
  /\ sessions' = {s \in sessions : s.token # ask[r].token}
  /\ Reply(r, "loggedOut")
  /\ UNCHANGED <<users, verifications, resets, states, oauth, outside,
                 ask, user, identity, faults>>

-----------------------------------------------------------------------------
(* handleVerifyEmailRequest, handleResendVerificationRequest *)

Verifiable(r) ==
  {v \in verifications : v.token = ask[r].token /\ Valid("verifications", v)}

FindVerification(r) ==
  /\ pc[r] = "valid"
  /\ IF Verifiable(r) # {} THEN Goto(r, "mark") ELSE Reply(r, "invalid")
  /\ UNCHANGED <<tables, outside, ask, user, identity, faults>>

(* Mutant: the UPDATE is left out. *)
Mark_AnswersOnly(r) ==
  /\ pc[r] = "mark"
  /\ Reply(r, "verified")
  /\ UNCHANGED <<tables, outside, ask, user, identity, faults>>

(* UPDATE ... WHERE id: nothing is asked again. *)
Mark(r) ==
  /\ pc[r] = "mark"
  /\ verifications' = {IF v.token = ask[r].token THEN [v EXCEPT !.spent = TRUE] ELSE v :
                         v \in verifications}
  /\ Reply(r, "verified")
  /\ UNCHANGED <<users, sessions, resets, states, oauth, outside,
                 ask, user, identity, faults>>

(* getUser *)
GetUser(r) ==
  /\ pc[r] = "getUser"
  /\ \E s \in sessions :
       /\ s.token = ask[r].token /\ <<"sessions", s.token>> \notin expired
       /\ user' = [user EXCEPT ![r] = s.user]
  /\ Goto(r, "unverified")
  /\ UNCHANGED <<tables, outside, ask, identity, faults>>

GetUserFails(r) ==
  /\ pc[r] = "getUser"
  /\ \A s \in sessions :
       s.token = ask[r].token => <<"sessions", s.token>> \in expired
  /\ Reply(r, "failed")
  /\ UNCHANGED <<tables, outside, ask, user, identity, faults>>

CheckUnverified(r) ==
  /\ pc[r] = "unverified"
  /\ IF \E v \in verifications : v.user = user[r] /\ v.spent
       THEN Reply(r, "already")
       ELSE Goto(r, "token")
  /\ UNCHANGED <<tables, outside, ask, user, identity, faults>>

-----------------------------------------------------------------------------
(* handleForgotPasswordRequest, handleResetPasswordRequest *)

(* Mutant: the WHERE clause is gone: the first row is taken. *)
FindForgetful_First(r) ==
  /\ pc[r] = "forgot"
  /\ IF users = <<>>
       THEN Reply(r, "sent") /\ UNCHANGED user
       ELSE user' = [user EXCEPT ![r] = 1] /\ Goto(r, "resetToken")
  /\ UNCHANGED <<tables, outside, ask, identity, faults>>

(* Whether there is such a user is not revealed. *)
FindForgetful(r) ==
  /\ pc[r] = "forgot"
  /\ IF WithLogin(ask[r].login) = {}
       THEN Reply(r, "sent") /\ UNCHANGED user
       ELSE /\ \E u \in WithLogin(ask[r].login) : user' = [user EXCEPT ![r] = u]
            /\ Goto(r, "resetToken")
  /\ UNCHANGED <<tables, outside, ask, identity, faults>>

(* createPasswordResetToken *)
InsertReset(r) ==
  /\ pc[r] = "resetToken"
  /\ resets' = resets \cup {[token |-> r, user |-> user[r], spent |-> FALSE]}
  /\ Goto(r, "mail")
  /\ UNCHANGED <<users, sessions, verifications, states, oauth, outside,
                 ask, user, identity, faults>>

Resettable(r) == {k \in resets : k.token = ask[r].token /\ Valid("resets", k)}

Spend(r) ==
  resets' = {IF k.token = ask[r].token THEN [k EXCEPT !.spent = TRUE] ELSE k : k \in resets}

(* Mutant: the lookup already marks the token as used. *)
FindReset_Spends(r) ==
  /\ pc[r] = "resettable"
  /\ \E k \in Resettable(r) : user' = [user EXCEPT ![r] = k.user]
  /\ Spend(r)
  /\ Goto(r, "update")
  /\ UNCHANGED <<users, sessions, verifications, states, oauth, outside,
                 ask, identity, faults>>

FindReset(r) ==
  /\ pc[r] = "resettable"
  /\ \E k \in Resettable(r) : user' = [user EXCEPT ![r] = k.user]
  /\ Goto(r, "update")
  /\ UNCHANGED <<tables, outside, ask, identity, faults>>

FindResetFails(r) ==
  /\ pc[r] = "resettable"
  /\ Resettable(r) = {}
  /\ Reply(r, "invalid")
  /\ UNCHANGED <<tables, outside, ask, user, identity, faults>>

(* One statement changes both tables; it does not ask whether the token is *)
(* still unused.                                                            *)
Update(r) ==
  /\ pc[r] = "update"
  /\ users' = [users EXCEPT ![user[r]].hash = ask[r].password]
  /\ Spend(r)
  /\ Reply(r, "reset")
  /\ UNCHANGED <<sessions, verifications, states, oauth, outside,
                 ask, user, identity, faults>>

-----------------------------------------------------------------------------
(* handleGithubAuthRequest, handleGithubCallback *)

(* cleanupOldStateTokens; whether it worked is not looked at. *)
Cleanup(r) ==
  /\ pc[r] = "cleanup"
  /\ states' = {t \in states : <<"states", t>> \notin expired}
  /\ Goto(r, IF ask[r].kind = "auth" THEN "store" ELSE "consume")
  /\ UNCHANGED <<users, sessions, verifications, resets, oauth, outside,
                 ask, user, identity, faults>>

Store(r) ==
  /\ pc[r] = "store"
  /\ states' = states \cup {r}
  /\ Reply(r, "redirect")
  /\ UNCHANGED <<users, sessions, verifications, resets, oauth, outside,
                 ask, user, identity, faults>>

(* Mutant: the token is looked up but not deleted. *)
Consume_Keeps(r) ==
  /\ pc[r] = "consume"
  /\ IF ask[r].token \in states THEN Goto(r, "github") ELSE Reply(r, "invalid")
  /\ UNCHANGED <<tables, outside, ask, user, identity, faults>>

(* validateStateToken: DELETE ... RETURNING *)
Consume(r) ==
  /\ pc[r] = "consume"
  /\ states' = states \ {ask[r].token}
  /\ IF ask[r].token \in states THEN Goto(r, "github") ELSE Reply(r, "invalid")
  /\ UNCHANGED <<users, sessions, verifications, resets, oauth, outside,
                 ask, user, identity, faults>>

(* The code is exchanged and the user's profile fetched, or not. *)
AskGitHub(r) ==
  /\ pc[r] = "github"
  /\ \/ /\ \E g \in Identities : identity' = [identity EXCEPT ![r] = g]
        /\ Goto(r, "identity")
     \/ Reply(r, "failed") /\ UNCHANGED identity
  /\ UNCHANGED <<tables, outside, ask, user, faults>>

FindIdentity(r) ==
  /\ pc[r] = "identity"
  /\ IF \E o \in oauth : o.identity = identity[r]
       THEN /\ \E o \in oauth : /\ o.identity = identity[r]
                                /\ user' = [user EXCEPT ![r] = o.user]
            /\ Goto(r, "refresh")
       ELSE Goto(r, "create") /\ UNCHANGED user
  /\ UNCHANGED <<tables, outside, ask, identity, faults>>

GitHubUser(r) == [login |-> GitHubLogin[identity[r]], hash |-> None, type |-> "oauth"]

CreateUser(r) ==
  /\ pc[r] = "create"
  /\ WithLogin(GitHubUser(r).login) = {}
  /\ NewUser(r, GitHubUser(r))
  /\ Goto(r, "connect")
  /\ UNCHANGED <<sessions, verifications, resets, states, oauth, outside,
                 ask, identity, faults>>

(* Mutant: ON CONFLICT (login): a user of that name is taken as it is. *)
CreateUserFails_Adopts(r) ==
  /\ pc[r] = "create"
  /\ \E u \in WithLogin(GitHubUser(r).login) : user' = [user EXCEPT ![r] = u]
  /\ Goto(r, "connect")
  /\ UNCHANGED <<tables, outside, ask, identity, faults>>

(* The login is taken, by a local user or by a callback that was faster. *)
CreateUserFails(r) ==
  /\ pc[r] = "create"
  /\ WithLogin(GitHubUser(r).login) # {}
  /\ Reply(r, "failed")
  /\ UNCHANGED <<tables, outside, ask, user, identity, faults>>

(* storeOAuthCredentials; ON CONFLICT the row keeps its user. *)
Connect(r) ==
  /\ pc[r] \in {"connect", "refresh"}
  /\ oauth' = IF \E o \in oauth : o.identity = identity[r]
                THEN oauth
                ELSE oauth \cup {[identity |-> identity[r], user |-> user[r]]}
  /\ Goto(r, "session")
  /\ UNCHANGED <<users, sessions, verifications, resets, states, outside,
                 ask, user, identity, faults>>

-----------------------------------------------------------------------------
(* Failures from outside *)

Fault == faults < MaxFaults /\ faults' = faults + 1

(* A query fails and changes nothing.  Where two outcomes are given, the   *)
(* first is for NULL and the second for a result that holds an error.       *)
QueryFails(r) ==
  /\ Fault
  /\ \/ /\ pc[r] \in {"insert", "token", "session", "getUser", "forgot", "resetToken",
                      "update", "store", "create"}
        /\ Reply(r, "failed")
     \/ pc[r] \in {"lookup", "valid", "resettable", "consume"} /\ Reply(r, "invalid")
     \/ pc[r] = "check" /\ (Reply(r, "failed") \/ Goto(r, "insert"))
     \/ pc[r] = "mark" /\ (Reply(r, "failed") \/ Reply(r, "verified"))
     \/ pc[r] = "logout" /\ Reply(r, "loggedOut")
     \/ pc[r] = "unverified" /\ Goto(r, "token")
     \/ pc[r] = "cleanup" /\ Goto(r, IF ask[r].kind = "auth" THEN "store" ELSE "consume")
     \/ pc[r] = "identity" /\ Goto(r, "create")
     \/ pc[r] \in {"connect", "refresh"} /\ Goto(r, "session")
  /\ UNCHANGED <<tables, outside, ask, user, identity>>

(* No e-mail is configured, its template fails, or curl does: then the     *)
(* service may have got the letter all the same.                            *)
MailFails(r) ==
  /\ pc[r] = "mail"
  /\ Fault
  /\ mail' \in {mail, mail \cup {Letter(r)}}
  /\ Reply(r, "failed")
  /\ UNCHANGED <<tables, expired, ask, user, identity>>

(* The server is killed: no request that runs is ever answered. *)
Killed ==
  /\ \E r \in Requests : pc[r] \notin {"idle", "done"}
  /\ Fault
  /\ pc' = [r \in Requests |-> IF pc[r] = "idle" THEN "idle" ELSE "done"]
  /\ UNCHANGED <<tables, outside, ask, user, identity, answer>>

Expire(table, rows) ==
  /\ Fault
  /\ \E t \in rows : expired' = expired \cup {<<table, t>>}
  /\ UNCHANGED <<tables, mail, pc, ask, user, identity, answer>>

TimePasses ==
  \/ Expire("sessions", {s.token : s \in sessions})
  \/ Expire("verifications", {v.token : v \in verifications})
  \/ Expire("resets", {k.token : k \in resets})
  \/ Expire("states", states)

Handle(r) ==
  \/ InsertToken(r) \/ SendMail(r) \/ CreateSession(r)
  \/ Check(r) \/ Insert(r) \/ InsertFails(r)
  \/ Lookup(r) \/ LookupFails(r) \/ Logout(r)
  \/ FindVerification(r) \/ Mark(r) \/ GetUser(r) \/ GetUserFails(r) \/ CheckUnverified(r)
  \/ FindForgetful(r) \/ InsertReset(r) \/ FindReset(r) \/ FindResetFails(r) \/ Update(r)
  \/ Cleanup(r) \/ Store(r) \/ Consume(r) \/ AskGitHub(r) \/ FindIdentity(r)
  \/ CreateUser(r) \/ CreateUserFails(r) \/ Connect(r)

Next ==
  \/ \E r \in Requests : Arrive(r) \/ Handle(r) \/ QueryFails(r) \/ MailFails(r)
  \/ Killed \/ TimePasses

Spec == Init /\ [][Next]_vars

-----------------------------------------------------------------------------
(* Properties *)

(* Of several registrations of one login, however they overlap, at most    *)
(* one is told that it succeeded, and that one owns the only user of this  *)
(* login: its verification is the user's.                                   *)
OneRegistrationWins ==
  \A r \in Requests : answer[r] = "registered" =>
    /\ \A q \in Requests \ {r} : answer[q] = "registered" => ask[q].login # ask[r].login
    /\ \E u \in Ids : /\ WithLogin(ask[r].login) = {u}
                      /\ \E v \in verifications : v.token = r /\ v.user = u

WasReset(u) == \E q \in Requests : answer[q] = "reset" /\ user[q] = u

(* A session belongs to the local user whose login its request registered  *)
(* or gave, or to the user of the GitHub account that confirmed it; a      *)
(* GitHub account never gets into a local user of the same name.  A GitHub *)
(* user has no password to log in with until it was sent a link and reset   *)
(* the one it never had: forgot does not ask for the type (auth.c:781).     *)
SessionsAreEarned ==
  \A s \in sessions : s.token \in Requests =>
    LET r == s.token IN
    /\ ask[r].kind \in {"register", "login"} =>
         /\ users[s.user].login = ask[r].login
         /\ users[s.user].type = "local" \/ (ask[r].kind = "login" /\ WasReset(s.user))
    /\ ask[r].kind = "callback" =>
         users[s.user].login = GitHubLogin[identity[r]] /\ users[s.user].type = "oauth"

(* The tables and the requests have their types at every step, and the     *)
(* sessions in them are earned.  (createSession, handleGithubCallback)     *)
UsersSound == TypeOK /\ SessionsAreEarned

(* No two callbacks get past the same state token, whatever fails. *)
PastConsume(r) ==
  /\ ask[r].kind = "callback"
  /\ \/ pc[r] \in {"github", "identity", "refresh", "create", "connect", "session"}
     \/ answer[r] \in {"failed", "loggedIn"}
StateConsumedOnce ==
  \A r, q \in Requests :
    r # q /\ PastConsume(r) /\ PastConsume(q) => ask[r].token # ask[q].token

(* auth.c:893: "Update password and mark token as used in a transaction".  *)
(* A reset token that is spent has been answered as a reset, and the       *)
(* user's password is that of a request that was.                           *)
ResetIsAtomic ==
  \A k \in resets : k.spent =>
    \E r, q \in Requests :
      /\ answer[r] = "reset" /\ ask[r].token = k.token
      /\ answer[q] = "reset" /\ user[q] = k.user
      /\ users[k.user].hash = ask[q].password

(* A mailed link works until it expires or is used: its token is in the    *)
(* table, and belongs to the user whose address the mail went to.           *)
MailedTokensWork ==
  \A m \in mail :
    \E row \in IF m.table = "resets" THEN resets ELSE verifications :
      row.token = m.token /\ users[row.user].login = m.to

(* Users stay what they are; only somebody who got a mail at the user's    *)
(* own address ever changes a password.                                     *)
OnlyOwnersReset ==
  [][/\ Len(users') >= Len(users)
     /\ \A u \in Ids : users'[u] # users[u] =>
          /\ users'[u] = [users[u] EXCEPT !.hash = users'[u].hash]
          /\ \E r \in Requests, m \in mail :
               /\ pc[r] = "update" /\ ask[r].token = m.token
               /\ m.table = "resets" /\ m.to = users[u].login]_vars

(* What a browser is told about its verification or its logout is so: the  *)
(* address is marked as verified, the session is gone.  The two handlers   *)
(* look at no error of their last query, so each failed query may make one *)
(* such answer untrue, and only one.                                        *)
Untrue(r) ==
  \/ answer[r] = "verified"
     /\ \A v \in verifications : v.token = ask[r].token => ~v.spent
  \/ answer[r] = "loggedOut" /\ \E s \in sessions : s.token = ask[r].token
AnswersAreTrue == Cardinality({r \in Requests : Untrue(r)}) <= faults
=============================================================================
