------------------------------ MODULE Sessions ------------------------------
(***************************************************************************)
(* What the server remembers for one browser with several tabs: the        *)
(* anonymous session with the page to return to after a login, the session *)
(* of a user that is logged in, and the session's store of keys and values *)
(* for Lua scripts (server/mustache.c, server/lua.c, server/auth.c and     *)
(* server/github.c).  Requests are concurrent: a step is one query.        *)
(*                                                                         *)
(* Passwords, users and GitHub's answers are those of module Accounts; a   *)
(* login here is one that reaches createSession.                           *)
(***************************************************************************)
EXTENDS Naturals

CONSTANTS
  Requests,   \* the browser's requests; a request's name is also the token
              \* (of a session or a state) that it draws at random
  First,      \* the session with which the browser may start
  Keys, Values,  \* of the session's store
  Paths,      \* pages that need a login
  None,       \* no token, no value, no answer
  Home,       \* the path "/"
  Blank,      \* the empty text that PQgetvalue gives for a NULL
  MaxFaults   \* bound on failing queries, lost answers, expired cookies

\* Table anonymous_sessions: there is no row, or one whose path is NULL.
NoRow == "no row"
NoPath == "no path"

ASSUME SessionsAssumption ==
  /\ First \notin Requests /\ None \notin Requests \cup {First}
  /\ None \notin Values
  /\ {Home, Blank, None, NoRow, NoPath} \cap Paths = {}
  /\ Home # Blank /\ Home # None /\ Blank # None
  /\ MaxFaults \in Nat

Tokens == Requests \cup {First}
Locations == Paths \cup {Home, Blank}

VARIABLES
  jar,        \* the browser's cookies
  held,       \* states of logins by GitHub that it was redirected with
  pc,         \* where each request is
  ask,        \* what it asks for
  sent,       \* the cookies it was sent with
  seen,       \* what it has read of the store
  answer,     \* what it is answered: cookies, place to go to, value
  anonymous,  \* table anonymous_sessions: token -> return_path
  sessions,   \* table sessions: the tokens
  store,      \* table session_store: token -> data
  states,     \* table state_tokens: token -> returnTo
  faults,
  \* history variables, which no step reads
  ideal,      \* the store as the answers of setStore tell it
  missed,     \* keys that were set between a request's read and its write
  torn,       \* keys of a session whose value such a write has put back
  away,       \* the page the browser was turned away from last, and by
              \* which anonymous session
  want,       \* where a login ought to lead
  crossed     \* two requests were under way that had no anonymous session

tables == <<anonymous, sessions, store, states>>
history == <<ideal, missed, torn, away, want, crossed>>
vars == <<jar, held, pc, ask, sent, seen, answer, tables, faults, history>>

Cookies == [anonymous : Tokens \cup {None}, session : Tokens \cup {None}]
NoCookies == [anonymous |-> None, session |-> None]

Asks ==
  [kind : {"page", "login", "logout", "github"}]
    \cup [kind : {"guarded"}, path : Paths]
    \cup [kind : {"get"}, key : Keys]
    \cup [kind : {"set"}, key : Keys, value : Values]
    \cup [kind : {"callback"}, state : Requests]

Data == [Keys -> Values \cup {None}]
Empty == [k \in Keys |-> None]

Answers == [sets : {"nothing", "anonymous", "session", "clear"},
            to : Locations \cup {None},
            value : Values \cup {None} \cup BOOLEAN]
NoAnswer == [sets |-> "nothing", to |-> None, value |-> None]

Labels == {"unsent", "user", "insert", "update", "read", "merge", "get",
           "session", "where", "state", "callback", "delete", "answer", "over"}

TypeOK ==
  /\ jar \in Cookies /\ held \subseteq Requests
  /\ pc \in [Requests -> Labels]
  /\ ask \in [Requests -> Asks \cup {None}]
  /\ sent \in [Requests -> Cookies]
  /\ seen \in [Requests -> Data]
  /\ answer \in [Requests -> Answers]
  /\ anonymous \in [Tokens -> Paths \cup {NoRow, NoPath}]
  /\ sessions \subseteq Tokens
  /\ store \in [Tokens -> Data]
  /\ states \in [Requests -> Locations \cup {NoRow}]
  /\ faults \in 0..MaxFaults
  /\ ideal \in [Tokens -> Data]
  /\ missed \in [Requests -> SUBSET Keys]
  /\ torn \in [Tokens -> SUBSET Keys]
  /\ away \in [token : Tokens \cup {None}, path : Paths \cup {None}]
  /\ want \in [Requests -> Locations \cup {None}]
  /\ crossed \in BOOLEAN

Init ==
  /\ jar \in {NoCookies, [NoCookies EXCEPT !.session = First]}
  /\ held = {}
  /\ pc = [r \in Requests |-> "unsent"]
  /\ ask = [r \in Requests |-> None]
  /\ sent = [r \in Requests |-> NoCookies]
  /\ seen = [r \in Requests |-> Empty]
  /\ answer = [r \in Requests |-> NoAnswer]
  /\ anonymous = [t \in Tokens |-> NoRow]
  /\ sessions = {First}
  /\ store = [t \in Tokens |-> Empty]
  /\ states = [r \in Requests |-> NoRow]
  /\ faults = 0
  /\ ideal = [t \in Tokens |-> Empty]
  /\ missed = [r \in Requests |-> {}]
  /\ torn = [t \in Tokens |-> {}]
  /\ away = [token |-> None, path |-> None]
  /\ want = [r \in Requests |-> None]
  /\ crossed = FALSE

-----------------------------------------------------------------------------
Goto(r, l) == pc' = [pc EXCEPT ![r] = l]
Give(r, a) == answer' = [answer EXCEPT ![r] = a]
Fault == faults < MaxFaults /\ faults' = faults + 1

\* The request is being worked on, or its answer is on its way.
UnderWay(r) == pc[r] \notin {"unsent", "over"}

FirstQuery ==
  [page |-> "user", guarded |-> "user", set |-> "read", get |-> "get",
   login |-> "session", github |-> "where", callback |-> "callback",
   logout |-> "delete"]

FirstStep(a) ==
  IF a.kind \in {"set", "get", "logout"} /\ jar.session = None
  THEN "answer" ELSE FirstQuery[a.kind]

\* What it will be answered if no query tells otherwise.
FirstAnswer(a) ==
  [NoAnswer EXCEPT !.value = IF a.kind = "set" THEN FALSE ELSE None,
                   !.sets = IF a.kind = "logout" THEN "clear" ELSE "nothing"]

(* The browser sends a request, with the cookies it has now.               *)
Send(r) ==
  /\ pc[r] = "unsent"
  /\ \E a \in Asks :
       /\ a.kind = "callback" => a.state \in held
       /\ ask' = [ask EXCEPT ![r] = a]
       /\ Goto(r, FirstStep(a))
       /\ Give(r, FirstAnswer(a))
  /\ sent' = [sent EXCEPT ![r] = jar]
  /\ crossed' = (crossed \/ /\ jar.anonymous = None
                            /\ \E q \in Requests : UnderWay(q) /\ sent[q].anonymous = None)
  /\ UNCHANGED <<jar, held, seen, tables, faults, ideal, missed, torn, away, want>>

\* The answer has left the server, and the request is forgotten.
Over(r) ==
  /\ pc[r] = "answer"
  /\ Goto(r, "over")
  /\ ask' = [ask EXCEPT ![r] = None]
  /\ sent' = [sent EXCEPT ![r] = NoCookies]
  /\ seen' = [seen EXCEPT ![r] = Empty]
  /\ want' = [want EXCEPT ![r] = IF ask[r].kind = "github" THEN @ ELSE None]
  /\ Give(r, NoAnswer)

\* The Set-Cookie headers of the answer
SetCookies(r) ==
  [anonymous |-> IF answer[r].sets = "anonymous" THEN r ELSE jar.anonymous,
   session |-> IF answer[r].sets = "session" THEN r
               ELSE IF answer[r].sets = "clear" THEN None ELSE jar.session]

(* The answer arrives.                                                     *)
Answer(r) ==
  /\ Over(r)
  /\ jar' = SetCookies(r)
  /\ held' = IF ask[r].kind = "github" /\ answer[r].value = TRUE
             THEN held \cup {r} ELSE held
  /\ UNCHANGED <<tables, faults, ideal, missed, torn, away, crossed>>

(* The tab was closed, or the connection broke.                            *)
AnswerLost(r) ==
  /\ Over(r)
  /\ Fault
  /\ UNCHANGED <<jar, held, tables, ideal, missed, torn, away, crossed>>

(* A day has passed.                                                       *)
CookieExpires ==
  /\ Fault
  /\ \/ jar.anonymous # None /\ jar' = [jar EXCEPT !.anonymous = None]
     \/ jar.session # None /\ jar' = [jar EXCEPT !.session = None]
  /\ UNCHANGED <<held, pc, ask, sent, seen, answer, tables, history>>

-----------------------------------------------------------------------------
(* Pages *)

\* getUser, whose query may fail: then nobody is logged in.
LoggedIn(r) == sent[r].session # None /\ sent[r].session \in sessions

\* handlePageRequest without isLoggedIn in the pipeline's result.
ShowPage(r) ==
  Goto(r, IF sent[r].anonymous = None THEN "insert" ELSE "answer")

\* lua_redirectLogin returns early without an anonymous session.
TurnAway(r) ==
  Goto(r, IF sent[r].anonymous = None THEN "answer" ELSE "update")

(* A page, or one whose script calls redirectLogin for someone who is not  *)
(* logged in; its pipeline may or may not pass isLoggedIn on.              *)
LookUpUser(r) ==
  /\ pc[r] = "user"
  /\ \/ LoggedIn(r) /\ Goto(r, "answer")
     \/ (ask[r].kind = "page" \/ LoggedIn(r)) /\ ShowPage(r)
     \/ ask[r].kind = "guarded" /\ ~LoggedIn(r) /\ TurnAway(r)
  /\ UNCHANGED <<jar, held, ask, sent, seen, answer, tables, faults, history>>

LookUpUserFails(r) ==
  /\ pc[r] = "user" /\ sent[r].session # None
  /\ Fault
  /\ \/ ask[r].kind = "page" /\ ShowPage(r)
     \/ ask[r].kind = "guarded" /\ TurnAway(r)
  /\ UNCHANGED <<jar, held, ask, sent, seen, answer, tables, history>>

(* createAnonymousSessionCookie                                            *)
InsertAnonymous(r) ==
  /\ pc[r] = "insert"
  /\ anonymous' = [anonymous EXCEPT ![r] = NoPath]
  /\ Give(r, [NoAnswer EXCEPT !.sets = "anonymous"])
  /\ Goto(r, "answer")
  /\ UNCHANGED <<jar, held, ask, sent, seen, sessions, store, states, faults, history>>

\* Without a result there is no cookie; a result is not looked at.
InsertAnonymousFails(r) ==
  /\ pc[r] = "insert"
  /\ Fault
  /\ \/ UNCHANGED answer
     \/ Give(r, [NoAnswer EXCEPT !.sets = "anonymous"])
  /\ Goto(r, "answer")
  /\ UNCHANGED <<jar, held, ask, sent, seen, tables, history>>

(* Mutant: a path that is there already is kept. *)
Remember_First(r) ==
  /\ pc[r] = "update"
  /\ LET t == sent[r].anonymous IN
       /\ anonymous' = [anonymous EXCEPT ![t] = IF @ = NoPath THEN ask[r].path ELSE @]
       /\ away' = [token |-> t, path |-> ask[r].path]
  /\ Goto(r, "answer")
  /\ UNCHANGED <<jar, held, ask, sent, seen, answer, sessions, store, states, faults,
                 ideal, missed, torn, want, crossed>>

(* lua_redirectLogin                                                       *)
Remember(r) ==
  /\ pc[r] = "update"
  /\ LET t == sent[r].anonymous IN
       /\ anonymous' = [anonymous EXCEPT ![t] = IF @ = NoRow THEN NoRow
                                                ELSE ask[r].path]
       /\ away' = [token |-> t, path |-> ask[r].path]
  /\ Goto(r, "answer")
  /\ UNCHANGED <<jar, held, ask, sent, seen, answer, sessions, store, states, faults,
                 ideal, missed, torn, want, crossed>>

RememberFails(r) ==
  /\ pc[r] = "update"
  /\ Fault
  /\ Goto(r, "answer")
  /\ UNCHANGED <<jar, held, ask, sent, seen, answer, tables, history>>

-----------------------------------------------------------------------------
(* The session's store *)

(* lua_getStore                                                            *)
GetStore(r) ==
  /\ pc[r] = "get"
  /\ Give(r, [NoAnswer EXCEPT !.value = store[sent[r].session][ask[r].key]])
  /\ Goto(r, "answer")
  /\ UNCHANGED <<jar, held, ask, sent, seen, tables, faults, history>>

\* The script gets nil, as if there were no value.
GetStoreFails(r) ==
  /\ pc[r] = "get"
  /\ Fault
  /\ Goto(r, "answer")
  /\ UNCHANGED <<jar, held, ask, sent, seen, answer, tables, history>>

(* lua_setStore, its SELECT                                                *)
ReadStore(r) ==
  /\ pc[r] = "read"
  /\ seen' = [seen EXCEPT ![r] = store[sent[r].session]]
  /\ missed' = [missed EXCEPT ![r] = {}]
  /\ Goto(r, "merge")
  /\ UNCHANGED <<jar, held, ask, sent, answer, tables, faults,
                 ideal, torn, away, want, crossed>>

\* It goes on with an empty object.
ReadStoreFails(r) ==
  /\ pc[r] = "read"
  /\ Fault
  /\ seen' = [seen EXCEPT ![r] = Empty]
  /\ missed' = [missed EXCEPT ![r] = Keys]
  /\ Goto(r, "merge")
  /\ UNCHANGED <<jar, held, ask, sent, answer, tables,
                 ideal, torn, away, want, crossed>>

\* History: setStore has told its script that the key is set.
Acknowledged(r) ==
  LET s == sent[r].session IN
  /\ ideal' = [ideal EXCEPT ![s][ask[r].key] = ask[r].value]
  /\ missed' = [q \in Requests |->
                  IF q = r THEN {}
                  ELSE IF pc[q] = "merge" /\ sent[q].session = s
                  THEN missed[q] \cup {ask[r].key} ELSE missed[q]]

\* Mutant: the new object has the new key only.
WriteStore_Replaces(r) ==
  LET s == sent[r].session IN
  /\ pc[r] = "merge"
  /\ store' = [store EXCEPT ![s] = [Empty EXCEPT ![ask[r].key] = ask[r].value]]
  /\ Give(r, [NoAnswer EXCEPT !.value = TRUE])
  /\ Goto(r, "answer")
  /\ Acknowledged(r)
  /\ torn' = [torn EXCEPT ![s] = (@ \cup missed[r]) \ {ask[r].key}]
  /\ UNCHANGED <<jar, held, ask, sent, seen, anonymous, sessions, states, faults,
                 away, want, crossed>>

(* The merge, and the INSERT ... ON CONFLICT DO UPDATE of all keys.        *)
WriteStore(r) ==
  LET s == sent[r].session IN
  /\ pc[r] = "merge"
  /\ store' = [store EXCEPT ![s] = [seen[r] EXCEPT ![ask[r].key] = ask[r].value]]
  /\ Give(r, [NoAnswer EXCEPT !.value = TRUE])
  /\ Goto(r, "answer")
  /\ Acknowledged(r)
  /\ torn' = [torn EXCEPT ![s] = (@ \cup missed[r]) \ {ask[r].key}]
  /\ UNCHANGED <<jar, held, ask, sent, seen, anonymous, sessions, states, faults,
                 away, want, crossed>>

\* No result: the script is told so.  A result that holds an error: the
\* script is told that the key was set.
WriteStoreFails(r) ==
  /\ pc[r] = "merge"
  /\ Fault
  /\ \/ /\ Give(r, [NoAnswer EXCEPT !.value = FALSE])
        /\ missed' = [missed EXCEPT ![r] = {}]
        /\ UNCHANGED <<ideal, torn>>
     \/ /\ Give(r, [NoAnswer EXCEPT !.value = TRUE])
        /\ Acknowledged(r)
        /\ torn' = [torn EXCEPT ![sent[r].session] = @ \cup {ask[r].key}]
  /\ Goto(r, "answer")
  /\ UNCHANGED <<jar, held, ask, sent, seen, tables, away, want, crossed>>

-----------------------------------------------------------------------------
(* Login and logout *)

\* The return path of the anonymous session.  Without a cookie or a row
\* there is none, which leads home; a path that is NULL is read as "".
ReturnPath(r) ==
  LET t == sent[r].anonymous IN
  IF t = None \/ anonymous[t] = NoRow THEN Home
  ELSE IF anonymous[t] = NoPath THEN Blank ELSE anonymous[t]

\* History: the place that the user was turned away from, if the browser
\* had an anonymous session then.
Expected(r) ==
  IF sent[r].anonymous = None THEN Home
  ELSE IF away.token = None THEN Blank ELSE away.path

(* createSession, for a password or for GitHub's user                      *)
CreateSession(r) ==
  /\ pc[r] = "session"
  /\ sessions' = sessions \cup {r}
  /\ Goto(r, IF ask[r].kind = "login" THEN "where" ELSE "answer")
  /\ Give(r, [answer[r] EXCEPT !.sets = "session"])
  /\ UNCHANGED <<jar, held, ask, sent, seen, anonymous, store, states, faults, history>>

CreateSessionFails(r) ==
  /\ pc[r] = "session"
  /\ Fault
  /\ Give(r, NoAnswer)
  /\ Goto(r, "answer")
  /\ UNCHANGED <<jar, held, ask, sent, seen, tables, history>>

(* A login by password reads the return path when it is over, one by       *)
(* GitHub before it begins, and keeps it with the state token.             *)
FindReturnPath(r) ==
  /\ pc[r] = "where"
  /\ want' = [want EXCEPT ![r] = Expected(r)]
  /\ Give(r, [answer[r] EXCEPT !.to = ReturnPath(r)])
  /\ Goto(r, IF ask[r].kind = "login" THEN "answer" ELSE "state")
  /\ UNCHANGED <<jar, held, ask, sent, seen, tables, faults,
                 ideal, missed, torn, away, crossed>>

FindReturnPathFails(r) ==
  /\ pc[r] = "where" /\ sent[r].anonymous # None
  /\ Fault
  /\ Give(r, [answer[r] EXCEPT !.to = Home])
  /\ Goto(r, IF ask[r].kind = "login" THEN "answer" ELSE "state")
  /\ UNCHANGED <<jar, held, ask, sent, seen, tables, history>>

(* storeStateToken; the browser goes to GitHub, with the state.            *)
StoreState(r) ==
  /\ pc[r] = "state"
  /\ states' = [states EXCEPT ![r] = answer[r].to]
  /\ Give(r, [NoAnswer EXCEPT !.value = TRUE])
  /\ Goto(r, "answer")
  /\ UNCHANGED <<jar, held, ask, sent, seen, anonymous, sessions, store, faults, history>>

StoreStateFails(r) ==
  /\ pc[r] = "state"
  /\ Fault
  /\ Give(r, NoAnswer)
  /\ Goto(r, "answer")
  /\ UNCHANGED <<jar, held, ask, sent, seen, tables, history>>

(* validateStateToken, and the path that was kept.                         *)
ConsumeState(r) ==
  /\ pc[r] = "callback"
  /\ LET g == ask[r].state IN
       /\ states' = [states EXCEPT ![g] = NoRow]
       /\ IF states[g] = NoRow
          THEN Goto(r, "answer") /\ UNCHANGED <<answer, want>>
          ELSE /\ Goto(r, "session")
               /\ Give(r, [NoAnswer EXCEPT !.to = states[g]])
               /\ want' = [want EXCEPT ![r] = want[g]]
  /\ UNCHANGED <<jar, held, ask, sent, seen, anonymous, sessions, store, faults,
                 ideal, missed, torn, away, crossed>>

ConsumeStateFails(r) ==
  /\ pc[r] = "callback"
  /\ Fault
  /\ Goto(r, "answer")
  /\ UNCHANGED <<jar, held, ask, sent, seen, answer, tables, history>>

(* handleLogoutRequest                                                     *)
DeleteSession(r) ==
  /\ pc[r] = "delete"
  /\ sessions' = sessions \ {sent[r].session}
  /\ Goto(r, "answer")
  /\ UNCHANGED <<jar, held, ask, sent, seen, answer, anonymous, store, states, faults,
                 history>>

DeleteSessionFails(r) ==
  /\ pc[r] = "delete"
  /\ Fault
  /\ Goto(r, "answer")
  /\ UNCHANGED <<jar, held, ask, sent, seen, answer, tables, history>>

-----------------------------------------------------------------------------
Query(r) ==
  \/ LookUpUser(r) \/ InsertAnonymous(r) \/ Remember(r)
  \/ GetStore(r) \/ ReadStore(r) \/ WriteStore(r)
  \/ CreateSession(r) \/ FindReturnPath(r) \/ StoreState(r) \/ ConsumeState(r)
  \/ DeleteSession(r)

QueryFails(r) ==
  \/ LookUpUserFails(r) \/ InsertAnonymousFails(r) \/ RememberFails(r)
  \/ GetStoreFails(r) \/ ReadStoreFails(r) \/ WriteStoreFails(r)
  \/ CreateSessionFails(r) \/ FindReturnPathFails(r) \/ StoreStateFails(r)
  \/ ConsumeStateFails(r) \/ DeleteSessionFails(r)

Next ==
  \/ \E r \in Requests : Send(r) \/ Query(r) \/ QueryFails(r) \/ Answer(r)
                           \/ AnswerLost(r)
  \/ CookieExpires

Spec == Init /\ [][Next]_vars

-----------------------------------------------------------------------------
(* Properties *)

\* What the scripts were told to be set is what a script reads, unless the
\* last set of another key wrote back an older value: it must have read
\* before and written after the set of the one that is lost, or one of its
\* queries failed.  A later set of the key puts it right.
QuietStore ==
  \A s \in Tokens : \A k \in Keys \ torn[s] : store[s][k] = ideal[s][k]

\* The rows of the sessions and the browser's cookies are what they may be,
\* and the store in each row is right.
StoreSound == TypeOK /\ QuietStore

\* getStore gives its script the value that was last set, with the same
\* exception.
ReadsLastSet ==
  [][\A r \in Requests :
       GetStore(r) /\ ask[r].key \notin torn[sent[r].session]
         => answer'[r].value = ideal[sent[r].session][ask[r].key]]_vars

\* A login leads to the page from which the browser was last turned away
\* with an anonymous session; it leads nowhere if there was none, and home
\* if the browser has no anonymous session.  Only two first visits at once
\* can make it forget.
LedBack ==
  \A r \in Requests :
    answer[r].to # None /\ faults = 0 /\ ~crossed => answer[r].to = want[r]
=============================================================================
