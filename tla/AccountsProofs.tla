--------------------------- MODULE AccountsProofs ---------------------------
(***************************************************************************)
(* What the account handlers keep true for any number of requests, logins, *)
(* passwords, GitHub accounts and faults.                                   *)
(*                                                                         *)
(* A state token lets at most one callback pass.  That two callbacks do not *)
(* share a token is not inductive: a token that was consumed must not come  *)
(* back.  It could by Store, which adds the token of its own request.  So   *)
(* TokenInv says that a callback only ever has a token whose request has    *)
(* been answered (TokensWereGiven), that an answered request takes no       *)
(* further step (AnswersAreLast), and that the places of a callback are its *)
(* own (CallbackPlaces).                                                    *)
(*                                                                         *)
(* For the rest, AccountsInv says of each request what it may rely on at    *)
(* its place (RequestHolds), and of the tables what a later request relies  *)
(* on (TablesHold).  A request keeps its part through the steps of others   *)
(* because the tables only grow (TablesGrow, OthersHold).                   *)
(***************************************************************************)
EXTENDS Accounts, FiniteSetTheorems, SequenceTheorems, TLAPS

After == {"github", "identity", "refresh", "create", "connect", "session"}

Places ==
  /\ pc \in [Requests -> PC]
  /\ answer \in [Requests -> Answers]
  /\ DOMAIN ask = Requests

AnswersAreLast == \A r \in Requests : answer[r] # "none" => pc[r] = "done"

CallbackPlaces ==
  \A r \in Requests :
    ask[r].kind = "callback" => pc[r] \in {"cleanup", "consume", "done"} \cup After

TokensWereGiven ==
  \A r \in Requests : ask[r].kind = "callback" =>
    \/ ask[r].token = Earlier
    \/ ask[r].token \in Requests /\ answer[ask[r].token] = "redirect"

ConsumedStaysConsumed ==
  \A r \in Requests : PastConsume(r) => ask[r].token \notin states

TokenInv ==
  /\ Places /\ AnswersAreLast /\ CallbackPlaces /\ TokensWereGiven
  /\ ConsumedStaysConsumed /\ StateConsumedOnce

(* A request that goes to another place, or is answered, and leaves the     *)
(* requests' inputs alone and adds no state token, keeps the invariant,     *)
(* unless it is a callback that skips consume.                              *)
LEMMA GotoKeeps ==
  ASSUME TokenInv, NEW r \in Requests, pc[r] # "done",
         NEW l \in PC \ {"idle", "done"}, Goto(r, l),
         ask' = ask, states' \subseteq states,
         ask[r].kind = "callback" =>
           \/ l = "consume"
           \/ l \in After /\ pc[r] \in After
  PROVE  TokenInv'
<1>1. /\ pc' \in [Requests -> PC] /\ answer' = answer
      /\ pc'[r] = l
      /\ \A q \in Requests : q # r => pc'[q] = pc[q]
  BY DEF TokenInv, Places, Goto
<1>2. Places'
  BY <1>1 DEF TokenInv, Places
<1>3. AnswersAreLast'
  BY <1>1 DEF TokenInv, AnswersAreLast
<1>4. CallbackPlaces'
  BY <1>1 DEF TokenInv, CallbackPlaces
<1>5. TokensWereGiven'
  BY <1>1 DEF TokenInv, TokensWereGiven
<1>6. \A q \in Requests : PastConsume(q)' => PastConsume(q)
  <2> SUFFICES ASSUME NEW q \in Requests, PastConsume(q)' PROVE PastConsume(q)
    OBVIOUS
  <2>1. CASE q # r
    BY <1>1, <2>1 DEF PastConsume
  <2>2. CASE q = r
    BY <1>1, <2>2 DEF PastConsume, After
  <2> QED BY <2>1, <2>2
<1>7. ConsumedStaysConsumed'
  BY <1>6 DEF TokenInv, ConsumedStaysConsumed
<1>8. StateConsumedOnce'
  BY <1>6 DEF TokenInv, StateConsumedOnce
<1> QED BY <1>2, <1>3, <1>4, <1>5, <1>7, <1>8 DEF TokenInv

LEMMA ReplyKeeps ==
  ASSUME TokenInv, NEW r \in Requests, pc[r] # "done",
         NEW a \in Answers \ {"none"}, Reply(r, a),
         ask' = ask, states' \subseteq states,
         ask[r].kind = "callback" =>
           a \notin {"failed", "loggedIn"} \/ pc[r] \in After
  PROVE  TokenInv'
<1>1. /\ pc' \in [Requests -> PC] /\ answer' \in [Requests -> Answers]
      /\ pc'[r] = "done" /\ answer'[r] = a
      /\ \A q \in Requests : q # r => pc'[q] = pc[q] /\ answer'[q] = answer[q]
  BY DEF TokenInv, Places, Reply, PC
<1>2. answer[r] = "none"
  BY DEF TokenInv, AnswersAreLast
<1>3. Places'
  BY <1>1 DEF TokenInv, Places
<1>4. AnswersAreLast'
  BY <1>1 DEF TokenInv, AnswersAreLast
<1>5. CallbackPlaces'
  BY <1>1 DEF TokenInv, CallbackPlaces
<1>6. TokensWereGiven'
  BY <1>1, <1>2 DEF TokenInv, TokensWereGiven
<1>7. \A q \in Requests : PastConsume(q)' => PastConsume(q)
  <2> SUFFICES ASSUME NEW q \in Requests, PastConsume(q)' PROVE PastConsume(q)
    OBVIOUS
  <2>1. CASE q # r
    BY <1>1, <2>1 DEF PastConsume
  <2>2. CASE q = r
    BY <1>1, <2>2 DEF PastConsume, After
  <2> QED BY <2>1, <2>2
<1>8. ConsumedStaysConsumed'
  BY <1>7 DEF TokenInv, ConsumedStaysConsumed
<1>9. StateConsumedOnce'
  BY <1>7 DEF TokenInv, StateConsumedOnce
<1> QED BY <1>3, <1>4, <1>5, <1>6, <1>8, <1>9 DEF TokenInv

LEMMA BeginKeeps ==
  ASSUME TokenInv, NEW r \in Requests, NEW a, NEW l \in PC \ {"idle", "done"},
         Begin(r, a, l),
         a.kind = "callback" =>
           /\ l = "cleanup"
           /\ \/ a.token = Earlier
              \/ a.token \in Requests /\ answer[a.token] = "redirect"
  PROVE  TokenInv'
<1>1. /\ pc' \in [Requests -> PC] /\ answer' = answer /\ states' = states
      /\ pc[r] = "idle" /\ pc'[r] = l
      /\ \A q \in Requests : q # r => pc'[q] = pc[q] /\ ask'[q] = ask[q]
      /\ ask'[r] = a /\ DOMAIN ask' = Requests
  BY DEF TokenInv, Places, Begin, tables
<1>2. answer[r] = "none"
  BY <1>1 DEF TokenInv, AnswersAreLast
<1>3. Places'
  BY <1>1 DEF TokenInv, Places
<1>4. AnswersAreLast'
  BY <1>1, <1>2 DEF TokenInv, AnswersAreLast
<1>5. CallbackPlaces'
  BY <1>1 DEF TokenInv, CallbackPlaces
<1>6. TokensWereGiven'
  BY <1>1 DEF TokenInv, TokensWereGiven
<1>7. \A q \in Requests : PastConsume(q)' => PastConsume(q) /\ q # r
  <2> SUFFICES ASSUME NEW q \in Requests, PastConsume(q)' PROVE PastConsume(q) /\ q # r
    OBVIOUS
  <2>1. q # r
    BY <1>1, <1>2 DEF PastConsume
  <2> QED BY <1>1, <2>1 DEF PastConsume
<1>8. ConsumedStaysConsumed'
  BY <1>1, <1>7 DEF TokenInv, ConsumedStaysConsumed
<1>9. StateConsumedOnce'
  BY <1>1, <1>7 DEF TokenInv, StateConsumedOnce
<1> QED BY <1>3, <1>4, <1>5, <1>6, <1>8, <1>9 DEF TokenInv

LEMMA ArriveKeeps ==
  ASSUME TokenInv, NEW r \in Requests, Arrive(r)
  PROVE  TokenInv'
<1>1. /\ {"check", "lookup", "logout", "getUser", "valid", "forgot", "resettable",
          "cleanup"} \subseteq PC \ {"idle", "done"}
  BY DEF PC
<1>2. ASSUME NEW k, NEW x, NEW p, NEW t, NEW l \in PC \ {"idle", "done"},
             k # "callback", Begin(r, Ask(k, x, p, t), l)
      PROVE  TokenInv'
  BY <1>2, BeginKeeps DEF Ask
<1>3. ASSUME NEW t \in Given({"redirect"}), Begin(r, Ask("callback", None, None, t), "cleanup")
      PROVE  TokenInv'
  <2>1. \/ t = Earlier
        \/ t \in Requests /\ answer[t] = "redirect"
    BY <1>3 DEF Given
  <2> QED BY <1>1, <1>3, <2>1, BeginKeeps DEF Ask
<1>4. CASE \E l \in Logins, p \in Passwords :
             \/ Begin(r, Ask("register", l, p, None), "check")
             \/ Begin(r, Ask("login", l, p, None), "lookup")
  BY <1>1, <1>2, <1>4
<1>5. CASE \E t \in Cookies :
             \/ Begin(r, Ask("logout", None, None, t), "logout")
             \/ Begin(r, Ask("resend", None, None, t), "getUser")
  BY <1>1, <1>2, <1>5
<1>6. CASE \/ \E t \in Mailed("verifications") : Begin(r, Ask("verify", None, None, t), "valid")
           \/ \E l \in Logins : Begin(r, Ask("forgot", l, None, None), "forgot")
           \/ \E t \in Mailed("resets"), p \in Passwords :
                Begin(r, Ask("reset", None, p, t), "resettable")
           \/ Begin(r, Ask("auth", None, None, r), "cleanup")
  BY <1>1, <1>2, <1>6
<1> QED BY <1>3, <1>4, <1>5, <1>6 DEF Arrive

(* The only step that adds a state token: no callback can have it yet. *)
LEMMA StoreKeeps ==
  ASSUME TokenInv, NEW r \in Requests, Store(r)
  PROVE  TokenInv'
<1>1. /\ pc' \in [Requests -> PC] /\ answer' \in [Requests -> Answers] /\ ask' = ask
      /\ pc[r] = "store" /\ pc'[r] = "done" /\ answer'[r] = "redirect"
      /\ \A q \in Requests : q # r => pc'[q] = pc[q] /\ answer'[q] = answer[q]
      /\ states' = states \cup {r}
  BY DEF TokenInv, Places, Store, Reply, PC, Answers
<1>2. answer[r] = "none"
  BY <1>1 DEF TokenInv, AnswersAreLast
<1>3. Places'
  BY <1>1 DEF TokenInv, Places
<1>4. AnswersAreLast'
  BY <1>1 DEF TokenInv, AnswersAreLast
<1>5. CallbackPlaces'
  BY <1>1 DEF TokenInv, CallbackPlaces
<1>6. TokensWereGiven'
  BY <1>1, <1>2 DEF TokenInv, TokensWereGiven
<1>7. \A q \in Requests : PastConsume(q)' => PastConsume(q)
  <2> SUFFICES ASSUME NEW q \in Requests, PastConsume(q)' PROVE PastConsume(q)
    OBVIOUS
  <2>1. CASE q # r
    BY <1>1, <2>1 DEF PastConsume
  <2>2. CASE q = r
    BY <1>1, <2>2 DEF PastConsume
  <2> QED BY <2>1, <2>2
<1>8. \A q \in Requests : PastConsume(q) => ask[q].token # r
  BY <1>2, AccountsAssumption DEF TokenInv, TokensWereGiven, PastConsume
<1>9. ConsumedStaysConsumed'
  BY <1>1, <1>7, <1>8 DEF TokenInv, ConsumedStaysConsumed
<1>10. StateConsumedOnce'
  BY <1>1, <1>7 DEF TokenInv, StateConsumedOnce
<1> QED BY <1>3, <1>4, <1>5, <1>6, <1>9, <1>10 DEF TokenInv

(* The step the property is about: whoever gets past it found the token,    *)
(* which nobody past it has, and removed it.                                 *)
LEMMA ConsumeKeeps ==
  ASSUME TokenInv, NEW r \in Requests, Consume(r)
  PROVE  TokenInv'
<1>1. /\ ask' = ask /\ states' = states \ {ask[r].token} /\ pc[r] = "consume"
  BY DEF Consume
<1>2. CASE ask[r].token \notin states
  <2>1. Reply(r, "invalid")
    BY <1>2 DEF Consume
  <2>2. "invalid" \in Answers \ {"none"}
    BY DEF Answers
  <2> QED BY <1>1, <2>1, <2>2, ReplyKeeps
<1>3. CASE ask[r].token \in states
  <2>1. /\ pc' \in [Requests -> PC] /\ answer' = answer
        /\ pc'[r] = "github"
        /\ \A q \in Requests : q # r => pc'[q] = pc[q]
    BY <1>3 DEF TokenInv, Places, Consume, Goto, PC
  <2>2. Places'
    BY <1>1, <2>1 DEF TokenInv, Places
  <2>3. AnswersAreLast'
    BY <1>1, <2>1 DEF TokenInv, AnswersAreLast
  <2>4. CallbackPlaces'
    BY <1>1, <2>1 DEF TokenInv, CallbackPlaces, After
  <2>5. TokensWereGiven'
    BY <1>1, <2>1 DEF TokenInv, TokensWereGiven
  <2>6. \A q \in Requests : PastConsume(q)' /\ q # r => PastConsume(q)
    BY <1>1, <2>1 DEF PastConsume
  <2>7. \A q \in Requests : PastConsume(q)' /\ q # r => ask[q].token # ask[r].token
    BY <1>3, <2>6 DEF TokenInv, ConsumedStaysConsumed
  <2>8. ConsumedStaysConsumed'
    BY <1>1, <2>6, <2>7 DEF TokenInv, ConsumedStaysConsumed
  <2>9. StateConsumedOnce'
    BY <1>1, <2>6, <2>7 DEF TokenInv, StateConsumedOnce
  <2> QED BY <2>2, <2>3, <2>4, <2>5, <2>8, <2>9 DEF TokenInv
<1> QED BY <1>2, <1>3

(* The facts every step of a handler begins with. *)
LEMMA AtPlace ==
  ASSUME TokenInv, NEW r \in Requests, ask[r].kind = "callback"
  PROVE  pc[r] \in {"cleanup", "consume", "done"} \cup After
BY DEF TokenInv, CallbackPlaces

LEMMA HandleKeeps ==
  ASSUME TokenInv, NEW r \in Requests, Handle(r)
  PROVE  TokenInv'
<1> USE AtPlace DEF After, tables
<1>p. /\ PC \ {"idle", "done"} =
           {"check", "insert", "token", "mail", "session", "lookup", "logout", "valid", "mark",
            "getUser", "unverified", "forgot", "resetToken", "resettable", "update", "cleanup",
            "store", "consume", "github", "identity", "refresh", "create", "connect"}
      /\ Answers \ {"none"} =
           {"failed", "taken", "registered", "invalid", "loggedIn", "loggedOut", "verified",
            "already", "sent", "reset", "redirect"}
  BY DEF PC, Answers
<1>1. CASE InsertToken(r)
  BY <1>p, <1>1, GotoKeeps, ReplyKeeps DEF InsertToken
<1>2. CASE SendMail(r)
  BY <1>p, <1>2, GotoKeeps, ReplyKeeps DEF SendMail
<1>3. CASE CreateSession(r)
  BY <1>p, <1>3, GotoKeeps, ReplyKeeps DEF CreateSession
<1>4. CASE Check(r)
  BY <1>p, <1>4, GotoKeeps, ReplyKeeps DEF Check
<1>5. CASE Insert(r)
  BY <1>p, <1>5, GotoKeeps, ReplyKeeps DEF Insert
<1>6. CASE InsertFails(r)
  BY <1>p, <1>6, GotoKeeps, ReplyKeeps DEF InsertFails
<1>7. CASE Lookup(r)
  BY <1>p, <1>7, GotoKeeps, ReplyKeeps DEF Lookup
<1>8. CASE LookupFails(r)
  BY <1>p, <1>8, GotoKeeps, ReplyKeeps DEF LookupFails
<1>9. CASE Logout(r)
  BY <1>p, <1>9, GotoKeeps, ReplyKeeps DEF Logout
<1>10. CASE FindVerification(r)
  BY <1>p, <1>10, GotoKeeps, ReplyKeeps DEF FindVerification
<1>11. CASE Mark(r)
  BY <1>p, <1>11, GotoKeeps, ReplyKeeps DEF Mark
<1>12. CASE GetUser(r)
  BY <1>p, <1>12, GotoKeeps, ReplyKeeps DEF GetUser
<1>13. CASE GetUserFails(r)
  BY <1>p, <1>13, GotoKeeps, ReplyKeeps DEF GetUserFails
<1>14. CASE CheckUnverified(r)
  BY <1>p, <1>14, GotoKeeps, ReplyKeeps DEF CheckUnverified
<1>15. CASE FindForgetful(r)
  BY <1>p, <1>15, GotoKeeps, ReplyKeeps DEF FindForgetful
<1>16. CASE InsertReset(r)
  BY <1>p, <1>16, GotoKeeps, ReplyKeeps DEF InsertReset
<1>17. CASE FindReset(r)
  BY <1>p, <1>17, GotoKeeps, ReplyKeeps DEF FindReset
<1>18. CASE FindResetFails(r)
  BY <1>p, <1>18, GotoKeeps, ReplyKeeps DEF FindResetFails
<1>19. CASE Update(r)
  BY <1>p, <1>19, GotoKeeps, ReplyKeeps DEF Update
<1>20. CASE Cleanup(r)
  BY <1>p, <1>20, GotoKeeps, ReplyKeeps DEF Cleanup
<1>21. CASE AskGitHub(r)
  BY <1>p, <1>21, GotoKeeps, ReplyKeeps DEF AskGitHub
<1>22. CASE FindIdentity(r)
  BY <1>p, <1>22, GotoKeeps, ReplyKeeps DEF FindIdentity
<1>23. CASE CreateUser(r)
  BY <1>p, <1>23, GotoKeeps, ReplyKeeps DEF CreateUser
<1>24. CASE CreateUserFails(r)
  BY <1>p, <1>24, GotoKeeps, ReplyKeeps DEF CreateUserFails
<1>25. CASE Connect(r)
  BY <1>p, <1>25, GotoKeeps, ReplyKeeps DEF Connect
<1>26. CASE Store(r)
  BY <1>26, StoreKeeps
<1>27. CASE Consume(r)
  BY <1>27, ConsumeKeeps
<1> QED
  BY <1>1, <1>2, <1>3, <1>4, <1>5, <1>6, <1>7, <1>8, <1>9, <1>10, <1>11, <1>12, <1>13, <1>14, <1>15, <1>16, <1>17, <1>18, <1>19, <1>20, <1>21, <1>22, <1>23, <1>24, <1>25, <1>26, <1>27
     DEF Handle

(* Where a callback stands before consume, a failing query does not get it  *)
(* past: cleanup goes on to consume, and a consume that fails is invalid.   *)
LEMMA FailureKeeps ==
  ASSUME TokenInv, NEW r \in Requests, QueryFails(r) \/ MailFails(r)
  PROVE  TokenInv'
<1> USE AtPlace DEF After, tables
<1>1. /\ {"insert", "token", "store", "consume", "create", "session"} \subseteq PC \ {"idle", "done"}
      /\ {"failed", "invalid", "verified", "loggedOut"} \subseteq Answers \ {"none"}
  BY DEF PC, Answers
<1>2. CASE MailFails(r)
  BY <1>1, <1>2, ReplyKeeps DEF MailFails
<1>3. CASE QueryFails(r)
  <2>1. ask' = ask /\ states' \subseteq states
    BY <1>3 DEF QueryFails
  <2>2. CASE /\ pc[r] \in {"insert", "token", "session", "getUser", "forgot", "resetToken",
                           "update", "store", "create"}
             /\ Reply(r, "failed")
    BY <1>1, <2>1, <2>2, ReplyKeeps
  <2>3. CASE /\ pc[r] \in {"lookup", "valid", "resettable", "consume"}
             /\ Reply(r, "invalid")
    BY <1>1, <2>1, <2>3, ReplyKeeps
  <2>4. CASE \/ pc[r] = "check" /\ (Reply(r, "failed") \/ Goto(r, "insert"))
             \/ pc[r] = "mark" /\ (Reply(r, "failed") \/ Reply(r, "verified"))
             \/ pc[r] = "logout" /\ Reply(r, "loggedOut")
             \/ pc[r] = "unverified" /\ Goto(r, "token")
    BY <1>1, <2>1, <2>4, ReplyKeeps, GotoKeeps
  <2>5. CASE /\ pc[r] = "cleanup"
             /\ Goto(r, IF ask[r].kind = "auth" THEN "store" ELSE "consume")
    BY <1>1, <2>1, <2>5, GotoKeeps
  <2>6. CASE \/ pc[r] = "identity" /\ Goto(r, "create")
             \/ pc[r] \in {"connect", "refresh"} /\ Goto(r, "session")
    BY <1>1, <2>1, <2>6, GotoKeeps
  <2> QED BY <1>3, <2>2, <2>3, <2>4, <2>5, <2>6 DEF QueryFails
<1> QED BY <1>2, <1>3

LEMMA KilledKeeps ==
  ASSUME TokenInv, Killed
  PROVE  TokenInv'
<1>1. /\ \A r \in Requests : pc'[r] = IF pc[r] = "idle" THEN "idle" ELSE "done"
      /\ pc' \in [Requests -> PC]
      /\ ask' = ask /\ answer' = answer /\ states' = states
  BY DEF Killed, tables, PC
<1>2. Places' /\ AnswersAreLast' /\ CallbackPlaces' /\ TokensWereGiven'
  BY <1>1 DEF TokenInv, Places, AnswersAreLast, CallbackPlaces, TokensWereGiven
<1>3. \A r \in Requests : PastConsume(r)' => PastConsume(r)
  BY <1>1 DEF PastConsume
<1>4. ConsumedStaysConsumed' /\ StateConsumedOnce'
  BY <1>1, <1>3 DEF TokenInv, ConsumedStaysConsumed, StateConsumedOnce
<1> QED BY <1>2, <1>4 DEF TokenInv

LEMMA UntouchedKeeps ==
  ASSUME TokenInv, UNCHANGED <<pc, ask, answer, states>>
  PROVE  TokenInv'
BY DEF TokenInv, Places, AnswersAreLast, CallbackPlaces, TokensWereGiven,
       ConsumedStaysConsumed, StateConsumedOnce, PastConsume

LEMMA InitTokens == Init => TokenInv
<1> SUFFICES ASSUME Init PROVE TokenInv
  OBVIOUS
<1>1. \A r \in Requests : /\ pc[r] = "idle" /\ answer[r] = "none"
                          /\ ask[r].kind = "none"
  BY DEF Init, Ask
<1>2. Places
  BY DEF Init, Places, PC, Answers
<1>3. AnswersAreLast /\ CallbackPlaces /\ TokensWereGiven
  BY <1>1 DEF AnswersAreLast, CallbackPlaces, TokensWereGiven
<1>4. ConsumedStaysConsumed /\ StateConsumedOnce
  BY <1>1 DEF ConsumedStaysConsumed, StateConsumedOnce, PastConsume
<1> QED BY <1>2, <1>3, <1>4 DEF TokenInv

(* validateStateToken (auth.c:35) deletes the token it returns: of all the  *)
(* callbacks that carry a state token, whatever they interleave with and    *)
(* whatever fails, at most one gets to ask GitHub.                           *)
THEOREM StatePassesOnce == Spec => []StateConsumedOnce
<1>1. TokenInv /\ [Next]_vars => TokenInv'
  <2> SUFFICES ASSUME TokenInv, [Next]_vars PROVE TokenInv'
    OBVIOUS
  <2>1. ASSUME NEW r \in Requests, Arrive(r) PROVE TokenInv'
    BY <2>1, ArriveKeeps
  <2>2. ASSUME NEW r \in Requests, Handle(r) PROVE TokenInv'
    BY <2>2, HandleKeeps
  <2>3. ASSUME NEW r \in Requests, QueryFails(r) \/ MailFails(r) PROVE TokenInv'
    BY <2>3, FailureKeeps
  <2>4. CASE Killed
    BY <2>4, KilledKeeps
  <2>5. CASE TimePasses
    BY <2>5, UntouchedKeeps DEF TimePasses, Expire, tables
  <2>6. CASE UNCHANGED vars
    BY <2>6, UntouchedKeeps DEF vars, tables
  <2> QED BY <2>1, <2>2, <2>3, <2>4, <2>5, <2>6 DEF Next
<1>2. TokenInv => StateConsumedOnce
  BY DEF TokenInv
<1> QED BY InitTokens, <1>1, <1>2, PTL DEF Spec

-----------------------------------------------------------------------------
(* Users, their tables, and what each request knows of them *)

(* What a row that is found keeps.  Users are only added, rows only marked, *)
(* letters only delivered: whatever else happens, the tables grow.          *)
Kept(rows, later) ==
  \A v \in rows : \E w \in later :
    w.token = v.token /\ w.user = v.user /\ (v.spent => w.spent)

TablesGrow ==
  /\ Len(users') >= Len(users)
  /\ \A u \in Ids : users'[u].login = users[u].login /\ users'[u].type = users[u].type
  /\ Kept(verifications, verifications') /\ Kept(resets, resets')
  /\ mail \subseteq mail'

(* Which handlers a place belongs to, and what a request of each kind was   *)
(* given when it arrived.                                                    *)
AskHolds(r) ==
  LET a == ask[r] IN
  /\ a.kind \in {"register", "login", "forgot"} => a.login \in Logins
  /\ a.kind \in {"register", "reset"} => a.password \in Passwords
  /\ a.kind = "reset" => \E m \in mail : m.table = "resets" /\ m.token = a.token
  /\ a.kind = "logout" =>
       \/ a.token = Earlier
       \/ a.token \in Requests /\ answer[a.token] # "none"

RouteHolds(r) ==
  LET k == ask[r].kind  l == pc[r] IN
  /\ l \in {"check", "insert"} => k = "register"
  /\ l = "token" => k \in {"register", "resend"}
  /\ l = "mail" => k \in {"register", "resend", "forgot"}
  /\ l = "session" => k \in {"register", "login", "callback"}
  /\ l = "lookup" => k = "login"
  /\ l = "logout" => k = "logout"
  /\ l \in {"valid", "mark"} => k = "verify"
  /\ l \in {"getUser", "unverified"} => k = "resend"
  /\ l \in {"forgot", "resetToken"} => k = "forgot"
  /\ l \in {"resettable", "update"} => k = "reset"
  /\ l = "cleanup" => k \in {"auth", "callback"}
  /\ l \in {"consume", "github", "identity", "refresh", "create", "connect"} => k = "callback"

(* A register request that has inserted its user, and is not refused. *)
Owns(r) ==
  /\ ask[r].kind = "register"
  /\ pc[r] \in {"token", "mail", "session"} \/ answer[r] = "registered"

(* What a request knows of its user: that he exists, and why it is he. *)
UserHolds(r) ==
  LET a == ask[r]  u == user[r]  l == pc[r] IN
  /\ l \in {"token", "mail", "session", "unverified", "resetToken", "update",
            "connect", "refresh"} => u \in Ids
  /\ Owns(r) => u \in Ids /\ users[u].login = a.login /\ users[u].type = "local"
  /\ a.kind = "forgot" /\ l \in {"resetToken", "mail"} => users[u].login = a.login
  /\ a.kind = "login" /\ l = "session" =>
       users[u].login = a.login /\ (users[u].type = "local" \/ WasReset(u))
  /\ l = "update" => \E k \in resets : k.token = a.token /\ k.user = u
  /\ l \in {"identity", "refresh", "create", "connect"} => identity[r] \in Identities
  /\ l \in {"connect", "refresh"} \/ (a.kind = "callback" /\ l = "session") =>
       users[u].login = GitHubLogin[identity[r]] /\ users[u].type = "oauth"
  /\ answer[r] = "registered" => a.kind = "register"
  /\ answer[r] = "loggedOut" => a.kind = "logout"

(* The row a letter is about is there before the letter is sent. *)
RowHolds(r) ==
  LET a == ask[r]  l == pc[r] IN
  /\ (Owns(r) /\ l # "token") \/ (a.kind = "resend" /\ l = "mail") =>
       \E v \in verifications : v.token = r /\ v.user = user[r]
  /\ a.kind = "forgot" /\ l = "mail" => \E k \in resets : k.token = r /\ k.user = user[r]
  /\ l = "mark" => \E v \in verifications : v.token = a.token

RequestHolds(r) == AskHolds(r) /\ RouteHolds(r) /\ UserHolds(r) /\ RowHolds(r)

LoginsUnique == \A u, w \in Ids : users[u].login = users[w].login => u = w

OwnersApart == \A r, q \in Requests : Owns(r) /\ Owns(q) /\ user[r] = user[q] => r = q

ConnectionsHold ==
  \A o \in oauth : users[o.user].login = GitHubLogin[o.identity] /\ users[o.user].type = "oauth"

SessionsAnswered ==
  \A s \in sessions : s.token \in Requests =>
    /\ answer[s.token] \in {"registered", "loggedIn"}
    /\ ask[s.token].kind \in {"register", "login", "callback"}

HashesHold ==
  \A u \in Ids : users[u].type = "oauth" /\ users[u].hash # None => WasReset(u)

ResetsHold ==
  \A k \in resets :
    \/ k.token = Earlier /\ k.user = 1
    \/ /\ k.token \in Requests /\ ask[k.token].kind = "forgot"
       /\ pc[k.token] \in {"mail", "done"} /\ k.user = user[k.token]

FewUntrue ==
  LET untrue == {r \in Requests : Untrue(r)} IN
  IsFiniteSet(untrue) /\ AnswersAreTrue

TablesHold ==
  /\ LoginsUnique /\ OwnersApart /\ ConnectionsHold /\ HashesHold
  /\ SessionsAnswered /\ SessionsAreEarned /\ ResetsHold /\ ResetIsAtomic
  /\ MailedTokensWork

AccountsInv ==
  /\ TypeOK /\ AnswersAreLast
  /\ \A r \in Requests : RequestHolds(r)
  /\ TablesHold /\ FewUntrue

-----------------------------------------------------------------------------
(* What a step of one request leaves to the others *)

Alone(r) ==
  \A q \in Requests \ {r} :
    /\ pc'[q] = pc[q] /\ ask'[q] = ask[q] /\ answer'[q] = answer[q]
    /\ user'[q] = user[q] /\ identity'[q] = identity[q]

Step(r) == pc[r] # "done" /\ Alone(r) /\ TablesGrow /\ TypeOK'

LEMMA StepFacts ==
  ASSUME AccountsInv, NEW r \in Requests, Step(r)
  PROVE  /\ answer[r] = "none"
         /\ \A u \in Ids : u \in Ids' /\ users'[u].login = users[u].login
                                      /\ users'[u].type = users[u].type
         /\ \A u : WasReset(u) => WasReset(u)'
<1>1. answer[r] = "none"
  BY DEF AccountsInv, AnswersAreLast, Step
<1>2. \A u \in Ids : u \in Ids'
  <2>1. Len(users) \in Nat /\ Len(users') \in Nat /\ Len(users') >= Len(users)
    BY DEF AccountsInv, TypeOK, Step, TablesGrow
  <2> QED BY <2>1 DEF Ids
<1>3. ASSUME NEW u, WasReset(u) PROVE WasReset(u)'
  <2>1. PICK q \in Requests : answer[q] = "reset" /\ user[q] = u
    BY <1>3 DEF WasReset
  <2>2. q # r
    BY <1>1, <2>1
  <2>3. answer'[q] = "reset" /\ user'[q] = u
    BY <2>1, <2>2 DEF Step, Alone
  <2> QED BY <2>3 DEF WasReset
<1> QED BY <1>1, <1>2, <1>3 DEF Step, TablesGrow

LEMMA KeptRow ==
  ASSUME NEW rows, NEW later, Kept(rows, later), NEW t, NEW u,
         \E v \in rows : v.token = t /\ v.user = u
  PROVE  \E v \in later : v.token = t /\ v.user = u
BY DEF Kept

LEMMA OthersHold ==
  ASSUME AccountsInv, NEW r \in Requests, Step(r), NEW q \in Requests \ {r}
  PROVE  RequestHolds(q)'
<1>1. /\ pc'[q] = pc[q] /\ ask'[q] = ask[q] /\ answer'[q] = answer[q]
      /\ user'[q] = user[q] /\ identity'[q] = identity[q]
  BY DEF Step, Alone
<1>2. /\ answer[r] = "none"
      /\ \A u \in Ids : u \in Ids' /\ users'[u].login = users[u].login
                                   /\ users'[u].type = users[u].type
      /\ \A u : WasReset(u) => WasReset(u)'
  BY StepFacts
<1>3. RequestHolds(q) /\ mail \subseteq mail'
  BY DEF AccountsInv, Step, TablesGrow
<1>4. /\ Kept(verifications, verifications') /\ Kept(resets, resets')
  BY DEF Step, TablesGrow
<1>5. AskHolds(q)'
  <2>1. ask[q].kind = "logout" /\ ask[q].token # Earlier =>
          ask[q].token \in Requests /\ answer'[ask[q].token] # "none"
    BY <1>2, <1>3 DEF RequestHolds, AskHolds, Step, Alone
  <2> QED BY <1>1, <1>3, <2>1 DEF RequestHolds, AskHolds
<1>6. RouteHolds(q)'
  BY <1>1, <1>3 DEF RequestHolds, RouteHolds
<1>7. UserHolds(q)'
  <2> HIDE DEF WasReset, Ids, Step
  <2>0. Owns(q)' <=> Owns(q)
    BY <1>1 DEF Owns
  <2>1. UserHolds(q)
    BY <1>3 DEF RequestHolds
  <2>2. pc[q] = "update" => \E k \in resets' : k.token = ask[q].token /\ k.user = user[q]
    BY <1>4, <2>1, KeptRow DEF UserHolds
  <2>3. pc[q] \in {"token", "mail", "session", "unverified", "resetToken", "update",
                   "connect", "refresh"} \/ Owns(q) => user[q] \in Ids
    BY <2>1 DEF UserHolds
  <2> QED BY <1>1, <1>2, <2>0, <2>1, <2>2, <2>3 DEF UserHolds
<1>8. RowHolds(q)'
  <2>0. Owns(q)' <=> Owns(q)
    BY <1>1 DEF Owns
  <2>1. RowHolds(q)
    BY <1>3 DEF RequestHolds
  <2>2. (Owns(q) /\ pc[q] # "token") \/ (ask[q].kind = "resend" /\ pc[q] = "mail") =>
          \E v \in verifications' : v.token = q /\ v.user = user[q]
    BY <1>4, <2>1, KeptRow DEF RowHolds
  <2>3. ask[q].kind = "forgot" /\ pc[q] = "mail" =>
          \E k \in resets' : k.token = q /\ k.user = user[q]
    BY <1>4, <2>1, KeptRow DEF RowHolds
  <2>4. pc[q] = "mark" => \E v \in verifications' : v.token = ask[q].token
    BY <1>4, <2>1 DEF RowHolds, Kept
  <2> QED BY <1>1, <2>0, <2>2, <2>3, <2>4 DEF RowHolds
<1> QED BY <1>5, <1>6, <1>7, <1>8 DEF RequestHolds

(* The tables, one after the other: each holds unless the step changes it. *)
LEMMA LoginsStay ==
  ASSUME AccountsInv, NEW r \in Requests, Step(r), Len(users') = Len(users)
  PROVE  LoginsUnique'
BY StepFacts DEF AccountsInv, TablesHold, LoginsUnique, Ids

LEMMA OwnersStay ==
  ASSUME AccountsInv, NEW r \in Requests, Step(r),
         Owns(r)' => Owns(r) /\ user'[r] = user[r]
  PROVE  OwnersApart'
<1>1. \A q \in Requests : Owns(q)' => Owns(q) /\ user'[q] = user[q]
  BY DEF Step, Alone, Owns
<1> QED BY <1>1 DEF AccountsInv, TablesHold, OwnersApart

LEMMA ConnectionsStay ==
  ASSUME AccountsInv, NEW r \in Requests, Step(r), oauth' = oauth
  PROVE  ConnectionsHold'
<1>1. \A o \in oauth : o.user \in Ids
  BY DEF AccountsInv, TypeOK
<1> QED BY <1>1, StepFacts DEF AccountsInv, TablesHold, ConnectionsHold

LEMMA SessionsStay ==
  ASSUME AccountsInv, NEW r \in Requests, Step(r), sessions' \subseteq sessions
  PROVE  SessionsAnswered' /\ SessionsAreEarned'
<1>1. \A s \in sessions : s.user \in Ids
  BY DEF AccountsInv, TypeOK
<1>2. \A s \in sessions : s.token \in Requests =>
        /\ s.token # r
        /\ ask'[s.token] = ask[s.token] /\ answer'[s.token] = answer[s.token]
        /\ identity'[s.token] = identity[s.token]
  BY StepFacts DEF AccountsInv, TablesHold, SessionsAnswered, Step, Alone
<1>3. SessionsAnswered'
  BY <1>2 DEF AccountsInv, TablesHold, SessionsAnswered
<1>4. SessionsAreEarned'
  <2> SUFFICES ASSUME NEW s \in sessions', s.token \in Requests
               PROVE  /\ ask'[s.token].kind \in {"register", "login"} =>
                           /\ users'[s.user].login = ask'[s.token].login
                           /\ \/ users'[s.user].type = "local"
                              \/ ask'[s.token].kind = "login" /\ WasReset(s.user)'
                      /\ ask'[s.token].kind = "callback" =>
                           /\ users'[s.user].login = GitHubLogin[identity'[s.token]]
                           /\ users'[s.user].type = "oauth"
    BY DEF SessionsAreEarned
  <2>1. s \in sessions /\ s.user \in Ids
    BY <1>1
  <2>2. /\ ask[s.token].kind \in {"register", "login"} =>
             /\ users[s.user].login = ask[s.token].login
             /\ \/ users[s.user].type = "local"
                \/ ask[s.token].kind = "login" /\ WasReset(s.user)
        /\ ask[s.token].kind = "callback" =>
             /\ users[s.user].login = GitHubLogin[identity[s.token]]
             /\ users[s.user].type = "oauth"
    BY <2>1 DEF AccountsInv, TablesHold, SessionsAreEarned
  <2> QED BY <1>2, <2>1, <2>2, StepFacts
<1> QED BY <1>3, <1>4

LEMMA HashesStay ==
  ASSUME AccountsInv, NEW r \in Requests, Step(r), users' = users
  PROVE  HashesHold'
BY StepFacts DEF AccountsInv, TablesHold, HashesHold, Ids

LEMMA ResetsStay ==
  ASSUME AccountsInv, NEW r \in Requests, Step(r), resets' = resets,
         ask[r].kind = "forgot" /\ pc[r] = "mail" =>
           pc'[r] = "done" /\ ask'[r] = ask[r] /\ user'[r] = user[r]
  PROVE  ResetsHold'
BY DEF AccountsInv, TablesHold, ResetsHold, Step, Alone

LEMMA AtomicStays ==
  ASSUME AccountsInv, NEW r \in Requests, Step(r),
         \A k \in resets' : k.spent => k \in resets,
         \A u \in Ids : users'[u].hash = users[u].hash
  PROVE  ResetIsAtomic'
<1> SUFFICES ASSUME NEW k \in resets, k.spent
             PROVE  \E p, q \in Requests :
                      /\ answer'[p] = "reset" /\ ask'[p].token = k.token
                      /\ answer'[q] = "reset" /\ user'[q] = k.user
                      /\ users'[k.user].hash = ask'[q].password
  BY DEF ResetIsAtomic
<1>1. k.user \in Ids
  BY DEF AccountsInv, TypeOK, TokenRow
<1>2. PICK p, q \in Requests :
        /\ answer[p] = "reset" /\ ask[p].token = k.token
        /\ answer[q] = "reset" /\ user[q] = k.user
        /\ users[k.user].hash = ask[q].password
  BY DEF AccountsInv, TablesHold, ResetIsAtomic
<1>3. p # r /\ q # r
  BY <1>2, StepFacts
<1> QED BY <1>1, <1>2, <1>3 DEF Step, Alone

LEMMA MailStays ==
  ASSUME AccountsInv, NEW r \in Requests, Step(r), NEW m \in mail
  PROVE  \E row \in IF m.table = "resets" THEN resets' ELSE verifications' :
           row.token = m.token /\ users'[row.user].login = m.to
<1>1. PICK row \in IF m.table = "resets" THEN resets ELSE verifications :
        row.token = m.token /\ users[row.user].login = m.to
  BY DEF AccountsInv, TablesHold, MailedTokensWork
<1>2. row.user \in Ids
  BY <1>1 DEF AccountsInv, TypeOK, TokenRow
<1>3. PICK later \in IF m.table = "resets" THEN resets' ELSE verifications' :
        later.token = row.token /\ later.user = row.user
  BY <1>1 DEF Step, TablesGrow, Kept
<1> QED BY <1>1, <1>2, <1>3, StepFacts

(* Only an answer that is not true needs a fault of its own. *)
LEMMA UntrueStay ==
  ASSUME AccountsInv, NEW r \in Requests, Step(r),
         \A s \in sessions' : s \in sessions \/ s.token = r,
         faults' >= faults, Untrue(r)' => faults' = faults + 1
  PROVE  FewUntrue'
<1> DEFINE Liars == {q \in Requests : Untrue(q)}
           Later == {q \in Requests : Untrue(q)'}
<1>1. \A q \in Requests \ {r} : Untrue(q)' => Untrue(q)
  <2> SUFFICES ASSUME NEW q \in Requests \ {r}, Untrue(q)' PROVE Untrue(q)
    OBVIOUS
  <2>1. answer'[q] = answer[q] /\ ask'[q] = ask[q]
    BY DEF Step, Alone
  <2>2. CASE /\ answer[q] = "verified"
             /\ \A v \in verifications' : v.token = ask[q].token => ~v.spent
    <3>1. \A v \in verifications : v.token = ask[q].token => ~v.spent
      BY <2>2 DEF Step, TablesGrow, Kept
    <3> QED BY <2>2, <3>1 DEF Untrue
  <2>3. CASE answer[q] = "loggedOut" /\ \E s \in sessions' : s.token = ask[q].token
    <3>1. AskHolds(q) /\ ask[q].kind = "logout"
      BY <2>3 DEF AccountsInv, RequestHolds, UserHolds
    <3>2. ask[q].token # r
      BY <3>1, StepFacts, AccountsAssumption DEF AskHolds
    <3> QED BY <2>3, <3>2 DEF Untrue
  <2> QED BY <2>1, <2>2, <2>3 DEF Untrue
<1>2. IsFiniteSet(Liars) /\ Cardinality(Liars) <= faults
  BY DEF AccountsInv, FewUntrue, AnswersAreTrue
<1>3. faults \in Nat /\ faults' \in Nat
  BY AccountsAssumption DEF AccountsInv, TypeOK, Step
<1>4. Cardinality(Liars) \in Nat
  BY <1>2, FS_CardinalityType
<1>5. IsFiniteSet(Later) /\ Cardinality(Later) <= faults'
  <2>1. CASE Untrue(r)'
    <3>1. Later \subseteq Liars \cup {r}
      BY <1>1
    <3>2. /\ IsFiniteSet(Liars \cup {r})
          /\ Cardinality(Liars \cup {r}) <= Cardinality(Liars) + 1
      BY <1>2, <1>4, FS_AddElement
    <3>3. /\ IsFiniteSet(Later)
          /\ Cardinality(Later) <= Cardinality(Liars \cup {r})
      BY <3>1, <3>2, FS_Subset
    <3>4. Cardinality(Later) \in Nat /\ Cardinality(Liars \cup {r}) \in Nat
      BY <3>2, <3>3, FS_CardinalityType
    <3> HIDE DEF Liars, Later
    <3> QED BY <1>2, <1>3, <1>4, <2>1, <3>2, <3>3, <3>4
  <2>2. CASE ~Untrue(r)'
    <3>1. Later \subseteq Liars
      BY <1>1, <2>2
    <3>2. IsFiniteSet(Later) /\ Cardinality(Later) <= Cardinality(Liars)
      BY <1>2, <3>1, FS_Subset
    <3>3. Cardinality(Later) \in Nat
      BY <3>2, FS_CardinalityType
    <3> HIDE DEF Liars, Later
    <3> QED BY <1>2, <1>3, <1>4, <3>2, <3>3
  <2> QED BY <2>1, <2>2
<1> QED BY <1>5 DEF FewUntrue, AnswersAreTrue

LEMMA StepKeeps ==
  ASSUME AccountsInv, NEW r \in Requests, Step(r),
         answer'[r] # "none" => pc'[r] = "done",
         RequestHolds(r)', TablesHold', FewUntrue'
  PROVE  AccountsInv'
<1>1. AnswersAreLast'
  BY DEF AccountsInv, AnswersAreLast, Step, Alone
<1>2. \A q \in Requests : RequestHolds(q)'
  BY OthersHold
<1> QED BY <1>1, <1>2 DEF AccountsInv, Step

(* Most steps change nothing that a letter, a session or another request    *)
(* relies on.                                                                *)
LEMMA QuietKeeps ==
  ASSUME AccountsInv, NEW r \in Requests, Step(r),
         UNCHANGED <<users, oauth, resets, mail>>, sessions' \subseteq sessions,
         Owns(r)' => Owns(r) /\ user'[r] = user[r],
         ask[r].kind = "forgot" /\ pc[r] = "mail" =>
           pc'[r] = "done" /\ ask'[r] = ask[r] /\ user'[r] = user[r],
         answer'[r] # "none" => pc'[r] = "done",
         RequestHolds(r)',
         faults' >= faults, Untrue(r)' => faults' = faults + 1
  PROVE  AccountsInv'
<1>1. LoginsUnique' /\ OwnersApart' /\ ConnectionsHold' /\ HashesHold'
  BY LoginsStay, OwnersStay, ConnectionsStay, HashesStay
<1>2. SessionsAnswered' /\ SessionsAreEarned' /\ ResetsHold' /\ ResetIsAtomic'
  BY SessionsStay, ResetsStay, AtomicStays
<1>3. MailedTokensWork'
  BY MailStays DEF MailedTokensWork
<1>4. TablesHold'
  BY <1>1, <1>2, <1>3 DEF TablesHold
<1>5. FewUntrue'
  BY UntrueStay
<1> QED BY <1>4, <1>5, StepKeeps

LEMMA KeptItself == ASSUME NEW rows PROVE Kept(rows, rows)
BY DEF Kept

(* A request that goes on, and has at most learned its user or identity. *)
LEMMA GoingOnKeeps ==
  ASSUME AccountsInv, NEW r \in Requests, pc[r] # "done",
         NEW l \in PC \ {"idle", "done"}, Goto(r, l), ask' = ask,
         UNCHANGED <<users, sessions, verifications, resets, oauth, outside>>,
         states' \subseteq Tokens, faults' >= faults, faults' \in 0..MaxFaults,
         user' \in [Requests -> Ids \cup {0}], identity' \in [Requests -> Identities \cup {None}],
         \A q \in Requests \ {r} : user'[q] = user[q] /\ identity'[q] = identity[q],
         Owns(r)' => Owns(r) /\ user'[r] = user[r],
         pc[r] # "mail",
         RouteHolds(r)', UserHolds(r)', RowHolds(r)'
  PROVE  AccountsInv'
<1>1. /\ pc' \in [Requests -> PC] /\ answer' = answer /\ pc'[r] = l
      /\ \A q \in Requests \ {r} : pc'[q] = pc[q]
  BY DEF Goto, AccountsInv, TypeOK
<1>2. TypeOK'
  BY <1>1 DEF AccountsInv, TypeOK, Ids, TokenRow, outside
<1>3. answer[r] = "none"
  BY DEF AccountsInv, AnswersAreLast
<1>4. Step(r)
  <2>1. Alone(r)
    BY <1>1 DEF Alone
  <2>2. TablesGrow
    <3>1. Len(users) \in Nat
      BY DEF AccountsInv, TypeOK
    <3> QED BY <3>1, KeptItself DEF TablesGrow, outside
  <2> QED BY <1>2, <2>1, <2>2 DEF Step
<1>5. RequestHolds(r)'
  <2>1. AskHolds(r)
    BY DEF AccountsInv, RequestHolds
  <2>2. AskHolds(r)'
    BY <1>1, <2>1 DEF AskHolds, outside
  <2> QED BY <2>2 DEF RequestHolds
<1>6. ~Untrue(r)'
  BY <1>1, <1>3 DEF Untrue
<1> QED BY <1>1, <1>3, <1>4, <1>5, <1>6, QuietKeeps DEF outside

(* A request that is answered, when the answer says nothing of its user. *)
LEMMA AnswerKeeps ==
  ASSUME AccountsInv, NEW r \in Requests, pc[r] # "done",
         NEW a \in Answers \ {"none", "registered", "reset"}, Reply(r, a),
         a = "loggedOut" => ask[r].kind = "logout",
         UNCHANGED <<ask, user, identity, users, resets, oauth, outside>>,
         sessions' \subseteq sessions, Kept(verifications, verifications'),
         verifications' \subseteq TokenRow, states' \subseteq Tokens,
         faults' >= faults, faults' \in 0..MaxFaults,
         Untrue(r)' => faults' = faults + 1
  PROVE  AccountsInv'
<1>1. /\ pc' \in [Requests -> PC] /\ answer' \in [Requests -> Answers]
      /\ pc'[r] = "done" /\ answer'[r] = a
      /\ \A q \in Requests \ {r} : pc'[q] = pc[q] /\ answer'[q] = answer[q]
  BY DEF Reply, AccountsInv, TypeOK, PC
<1>2. TypeOK'
  BY <1>1 DEF AccountsInv, TypeOK, Ids, TokenRow, outside
<1>3. answer[r] = "none"
  BY DEF AccountsInv, AnswersAreLast
<1>4. Step(r)
  <2>1. Alone(r)
    BY <1>1 DEF Alone
  <2>2. TablesGrow
    <3>1. Len(users) \in Nat
      BY DEF AccountsInv, TypeOK
    <3> QED BY <3>1, KeptItself DEF TablesGrow, outside
  <2> QED BY <1>2, <2>1, <2>2 DEF Step
<1>5. RequestHolds(r)'
  <2>1. AskHolds(r)
    BY DEF AccountsInv, RequestHolds
  <2>2. AskHolds(r)'
    BY <1>1, <1>3, <2>1 DEF AskHolds, outside
  <2>3. RouteHolds(r)' /\ UserHolds(r)' /\ RowHolds(r)'
    BY <1>1 DEF RouteHolds, UserHolds, RowHolds, Owns
  <2> QED BY <2>2, <2>3 DEF RequestHolds
<1>6. ~Owns(r)'
  BY <1>1 DEF Owns
<1> QED BY <1>1, <1>4, <1>5, <1>6, QuietKeeps DEF outside

-----------------------------------------------------------------------------
(* The steps, one after the other *)

LEMMA Here ==
  ASSUME AccountsInv, NEW r \in Requests
  PROVE  /\ AskHolds(r) /\ RouteHolds(r) /\ UserHolds(r) /\ RowHolds(r)
         /\ pc[r] # "done" => answer[r] = "none"
         /\ ask \in [Requests -> [kind : Kinds, login : Logins \cup {None},
                                  password : Passwords \cup {None},
                                  token : Tokens \cup {None}]]
         /\ user \in [Requests -> Ids \cup {0}]
         /\ identity \in [Requests -> Identities \cup {None}]
         /\ pc \in [Requests -> PC] /\ answer \in [Requests -> Answers]
         /\ verifications \subseteq TokenRow /\ resets \subseteq TokenRow
         /\ states \subseteq Tokens
         /\ faults \in 0..MaxFaults /\ faults \in Nat
         /\ \A u \in Ids : users[u] \in UserRow
         /\ \A l \in PC : Goto(r, l) => pc'[r] = l /\ answer' = answer
BY AccountsAssumption, ElementOfSeq
   DEF AccountsInv, RequestHolds, AnswersAreLast, TypeOK, Goto, Ids

(* Going on to a place that asks nothing of the user but that he exists. *)
LEMMA SimplyGoesOn ==
  ASSUME AccountsInv, NEW r \in Requests, pc[r] # "done", pc[r] # "mail",
         NEW l \in PC \ {"idle", "done"}, Goto(r, l),
         UNCHANGED <<ask, user, identity, users, sessions, verifications, resets, oauth, outside>>,
         states' \subseteq Tokens, faults' >= faults, faults' \in 0..MaxFaults,
         \/ l = "insert" /\ ask[r].kind = "register"
         \/ l = "token" /\ ask[r].kind = "resend" /\ user[r] \in Ids
         \/ l = "mark" /\ pc[r] = "valid" /\ \E v \in verifications : v.token = ask[r].token
         \/ l = "store" /\ ask[r].kind = "auth"
         \/ l \in {"consume", "github"} /\ ask[r].kind = "callback"
         \/ l = "create" /\ pc[r] = "identity"
         \/ l = "session" /\ pc[r] \in {"refresh", "connect"}
  PROVE  AccountsInv'
<1>1. /\ pc'[r] = l /\ answer' = answer /\ answer[r] = "none"
      /\ RouteHolds(r) /\ UserHolds(r)
  BY Here
<1>2. ~Owns(r)'
  BY <1>1 DEF Owns, RouteHolds
<1>3. RouteHolds(r)'
  BY <1>1 DEF RouteHolds
<1>4. UserHolds(r)'
  BY <1>1, <1>2 DEF UserHolds, RouteHolds, Ids
<1>5. RowHolds(r)'
  BY <1>1, <1>2 DEF RowHolds
<1> QED BY <1>2, <1>3, <1>4, <1>5, Here, GoingOnKeeps

LEMMA SimplyAnswered ==
  ASSUME AccountsInv, NEW r \in Requests, pc[r] # "done",
         NEW a \in {"taken", "invalid", "already", "sent", "failed", "redirect"}, Reply(r, a),
         UNCHANGED <<ask, user, identity, users, sessions, verifications, resets, oauth, outside>>,
         states' \subseteq Tokens, faults' >= faults, faults' \in 0..MaxFaults
  PROVE  AccountsInv'
<1>1. answer'[r] = a
  BY Here DEF Reply
<1>2. ~Untrue(r)'
  BY <1>1 DEF Untrue
<1>3. /\ a \in Answers \ {"none", "registered", "reset"} /\ a # "loggedOut"
  BY DEF Answers
<1>4. sessions' \subseteq sessions /\ Kept(verifications, verifications')
      /\ verifications' \subseteq TokenRow
  BY Here, KeptItself
<1> QED BY <1>2, <1>3, <1>4, AnswerKeeps

LEMMA ReadsKeep ==
  ASSUME AccountsInv, NEW r \in Requests
  PROVE  /\ Check(r) => AccountsInv'
         /\ FindVerification(r) => AccountsInv'
         /\ CheckUnverified(r) => AccountsInv'
         /\ Cleanup(r) => AccountsInv'
         /\ Consume(r) => AccountsInv'
<1> USE Here, KeptItself DEF tables, outside
<1>p. {"insert", "token", "mark", "store", "consume", "github"} \subseteq PC \ {"idle", "done"}
  BY DEF PC
<1>1. ASSUME Check(r) PROVE AccountsInv'
  <2>1. ask[r].kind = "register"
    BY <1>1 DEF Check, RouteHolds
  <2>2. CASE Reply(r, "taken")
    BY <1>p, <1>1, <2>2, SimplyAnswered DEF Check
  <2>3. CASE Goto(r, "insert")
    BY <1>p, <1>1, <2>1, <2>3, SimplyGoesOn DEF Check
  <2> QED BY <1>1, <2>2, <2>3 DEF Check
<1>2. ASSUME FindVerification(r) PROVE AccountsInv'
  <2>1. CASE Reply(r, "invalid")
    BY <1>p, <1>2, <2>1, SimplyAnswered DEF FindVerification
  <2>2. CASE Goto(r, "mark") /\ Verifiable(r) # {}
    BY <1>p, <1>2, <2>2, SimplyGoesOn DEF FindVerification, Verifiable
  <2> QED BY <1>2, <2>1, <2>2 DEF FindVerification
<1>3. ASSUME CheckUnverified(r) PROVE AccountsInv'
  <2>0. pc[r] = "unverified" /\ RouteHolds(r) /\ UserHolds(r)
    BY ONLY <1>3, AccountsInv, r \in Requests, Here DEF CheckUnverified
  <2>1. ask[r].kind = "resend" /\ user[r] \in Ids
    BY ONLY <2>0 DEF RouteHolds, UserHolds
  <2>2. CASE Reply(r, "already")
    BY <1>p, <1>3, <2>2, SimplyAnswered DEF CheckUnverified
  <2>3. CASE Goto(r, "token")
    <3>1. /\ UNCHANGED <<ask, user, identity, users, sessions, verifications, resets, oauth,
                         outside>>
          /\ states' \subseteq Tokens /\ faults' >= faults /\ faults' \in 0..MaxFaults
      BY <1>3 DEF CheckUnverified
    <3>2. "token" \in PC \ {"idle", "done"} /\ pc[r] # "done" /\ pc[r] # "mail"
      BY <1>p, <2>0
    <3> QED
      BY ONLY AccountsInv, r \in Requests, <2>1, <2>3, <3>1, <3>2, SimplyGoesOn
  <2> QED BY <1>3, <2>2, <2>3 DEF CheckUnverified
<1>4. ASSUME Cleanup(r) PROVE AccountsInv'
  <2>1. ask[r].kind \in {"auth", "callback"}
    BY <1>4 DEF Cleanup, RouteHolds
  <2>2. /\ states' \subseteq Tokens /\ pc[r] = "cleanup"
        /\ faults' >= faults /\ faults' \in 0..MaxFaults
        /\ UNCHANGED <<ask, user, identity, users, sessions, verifications, resets, oauth, outside>>
    BY <1>4 DEF Cleanup
  <2>3. CASE ask[r].kind = "auth"
    <3>1. Goto(r, "store")
      BY <1>4, <2>3 DEF Cleanup, Goto
    <3> QED BY <1>p, <2>2, <2>3, <3>1, SimplyGoesOn
  <2>4. CASE ask[r].kind = "callback"
    <3>1. Goto(r, "consume")
      BY <1>4, <2>4 DEF Cleanup, Goto
    <3> QED BY <1>p, <2>2, <2>4, <3>1, SimplyGoesOn
  <2> QED BY <2>1, <2>3, <2>4
<1>5. ASSUME Consume(r) PROVE AccountsInv'
  <2>1. ask[r].kind = "callback"
    BY <1>5 DEF Consume, RouteHolds
  <2>2. CASE Reply(r, "invalid")
    BY <1>p, <1>5, <2>2, SimplyAnswered DEF Consume
  <2>3. CASE Goto(r, "github")
    BY <1>p, <1>5, <2>1, <2>3, SimplyGoesOn DEF Consume
  <2> QED BY <1>5, <2>2, <2>3 DEF Consume
<1> QED BY <1>1, <1>2, <1>3, <1>4, <1>5

(* A request learns whose user it works for. *)
LEMMA LearnsUser ==
  ASSUME AccountsInv, NEW r \in Requests, pc[r] \notin {"done", "mail"},
         NEW l \in PC \ {"idle", "done"}, Goto(r, l),
         NEW u \in Ids, user' = [user EXCEPT ![r] = u],
         UNCHANGED <<tables, outside, ask, identity, faults>>,
         ask[r].kind # "register",
         \/ l = "session" /\ ask[r].kind = "login" /\ users[u].login = ask[r].login
            /\ (users[u].type = "local" \/ WasReset(u))
         \/ l = "unverified" /\ ask[r].kind = "resend"
         \/ l = "resetToken" /\ ask[r].kind = "forgot" /\ users[u].login = ask[r].login
         \/ l = "update" /\ ask[r].kind = "reset"
            /\ \E k \in resets : k.token = ask[r].token /\ k.user = u
         \/ l = "refresh" /\ ask[r].kind = "callback" /\ identity[r] \in Identities
            /\ users[u].login = GitHubLogin[identity[r]] /\ users[u].type = "oauth"
  PROVE  AccountsInv'
<1> USE DEF tables, outside
<1>1. /\ pc'[r] = l /\ answer' = answer /\ answer[r] = "none" /\ user'[r] = u
      /\ user' \in [Requests -> Ids \cup {0}]
      /\ \A q \in Requests \ {r} : user'[q] = user[q]
  BY Here
<1>2. ~Owns(r)'
  BY <1>1 DEF Owns
<1>3. RouteHolds(r)'
  BY <1>1 DEF RouteHolds
<1>4. WasReset(u) => WasReset(u)'
  <2> SUFFICES ASSUME WasReset(u) PROVE WasReset(u)'
    OBVIOUS
  <2>1. PICK q \in Requests : answer[q] = "reset" /\ user[q] = u
    BY DEF WasReset
  <2> QED BY <1>1, <2>1 DEF WasReset
<1>5. UserHolds(r)'
  <2> HIDE DEF WasReset
  <2> QED BY <1>1, <1>2, <1>4 DEF UserHolds, Ids
<1>6. RowHolds(r)'
  BY <1>1, <1>2 DEF RowHolds
<1> QED BY <1>1, <1>2, <1>3, <1>5, <1>6, Here, GoingOnKeeps

LEMMA FindsKeep ==
  ASSUME AccountsInv, NEW r \in Requests
  PROVE  /\ Lookup(r) => AccountsInv'
         /\ GetUser(r) => AccountsInv'
         /\ FindForgetful(r) => AccountsInv'
         /\ FindReset(r) => AccountsInv'
         /\ FindIdentity(r) => AccountsInv'
<1> USE Here, KeptItself
<1>p. {"session", "unverified", "resetToken", "update", "refresh", "create"}
            \subseteq PC \ {"idle", "done"}
  BY DEF PC
<1>1. ASSUME Lookup(r) PROVE AccountsInv'
  <2>1. PICK u \in WithLogin(ask[r].login) :
          Matches(ask[r].password, u) /\ user' = [user EXCEPT ![r] = u]
    BY <1>1 DEF Lookup
  <2>2. u \in Ids /\ users[u].login = ask[r].login
    BY DEF WithLogin
  <2>3. users[u].hash # None
    BY <2>1, AccountsAssumption DEF Matches
  <2>4. users[u].type \in {"local", "oauth"}
    BY <2>2 DEF UserRow
  <2>5. users[u].type = "local" \/ WasReset(u)
    BY <2>2, <2>3, <2>4 DEF AccountsInv, TablesHold, HashesHold
  <2>6. ask[r].kind = "login"
    BY <1>1 DEF Lookup, RouteHolds
  <2> HIDE DEF WasReset
  <2> QED BY <1>p, <1>1, <2>1, <2>2, <2>5, <2>6, LearnsUser DEF Lookup
<1>2. ASSUME GetUser(r) PROVE AccountsInv'
  <2>1. PICK s \in sessions : user' = [user EXCEPT ![r] = s.user]
    BY <1>2 DEF GetUser
  <2>2. s.user \in Ids
    BY DEF AccountsInv, TypeOK
  <2>3. ask[r].kind = "resend"
    BY <1>2 DEF GetUser, RouteHolds
  <2> QED BY <1>p, <1>2, <2>1, <2>2, <2>3, LearnsUser DEF GetUser
<1>3. ASSUME FindForgetful(r) PROVE AccountsInv'
  <2>1. ask[r].kind = "forgot"
    BY <1>3 DEF FindForgetful, RouteHolds
  <2>2. CASE Reply(r, "sent") /\ UNCHANGED user
    BY <1>3, <2>2, SimplyAnswered DEF FindForgetful, tables, outside
  <2>3. CASE /\ \E u \in WithLogin(ask[r].login) : user' = [user EXCEPT ![r] = u]
             /\ Goto(r, "resetToken")
    <3>1. PICK u \in WithLogin(ask[r].login) : user' = [user EXCEPT ![r] = u]
      BY <2>3
    <3>2. u \in Ids /\ users[u].login = ask[r].login
      BY DEF WithLogin
    <3> QED BY <1>p, <1>3, <2>1, <2>3, <3>1, <3>2, LearnsUser DEF FindForgetful
  <2> QED BY <1>3, <2>2, <2>3 DEF FindForgetful
<1>4. ASSUME FindReset(r) PROVE AccountsInv'
  <2>1. PICK k \in Resettable(r) : user' = [user EXCEPT ![r] = k.user]
    BY <1>4 DEF FindReset
  <2>2. k \in resets /\ k.token = ask[r].token /\ k.user \in Ids
    BY DEF Resettable, TokenRow
  <2>3. ask[r].kind = "reset"
    BY <1>4 DEF FindReset, RouteHolds
  <2>4. \E l \in resets : l.token = ask[r].token /\ l.user = k.user
    BY <2>2
  <2> QED BY <1>p, <1>4, <2>1, <2>2, <2>3, <2>4, LearnsUser DEF FindReset
<1>5. ASSUME FindIdentity(r) PROVE AccountsInv'
  <2>1. ask[r].kind = "callback" /\ identity[r] \in Identities
    BY <1>5 DEF FindIdentity, RouteHolds, UserHolds
  <2>2. CASE /\ \E o \in oauth : /\ o.identity = identity[r]
                                /\ user' = [user EXCEPT ![r] = o.user]
             /\ Goto(r, "refresh")
    <3>1. PICK o \in oauth : /\ o.identity = identity[r]
                             /\ user' = [user EXCEPT ![r] = o.user]
      BY <2>2
    <3>2. /\ o.user \in Ids /\ users[o.user].login = GitHubLogin[identity[r]]
          /\ users[o.user].type = "oauth"
      BY <3>1 DEF AccountsInv, TypeOK, TablesHold, ConnectionsHold
    <3> QED BY <1>p, <1>5, <2>1, <2>2, <3>1, <3>2, LearnsUser DEF FindIdentity
  <2>3. CASE Goto(r, "create") /\ UNCHANGED user
    BY <1>p, <1>5, <2>3, SimplyGoesOn DEF FindIdentity, tables, outside
  <2> QED BY <1>5, <2>2, <2>3 DEF FindIdentity
<1> QED BY <1>1, <1>2, <1>3, <1>4, <1>5

LEMMA RefusalsKeep ==
  ASSUME AccountsInv, NEW r \in Requests
  PROVE  /\ InsertFails(r) \/ CreateUserFails(r) => AccountsInv'
         /\ LookupFails(r) \/ GetUserFails(r) \/ FindResetFails(r) => AccountsInv'
         /\ Store(r) => AccountsInv'
         /\ AskGitHub(r) => AccountsInv'
<1> USE Here DEF tables, outside
<1>1. ASSUME InsertFails(r) \/ CreateUserFails(r) PROVE AccountsInv'
  BY <1>1, SimplyAnswered DEF InsertFails, CreateUserFails
<1>2. ASSUME LookupFails(r) \/ GetUserFails(r) \/ FindResetFails(r) PROVE AccountsInv'
  BY <1>2, SimplyAnswered DEF LookupFails, GetUserFails, FindResetFails
<1>3. ASSUME Store(r) PROVE AccountsInv'
  <2>1. states' \subseteq Tokens
    BY <1>3 DEF Store, Tokens
  <2> QED BY <1>3, <2>1, SimplyAnswered DEF Store
<1>4. ASSUME AskGitHub(r) PROVE AccountsInv'
  <2>1. CASE Reply(r, "failed") /\ UNCHANGED identity
    BY <1>4, <2>1, SimplyAnswered DEF AskGitHub
  <2>2. CASE /\ \E g \in Identities : identity' = [identity EXCEPT ![r] = g]
             /\ Goto(r, "identity")
    <3>1. PICK g \in Identities : identity' = [identity EXCEPT ![r] = g]
      BY <2>2
    <3>2. /\ pc'[r] = "identity" /\ answer' = answer /\ answer[r] = "none"
          /\ ask[r].kind = "callback" /\ identity'[r] = g
          /\ identity' \in [Requests -> Identities \cup {None}]
          /\ \A q \in Requests \ {r} : identity'[q] = identity[q]
      BY <1>4, <2>2, <3>1 DEF AskGitHub, RouteHolds, PC
    <3>3. ~Owns(r)' /\ RouteHolds(r)' /\ RowHolds(r)'
      BY <1>4, <3>2 DEF AskGitHub, Owns, RouteHolds, RowHolds
    <3>4. UserHolds(r)'
      BY <1>4, <3>2, <3>3 DEF AskGitHub, UserHolds
    <3>5. "identity" \in PC \ {"idle", "done"}
      BY DEF PC
    <3> QED BY <1>4, <2>2, <3>2, <3>3, <3>4, <3>5, GoingOnKeeps DEF AskGitHub
  <2> QED BY <1>4, <2>1, <2>2 DEF AskGitHub
<1> QED BY <1>1, <1>2, <1>3, <1>4

(* The two answers AnswersAreTrue is about. *)
LEMMA MarkKeeps ==
  ASSUME AccountsInv, NEW r \in Requests, Mark(r)
  PROVE  AccountsInv'
<1> DEFINE Marked(v) == IF v.token = ask[r].token THEN [v EXCEPT !.spent = TRUE] ELSE v
<1>1. /\ Reply(r, "verified") /\ pc[r] = "mark"
      /\ UNCHANGED <<ask, user, identity, users, sessions, resets, states, oauth, outside, faults>>
      /\ verifications' = {Marked(v) : v \in verifications}
  BY DEF Mark
<1>2. \A v \in verifications : v \in TokenRow
  BY Here
<1>3. \A v \in verifications : /\ Marked(v) \in TokenRow
                               /\ Marked(v).token = v.token /\ Marked(v).user = v.user
                               /\ v.spent => Marked(v).spent
                               /\ v.token = ask[r].token => Marked(v).spent
  BY <1>2 DEF TokenRow
<1>4. /\ Kept(verifications, verifications') /\ verifications' \subseteq TokenRow
  <2> HIDE DEF Marked
  <2> QED BY <1>1, <1>3 DEF Kept
<1>5. ~Untrue(r)'
  <2>1. PICK v \in verifications : v.token = ask[r].token
    BY <1>1, Here DEF RowHolds
  <2>2. Marked(v) \in verifications' /\ Marked(v).token = ask[r].token /\ Marked(v).spent
    BY <1>1, <1>3, <2>1
  <2>3. answer'[r] = "verified"
    BY <1>1, Here DEF Reply
  <2> HIDE DEF Marked
  <2> QED BY <1>1, <2>2, <2>3 DEF Untrue
<1>6. "verified" \in Answers \ {"none", "registered", "reset"}
  BY DEF Answers
<1> HIDE DEF Marked
<1> QED BY <1>1, <1>4, <1>5, <1>6, Here, AnswerKeeps

LEMMA LogoutKeeps ==
  ASSUME AccountsInv, NEW r \in Requests, Logout(r)
  PROVE  AccountsInv'
<1>1. /\ Reply(r, "loggedOut") /\ pc[r] = "logout" /\ ask[r].kind = "logout"
      /\ UNCHANGED <<ask, user, identity, users, verifications, resets, states, oauth,
                     outside, faults>>
      /\ sessions' \subseteq sessions
      /\ \A s \in sessions' : s.token # ask[r].token
  BY Here DEF Logout, RouteHolds
<1>2. ~Untrue(r)'
  <2>1. answer'[r] = "loggedOut"
    BY <1>1, Here DEF Reply
  <2> QED BY <1>1, <2>1 DEF Untrue
<1>3. "loggedOut" \in Answers \ {"none", "registered", "reset"}
  BY DEF Answers
<1>4. /\ verifications' \subseteq TokenRow /\ states' \subseteq Tokens
      /\ Kept(verifications, verifications')
      /\ faults' >= faults /\ faults' \in 0..MaxFaults /\ pc[r] # "done"
  BY <1>1, Here, KeptItself
<1> QED BY <1>1, <1>2, <1>3, <1>4, AnswerKeeps

LEMMA QueryFailureKeeps ==
  ASSUME AccountsInv, NEW r \in Requests, QueryFails(r)
  PROVE  AccountsInv'
<1>1. /\ faults' = faults + 1 /\ faults' >= faults /\ faults' \in 0..MaxFaults
      /\ UNCHANGED <<ask, user, identity, users, sessions, verifications, resets, oauth, outside>>
      /\ states' \subseteq Tokens /\ states' = states
  BY Here, AccountsAssumption DEF QueryFails, Fault, tables
<1>2. {"insert", "token", "store", "consume", "create", "session"} \subseteq PC \ {"idle", "done"}
  BY DEF PC
<1>3. RouteHolds(r) /\ UserHolds(r)
  BY Here
<1>4. CASE \/ /\ pc[r] \in {"insert", "token", "session", "getUser", "forgot", "resetToken",
                            "update", "store", "create"}
              /\ Reply(r, "failed")
           \/ pc[r] \in {"lookup", "valid", "resettable", "consume"} /\ Reply(r, "invalid")
           \/ pc[r] \in {"check", "mark"} /\ Reply(r, "failed")
  BY <1>1, <1>4, SimplyAnswered
<1>5. CASE \/ pc[r] = "mark" /\ Reply(r, "verified")
           \/ pc[r] = "logout" /\ Reply(r, "loggedOut")
  <2>1. {"verified", "loggedOut"} \subseteq Answers \ {"none", "registered", "reset"}
    BY DEF Answers
  <2>2. pc[r] = "logout" => ask[r].kind = "logout"
    BY <1>3 DEF RouteHolds
  <2>3. sessions' \subseteq sessions /\ verifications' \subseteq TokenRow
        /\ Kept(verifications, verifications')
    BY <1>1, Here, KeptItself
  <2> QED BY <1>1, <1>5, <2>1, <2>2, <2>3, AnswerKeeps
<1>6. CASE pc[r] = "check" /\ Goto(r, "insert")
  BY <1>1, <1>2, <1>3, <1>6, SimplyGoesOn DEF RouteHolds
<1>7. CASE pc[r] = "unverified" /\ Goto(r, "token")
  BY <1>1, <1>2, <1>3, <1>7, SimplyGoesOn DEF RouteHolds, UserHolds
<1>8. CASE /\ pc[r] = "cleanup"
           /\ Goto(r, IF ask[r].kind = "auth" THEN "store" ELSE "consume")
  <2>1. ask[r].kind \in {"auth", "callback"}
    BY <1>3, <1>8 DEF RouteHolds
  <2>2. CASE ask[r].kind = "auth"
    <3>1. Goto(r, "store")
      BY <1>8, <2>2 DEF Goto
    <3> QED BY <1>1, <1>2, <1>8, <2>2, <3>1, SimplyGoesOn
  <2>3. CASE ask[r].kind = "callback"
    <3>1. Goto(r, "consume")
      BY <1>8, <2>3 DEF Goto
    <3> QED BY <1>1, <1>2, <1>8, <2>3, <3>1, SimplyGoesOn
  <2> QED BY <2>1, <2>2, <2>3
<1>9. CASE \/ pc[r] = "identity" /\ Goto(r, "create")
           \/ pc[r] \in {"connect", "refresh"} /\ Goto(r, "session")
  BY <1>1, <1>2, <1>9, SimplyGoesOn
<1> QED BY <1>4, <1>5, <1>6, <1>7, <1>8, <1>9 DEF QueryFails

(* A verification is added, then a letter sent about it. *)
LEMMA InsertTokenKeeps ==
  ASSUME AccountsInv, NEW r \in Requests, InsertToken(r)
  PROVE  AccountsInv'
<1> DEFINE row == [token |-> r, user |-> user[r], spent |-> FALSE]
<1>1. /\ pc[r] = "token" /\ Goto(r, "mail") /\ verifications' = verifications \cup {row}
      /\ UNCHANGED <<ask, user, identity, users, sessions, resets, states, oauth, expired,
                     mail, faults>>
  BY DEF InsertToken, outside
<1>2. /\ answer' = answer /\ answer[r] = "none" /\ pc'[r] = "mail"
      /\ pc' \in [Requests -> PC] /\ \A q \in Requests \ {r} : pc'[q] = pc[q]
      /\ ask[r].kind \in {"register", "resend"} /\ user[r] \in Ids
  <2>1. ask[r].kind \in {"register", "resend"} /\ user[r] \in Ids /\ answer[r] = "none"
    BY <1>1, Here DEF RouteHolds, UserHolds
  <2>2. pc \in [Requests -> PC] /\ "mail" \in PC
    BY Here DEF PC
  <2> QED BY <1>1, <2>1, <2>2 DEF Goto
<1>3. row \in TokenRow
  BY <1>2 DEF TokenRow, Tokens
<1>4. TypeOK'
  BY <1>1, <1>2, <1>3 DEF AccountsInv, TypeOK, Ids, TokenRow
<1>5. Step(r)
  <2>1. Len(users) \in Nat
    BY DEF AccountsInv, TypeOK
  <2>2. TablesGrow
    BY <1>1, <2>1 DEF TablesGrow, Kept
  <2> QED BY <1>1, <1>2, <1>4, <2>2 DEF Step, Alone
<1>6. Owns(r)' => Owns(r) /\ user'[r] = user[r]
  BY <1>1, <1>2 DEF Owns
<1>7. RequestHolds(r)'
  <2>1. AskHolds(r)' /\ RouteHolds(r)'
    BY <1>1, <1>2, Here DEF AskHolds, RouteHolds
  <2>2. UserHolds(r)'
    BY <1>1, <1>2, <1>6, Here DEF UserHolds, Ids
  <2>3. RowHolds(r)'
    <3>1. row \in verifications' /\ row.token = r /\ row.user = user'[r]
      BY <1>1
    <3> HIDE DEF row
    <3> QED BY <1>1, <1>2, <3>1 DEF RowHolds
  <2> QED BY <2>1, <2>2, <2>3 DEF RequestHolds
<1>8. ~Untrue(r)'
  BY <1>2 DEF Untrue
<1> QED BY <1>1, <1>2, <1>5, <1>6, <1>7, <1>8, Here, QuietKeeps

(* A letter that may have arrived, or may not. *)
LEMMA LetterKeeps ==
  ASSUME AccountsInv, NEW r \in Requests, pc[r] = "mail",
         mail' \in {mail, mail \cup {Letter(r)}},
         UNCHANGED <<tables, expired, ask, user, identity>>,
         faults' >= faults, faults' \in 0..MaxFaults,
         \/ ask[r].kind = "register" /\ Goto(r, "session")
         \/ \E a \in {"sent", "failed"} : Reply(r, a)
  PROVE  AccountsInv'
<1> USE DEF tables
<1>1. /\ pc'[r] \in {"session", "done"} /\ pc' \in [Requests -> PC]
      /\ answer' \in [Requests -> Answers]
      /\ \A q \in Requests \ {r} : pc'[q] = pc[q] /\ answer'[q] = answer[q]
      /\ answer'[r] \in {"none", "sent", "failed"}
      /\ answer'[r] # "none" => pc'[r] = "done"
      /\ pc'[r] = "session" => ask[r].kind = "register" /\ answer'[r] = "none"
  <2>1. /\ pc \in [Requests -> PC] /\ answer \in [Requests -> Answers] /\ answer[r] = "none"
        /\ {"session", "done"} \subseteq PC /\ {"sent", "failed"} \subseteq Answers
    BY Here DEF PC, Answers
  <2>2. CASE ask[r].kind = "register" /\ Goto(r, "session")
    BY <2>1, <2>2 DEF Goto
  <2>3. CASE \E a \in {"sent", "failed"} : Reply(r, a)
    BY <2>1, <2>3 DEF Reply
  <2> QED BY <2>2, <2>3
<1>2. /\ ask[r].kind \in {"register", "resend", "forgot"} /\ user[r] \in Ids
      /\ answer[r] = "none"
  BY Here DEF RouteHolds, UserHolds
<1>3. /\ Letter(r).token = r
      /\ Letter(r).table = "resets" <=> ask[r].kind = "forgot"
      /\ Letter(r).table \in {"verifications", "resets"}
      /\ Letter(r).to = users[user[r]].login
  BY <1>2, Here DEF Letter, UserHolds, Owns
<1>4. Letter(r) \in [to : Logins, table : {"verifications", "resets"}, token : Tokens]
  <2>1. Letter(r).to \in Logins
    BY <1>2, <1>3, Here DEF UserRow
  <2> QED BY <2>1 DEF Letter, Tokens
<1>5. TypeOK'
  BY <1>1, <1>4 DEF AccountsInv, TypeOK, Ids, TokenRow
<1>6. Step(r)
  <2>1. Len(users) \in Nat
    BY DEF AccountsInv, TypeOK
  <2>2. TablesGrow
    BY <2>1, KeptItself DEF TablesGrow
  <2> QED BY <1>1, <1>5, <2>2 DEF Step, Alone
<1>7. Owns(r)' => Owns(r) /\ user'[r] = user[r]
  BY <1>1 DEF Owns
<1>8. RequestHolds(r)'
  <2>1. AskHolds(r)' /\ RouteHolds(r)'
    BY <1>1, <1>2, Here DEF AskHolds, RouteHolds
  <2>2. UserHolds(r)'
    BY <1>1, <1>2, <1>7, Here DEF UserHolds, Ids
  <2>3. RowHolds(r)'
    BY <1>1, <1>7, Here DEF RowHolds
  <2> QED BY <2>1, <2>2, <2>3 DEF RequestHolds
<1>9. MailedTokensWork'
  <2> SUFFICES ASSUME NEW m \in mail'
               PROVE  \E row \in IF m.table = "resets" THEN resets' ELSE verifications' :
                        row.token = m.token /\ users'[row.user].login = m.to
    BY DEF MailedTokensWork
  <2>1. CASE m \in mail
    BY <1>6, <2>1, MailStays
  <2>2. CASE m = Letter(r)
    <3>1. \E row \in IF ask[r].kind = "forgot" THEN resets ELSE verifications :
            row.token = r /\ row.user = user[r]
      BY <1>2, Here DEF RowHolds, Owns
    <3> QED BY <1>3, <2>2, <3>1
  <2> QED BY <2>1, <2>2
<1>10. TablesHold'
  <2>1. LoginsUnique' /\ OwnersApart' /\ ConnectionsHold' /\ HashesHold'
    BY <1>6, <1>7, LoginsStay, OwnersStay, ConnectionsStay, HashesStay
  <2>2. SessionsAnswered' /\ SessionsAreEarned' /\ ResetIsAtomic'
    BY <1>6, SessionsStay, AtomicStays
  <2>3. ResetsHold'
    BY <1>1, <1>6, ResetsStay
  <2> QED BY <1>9, <2>1, <2>2, <2>3 DEF TablesHold
<1>11. FewUntrue'
  <2>1. ~Untrue(r)'
    BY <1>1 DEF Untrue
  <2> QED BY <1>6, <2>1, UntrueStay
<1> QED BY <1>1, <1>6, <1>8, <1>10, <1>11, StepKeeps

LEMMA CreateSessionKeeps ==
  ASSUME AccountsInv, NEW r \in Requests, CreateSession(r)
  PROVE  AccountsInv'
<1> DEFINE row == [token |-> r, user |-> user[r]]
<1>1. /\ pc[r] = "session" /\ sessions' = sessions \cup {row}
      /\ UNCHANGED <<ask, user, identity, users, verifications, resets, states, oauth,
                     expired, mail, faults>>
  BY DEF CreateSession, outside
<1>2. /\ pc'[r] = "done" /\ pc' \in [Requests -> PC]
      /\ answer' \in [Requests -> Answers]
      /\ answer'[r] = IF ask[r].kind = "register" THEN "registered" ELSE "loggedIn"
      /\ \A q \in Requests \ {r} : pc'[q] = pc[q] /\ answer'[q] = answer[q]
  BY Here DEF CreateSession, Reply, PC, Answers
<1>3. /\ ask[r].kind \in {"register", "login", "callback"} /\ user[r] \in Ids
      /\ answer[r] = "none"
  BY <1>1, Here DEF RouteHolds, UserHolds
<1>4. TypeOK'
  <2>1. row \in [token : Tokens, user : Ids]
    BY <1>3 DEF Tokens
  <2> HIDE DEF row
  <2> QED BY <1>1, <1>2, <2>1 DEF AccountsInv, TypeOK, Ids, TokenRow
<1>5. Step(r)
  <2>1. Len(users) \in Nat
    BY DEF AccountsInv, TypeOK
  <2>2. TablesGrow
    BY <1>1, <2>1, KeptItself DEF TablesGrow
  <2> QED BY <1>1, <1>2, <1>4, <2>2 DEF Step, Alone
<1>6. Owns(r)' => Owns(r) /\ user'[r] = user[r]
  BY <1>1, <1>2 DEF Owns
<1>7. RequestHolds(r)'
  <2>1. AskHolds(r)' /\ RouteHolds(r)'
    BY <1>1, <1>2, <1>3, Here DEF AskHolds, RouteHolds
  <2>2. UserHolds(r)'
    BY <1>1, <1>2, <1>3, <1>6, Here DEF UserHolds, Ids
  <2>3. RowHolds(r)'
    BY <1>1, <1>2, <1>6, Here DEF RowHolds
  <2> QED BY <2>1, <2>2, <2>3 DEF RequestHolds
<1>8. SessionsAnswered'
  BY <1>1, <1>2, <1>3, <1>5, StepFacts
     DEF AccountsInv, TablesHold, SessionsAnswered, Step, Alone
<1>9. SessionsAreEarned'
  <2>1. /\ users[row.user].login =
             IF ask[r].kind = "callback" THEN GitHubLogin[identity[r]] ELSE ask[r].login
        /\ ask[r].kind = "callback" => users[row.user].type = "oauth"
        /\ ask[r].kind = "register" => users[row.user].type = "local"
        /\ ask[r].kind = "login" => users[row.user].type = "local" \/ WasReset(row.user)
    BY <1>1, <1>3, Here DEF UserHolds, Owns
  <2>2. \A u : WasReset(u) => WasReset(u)'
    BY <1>5, StepFacts
  <2>3. \A s \in sessions : s.token \in Requests => s.token # r
    BY <1>3 DEF AccountsInv, TablesHold, SessionsAnswered
  <2>4. row.token = r
    OBVIOUS
  <2> HIDE DEF row, WasReset
  <2>5. \A s \in sessions : s.token \in Requests =>
          /\ ask[s.token].kind \in {"register", "login"} =>
               /\ users[s.user].login = ask[s.token].login
               /\ \/ users[s.user].type = "local"
                  \/ ask[s.token].kind = "login" /\ WasReset(s.user)
          /\ ask[s.token].kind = "callback" =>
               /\ users[s.user].login = GitHubLogin[identity[s.token]]
               /\ users[s.user].type = "oauth"
    BY DEF AccountsInv, TablesHold, SessionsAreEarned
  <2> QED BY <1>1, <1>3, <2>1, <2>2, <2>4, <2>5 DEF SessionsAreEarned
<1>10. TablesHold'
  <2>1. LoginsUnique' /\ OwnersApart' /\ ConnectionsHold' /\ HashesHold'
    BY <1>1, <1>5, <1>6, LoginsStay, OwnersStay, ConnectionsStay, HashesStay
  <2>2. ResetIsAtomic' /\ ResetsHold'
    BY <1>1, <1>5, ResetsStay, AtomicStays
  <2>3. MailedTokensWork'
    BY <1>1, <1>5, MailStays DEF MailedTokensWork
  <2> QED BY <1>8, <1>9, <2>1, <2>2, <2>3 DEF TablesHold
<1>11. FewUntrue'
  <2>1. ~Untrue(r)'
    BY <1>2 DEF Untrue
  <2> QED BY <1>1, <1>5, <2>1, Here, UntrueStay
<1> QED BY <1>2, <1>5, <1>7, <1>10, <1>11, StepKeeps

(* The UNIQUE constraint: a user is added only when nobody has the login. *)
LEMMA NewUserFacts ==
  ASSUME AccountsInv, NEW r \in Requests, NEW u \in UserRow, NewUser(r, u),
         WithLogin(u.login) = {}
  PROVE  /\ users' \in Seq(UserRow) /\ Len(users') = Len(users) + 1
         /\ \A i \in Ids : i \in Ids' /\ users'[i] = users[i] /\ i # Len(users) + 1
         /\ \A i \in Ids' : i \in Ids \/ i = Len(users) + 1
         /\ Len(users) + 1 \in Ids' /\ users'[Len(users) + 1] = u
         /\ user' \in [Requests -> Ids' \cup {0}] /\ user'[r] = Len(users) + 1
         /\ \A q \in Requests \ {r} : user'[q] = user[q]
         /\ LoginsUnique'
<1>1. users \in Seq(UserRow) /\ Len(users) \in Nat
  BY DEF AccountsInv, TypeOK
<1>2. /\ users' \in Seq(UserRow) /\ Len(users') = Len(users) + 1
      /\ \A i \in 1..Len(users) : users'[i] = users[i]
      /\ users'[Len(users) + 1] = u
  BY <1>1, AppendProperties DEF NewUser
<1>3. /\ \A i \in Ids : i \in Ids' /\ users'[i] = users[i] /\ i # Len(users) + 1
      /\ \A i \in Ids' : i \in Ids \/ i = Len(users) + 1
      /\ Len(users) + 1 \in Ids'
  BY <1>1, <1>2 DEF Ids
<1>4. /\ user' \in [Requests -> Ids' \cup {0}] /\ user'[r] = Len(users) + 1
      /\ \A q \in Requests \ {r} : user'[q] = user[q]
  <2>1. user \in [Requests -> Ids \cup {0}]
    BY Here
  <2> QED BY <1>3, <2>1 DEF NewUser
<1>5. LoginsUnique'
  <2>1. \A i \in Ids : users[i].login # u.login
    BY DEF WithLogin
  <2> QED BY <1>2, <1>3, <2>1 DEF AccountsInv, TablesHold, LoginsUnique
<1> QED BY <1>2, <1>3, <1>4, <1>5

LEMMA NewUserKeeps ==
  ASSUME AccountsInv, NEW r \in Requests, NEW u \in UserRow, NewUser(r, u),
         WithLogin(u.login) = {}, NEW l \in {"token", "connect"}, Goto(r, l),
         UNCHANGED <<sessions, verifications, resets, states, oauth, outside,
                     ask, identity, faults>>,
         \/ pc[r] = "insert" /\ l = "token" /\ u = LocalUser(r)
         \/ pc[r] = "create" /\ l = "connect" /\ u = GitHubUser(r)
  PROVE  AccountsInv'
<1> USE DEF outside
<1> DEFINE n == Len(users) + 1
<1>1. /\ users' \in Seq(UserRow) /\ Len(users') = n
      /\ \A i \in Ids : i \in Ids' /\ users'[i] = users[i] /\ i # n
      /\ \A i \in Ids' : i \in Ids \/ i = n
      /\ n \in Ids' /\ users'[n] = u
      /\ user' \in [Requests -> Ids' \cup {0}] /\ user'[r] = n
      /\ \A q \in Requests \ {r} : user'[q] = user[q]
      /\ LoginsUnique'
  BY NewUserFacts
<1>2. /\ answer' = answer /\ answer[r] = "none" /\ pc'[r] = l
      /\ pc' \in [Requests -> PC] /\ \A q \in Requests \ {r} : pc'[q] = pc[q]
  <2>1. /\ pc \in [Requests -> PC] /\ l \in PC
        /\ answer[r] = "none"
    BY Here DEF PC
  <2> QED BY <2>1 DEF Goto
<1> HIDE DEF n
<1>3. /\ pc[r] = "insert" => ask[r].kind = "register"
      /\ pc[r] = "create" => ask[r].kind = "callback" /\ identity[r] \in Identities
  BY Here DEF RouteHolds, UserHolds
<1>4. TypeOK'
  <2>1. \A row : row \in TokenRow => row \in TokenRow'
    BY <1>1 DEF TokenRow
  <2>2. /\ sessions' \subseteq [token : Tokens, user : Ids']
        /\ verifications' \subseteq TokenRow' /\ resets' \subseteq TokenRow'
        /\ oauth' \subseteq [identity : Identities, user : Ids']
    BY <1>1, <2>1 DEF AccountsInv, TypeOK
  <2> QED BY <1>1, <1>2, <2>2 DEF AccountsInv, TypeOK
<1>5. Step(r)
  <2>1. Len(users) \in Nat
    BY DEF AccountsInv, TypeOK
  <2>2. TablesGrow
    BY <1>1, <2>1, KeptItself DEF TablesGrow, n
  <2> QED BY <1>1, <1>2, <1>4, <2>2 DEF Step, Alone
<1>6. RequestHolds(r)'
  <2>1. AskHolds(r)' /\ RouteHolds(r)'
    BY <1>2, <1>3, Here DEF AskHolds, RouteHolds
  <2>2. UserHolds(r)'
    <3>1. CASE pc[r] = "insert"
      BY <1>1, <1>2, <1>3, <3>1 DEF UserHolds, LocalUser, Owns
    <3>2. CASE pc[r] = "create"
      BY <1>1, <1>2, <1>3, <3>2 DEF UserHolds, GitHubUser, Owns
    <3> QED BY <3>1, <3>2
  <2>3. RowHolds(r)'
    BY <1>2, <1>3 DEF RowHolds, Owns
  <2> QED BY <2>1, <2>2, <2>3 DEF RequestHolds
<1>7. OwnersApart'
  <2>1. \A q \in Requests \ {r} : Owns(q)' => Owns(q) /\ user'[q] = user[q] /\ user[q] \in Ids
    BY <1>1, <1>2, Here DEF Owns, UserHolds
  <2>2. \A q \in Requests \ {r} : Owns(q)' => user'[q] # n
    BY <1>1, <2>1
  <2> QED BY <1>1, <2>1, <2>2 DEF OwnersApart, AccountsInv, TablesHold
<1>8. HashesHold'
  <2>1. u.type = "oauth" => u.hash = None
    BY DEF LocalUser, GitHubUser
  <2>2. \A i \in Ids : users[i].type = "oauth" /\ users[i].hash # None => WasReset(i)'
    BY <1>5, StepFacts DEF AccountsInv, TablesHold, HashesHold
  <2> HIDE DEF WasReset
  <2> QED BY <1>1, <2>1, <2>2 DEF HashesHold
<1>9. TablesHold'
  <2>1. ConnectionsHold' /\ SessionsAnswered' /\ SessionsAreEarned'
    BY <1>5, ConnectionsStay, SessionsStay
  <2>2. ResetIsAtomic'
    BY <1>1, <1>5, AtomicStays
  <2>3. ResetsHold'
    BY <1>5, ResetsStay
  <2>4. MailedTokensWork'
    BY <1>5, MailStays DEF MailedTokensWork
  <2> QED BY <1>1, <1>7, <1>8, <2>1, <2>2, <2>3, <2>4 DEF TablesHold
<1>10. FewUntrue'
  <2>1. ~Untrue(r)'
    BY <1>2 DEF Untrue
  <2> QED BY <1>5, <2>1, Here, UntrueStay
<1> QED BY <1>2, <1>5, <1>6, <1>9, <1>10, StepKeeps

LEMMA InsertsKeep ==
  ASSUME AccountsInv, NEW r \in Requests, Insert(r) \/ CreateUser(r)
  PROVE  AccountsInv'
<1>1. CASE Insert(r)
  <2>1. ask[r].login \in Logins /\ ask[r].password \in Passwords
    BY <1>1, Here DEF Insert, RouteHolds, AskHolds
  <2>2. LocalUser(r) \in UserRow /\ LocalUser(r).login = ask[r].login
    BY <2>1 DEF LocalUser, UserRow
  <2> QED BY <1>1, <2>2, NewUserKeeps DEF Insert
<1>2. CASE CreateUser(r)
  <2>1. GitHubLogin[identity[r]] \in Logins
    BY <1>2, Here, AccountsAssumption DEF CreateUser, UserHolds
  <2>2. GitHubUser(r) \in UserRow
    BY <2>1 DEF GitHubUser, UserRow
  <2> QED BY <1>2, <2>2, NewUserKeeps DEF CreateUser
<1> QED BY <1>1, <1>2

LEMMA InsertResetKeeps ==
  ASSUME AccountsInv, NEW r \in Requests, InsertReset(r)
  PROVE  AccountsInv'
<1> DEFINE row == [token |-> r, user |-> user[r], spent |-> FALSE]
<1>1. /\ pc[r] = "resetToken" /\ Goto(r, "mail") /\ resets' = resets \cup {row}
      /\ UNCHANGED <<ask, user, identity, users, sessions, verifications, states, oauth,
                     expired, mail, faults>>
  BY DEF InsertReset, outside
<1>2. /\ answer' = answer /\ answer[r] = "none" /\ pc'[r] = "mail"
      /\ pc' \in [Requests -> PC] /\ \A q \in Requests \ {r} : pc'[q] = pc[q]
      /\ ask[r].kind = "forgot" /\ user[r] \in Ids
  <2>1. ask[r].kind = "forgot" /\ user[r] \in Ids /\ answer[r] = "none"
    BY <1>1, Here DEF RouteHolds, UserHolds
  <2>2. pc \in [Requests -> PC] /\ "mail" \in PC
    BY Here DEF PC
  <2> QED BY <1>1, <2>1, <2>2 DEF Goto
<1>3. row \in TokenRow
  BY <1>2 DEF TokenRow, Tokens
<1>4. TypeOK'
  BY <1>1, <1>2, <1>3 DEF AccountsInv, TypeOK, Ids, TokenRow
<1>5. Step(r)
  <2>1. Len(users) \in Nat
    BY DEF AccountsInv, TypeOK
  <2>2. TablesGrow
    BY <1>1, <2>1 DEF TablesGrow, Kept
  <2> QED BY <1>1, <1>2, <1>4, <2>2 DEF Step, Alone
<1>6. ~Owns(r)'
  BY <1>1, <1>2 DEF Owns
<1>7. RequestHolds(r)'
  <2>1. AskHolds(r)' /\ RouteHolds(r)'
    BY <1>1, <1>2, Here DEF AskHolds, RouteHolds
  <2>2. UserHolds(r)'
    BY <1>1, <1>2, <1>6, Here DEF UserHolds, Ids
  <2>3. RowHolds(r)'
    <3>1. row \in resets' /\ row.token = r /\ row.user = user'[r]
      BY <1>1
    <3> HIDE DEF row
    <3> QED BY <1>1, <1>2, <1>6, <3>1 DEF RowHolds
  <2> QED BY <2>1, <2>2, <2>3 DEF RequestHolds
<1>8. ResetsHold'
  BY <1>1, <1>2 DEF AccountsInv, TablesHold, ResetsHold
<1>9. TablesHold'
  <2>1. LoginsUnique' /\ OwnersApart' /\ ConnectionsHold' /\ HashesHold'
    BY <1>1, <1>5, <1>6, LoginsStay, OwnersStay, ConnectionsStay, HashesStay
  <2>2. SessionsAnswered' /\ SessionsAreEarned'
    BY <1>1, <1>5, SessionsStay
  <2>3. ResetIsAtomic'
    BY <1>1, <1>5, AtomicStays
  <2>4. MailedTokensWork'
    BY <1>1, <1>5, MailStays DEF MailedTokensWork
  <2> QED BY <1>8, <2>1, <2>2, <2>3, <2>4 DEF TablesHold
<1>10. FewUntrue'
  <2>1. ~Untrue(r)'
    BY <1>2 DEF Untrue
  <2> QED BY <1>1, <1>5, <2>1, Here, UntrueStay
<1> QED BY <1>2, <1>5, <1>7, <1>9, <1>10, StepKeeps

(* The rows of one token are of one user. *)
LEMMA OneUserPerToken ==
  ASSUME AccountsInv, NEW j \in resets, NEW k \in resets, j.token = k.token
  PROVE  j.user = k.user
BY AccountsAssumption DEF AccountsInv, TablesHold, ResetsHold

(* Only the hash of one user changes, and who changes it was sent a letter. *)
LEMMA UpdateFacts ==
  ASSUME AccountsInv, NEW r \in Requests, Update(r)
  PROVE  /\ user[r] \in Ids /\ ask[r].password \in Passwords
         /\ users' \in Seq(UserRow) /\ Len(users') = Len(users) /\ Ids' = Ids
         /\ \A u \in Ids : users'[u] = IF u = user[r]
                                        THEN [users[u] EXCEPT !.hash = ask[r].password]
                                        ELSE users[u]
         /\ \A u \in Ids : users'[u].login = users[u].login /\ users'[u].type = users[u].type
         /\ \E m \in mail : /\ ask[r].token = m.token /\ m.table = "resets"
                            /\ m.to = users[user[r]].login
<1>1. /\ pc[r] = "update" /\ users' = [users EXCEPT ![user[r]].hash = ask[r].password]
  BY DEF Update
<1>2. /\ user[r] \in Ids /\ ask[r].kind = "reset" /\ ask[r].password \in Passwords
      /\ \E k \in resets : k.token = ask[r].token /\ k.user = user[r]
      /\ \E m \in mail : m.table = "resets" /\ m.token = ask[r].token
  BY <1>1, Here DEF RouteHolds, UserHolds, AskHolds
<1> DEFINE w == [users[user[r]] EXCEPT !.hash = ask[r].password]
<1>3. users \in Seq(UserRow) /\ user[r] \in 1..Len(users) /\ users[user[r]] \in UserRow
  BY <1>2, Here DEF AccountsInv, TypeOK, Ids
<1>4. w \in UserRow /\ users' = [users EXCEPT ![user[r]] = w]
  BY <1>1, <1>2, <1>3 DEF UserRow
<1> HIDE DEF w
<1>5. /\ users' \in Seq(UserRow) /\ Len(users') = Len(users)
      /\ \A u \in 1..Len(users) : users'[u] = IF u = user[r] THEN w ELSE users[u]
  BY <1>3, <1>4, ExceptSeq
<1>6. Ids' = Ids
  BY <1>5 DEF Ids
<1>7. w.login = users[user[r]].login /\ w.type = users[user[r]].type
  BY <1>3 DEF w, UserRow
<1>8. \E m \in mail : /\ ask[r].token = m.token /\ m.table = "resets"
                      /\ m.to = users[user[r]].login
  <2>1. PICK k \in resets : k.token = ask[r].token /\ k.user = user[r]
    BY <1>2
  <2>2. PICK m \in mail : m.table = "resets" /\ m.token = ask[r].token
    BY <1>2
  <2>3. PICK j \in resets : j.token = m.token /\ users[j.user].login = m.to
    BY <2>2 DEF AccountsInv, TablesHold, MailedTokensWork
  <2>4. j.user = user[r]
    BY <2>1, <2>2, <2>3, OneUserPerToken
  <2> QED BY <2>2, <2>3, <2>4
<1>9. \A u \in Ids : users'[u] = IF u = user[r]
                                   THEN [users[u] EXCEPT !.hash = ask[r].password]
                                   ELSE users[u]
  BY <1>5 DEF w, Ids
<1> QED BY <1>2, <1>5, <1>6, <1>7, <1>8, <1>9 DEF Ids

LEMMA UpdateKeeps ==
  ASSUME AccountsInv, NEW r \in Requests, Update(r)
  PROVE  AccountsInv'
<1> DEFINE Used(k) == IF k.token = ask[r].token THEN [k EXCEPT !.spent = TRUE] ELSE k
<1>1. /\ pc[r] = "update" /\ resets' = {Used(k) : k \in resets}
      /\ UNCHANGED <<ask, user, identity, sessions, verifications, states, oauth,
                     expired, mail, faults>>
  BY DEF Update, Spend, outside
<1>2. /\ user[r] \in Ids /\ ask[r].password \in Passwords
      /\ users' \in Seq(UserRow) /\ Len(users') = Len(users) /\ Ids' = Ids
      /\ \A u \in Ids : users'[u].login = users[u].login /\ users'[u].type = users[u].type
      /\ users'[user[r]].hash = ask[r].password
      /\ \A u \in Ids : u # user[r] => users'[u] = users[u]
  <2>1. users[user[r]] \in UserRow
    BY Here, UpdateFacts
  <2> QED BY <2>1, UpdateFacts DEF UserRow
<1>3. /\ answer[r] = "none" /\ answer'[r] = "reset" /\ pc'[r] = "done"
      /\ pc' \in [Requests -> PC] /\ answer' \in [Requests -> Answers]
      /\ \A q \in Requests \ {r} : pc'[q] = pc[q] /\ answer'[q] = answer[q]
      /\ ask[r].kind = "reset"
  <2>1. /\ pc \in [Requests -> PC] /\ answer \in [Requests -> Answers] /\ answer[r] = "none"
        /\ "done" \in PC /\ "reset" \in Answers /\ ask[r].kind = "reset"
    BY <1>1, Here DEF PC, Answers, RouteHolds
  <2> QED BY <2>1 DEF Update, Reply
<1>4. \A k \in resets : /\ Used(k) \in TokenRow
                        /\ Used(k).token = k.token /\ Used(k).user = k.user
                        /\ k.spent => Used(k).spent
                        /\ Used(k).spent /\ ~k.spent => k.token = ask[r].token
  <2>1. \A k \in resets : k \in TokenRow
    BY Here
  <2> QED BY <2>1 DEF TokenRow
<1> HIDE DEF Used
<1>5. TypeOK'
  <2>1. TokenRow' = TokenRow /\ resets' \subseteq TokenRow
    BY <1>1, <1>2, <1>4 DEF TokenRow
  <2> QED BY <1>1, <1>2, <1>3, <2>1 DEF AccountsInv, TypeOK
<1>6. Step(r)
  <2>1. Len(users) \in Nat
    BY DEF AccountsInv, TypeOK
  <2>2. Kept(resets, resets')
    BY <1>1, <1>4 DEF Kept
  <2>3. TablesGrow
    BY <1>1, <1>2, <2>1, <2>2, KeptItself DEF TablesGrow
  <2> QED BY <1>1, <1>3, <1>5, <2>3 DEF Step, Alone
<1>7. ~Owns(r)'
  BY <1>3 DEF Owns
<1>8. RequestHolds(r)'
  <2>1. AskHolds(r)'
    BY <1>1, <1>3, Here DEF AskHolds
  <2>2. RouteHolds(r)' /\ UserHolds(r)' /\ RowHolds(r)'
    BY <1>1, <1>3, <1>7 DEF RouteHolds, UserHolds, RowHolds
  <2> QED BY <2>1, <2>2 DEF RequestHolds
<1>9. HashesHold'
  <2> SUFFICES ASSUME NEW u \in Ids, users'[u].type = "oauth", users'[u].hash # None
               PROVE  \E q \in Requests : answer'[q] = "reset" /\ user'[q] = u
    BY <1>2 DEF HashesHold, WasReset
  <2>1. CASE u = user[r]
    BY <1>1, <1>3, <2>1
  <2>2. CASE u # user[r]
    <3>1. users[u].type = "oauth" /\ users[u].hash # None
      BY <1>2, <2>2
    <3> QED BY <1>1, <1>3, <3>1 DEF AccountsInv, TablesHold, HashesHold, WasReset
  <2> QED BY <2>1, <2>2
<1>10. ResetsHold'
  <2> SUFFICES ASSUME NEW k \in resets
               PROVE  \/ k.token = Earlier /\ k.user = 1
                      \/ /\ k.token \in Requests /\ ask'[k.token].kind = "forgot"
                         /\ pc'[k.token] \in {"mail", "done"} /\ k.user = user'[k.token]
    BY <1>1, <1>4 DEF ResetsHold
  <2> QED BY <1>1, <1>3 DEF AccountsInv, TablesHold, ResetsHold
<1>11. ResetIsAtomic'
  <2> SUFFICES ASSUME NEW k \in resets, Used(k).spent
               PROVE  \E p, q \in Requests :
                        /\ answer'[p] = "reset" /\ ask'[p].token = k.token
                        /\ answer'[q] = "reset" /\ user'[q] = k.user
                        /\ users'[k.user].hash = ask'[q].password
    BY <1>1, <1>4 DEF ResetIsAtomic
  <2>1. k.user \in Ids
    BY Here DEF TokenRow
  <2>2. \E p \in Requests : answer'[p] = "reset" /\ ask'[p].token = k.token
    <3>1. CASE k.spent
      BY <1>1, <1>3, <3>1 DEF AccountsInv, TablesHold, ResetIsAtomic
    <3>2. CASE ~k.spent
      BY <1>1, <1>3, <1>4, <3>2
    <3> QED BY <3>1, <3>2
  <2>3. \E q \in Requests : /\ answer'[q] = "reset" /\ user'[q] = k.user
                            /\ users'[k.user].hash = ask'[q].password
    <3>1. CASE k.user = user[r]
      BY <1>1, <1>2, <1>3, <3>1
    <3>2. CASE k.user # user[r]
      <4>1. k.spent
        <5>1. SUFFICES ASSUME ~k.spent PROVE FALSE
          OBVIOUS
        <5>2. k.token = ask[r].token
          BY <1>4, <5>1
        <5>3. PICK j \in resets : j.token = ask[r].token /\ j.user = user[r]
          BY <1>1, Here DEF UserHolds
        <5> QED BY <3>2, <5>2, <5>3, OneUserPerToken
      <4>2. PICK q \in Requests : /\ answer[q] = "reset" /\ user[q] = k.user
                                  /\ users[k.user].hash = ask[q].password
        BY <4>1 DEF AccountsInv, TablesHold, ResetIsAtomic
      <4>3. q # r
        BY <1>3, <4>2
      <4> QED BY <1>1, <1>2, <1>3, <2>1, <3>2, <4>2, <4>3
    <3> QED BY <3>1, <3>2
  <2> QED BY <2>2, <2>3
<1>12. TablesHold'
  <2>1. LoginsUnique' /\ OwnersApart' /\ ConnectionsHold'
    BY <1>1, <1>2, <1>6, <1>7, LoginsStay, OwnersStay, ConnectionsStay
  <2>2. SessionsAnswered' /\ SessionsAreEarned'
    BY <1>1, <1>6, SessionsStay
  <2>3. MailedTokensWork'
    BY <1>1, <1>6, MailStays DEF MailedTokensWork
  <2> QED BY <1>9, <1>10, <1>11, <2>1, <2>2, <2>3 DEF TablesHold
<1>13. FewUntrue'
  <2>1. ~Untrue(r)'
    BY <1>3 DEF Untrue
  <2> QED BY <1>1, <1>6, <2>1, Here, UntrueStay
<1> QED BY <1>3, <1>6, <1>8, <1>12, <1>13, StepKeeps

LEMMA ConnectKeeps ==
  ASSUME AccountsInv, NEW r \in Requests, Connect(r)
  PROVE  AccountsInv'
<1> DEFINE row == [identity |-> identity[r], user |-> user[r]]
<1>1. /\ pc[r] \in {"connect", "refresh"} /\ Goto(r, "session")
      /\ oauth' \in {oauth, oauth \cup {row}}
      /\ UNCHANGED <<ask, user, identity, users, sessions, verifications, resets, states,
                     expired, mail, faults>>
  BY DEF Connect, outside
<1>2. /\ answer' = answer /\ answer[r] = "none" /\ pc'[r] = "session"
      /\ pc' \in [Requests -> PC] /\ \A q \in Requests \ {r} : pc'[q] = pc[q]
  <2>1. pc \in [Requests -> PC] /\ "session" \in PC /\ answer[r] = "none"
    BY <1>1, Here DEF PC
  <2> QED BY <1>1, <2>1 DEF Goto
<1>3. /\ ask[r].kind = "callback" /\ user[r] \in Ids /\ identity[r] \in Identities
      /\ users[user[r]].login = GitHubLogin[identity[r]] /\ users[user[r]].type = "oauth"
  BY <1>1, Here DEF RouteHolds, UserHolds
<1>4. /\ oauth' \subseteq [identity : Identities, user : Ids]
      /\ ConnectionsHold'
  BY <1>1, <1>3 DEF AccountsInv, TypeOK, TablesHold, ConnectionsHold
<1> HIDE DEF row
<1>5. TypeOK'
  BY <1>1, <1>2, <1>4 DEF AccountsInv, TypeOK, Ids, TokenRow
<1>6. Step(r)
  <2>1. Len(users) \in Nat
    BY DEF AccountsInv, TypeOK
  <2>2. TablesGrow
    BY <1>1, <2>1, KeptItself DEF TablesGrow
  <2> QED BY <1>1, <1>2, <1>5, <2>2 DEF Step, Alone
<1>7. ~Owns(r)'
  BY <1>1, <1>2, <1>3 DEF Owns
<1>8. RequestHolds(r)'
  <2>1. AskHolds(r)' /\ RouteHolds(r)'
    BY <1>1, <1>2, <1>3, Here DEF AskHolds, RouteHolds
  <2>2. UserHolds(r)' /\ RowHolds(r)'
    BY <1>1, <1>2, <1>3, <1>7 DEF UserHolds, RowHolds, Ids
  <2> QED BY <2>1, <2>2 DEF RequestHolds
<1>9. TablesHold'
  <2>1. LoginsUnique' /\ OwnersApart' /\ HashesHold'
    BY <1>1, <1>6, <1>7, LoginsStay, OwnersStay, HashesStay
  <2>2. SessionsAnswered' /\ SessionsAreEarned'
    BY <1>1, <1>6, SessionsStay
  <2>3. ResetIsAtomic' /\ ResetsHold'
    BY <1>1, <1>6, AtomicStays, ResetsStay
  <2>4. MailedTokensWork'
    BY <1>1, <1>6, MailStays DEF MailedTokensWork
  <2> QED BY <1>4, <2>1, <2>2, <2>3, <2>4 DEF TablesHold
<1>10. FewUntrue'
  <2>1. ~Untrue(r)'
    BY <1>2 DEF Untrue
  <2> QED BY <1>1, <1>6, <2>1, Here, UntrueStay
<1> QED BY <1>2, <1>6, <1>8, <1>9, <1>10, StepKeeps

LEMMA BeginHolds ==
  ASSUME AccountsInv, NEW r \in Requests, NEW l \in PC \ {"idle", "done"},
         NEW a \in [kind : Kinds, login : Logins \cup {None},
                    password : Passwords \cup {None}, token : Tokens \cup {None}],
         Begin(r, a, l),
         a.kind \in {"register", "login", "forgot"} => a.login \in Logins,
         a.kind \in {"register", "reset"} => a.password \in Passwords,
         a.kind = "reset" => \E m \in mail : m.table = "resets" /\ m.token = a.token,
         a.kind = "logout" => \/ a.token = Earlier
                              \/ a.token \in Requests /\ answer[a.token] # "none",
         \/ l = "check" /\ a.kind = "register"
         \/ l = "lookup" /\ a.kind = "login"
         \/ l = "logout" /\ a.kind = "logout"
         \/ l = "getUser" /\ a.kind = "resend"
         \/ l = "valid" /\ a.kind = "verify"
         \/ l = "forgot" /\ a.kind = "forgot"
         \/ l = "resettable" /\ a.kind = "reset"
         \/ l = "cleanup" /\ a.kind \in {"auth", "callback"}
  PROVE  AccountsInv'
<1>1. /\ pc[r] = "idle"
      /\ UNCHANGED <<users, sessions, verifications, resets, states, oauth,
                     expired, mail, user, identity, answer, faults>>
  BY DEF Begin, tables, outside
<1>2. /\ pc'[r] = l /\ ask'[r] = a /\ answer[r] = "none"
      /\ pc' \in [Requests -> PC]
      /\ ask' \in [Requests -> [kind : Kinds, login : Logins \cup {None},
                                password : Passwords \cup {None}, token : Tokens \cup {None}]]
      /\ \A q \in Requests \ {r} : pc'[q] = pc[q] /\ ask'[q] = ask[q]
  <2>1. /\ pc \in [Requests -> PC] /\ answer[r] = "none"
        /\ ask \in [Requests -> [kind : Kinds, login : Logins \cup {None},
                                 password : Passwords \cup {None}, token : Tokens \cup {None}]]
    BY <1>1, Here
  <2> QED BY <2>1 DEF Begin
<1>3. TypeOK'
  BY <1>1, <1>2 DEF AccountsInv, TypeOK, Ids, TokenRow
<1>4. Step(r)
  <2>1. Len(users) \in Nat
    BY DEF AccountsInv, TypeOK
  <2>2. TablesGrow
    BY <1>1, <2>1, KeptItself DEF TablesGrow
  <2> QED BY <1>1, <1>2, <1>3, <2>2 DEF Step, Alone
<1>5. ~Owns(r)'
  BY <1>1, <1>2 DEF Owns
<1>6. RequestHolds(r)'
  <2>1. AskHolds(r)'
    BY <1>1, <1>2 DEF AskHolds
  <2>2. RouteHolds(r)'
    BY <1>2 DEF RouteHolds
  <2>3. UserHolds(r)' /\ RowHolds(r)'
    BY <1>1, <1>2, <1>5 DEF UserHolds, RowHolds
  <2> QED BY <2>1, <2>2, <2>3 DEF RequestHolds
<1>7. ~Untrue(r)'
  BY <1>1, <1>2 DEF Untrue
<1> QED BY <1>1, <1>2, <1>4, <1>5, <1>6, <1>7, Here, QuietKeeps

LEMMA ArrivalHolds ==
  ASSUME AccountsInv, NEW r \in Requests, Arrive(r)
  PROVE  AccountsInv'
<1>p. {"check", "lookup", "logout", "getUser", "valid", "forgot", "resettable", "cleanup"}
        \subseteq PC \ {"idle", "done"}
  BY DEF PC
<1> DEFINE Rows == [kind : Kinds, login : Logins \cup {None},
                    password : Passwords \cup {None}, token : Tokens \cup {None}]
<1>1. CASE \E l \in Logins, p \in Passwords :
             \/ Begin(r, Ask("register", l, p, None), "check")
             \/ Begin(r, Ask("login", l, p, None), "lookup")
  <2>1. PICK l \in Logins, p \in Passwords :
          \/ Begin(r, Ask("register", l, p, None), "check")
          \/ Begin(r, Ask("login", l, p, None), "lookup")
    BY <1>1
  <2>2. Ask("register", l, p, None) \in Rows /\ Ask("login", l, p, None) \in Rows
    BY DEF Ask, Kinds
  <2>3. /\ Ask("register", l, p, None).kind = "register" /\ Ask("login", l, p, None).kind = "login"
        /\ Ask("register", l, p, None).login = l /\ Ask("login", l, p, None).login = l
        /\ Ask("register", l, p, None).password = p
    BY DEF Ask
  <2> QED BY <1>p, <2>1, <2>2, <2>3, BeginHolds
<1>2. CASE \E t \in Cookies :
             \/ Begin(r, Ask("logout", None, None, t), "logout")
             \/ Begin(r, Ask("resend", None, None, t), "getUser")
  <2>1. PICK t \in Cookies :
          \/ Begin(r, Ask("logout", None, None, t), "logout")
          \/ Begin(r, Ask("resend", None, None, t), "getUser")
    BY <1>2
  <2>2. t = Earlier \/ (t \in Requests /\ answer[t] # "none")
    BY DEF Cookies, Given
  <2>3. Ask("logout", None, None, t) \in Rows /\ Ask("resend", None, None, t) \in Rows
    BY <2>2 DEF Ask, Kinds, Tokens
  <2>4. /\ Ask("logout", None, None, t).kind = "logout"
        /\ Ask("resend", None, None, t).kind = "resend"
        /\ Ask("logout", None, None, t).token = t
    BY DEF Ask
  <2> QED BY <1>p, <2>1, <2>2, <2>3, <2>4, BeginHolds
<1>3. CASE \E t \in Mailed("verifications") : Begin(r, Ask("verify", None, None, t), "valid")
  <2>1. PICK t \in Mailed("verifications") : Begin(r, Ask("verify", None, None, t), "valid")
    BY <1>3
  <2>2. t \in Tokens
    BY DEF Mailed, AccountsInv, TypeOK
  <2>3. Ask("verify", None, None, t) \in Rows /\ Ask("verify", None, None, t).kind = "verify"
    BY <2>2 DEF Ask, Kinds
  <2> QED BY <1>p, <2>1, <2>3, BeginHolds
<1>4. CASE \E l \in Logins : Begin(r, Ask("forgot", l, None, None), "forgot")
  <2>1. PICK l \in Logins : Begin(r, Ask("forgot", l, None, None), "forgot")
    BY <1>4
  <2>2. /\ Ask("forgot", l, None, None) \in Rows /\ Ask("forgot", l, None, None).kind = "forgot"
        /\ Ask("forgot", l, None, None).login = l
    BY DEF Ask, Kinds
  <2> QED BY <1>p, <2>1, <2>2, BeginHolds
<1>5. CASE \E t \in Mailed("resets"), p \in Passwords :
             Begin(r, Ask("reset", None, p, t), "resettable")
  <2>1. PICK t \in Mailed("resets"), p \in Passwords :
          Begin(r, Ask("reset", None, p, t), "resettable")
    BY <1>5
  <2>2. PICK m \in mail : m.table = "resets" /\ m.token = t
    BY DEF Mailed
  <2>3. t \in Tokens
    BY <2>2 DEF AccountsInv, TypeOK
  <2>4. /\ Ask("reset", None, p, t) \in Rows /\ Ask("reset", None, p, t).kind = "reset"
        /\ Ask("reset", None, p, t).password = p /\ Ask("reset", None, p, t).token = t
    BY <2>3 DEF Ask, Kinds
  <2> QED BY <1>p, <2>1, <2>2, <2>4, BeginHolds
<1>6. CASE \/ Begin(r, Ask("auth", None, None, r), "cleanup")
           \/ \E t \in Given({"redirect"}) : Begin(r, Ask("callback", None, None, t), "cleanup")
  <2>1. PICK k \in {"auth", "callback"}, t \in Tokens : Begin(r, Ask(k, None, None, t), "cleanup")
    BY <1>6 DEF Given, Tokens
  <2>2. Ask(k, None, None, t) \in Rows /\ Ask(k, None, None, t).kind = k
    BY DEF Ask, Kinds
  <2> QED BY <1>p, <2>1, <2>2, BeginHolds
<1> QED BY <1>1, <1>2, <1>3, <1>4, <1>5, <1>6 DEF Arrive

(* Steps of no request: the tables stay, and what was answered is answered. *)
LEMMA QuietStepKeeps ==
  ASSUME AccountsInv, UNCHANGED <<tables, mail, ask, user, identity, answer>>,
         expired' \subseteq {"sessions", "verifications", "resets", "states"} \X Tokens,
         pc' \in [Requests -> PC],
         \A r \in Requests : pc'[r] = pc[r] \/ (pc[r] # "idle" /\ pc'[r] = "done"),
         faults' >= faults, faults' \in 0..MaxFaults
  PROVE  AccountsInv'
<1> USE DEF tables
<1>1. TypeOK'
  BY DEF AccountsInv, TypeOK, Ids, TokenRow
<1>2. AnswersAreLast'
  BY DEF AccountsInv, AnswersAreLast
<1>3. \A r \in Requests : Owns(r)' => Owns(r) /\ (pc'[r] = pc[r] \/ answer[r] = "registered")
  BY DEF Owns
<1>4. ASSUME NEW r \in Requests PROVE RequestHolds(r)'
  <2>1. AskHolds(r)' /\ RouteHolds(r)'
    BY Here DEF AskHolds, RouteHolds
  <2>2. UserHolds(r)'
    BY <1>3, Here DEF UserHolds, Ids, WasReset
  <2>3. RowHolds(r)'
    BY <1>3, Here DEF RowHolds, Owns
  <2> QED BY <2>1, <2>2, <2>3 DEF RequestHolds
<1>5. TablesHold'
  <2>1. LoginsUnique' /\ ConnectionsHold' /\ HashesHold'
    BY DEF AccountsInv, TablesHold, LoginsUnique, ConnectionsHold, HashesHold, Ids, WasReset
  <2>2. OwnersApart'
    BY <1>3 DEF AccountsInv, TablesHold, OwnersApart
  <2>3. SessionsAnswered' /\ SessionsAreEarned'
    BY DEF AccountsInv, TablesHold, SessionsAnswered, SessionsAreEarned, WasReset
  <2>4. ResetsHold'
    BY DEF AccountsInv, TablesHold, ResetsHold
  <2>5. ResetIsAtomic' /\ MailedTokensWork'
    BY DEF AccountsInv, TablesHold, ResetIsAtomic, MailedTokensWork
  <2> QED BY <2>1, <2>2, <2>3, <2>4, <2>5 DEF TablesHold
<1>6. FewUntrue'
  <2>1. {r \in Requests : Untrue(r)'} = {r \in Requests : Untrue(r)}
    BY DEF Untrue
  <2>2. /\ IsFiniteSet({r \in Requests : Untrue(r)})
        /\ Cardinality({r \in Requests : Untrue(r)}) <= faults
    BY DEF AccountsInv, FewUntrue, AnswersAreTrue
  <2>3. Cardinality({r \in Requests : Untrue(r)}) \in Nat /\ faults \in Nat /\ faults' \in Nat
    BY <2>2, FS_CardinalityType, Here, AccountsAssumption DEF AccountsInv, TypeOK
  <2>4. Cardinality({r \in Requests : Untrue(r)}) <= faults'
    BY <2>2, <2>3
  <2> QED BY <2>1, <2>2, <2>4 DEF FewUntrue, AnswersAreTrue
<1> QED BY <1>1, <1>2, <1>4, <1>5, <1>6 DEF AccountsInv

LEMMA InitHolds == Init => AccountsInv
<1> SUFFICES ASSUME Init PROVE AccountsInv
  OBVIOUS
<1>1. /\ \A r \in Requests : pc[r] = "idle" /\ answer[r] = "none" /\ ask[r].kind = "none"
      /\ oauth = {} /\ faults = 0
  BY DEF Init, Ask
<1>2. \/ users = <<>> /\ sessions = {} /\ resets = {} /\ mail = {} /\ verifications = {}
      \/ \E l \in Logins, p \in Passwords :
           /\ users = <<[login |-> l, hash |-> p, type |-> "local"]>>
           /\ sessions = {[token |-> Earlier, user |-> 1]}
           /\ verifications = {[token |-> Earlier, user |-> 1, spent |-> FALSE]}
           /\ resets = verifications
           /\ mail = [to : {l}, table : {"verifications", "resets"}, token : {Earlier}]
  BY AccountsAssumption DEF Init
<1>3. /\ Len(users) \in Nat /\ users \in Seq(UserRow)
      /\ \A u \in Ids : u = 1 /\ users[u].type = "local"
      /\ users = <<>> \/ 1 \in Ids
  <2>1. CASE users = <<>>
    BY <2>1 DEF Ids
  <2>2. CASE \E l \in Logins, p \in Passwords :
               users = <<[login |-> l, hash |-> p, type |-> "local"]>>
    BY <2>2 DEF Ids, UserRow
  <2> QED BY <1>2, <2>1, <2>2
<1>4. TypeOK
  <2>1. /\ pc \in [Requests -> PC] /\ identity \in [Requests -> Identities \cup {None}]
        /\ answer \in [Requests -> Answers] /\ user \in [Requests -> Ids \cup {0}]
        /\ states \subseteq Tokens /\ expired = {}
        /\ faults \in 0..MaxFaults
        /\ ask \in [Requests -> [kind : Kinds, login : Logins \cup {None},
                                 password : Passwords \cup {None}, token : Tokens \cup {None}]]
    BY AccountsAssumption DEF Init, PC, Answers, Tokens, Ask, Kinds
  <2>2. /\ sessions \subseteq [token : Tokens, user : Ids]
        /\ verifications \subseteq TokenRow /\ resets \subseteq TokenRow
        /\ mail \subseteq [to : Logins, table : {"verifications", "resets"}, token : Tokens]
    <3>1. CASE sessions = {} /\ resets = {} /\ mail = {} /\ verifications = {}
      BY <3>1
    <3>2. CASE \E l \in Logins, p \in Passwords :
                 /\ users = <<[login |-> l, hash |-> p, type |-> "local"]>>
                 /\ sessions = {[token |-> Earlier, user |-> 1]}
                 /\ verifications = {[token |-> Earlier, user |-> 1, spent |-> FALSE]}
                 /\ resets = verifications
                 /\ mail = [to : {l}, table : {"verifications", "resets"}, token : {Earlier}]
      <4>1. 1 \in Ids
        BY <3>2 DEF Ids
      <4>2. /\ sessions \subseteq [token : Tokens, user : Ids]
            /\ verifications \subseteq TokenRow /\ resets \subseteq TokenRow
        BY <3>2, <4>1 DEF Tokens, TokenRow
      <4>3. mail \subseteq [to : Logins, table : {"verifications", "resets"}, token : Tokens]
        BY <3>2 DEF Tokens
      <4> QED BY <4>2, <4>3
    <3> QED BY <1>2, <3>1, <3>2
  <2> QED BY <1>1, <1>3, <2>1, <2>2 DEF TypeOK
<1>5. AnswersAreLast
  BY <1>1 DEF AnswersAreLast
<1>6. \A r \in Requests : RequestHolds(r)
  BY <1>1 DEF RequestHolds, AskHolds, RouteHolds, UserHolds, RowHolds, Owns
<1>7. TablesHold
  <2>1. LoginsUnique /\ OwnersApart /\ ConnectionsHold /\ HashesHold
    BY <1>1, <1>3 DEF LoginsUnique, OwnersApart, ConnectionsHold, HashesHold, Owns
  <2>2. SessionsAnswered /\ SessionsAreEarned
    BY <1>2, AccountsAssumption DEF SessionsAnswered, SessionsAreEarned
  <2>3. ResetsHold /\ ResetIsAtomic
    <3>1. \A k \in resets : k.token = Earlier /\ k.user = 1 /\ ~k.spent
      BY <1>2
    <3> QED BY <3>1 DEF ResetsHold, ResetIsAtomic
  <2>4. MailedTokensWork
    <3>1. CASE mail = {}
      BY <3>1 DEF MailedTokensWork
    <3>2. CASE \E l \in Logins, p \in Passwords :
                 /\ users = <<[login |-> l, hash |-> p, type |-> "local"]>>
                 /\ verifications = {[token |-> Earlier, user |-> 1, spent |-> FALSE]}
                 /\ resets = verifications
                 /\ mail = [to : {l}, table : {"verifications", "resets"}, token : {Earlier}]
      <4>1. PICK l \in Logins : /\ users[1].login = l
                                /\ \A m \in mail : m.to = l /\ m.token = Earlier
        BY <3>2
      <4>2. \E v \in verifications : v.token = Earlier /\ v.user = 1
        BY <3>2
      <4>3. resets = verifications
        BY <3>2
      <4> QED BY <4>1, <4>2, <4>3 DEF MailedTokensWork
    <3> QED BY <1>2, <3>1, <3>2
  <2> QED BY <2>1, <2>2, <2>3, <2>4 DEF TablesHold
<1>8. FewUntrue
  <2>1. {r \in Requests : Untrue(r)} = {}
    BY <1>1 DEF Untrue
  <2> QED BY <1>1, <2>1, FS_EmptySet DEF FewUntrue, AnswersAreTrue
<1> QED BY <1>4, <1>5, <1>6, <1>7, <1>8 DEF AccountsInv

LEMMA NextKeeps ==
  ASSUME AccountsInv, [Next]_vars
  PROVE  AccountsInv'
<1>1. ASSUME NEW r \in Requests, Arrive(r) PROVE AccountsInv'
  BY <1>1, ArrivalHolds
<1>2. ASSUME NEW r \in Requests, Handle(r) PROVE AccountsInv'
  <2>1. CASE InsertToken(r) \/ CreateSession(r) \/ InsertReset(r) \/ Update(r) \/ Connect(r)
    BY <2>1, InsertTokenKeeps, CreateSessionKeeps, InsertResetKeeps, UpdateKeeps, ConnectKeeps
  <2>2. CASE SendMail(r)
    BY <2>2, Here, LetterKeeps DEF SendMail
  <2>3. CASE \/ Check(r) \/ FindVerification(r) \/ CheckUnverified(r) \/ Cleanup(r) \/ Consume(r)
             \/ Lookup(r) \/ GetUser(r) \/ FindForgetful(r) \/ FindReset(r) \/ FindIdentity(r)
    BY <2>3, ReadsKeep, FindsKeep
  <2>4. CASE \/ InsertFails(r) \/ CreateUserFails(r) \/ LookupFails(r) \/ GetUserFails(r)
             \/ FindResetFails(r) \/ Store(r) \/ AskGitHub(r)
    BY <2>4, RefusalsKeep
  <2>5. CASE Insert(r) \/ CreateUser(r) \/ Mark(r) \/ Logout(r)
    BY <2>5, InsertsKeep, MarkKeeps, LogoutKeeps
  <2> QED BY <1>2, <2>1, <2>2, <2>3, <2>4, <2>5 DEF Handle
<1>3. ASSUME NEW r \in Requests, QueryFails(r) PROVE AccountsInv'
  BY <1>3, QueryFailureKeeps
<1>4. ASSUME NEW r \in Requests, MailFails(r) PROVE AccountsInv'
  <2>1. /\ faults' >= faults /\ faults' \in 0..MaxFaults
    BY <1>4, Here, AccountsAssumption DEF MailFails, Fault
  <2> QED BY <1>4, <2>1, LetterKeeps DEF MailFails
<1>5. CASE Killed
  <2>1. /\ faults' >= faults /\ faults' \in 0..MaxFaults
    BY <1>5, AccountsAssumption DEF Killed, Fault, AccountsInv, TypeOK
  <2>2. /\ pc' \in [Requests -> PC]
        /\ \A r \in Requests : pc'[r] = pc[r] \/ (pc[r] # "idle" /\ pc'[r] = "done")
        /\ expired' \subseteq {"sessions", "verifications", "resets", "states"} \X Tokens
    BY <1>5 DEF Killed, PC, outside, AccountsInv, TypeOK
  <2> QED BY <1>5, <2>1, <2>2, QuietStepKeeps DEF Killed, outside
<1>6. CASE TimePasses
  <2>1. PICK table \in {"sessions", "verifications", "resets", "states"}, t \in Tokens :
          expired' = expired \cup {<<table, t>>}
    BY <1>6 DEF TimePasses, Expire, AccountsInv, TypeOK, TokenRow
  <2>2. /\ Fault /\ UNCHANGED <<tables, mail, pc, ask, user, identity, answer>>
    BY <1>6 DEF TimePasses, Expire
  <2>3. /\ faults' >= faults /\ faults' \in 0..MaxFaults
    BY <2>2, AccountsAssumption DEF Fault, AccountsInv, TypeOK
  <2>4. /\ expired' \subseteq {"sessions", "verifications", "resets", "states"} \X Tokens
        /\ pc' \in [Requests -> PC]
    BY <2>1, <2>2 DEF AccountsInv, TypeOK
  <2> QED BY <2>2, <2>3, <2>4, QuietStepKeeps
<1>7. CASE UNCHANGED vars
  <2>1. /\ faults' >= faults /\ faults' \in 0..MaxFaults
    BY <1>7, AccountsAssumption DEF vars, AccountsInv, TypeOK
  <2>2. /\ expired' \subseteq {"sessions", "verifications", "resets", "states"} \X Tokens
        /\ pc' \in [Requests -> PC]
    BY <1>7 DEF vars, outside, AccountsInv, TypeOK
  <2> QED BY <1>7, <2>1, <2>2, QuietStepKeeps DEF vars, outside
<1> QED BY <1>1, <1>2, <1>3, <1>4, <1>5, <1>6, <1>7 DEF Next

-----------------------------------------------------------------------------
(* The theorems *)

THEOREM AccountsInvariant == Spec => []AccountsInv
<1>1. AccountsInv /\ [Next]_vars => AccountsInv'
  BY NextKeeps
<1> QED BY InitHolds, <1>1, PTL DEF Spec

(* createSession: the tables have their types, and a session is only made   *)
(* for the user its request registered, gave the password of, or was        *)
(* confirmed as by GitHub.                                                   *)
THEOREM SessionsStayEarned == Spec => []UsersSound
<1>1. AccountsInv => UsersSound
  BY DEF AccountsInv, TablesHold, UsersSound
<1> QED BY AccountsInvariant, <1>1, PTL

(* handleRegisterRequest: the UNIQUE constraint lets one of several          *)
(* registrations of a login through, and its verification is the user's.    *)
THEOREM RegistrationIsUnique == Spec => []OneRegistrationWins
<1>1. ASSUME AccountsInv PROVE OneRegistrationWins
  <2> SUFFICES ASSUME NEW r \in Requests, answer[r] = "registered"
               PROVE  /\ \A q \in Requests \ {r} :
                           answer[q] = "registered" => ask[q].login # ask[r].login
                      /\ \E u \in Ids :
                           /\ WithLogin(ask[r].login) = {u}
                           /\ \E v \in verifications : v.token = r /\ v.user = u
    BY DEF OneRegistrationWins
  <2>1. \A q \in Requests : answer[q] = "registered" =>
          /\ Owns(q) /\ pc[q] = "done"
          /\ user[q] \in Ids /\ users[user[q]].login = ask[q].login
    BY <1>1, Here DEF UserHolds, Owns, AccountsInv, AnswersAreLast
  <2>2. \A u \in Ids : users[u].login = ask[r].login => u = user[r]
    BY <1>1, <2>1 DEF AccountsInv, TablesHold, LoginsUnique
  <2>3. \E v \in verifications : v.token = r /\ v.user = user[r]
    BY <1>1, <2>1, Here DEF RowHolds
  <2>4. WithLogin(ask[r].login) = {user[r]}
    BY <2>1, <2>2 DEF WithLogin
  <2>5. ASSUME NEW q \in Requests \ {r}, answer[q] = "registered"
        PROVE  ask[q].login # ask[r].login
    BY <1>1, <2>1, <2>2, <2>5 DEF AccountsInv, TablesHold, OwnersApart
  <2> QED BY <2>1, <2>3, <2>4, <2>5
<1> QED BY AccountsInvariant, <1>1, PTL

(* handleResetPasswordRequest: one statement changes the password and marks *)
(* the token, so neither is ever seen without the other.                    *)
THEOREM ResetsStayAtomic == Spec => []ResetIsAtomic
<1>1. AccountsInv => ResetIsAtomic
  BY DEF AccountsInv, TablesHold
<1> QED BY AccountsInvariant, <1>1, PTL

(* createVerificationToken, createPasswordResetToken: the row is there      *)
(* before the letter is, so a link that arrived can be used.                *)
THEOREM LettersKeepTheirWord == Spec => []MailedTokensWork
<1>1. AccountsInv => MailedTokensWork
  BY DEF AccountsInv, TablesHold
<1> QED BY AccountsInvariant, <1>1, PTL

(* handleVerifyEmailRequest, handleLogoutRequest: only a query that failed  *)
(* makes their answer untrue, and one query no more than one answer.        *)
THEOREM AnswersStayTrue == Spec => []AnswersAreTrue
<1>1. AccountsInv => AnswersAreTrue
  BY DEF AccountsInv, FewUntrue
<1> QED BY AccountsInvariant, <1>1, PTL

(* Which steps change users at all. *)
LEMMA UsersChange ==
  ASSUME [Next]_vars
  PROVE  \/ users' = users
         \/ \E r \in Requests : Insert(r) \/ CreateUser(r) \/ Update(r)
<1> USE DEF tables
<1>1. ASSUME NEW r \in Requests, Arrive(r) PROVE users' = users
  BY <1>1 DEF Arrive, Begin
<1>2. ASSUME NEW r \in Requests, Handle(r)
      PROVE  users' = users \/ Insert(r) \/ CreateUser(r) \/ Update(r)
  <2>1. CASE \/ InsertToken(r) \/ SendMail(r) \/ CreateSession(r) \/ Check(r) \/ InsertFails(r)
             \/ Lookup(r) \/ LookupFails(r) \/ Logout(r) \/ FindVerification(r) \/ Mark(r)
    BY <2>1 DEF InsertToken, SendMail, CreateSession, Check, InsertFails, Lookup, LookupFails,
                Logout, FindVerification, Mark
  <2>2. CASE \/ GetUser(r) \/ GetUserFails(r) \/ CheckUnverified(r) \/ FindForgetful(r)
             \/ InsertReset(r) \/ FindReset(r) \/ FindResetFails(r) \/ Cleanup(r) \/ Store(r)
    BY <2>2 DEF GetUser, GetUserFails, CheckUnverified, FindForgetful, InsertReset, FindReset,
                FindResetFails, Cleanup, Store
  <2>3. CASE \/ Consume(r) \/ AskGitHub(r) \/ FindIdentity(r) \/ CreateUserFails(r) \/ Connect(r)
    BY <2>3 DEF Consume, AskGitHub, FindIdentity, CreateUserFails, Connect
  <2> QED BY <1>2, <2>1, <2>2, <2>3 DEF Handle
<1>3. ASSUME NEW r \in Requests, QueryFails(r) \/ MailFails(r) PROVE users' = users
  BY <1>3 DEF QueryFails, MailFails
<1>4. CASE Killed \/ TimePasses \/ UNCHANGED vars
  BY <1>4 DEF Killed, TimePasses, Expire, vars
<1> QED BY <1>1, <1>2, <1>3, <1>4 DEF Next

(* handleResetPasswordRequest: users keep their login and their type, and   *)
(* whoever changes a password was sent a letter at the user's own address.  *)
THEOREM PasswordsAreTheirOwners == Spec => OnlyOwnersReset
<1> DEFINE Own ==
      /\ Len(users') >= Len(users)
      /\ \A u \in Ids : users'[u] # users[u] =>
           /\ users'[u] = [users[u] EXCEPT !.hash = users'[u].hash]
           /\ \E r \in Requests, m \in mail :
                /\ pc[r] = "update" /\ ask[r].token = m.token
                /\ m.table = "resets" /\ m.to = users[u].login
<1>1. ASSUME AccountsInv, [Next]_vars PROVE Own
  <2>0. Len(users) \in Nat
    BY <1>1 DEF AccountsInv, TypeOK
  <2>1. CASE users' = users
    BY <2>0, <2>1
  <2>2. ASSUME NEW r \in Requests, NEW u \in UserRow, NewUser(r, u),
               WithLogin(u.login) = {}
        PROVE  Own
    BY <1>1, <2>0, <2>2, NewUserFacts
  <2>3. ASSUME NEW r \in Requests, Insert(r) PROVE Own
    <3>1. LocalUser(r) \in UserRow /\ LocalUser(r).login = ask[r].login
      <4>1. ask[r].login \in Logins /\ ask[r].password \in Passwords
        BY <1>1, <2>3, Here DEF Insert, RouteHolds, AskHolds
      <4> QED BY <4>1 DEF LocalUser, UserRow
    <3> HIDE DEF Own
    <3> QED BY <2>2, <2>3, <3>1 DEF Insert
  <2>4. ASSUME NEW r \in Requests, CreateUser(r) PROVE Own
    <3>1. GitHubUser(r) \in UserRow
      <4>1. GitHubLogin[identity[r]] \in Logins
        BY <1>1, <2>4, Here, AccountsAssumption DEF CreateUser, UserHolds
      <4> QED BY <4>1 DEF GitHubUser, UserRow
    <3> HIDE DEF Own
    <3> QED BY <2>2, <2>4, <3>1 DEF CreateUser
  <2>5. ASSUME NEW r \in Requests, Update(r) PROVE Own
    <3>1. pc[r] = "update"
      BY <2>5 DEF Update
    <3>2. \A u \in Ids : users[u] \in UserRow
      BY <1>1, <2>5, Here
    <3>3. /\ user[r] \in Ids /\ Len(users') = Len(users)
          /\ \A u \in Ids : users'[u] = IF u = user[r]
                                         THEN [users[u] EXCEPT !.hash = ask[r].password]
                                         ELSE users[u]
          /\ \E m \in mail : /\ ask[r].token = m.token /\ m.table = "resets"
                             /\ m.to = users[user[r]].login
      BY <1>1, <2>5, UpdateFacts
    <3>4. Len(users') >= Len(users)
      BY <2>0, <3>3
    <3>5. ASSUME NEW u \in Ids, users'[u] # users[u]
          PROVE  /\ users'[u] = [users[u] EXCEPT !.hash = users'[u].hash]
                 /\ \E m \in mail : /\ ask[r].token = m.token /\ m.table = "resets"
                                    /\ m.to = users[u].login
      <4>1. u = user[r] /\ users'[u] = [users[u] EXCEPT !.hash = ask[r].password]
        BY <3>3, <3>5
      <4>2. users'[u].hash = ask[r].password
        BY <3>2, <4>1 DEF UserRow
      <4> QED BY <3>3, <4>1, <4>2
    <3> QED BY <3>1, <3>4, <3>5
  <2> HIDE DEF Own
  <2> QED BY <1>1, <2>1, <2>3, <2>4, <2>5, UsersChange
<1> QED BY AccountsInvariant, <1>1, PTL DEF Spec, OnlyOwnersReset

=============================================================================
