--------------------------- MODULE SessionsProofs ---------------------------
(***************************************************************************)
(* Proofs about the sessions, for any number of requests, keys, values and *)
(* faults: a set of one key of the store costs another key its value only  *)
(* if that key was set between the read and the write, or a query failed;  *)
(* and a login leads back to the page that was turned away last.           *)
(***************************************************************************)
EXTENDS Sessions, TLAPS

\* The types of what setStore works with.
StoreTypes ==
  /\ jar \in Cookies
  /\ pc \in [Requests -> Labels]
  /\ ask \in [Requests -> Asks \cup {None}]
  /\ sent \in [Requests -> Cookies]
  /\ seen \in [Requests -> Data]
  /\ store \in [Tokens -> Data]
  /\ ideal \in [Tokens -> Data]
  /\ missed \in [Requests -> SUBSET Keys]
  /\ torn \in [Tokens -> SUBSET Keys]

Sets == [kind : {"set"}, key : Keys, value : Values]
Gets == [kind : {"get"}, key : Keys]

\* A request that is at work on the store has a key and a session.
AtWork ==
  \A r \in Requests :
    /\ pc[r] \in {"read", "merge"} => ask[r] \in Sets /\ sent[r].session \in Tokens
    /\ pc[r] = "get" => ask[r] \in Gets /\ sent[r].session \in Tokens

\* What a request has read is still so, for the keys that nobody has set.
ReadIsCurrent ==
  \A r \in Requests : pc[r] = "merge" =>
    \A k \in Keys \ (missed[r] \cup torn[sent[r].session]) :
      seen[r][k] = ideal[sent[r].session][k]

StoreInv == StoreTypes /\ AtWork /\ ReadIsCurrent /\ QuietStore

storeVars == <<store, ideal, missed, torn, seen>>

-----------------------------------------------------------------------------
LEMMA StoreInit == Init => StoreInv
BY SMT, SessionsAssumption
   DEF Init, StoreInv, StoreTypes, AtWork, ReadIsCurrent, QuietStore, Cookies,
       NoCookies, Tokens, Labels, Data, Empty

\* A step that leaves the store and what was read alone, and takes no
\* request to work on the store.
LEMMA Elsewhere ==
  ASSUME StoreInv, UNCHANGED storeVars,
         jar' \in Cookies, pc' \in [Requests -> Labels],
         ask' \in [Requests -> Asks \cup {None}], sent' \in [Requests -> Cookies],
         \A r \in Requests : pc'[r] \in {"read", "merge", "get"} =>
           pc[r] = pc'[r] /\ ask'[r] = ask[r] /\ sent'[r] = sent[r]
  PROVE  StoreInv'
<1>1. StoreTypes'
  BY DEF StoreInv, StoreTypes, storeVars
<1>2. AtWork'
  BY DEF StoreInv, AtWork
<1>3. ReadIsCurrent'
  BY DEF StoreInv, ReadIsCurrent, storeVars
<1>4. QuietStore'
  BY DEF StoreInv, QuietStore, storeVars
<1> QED
  BY <1>1, <1>2, <1>3, <1>4 DEF StoreInv

LEMMA SendKeeps ==
  ASSUME StoreInv, NEW r \in Requests, Send(r)
  PROVE  StoreInv'
<1>1. PICK a \in Asks :
        /\ ask' = [ask EXCEPT ![r] = a]
        /\ Goto(r, FirstStep(a))
  BY DEF Send
<1>2. /\ sent' = [sent EXCEPT ![r] = jar] /\ UNCHANGED <<jar, storeVars>>
      /\ jar \in Cookies /\ sent \in [Requests -> Cookies]
      /\ pc \in [Requests -> Labels] /\ ask \in [Requests -> Asks \cup {None}]
  BY DEF Send, StoreInv, StoreTypes, storeVars, tables
<1>3. /\ FirstStep(a) \in Labels \ {"merge"}
      /\ FirstStep(a) = "read" => a \in Sets /\ jar.session \in Tokens
      /\ FirstStep(a) = "get" => a \in Gets /\ jar.session \in Tokens
  BY <1>2 DEF FirstStep, FirstQuery, Asks, Sets, Gets, Labels, Cookies
<1>4. StoreTypes'
  BY <1>1, <1>2, <1>3 DEF StoreInv, StoreTypes, storeVars, Goto
<1>5. AtWork'
  BY <1>1, <1>2, <1>3 DEF StoreInv, AtWork, Goto
<1>6. ReadIsCurrent'
  BY <1>1, <1>2, <1>3 DEF StoreInv, ReadIsCurrent, Goto, storeVars
<1>7. QuietStore'
  BY <1>2 DEF StoreInv, QuietStore, storeVars
<1> QED
  BY <1>4, <1>5, <1>6, <1>7 DEF StoreInv

LEMMA OverKeeps ==
  ASSUME StoreInv, NEW r \in Requests, Answer(r) \/ AnswerLost(r)
  PROVE  StoreInv'
<1>1. /\ pc' = [pc EXCEPT ![r] = "over"] /\ ask' = [ask EXCEPT ![r] = None]
      /\ sent' = [sent EXCEPT ![r] = NoCookies] /\ pc[r] = "answer"
      /\ seen' = [seen EXCEPT ![r] = Empty]
      /\ UNCHANGED <<store, ideal, missed, torn>>
      /\ jar' = jar \/ jar' = SetCookies(r)
  BY DEF Answer, AnswerLost, Over, Goto, tables
<1>2. StoreTypes
  BY DEF StoreInv
<1>3. jar' \in Cookies
  BY <1>1, <1>2 DEF StoreTypes, Cookies, SetCookies, Tokens
<1>4. StoreTypes'
  BY <1>1, <1>2, <1>3, SessionsAssumption
     DEF StoreTypes, Labels, Data, Empty, NoCookies, Cookies
<1>5. AtWork'
  BY <1>1, <1>2 DEF StoreInv, AtWork, StoreTypes
<1>6. ReadIsCurrent'
  BY <1>1, <1>2 DEF StoreInv, ReadIsCurrent, StoreTypes
<1>7. QuietStore'
  BY <1>1 DEF StoreInv, QuietStore
<1> QED
  BY <1>4, <1>5, <1>6, <1>7 DEF StoreInv

\* The steps of a request that is not at work on the store.
OtherQuery(r) ==
  \/ LookUpUser(r) \/ LookUpUserFails(r)
  \/ InsertAnonymous(r) \/ InsertAnonymousFails(r) \/ Remember(r) \/ RememberFails(r)
  \/ CreateSession(r) \/ CreateSessionFails(r)
  \/ FindReturnPath(r) \/ FindReturnPathFails(r)
  \/ StoreState(r) \/ StoreStateFails(r) \/ ConsumeState(r) \/ ConsumeStateFails(r)
  \/ DeleteSession(r) \/ DeleteSessionFails(r)
  \/ GetStore(r) \/ GetStoreFails(r)

LEMMA OtherKeeps ==
  ASSUME StoreInv, NEW r \in Requests, OtherQuery(r)
  PROVE  StoreInv'
<1>1. /\ UNCHANGED <<jar, ask, sent, storeVars>>
      /\ \E l \in Labels \ {"read", "merge", "get"} : Goto(r, l)
  <2>1. CASE LookUpUser(r) \/ LookUpUserFails(r)
    BY <2>1 DEF LookUpUser, LookUpUserFails, ShowPage, TurnAway, Goto, Labels,
                storeVars, history, tables
  <2>2. CASE InsertAnonymous(r) \/ InsertAnonymousFails(r) \/ Remember(r)
             \/ RememberFails(r)
    BY <2>2 DEF InsertAnonymous, InsertAnonymousFails, Remember, RememberFails,
                Goto, Labels, storeVars, history, tables
  <2>3. CASE CreateSession(r) \/ CreateSessionFails(r)
    BY <2>3 DEF CreateSession, CreateSessionFails, Goto, Labels, storeVars,
                history, tables
  <2>4. CASE FindReturnPath(r) \/ FindReturnPathFails(r)
    BY <2>4 DEF FindReturnPath, FindReturnPathFails, Goto, Labels, storeVars,
                history, tables
  <2>5. CASE StoreState(r) \/ StoreStateFails(r) \/ ConsumeState(r)
             \/ ConsumeStateFails(r)
    BY <2>5 DEF StoreState, StoreStateFails, ConsumeState, ConsumeStateFails,
                Goto, Labels, storeVars, history, tables
  <2>6. CASE DeleteSession(r) \/ DeleteSessionFails(r) \/ GetStore(r)
             \/ GetStoreFails(r)
    BY <2>6 DEF DeleteSession, DeleteSessionFails, GetStore, GetStoreFails,
                Goto, Labels, storeVars, history, tables
  <2> QED
    BY <2>1, <2>2, <2>3, <2>4, <2>5, <2>6 DEF OtherQuery
<1>2. PICK l \in Labels \ {"read", "merge", "get"} : pc' = [pc EXCEPT ![r] = l]
  BY <1>1 DEF Goto
<1>3. StoreTypes
  BY DEF StoreInv
<1> QED
  BY <1>1, <1>2, <1>3, Elsewhere DEF StoreTypes

-----------------------------------------------------------------------------
LEMMA ReadKeeps ==
  ASSUME StoreInv, NEW r \in Requests, ReadStore(r) \/ ReadStoreFails(r)
  PROVE  StoreInv'
<1> DEFINE s == sent[r].session
<1>1. /\ StoreTypes /\ pc[r] = "read" /\ pc' = [pc EXCEPT ![r] = "merge"]
      /\ UNCHANGED <<jar, ask, sent, store, ideal, torn>>
  BY DEF StoreInv, ReadStore, ReadStoreFails, Goto, tables
<1>2. s \in Tokens /\ ask[r] \in Sets
  BY <1>1 DEF StoreInv, AtWork
<1>3. \/ seen' = [seen EXCEPT ![r] = store[s]] /\ missed' = [missed EXCEPT ![r] = {}]
      \/ seen' = [seen EXCEPT ![r] = Empty] /\ missed' = [missed EXCEPT ![r] = Keys]
  BY DEF ReadStore, ReadStoreFails
<1>4. StoreTypes'
  <2>1. seen' \in [Requests -> Data]
    <3>1. Empty \in Data /\ store[s] \in Data
      BY <1>1, <1>2 DEF StoreTypes, Data, Empty
    <3> QED
      BY <1>1, <1>3, <3>1 DEF StoreTypes
  <2>2. missed' \in [Requests -> SUBSET Keys]
    BY <1>1, <1>3 DEF StoreTypes
  <2> QED
    BY <1>1, <2>1, <2>2 DEF StoreTypes, Labels
<1>5. AtWork'
  BY <1>1, <1>2 DEF StoreInv, AtWork, StoreTypes
<1>6. ReadIsCurrent'
  BY <1>1, <1>2, <1>3 DEF StoreInv, ReadIsCurrent, QuietStore, StoreTypes
<1>7. QuietStore'
  BY <1>1 DEF StoreInv, QuietStore
<1> QED
  BY <1>4, <1>5, <1>6, <1>7 DEF StoreInv

\* Whatever becomes of the row, a key that is acknowledged counts as missed
\* by every other request of the session that has read already.
LEMMA WriteKeeps ==
  ASSUME StoreInv, NEW r \in Requests, WriteStore(r) \/ WriteStoreFails(r)
  PROVE  StoreInv'
<1> DEFINE s == sent[r].session
           key == ask[r].key
           value == ask[r].value
<1>1. /\ StoreTypes /\ AtWork /\ ReadIsCurrent /\ QuietStore
      /\ pc[r] = "merge" /\ pc' = [pc EXCEPT ![r] = "answer"]
      /\ UNCHANGED <<jar, ask, sent, seen>>
  BY DEF StoreInv, WriteStore, WriteStoreFails, Goto
<1>2. s \in Tokens /\ key \in Keys /\ value \in Values
  BY <1>1 DEF AtWork, Sets
<1>3. CASE /\ store' = store /\ ideal' = ideal /\ torn' = torn
           /\ missed' = [missed EXCEPT ![r] = {}]
  <2>1. StoreTypes'
    BY <1>1, <1>3 DEF StoreTypes, Labels
  <2>2. AtWork'
    BY <1>1 DEF AtWork, StoreTypes
  <2>3. ReadIsCurrent'
    BY <1>1, <1>3 DEF ReadIsCurrent, StoreTypes
  <2>4. QuietStore'
    BY <1>1, <1>3 DEF QuietStore
  <2> QED
    BY <2>1, <2>2, <2>3, <2>4 DEF StoreInv
<1>4. CASE /\ Acknowledged(r)
           /\ \/ /\ store' = [store EXCEPT ![s] = [seen[r] EXCEPT ![key] = value]]
                 /\ torn' = [torn EXCEPT ![s] = (@ \cup missed[r]) \ {key}]
              \/ /\ store' = store
                 /\ torn' = [torn EXCEPT ![s] = @ \cup {key}]
  <2>1. /\ ideal' = [ideal EXCEPT ![s][key] = value]
        /\ missed' \in [Requests -> SUBSET Keys]
        /\ \A q \in Requests : q # r => missed[q] \subseteq missed'[q]
        /\ \A q \in Requests : q # r /\ pc[q] = "merge" /\ sent[q].session = s
              => key \in missed'[q]
    BY <1>1, <1>2, <1>4 DEF Acknowledged, StoreTypes
  <2>2. StoreTypes'
    <3>1. ideal' \in [Tokens -> Data]
      BY <1>1, <1>2, <2>1 DEF StoreTypes, Data
    <3>2. store' \in [Tokens -> Data]
      <4>1. [seen[r] EXCEPT ![key] = value] \in Data
        BY <1>1, <1>2 DEF StoreTypes, Data
      <4> QED
        BY <1>1, <1>4, <4>1 DEF StoreTypes
    <3>3. torn' \in [Tokens -> SUBSET Keys]
      BY <1>1, <1>2, <1>4 DEF StoreTypes
    <3> QED
      BY <1>1, <2>1, <3>1, <3>2, <3>3 DEF StoreTypes, Labels
  <2>3. AtWork'
    BY <1>1 DEF AtWork, StoreTypes
  <2>4. ReadIsCurrent'
    <3> SUFFICES ASSUME NEW q \in Requests, pc'[q] = "merge",
                        NEW k \in Keys \ (missed'[q] \cup torn'[sent[q].session])
                 PROVE  seen[q][k] = ideal'[sent[q].session][k]
      BY <1>1 DEF ReadIsCurrent
    <3>1. q # r /\ pc[q] = "merge" /\ sent[q].session \in Tokens
      BY <1>1 DEF AtWork, StoreTypes
    <3>2. k \notin missed[q]
      BY <2>1, <3>1
    <3>3. CASE sent[q].session # s
      <4>1. /\ torn'[sent[q].session] = torn[sent[q].session]
            /\ ideal'[sent[q].session] = ideal[sent[q].session]
        BY <1>1, <1>2, <1>4, <2>1, <3>1, <3>3 DEF StoreTypes
      <4> QED
        BY <1>1, <3>1, <3>2, <4>1 DEF ReadIsCurrent
    <3>4. CASE sent[q].session = s
      <4>1. k # key
        BY <2>1, <3>1, <3>4
      <4>2. k \notin torn[s] /\ ideal'[s][k] = ideal[s][k]
        BY <1>1, <1>2, <1>4, <2>1, <3>4, <4>1 DEF StoreTypes, Data
      <4> QED
        BY <1>1, <3>1, <3>2, <3>4, <4>2 DEF ReadIsCurrent
    <3> QED
      BY <3>3, <3>4
  <2>5. QuietStore'
    <3> SUFFICES ASSUME NEW t \in Tokens, NEW k \in Keys \ torn'[t]
                 PROVE  store'[t][k] = ideal'[t][k]
      BY DEF QuietStore
    <3>1. CASE t # s
      BY <1>1, <1>2, <1>4, <2>1, <3>1 DEF QuietStore, StoreTypes
    <3>2. CASE t = s /\ k = key
      BY <1>1, <1>2, <1>4, <2>1, <3>2 DEF StoreTypes, Data
    <3>3. CASE t = s /\ k # key
      <4>1. ideal'[s][k] = ideal[s][k]
        BY <1>1, <1>2, <2>1, <3>3 DEF StoreTypes, Data
      <4>2. k \notin torn[s]
        BY <1>1, <1>2, <1>4, <3>3 DEF StoreTypes
      <4>3. CASE store' = store
        BY <1>1, <3>3, <4>1, <4>2, <4>3 DEF QuietStore
      <4>4. CASE /\ store' = [store EXCEPT ![s] = [seen[r] EXCEPT ![key] = value]]
                 /\ torn' = [torn EXCEPT ![s] = (@ \cup missed[r]) \ {key}]
        <5>1. store'[s][k] = seen[r][k] /\ k \notin missed[r]
          BY <1>1, <1>2, <3>3, <4>4 DEF StoreTypes, Data
        <5> QED
          BY <1>1, <3>3, <4>1, <4>2, <5>1 DEF ReadIsCurrent
      <4> QED
        BY <1>4, <4>3, <4>4
    <3> QED
      BY <3>1, <3>2, <3>3
  <2> QED
    BY <2>2, <2>3, <2>4, <2>5 DEF StoreInv
<1> QED
  BY <1>3, <1>4 DEF WriteStore, WriteStoreFails, tables

LEMMA StoreStep == StoreInv /\ [Next]_vars => StoreInv'
<1> SUFFICES ASSUME StoreInv, [Next]_vars PROVE StoreInv'
  OBVIOUS
<1>1. CASE UNCHANGED vars
  BY <1>1, Elsewhere DEF vars, tables, history, storeVars, StoreInv, StoreTypes
<1>2. CASE CookieExpires
  <2>1. jar' \in Cookies
    BY <1>2 DEF CookieExpires, StoreInv, StoreTypes, Cookies
  <2> QED
    BY <1>2, <2>1, Elsewhere
       DEF CookieExpires, tables, history, storeVars, StoreInv, StoreTypes
<1>3. ASSUME NEW r \in Requests,
             Send(r) \/ Query(r) \/ QueryFails(r) \/ Answer(r) \/ AnswerLost(r)
      PROVE  StoreInv'
  <2>1. CASE Send(r)
    BY <2>1, SendKeeps
  <2>2. CASE Answer(r) \/ AnswerLost(r)
    BY <2>2, OverKeeps
  <2>3. CASE ReadStore(r) \/ ReadStoreFails(r)
    BY <2>3, ReadKeeps
  <2>4. CASE WriteStore(r) \/ WriteStoreFails(r)
    BY <2>4, WriteKeeps
  <2>5. CASE OtherQuery(r)
    BY <2>5, OtherKeeps
  <2> QED
    BY <1>3, <2>1, <2>2, <2>3, <2>4, <2>5 DEF Query, QueryFails, OtherQuery
<1> QED
  BY <1>1, <1>2, <1>3 DEF Next

LEMMA StoreAlways == Spec => []StoreInv
BY StoreInit, StoreStep, PTL DEF Spec

(* What setStore has acknowledged is in the row, unless the key is torn:   *)
(* set between another request's read and write, or hit by a failed query. *)
THEOREM StoreIsQuiet == Spec => []QuietStore
<1>1. StoreInv => QuietStore
  BY DEF StoreInv
<1> QED
  BY <1>1, StoreAlways, PTL

-----------------------------------------------------------------------------
\* What a request asks for, where a step uses it.
Working ==
  \A r \in Requests :
    /\ pc[r] = "update" => ask[r] \in [kind : {"guarded"}, path : Paths]
    /\ pc[r] = "user" => ask[r] \in [kind : {"page"}]
                                   \cup [kind : {"guarded"}, path : Paths]
    /\ pc[r] = "where" => ask[r] \in [kind : {"login", "github"}]
    /\ pc[r] = "state" => ask[r] \in [kind : {"github"}] /\ answer[r].to \in Locations
    /\ pc[r] = "callback" => ask[r] \in [kind : {"callback"}, state : Requests]
    /\ pc[r] = "session" => ask[r] \in [kind : {"login"}]
                                      \cup [kind : {"callback"}, state : Requests]


\* The types that StoreTypes does not have.
OtherTypes ==
  /\ held \subseteq Requests
  /\ answer \in [Requests -> Answers]
  /\ anonymous \in [Tokens -> Paths \cup {NoRow, NoPath}]
  /\ sessions \subseteq Tokens
  /\ states \in [Requests -> Locations \cup {NoRow}]
  /\ faults \in 0..MaxFaults
  /\ away \in [token : Tokens \cup {None}, path : Paths \cup {None}]
  /\ want \in [Requests -> Locations \cup {None}]
  /\ crossed \in BOOLEAN

LEMMA TypesInit == Init => OtherTypes /\ Working
<1> SUFFICES ASSUME Init PROVE OtherTypes /\ Working
  OBVIOUS
<1>1. answer \in [Requests -> Answers] /\ faults \in 0..MaxFaults
  BY SessionsAssumption DEF Init, Answers, NoAnswer
<1>2. Working
  BY DEF Init, Working
<1> QED
  BY <1>1, <1>2 DEF Init, OtherTypes, Tokens, Locations

LEMMA OtherTypesStep ==
  ASSUME StoreInv, OtherTypes, Working, Next
  PROVE  OtherTypes'
<1> USE SessionsAssumption DEF OtherTypes
<1>0. /\ Tokens = Requests \cup {First} /\ Locations = Paths \cup {Home, Blank}
      /\ StoreTypes /\ AtWork /\ sent \in [Requests -> Cookies]
  BY DEF Tokens, Locations, StoreInv, StoreTypes
\* The answers that are given.
<1>a. /\ NoAnswer \in Answers
      /\ \A a \in Asks : FirstAnswer(a) \in Answers
      /\ \A v \in BOOLEAN \cup Values \cup {None} : [NoAnswer EXCEPT !.value = v] \in Answers
      /\ [NoAnswer EXCEPT !.sets = "anonymous"] \in Answers
      /\ \A l \in Locations : [NoAnswer EXCEPT !.to = l] \in Answers
  BY DEF NoAnswer, Answers, FirstAnswer
<1>b. ASSUME NEW r \in Requests
      PROVE  /\ [answer[r] EXCEPT !.sets = "session"] \in Answers
             /\ \A l \in Locations : [answer[r] EXCEPT !.to = l] \in Answers
  BY DEF Answers
<1>c. ASSUME NEW r \in Requests, NEW a \in Answers, Give(r, a)
      PROVE  answer' \in [Requests -> Answers]
  BY <1>c DEF Give
<1>d. Fault => faults' \in 0..MaxFaults
  BY DEF Fault
<1>1. CASE CookieExpires
  BY <1>1, <1>d DEF CookieExpires, tables, history
<1>2. ASSUME NEW r \in Requests, Send(r)
      PROVE  OtherTypes'
  <2>1. answer' \in [Requests -> Answers]
    BY <1>2, <1>a, <1>c DEF Send
  <2> QED
    BY <1>2, <2>1 DEF Send, tables
<1>3. ASSUME NEW r \in Requests, Answer(r) \/ AnswerLost(r)
      PROVE  OtherTypes'
  <2>1. answer' \in [Requests -> Answers]
    BY <1>3, <1>a, <1>c DEF Answer, AnswerLost, Over
  <2>2. want' \in [Requests -> Locations \cup {None}]
    BY <1>3 DEF Answer, AnswerLost, Over
  <2> QED
    BY <1>3, <1>d, <2>1, <2>2 DEF Answer, AnswerLost, Over, tables
<1>4. ASSUME NEW r \in Requests, LookUpUser(r) \/ LookUpUserFails(r)
      PROVE  OtherTypes'
  BY <1>4, <1>d DEF LookUpUser, LookUpUserFails, tables, history
<1>5. ASSUME NEW r \in Requests, InsertAnonymous(r) \/ InsertAnonymousFails(r)
      PROVE  OtherTypes'
  <2>1. answer' \in [Requests -> Answers]
    BY <1>5, <1>a, <1>c DEF InsertAnonymous, InsertAnonymousFails
  <2>2. anonymous' \in [Tokens -> Paths \cup {NoRow, NoPath}]
    BY <1>5 DEF InsertAnonymous, InsertAnonymousFails, tables
  <2> QED
    BY <1>5, <1>d, <2>1, <2>2 DEF InsertAnonymous, InsertAnonymousFails, tables, history
<1>6. ASSUME NEW r \in Requests, Remember(r) \/ RememberFails(r)
      PROVE  OtherTypes'
  <2>1. sent[r].anonymous \in Tokens \cup {None} /\ ask[r].path \in Paths
    BY <1>0, <1>6 DEF Cookies, Working, Remember, RememberFails, OtherTypes
  <2>2. CASE Remember(r)
    <3>1. anonymous' \in [Tokens -> Paths \cup {NoRow, NoPath}]
      BY <2>1, <2>2 DEF Remember
    <3>2. away' \in [token : Tokens \cup {None}, path : Paths \cup {None}]
      BY <2>1, <2>2 DEF Remember
    <3> QED
      BY <2>2, <3>1, <3>2 DEF Remember
  <2>3. CASE RememberFails(r)
    BY <2>3, <1>d DEF RememberFails, tables, history
  <2> QED
    BY <1>6, <2>2, <2>3
<1>7. ASSUME NEW r \in Requests, GetStore(r) \/ GetStoreFails(r)
      PROVE  OtherTypes'
  <2>1. pc[r] = "get" => store[sent[r].session][ask[r].key] \in Values \cup {None}
    BY <1>0 DEF AtWork, Gets, StoreTypes, Data
  <2>2. answer' \in [Requests -> Answers]
    BY <1>7, <1>a, <1>c, <2>1 DEF GetStore, GetStoreFails
  <2> QED
    BY <1>7, <1>d, <2>2 DEF GetStore, GetStoreFails, tables, history
<1>8. ASSUME NEW r \in Requests, ReadStore(r) \/ ReadStoreFails(r)
      PROVE  OtherTypes'
  BY <1>8, <1>d DEF ReadStore, ReadStoreFails, tables
<1>9. ASSUME NEW r \in Requests, WriteStore(r) \/ WriteStoreFails(r)
      PROVE  OtherTypes'
  <2>1. answer' \in [Requests -> Answers]
    BY <1>9, <1>a, <1>c DEF WriteStore, WriteStoreFails
  <2> QED
    BY <1>9, <1>d, <2>1 DEF WriteStore, WriteStoreFails, tables
<1>10. ASSUME NEW r \in Requests, CreateSession(r) \/ CreateSessionFails(r)
       PROVE  OtherTypes'
  <2>1. answer' \in [Requests -> Answers]
    BY <1>10, <1>a, <1>b, <1>c DEF CreateSession, CreateSessionFails
  <2> QED
    BY <1>0, <1>10, <1>d, <2>1 DEF CreateSession, CreateSessionFails, tables, history
<1>11. ASSUME NEW r \in Requests, FindReturnPath(r) \/ FindReturnPathFails(r)
       PROVE  OtherTypes'
  <2>1. sent[r].anonymous \in Tokens \cup {None}
    BY <1>0 DEF Cookies
  <2>2. ReturnPath(r) \in Locations /\ Expected(r) \in Locations \cup {None}
    BY <1>0, <2>1 DEF ReturnPath, Expected
  <2>3. answer' \in [Requests -> Answers]
    BY <1>0, <1>11, <1>b, <1>c, <2>2 DEF FindReturnPath, FindReturnPathFails
  <2>4. want' \in [Requests -> Locations \cup {None}]
    BY <1>11, <2>2 DEF FindReturnPath, FindReturnPathFails, history
  <2> QED
    BY <1>11, <1>d, <2>3, <2>4 DEF FindReturnPath, FindReturnPathFails, tables, history
<1>12. ASSUME NEW r \in Requests, StoreState(r) \/ StoreStateFails(r)
       PROVE  OtherTypes'
  <2>1. pc[r] = "state" => answer[r].to \in Locations
    BY DEF Working
  <2>2. answer' \in [Requests -> Answers]
    BY <1>12, <1>a, <1>c DEF StoreState, StoreStateFails
  <2>3. states' \in [Requests -> Locations \cup {NoRow}]
    BY <1>12, <2>1 DEF StoreState, StoreStateFails, tables
  <2> QED
    BY <1>12, <1>d, <2>2, <2>3 DEF StoreState, StoreStateFails, tables, history
<1>13. ASSUME NEW r \in Requests, ConsumeState(r) \/ ConsumeStateFails(r)
       PROVE  OtherTypes'
  <2>1. pc[r] = "callback" => ask[r].state \in Requests
    BY DEF Working
  <2>2. CASE ConsumeState(r)
    <3>1. answer' \in [Requests -> Answers]
      BY <1>a, <1>c, <2>1, <2>2 DEF ConsumeState
    <3>2. /\ states' \in [Requests -> Locations \cup {NoRow}]
          /\ want' \in [Requests -> Locations \cup {None}]
      BY <2>1, <2>2 DEF ConsumeState
    <3> QED
      BY <2>2, <3>1, <3>2 DEF ConsumeState
  <2>3. CASE ConsumeStateFails(r)
    BY <2>3, <1>d DEF ConsumeStateFails, tables, history
  <2> QED
    BY <1>13, <2>2, <2>3
<1>14. ASSUME NEW r \in Requests, DeleteSession(r) \/ DeleteSessionFails(r)
       PROVE  OtherTypes'
  BY <1>14, <1>d DEF DeleteSession, DeleteSessionFails, tables, history
<1> QED
  BY <1>1, <1>2, <1>3, <1>4, <1>5, <1>6, <1>7, <1>8, <1>9, <1>10, <1>11, <1>12,
     <1>13, <1>14 DEF Next, Query, QueryFails

LEMMA WorkingStep ==
  ASSUME StoreInv, OtherTypes, Working, Next
  PROVE  Working'
<1>0. /\ pc \in [Requests -> Labels] /\ ask \in [Requests -> Asks \cup {None}]
      /\ answer \in [Requests -> Answers]
      /\ Locations = Paths \cup {Home, Blank}
  BY DEF StoreInv, StoreTypes, OtherTypes, Locations
<1> USE <1>0 DEF Working, Goto
\* A step that moves one request to a label that asks for nothing.
<1>1. ASSUME NEW r \in Requests, NEW l, pc' = [pc EXCEPT ![r] = l],
             l \notin {"update", "user", "where", "state", "callback", "session"},
             \A q \in Requests \ {r} : ask'[q] = ask[q] /\ answer'[q] = answer[q]
      PROVE  Working'
  BY <1>1
<1>2. CASE CookieExpires
  BY <1>2 DEF CookieExpires
<1>3. ASSUME NEW r \in Requests, Send(r)
      PROVE  Working'
  <2>1. PICK a \in Asks :
          /\ ask' = [ask EXCEPT ![r] = a] /\ pc' = [pc EXCEPT ![r] = FirstStep(a)]
          /\ answer' = [answer EXCEPT ![r] = FirstAnswer(a)]
    BY <1>3 DEF Send, Give
  <2>2. /\ FirstStep(a) \notin {"update", "state"}
        /\ FirstStep(a) = "user" => a \in [kind : {"page"}]
                                         \cup [kind : {"guarded"}, path : Paths]
        /\ FirstStep(a) = "where" => a \in [kind : {"login", "github"}]
        /\ FirstStep(a) = "callback" => a \in [kind : {"callback"}, state : Requests]
        /\ FirstStep(a) = "session" => a \in [kind : {"login"}]
    BY DEF FirstStep, FirstQuery, Asks
  <2> QED
    BY <2>1, <2>2
<1>4. ASSUME NEW r \in Requests, Answer(r) \/ AnswerLost(r)
      PROVE  Working'
  BY <1>1, <1>4 DEF Answer, AnswerLost, Over, Give
<1>5. ASSUME NEW r \in Requests, LookUpUser(r) \/ LookUpUserFails(r)
      PROVE  Working'
  <2>1. /\ UNCHANGED <<ask, answer>>
        /\ pc[r] = "user"
        /\ \E l \in {"answer", "insert", "update"} :
             /\ pc' = [pc EXCEPT ![r] = l]
             /\ l = "update" => ask[r].kind = "guarded"
    BY <1>5 DEF LookUpUser, LookUpUserFails, ShowPage, TurnAway, history
  <2> QED
    BY <2>1
<1>6. ASSUME NEW r \in Requests, InsertAnonymous(r) \/ InsertAnonymousFails(r)
      PROVE  Working'
  BY <1>1, <1>6 DEF InsertAnonymous, InsertAnonymousFails, Give
<1>7. ASSUME NEW r \in Requests, Remember(r) \/ RememberFails(r)
      PROVE  Working'
  BY <1>1, <1>7 DEF Remember, RememberFails
<1>8. ASSUME NEW r \in Requests, GetStore(r) \/ GetStoreFails(r)
      PROVE  Working'
  BY <1>1, <1>8 DEF GetStore, GetStoreFails, Give
<1>9. ASSUME NEW r \in Requests, ReadStore(r) \/ ReadStoreFails(r)
      PROVE  Working'
  BY <1>1, <1>9 DEF ReadStore, ReadStoreFails
<1>10. ASSUME NEW r \in Requests, WriteStore(r) \/ WriteStoreFails(r)
       PROVE  Working'
  BY <1>1, <1>10 DEF WriteStore, WriteStoreFails, Give
<1>11. ASSUME NEW r \in Requests, CreateSession(r)
       PROVE  Working'
  <2>1. /\ ask' = ask
        /\ pc' = [pc EXCEPT ![r] = IF ask[r].kind = "login" THEN "where" ELSE "answer"]
        /\ \A q \in Requests \ {r} : answer'[q] = answer[q]
        /\ ask[r] \in [kind : {"login"}] \cup [kind : {"callback"}, state : Requests]
    BY <1>11 DEF CreateSession, Give
  <2>2. CASE ask[r].kind = "login"
    <3>1. ask[r] \in [kind : {"login", "github"}]
      BY <2>1, <2>2
    <3> QED
      BY <2>1, <2>2, <3>1
  <2>3. CASE ask[r].kind # "login"
    BY <2>1, <2>3, <1>1
  <2> QED
    BY <2>2, <2>3
<1>12. ASSUME NEW r \in Requests, FindReturnPath(r) \/ FindReturnPathFails(r)
       PROVE  Working'
  <2>1. ReturnPath(r) \in Locations
    BY DEF ReturnPath, OtherTypes, StoreInv, StoreTypes, Cookies
  <2>2. PICK l \in Locations : answer' = [answer EXCEPT ![r] = [answer[r] EXCEPT !.to = l]]
    BY <1>12, <2>1 DEF FindReturnPath, FindReturnPathFails, Give
  <2>3. answer'[r].to \in Locations
    BY <2>2 DEF Answers
  <2>4. /\ ask' = ask /\ ask[r] \in [kind : {"login", "github"}]
        /\ pc' = [pc EXCEPT ![r] = IF ask[r].kind = "login" THEN "answer" ELSE "state"]
    BY <1>12 DEF FindReturnPath, FindReturnPathFails
  <2>5. CASE ask[r].kind = "login"
    BY <2>2, <2>4, <2>5, <1>1
  <2>6. CASE ask[r].kind # "login"
    <3>1. ask[r] \in [kind : {"github"}]
      BY <2>4, <2>6
    <3> QED
      BY <2>2, <2>3, <2>4, <2>6, <3>1
  <2> QED
    BY <2>5, <2>6
<1>13. ASSUME NEW r \in Requests, StoreState(r) \/ StoreStateFails(r)
       PROVE  Working'
  BY <1>1, <1>13 DEF StoreState, StoreStateFails, Give
<1>14. ASSUME NEW r \in Requests, ConsumeState(r) \/ ConsumeStateFails(r)
       PROVE  Working'
  <2>1. /\ ask' = ask /\ pc[r] = "callback"
        /\ \E l \in {"answer", "session"} : pc' = [pc EXCEPT ![r] = l]
        /\ \A q \in Requests \ {r} : answer'[q] = answer[q]
    BY <1>14 DEF ConsumeState, ConsumeStateFails, Give
  <2> QED
    BY <2>1
<1>15. ASSUME NEW r \in Requests,
              DeleteSession(r) \/ DeleteSessionFails(r) \/ CreateSessionFails(r)
       PROVE  Working'
  BY <1>1, <1>15 DEF DeleteSession, DeleteSessionFails, CreateSessionFails, Give
<1> QED
  BY <1>2, <1>3, <1>4, <1>5, <1>6, <1>7, <1>8, <1>9, <1>10, <1>11, <1>12, <1>13,
     <1>14, <1>15 DEF Next, Query, QueryFails

TypeInv == StoreInv /\ OtherTypes /\ Working

LEMMA TypeInvAlways == Spec => []TypeInv
<1>1. Init => TypeInv
  BY StoreInit, TypesInit DEF TypeInv
<1>2. TypeInv /\ [Next]_vars => TypeInv'
  <2> SUFFICES ASSUME TypeInv, [Next]_vars PROVE TypeInv'
    OBVIOUS
  <2>1. CASE Next
    BY <2>1, StoreStep, OtherTypesStep, WorkingStep DEF TypeInv
  <2>2. CASE UNCHANGED vars
    <3>1. OtherTypes' /\ Working'
      BY <2>2 DEF TypeInv, vars, tables, history, OtherTypes, Working
    <3> QED
      BY <2>2, <3>1, StoreStep DEF TypeInv
  <2> QED
    BY <2>1, <2>2
<1> QED
  BY <1>1, <1>2, PTL DEF Spec

(* The variables keep their types.                                         *)
THEOREM SessionsTypeOK == Spec => []TypeOK
<1>1. TypeInv => TypeOK
  BY DEF TypeInv, StoreInv, StoreTypes, OtherTypes, TypeOK
<1> QED
  BY <1>1, TypeInvAlways, PTL

(* So tables and cookies are what they may be, and the store in each row   *)
(* is right, for any number of requests, keys and faults.                  *)
THEOREM StoreIsSound == Spec => []StoreSound
  BY SessionsTypeOK, StoreIsQuiet, PTL DEF StoreSound

(* getStore gives the value that was set last, with the same exception.    *)
THEOREM StoreGivesLast == Spec => ReadsLastSet
<1> DEFINE Right ==
      \A r \in Requests :
        GetStore(r) /\ ask[r].key \notin torn[sent[r].session]
          => answer'[r].value = ideal[sent[r].session][ask[r].key]
<1>1. TypeInv => Right
  <2> SUFFICES ASSUME TypeInv, NEW r \in Requests, GetStore(r),
                      ask[r].key \notin torn[sent[r].session]
               PROVE  answer'[r].value = ideal[sent[r].session][ask[r].key]
    OBVIOUS
  <2>1. ask[r].key \in Keys /\ sent[r].session \in Tokens
    BY DEF GetStore, TypeInv, StoreInv, AtWork, Gets
  <2>2. answer'[r].value = store[sent[r].session][ask[r].key]
    BY DEF GetStore, Give, TypeInv, OtherTypes, NoAnswer
  <2> QED
    BY <2>1, <2>2 DEF TypeInv, StoreInv, QuietStore
<1>2. TypeInv => [Right]_vars
  BY <1>1
<1> QED
  BY <1>2, TypeInvAlways, PTL DEF ReadsLastSet

-----------------------------------------------------------------------------
\* No fault so far, and no two requests without an anonymous session at once.
Calm == faults = 0 /\ ~crossed

\* Only one request may yet get an anonymous session.
OneNewcomer ==
  \A q, r \in Requests :
    /\ UnderWay(q) /\ sent[q].anonymous = None
    /\ UnderWay(r) /\ sent[r].anonymous = None
    => q = r

\* The requests know the browser's session.
SessionIsKnown ==
  \A r \in Requests : UnderWay(r) => sent[r].anonymous = jar.anonymous

\* Its row has the page that the browser was last turned away from.
RowIsRight ==
  IF away.token = None
  THEN jar.anonymous # None => anonymous[jar.anonymous] = NoPath
  ELSE /\ away.token = jar.anonymous /\ away.path \in Paths
       /\ anonymous[jar.anonymous] = away.path

\* A new session comes with a row of its own, to a browser that has none.
NewSession ==
  \A r \in Requests :
    /\ answer[r].sets = "anonymous" =>
         pc[r] = "answer" /\ sent[r].anonymous = None /\ anonymous[r] = NoPath
    /\ pc[r] = "insert" => sent[r].anonymous = None
    /\ pc[r] = "update" => sent[r].anonymous # None

AnswersRight ==
  \A r \in Requests : answer[r].to # None => answer[r].to = want[r]

\* A state token carries the place the browser expects.
StatesRight ==
  \A r \in Requests : states[r] # NoRow =>
    /\ states[r] = want[r]
    /\ pc[r] \in {"answer", "over"}
    /\ pc[r] = "answer" => ask[r].kind = "github"

PathInv ==
  Calm => /\ OneNewcomer /\ SessionIsKnown /\ RowIsRight /\ NewSession
          /\ AnswersRight /\ StatesRight

LEMMA PathInit == Init => PathInv
BY SessionsAssumption
   DEF Init, PathInv, OneNewcomer, SessionIsKnown, RowIsRight, NewSession,
       AnswersRight, StatesRight, UnderWay, NoAnswer, NoCookies

\* A step of a calm browser that concerns neither the cookies nor the places.
LEMMA PathElsewhere ==
  ASSUME TypeInv, PathInv, Calm, NEW r \in Requests, NEW l \in Labels,
         l \notin {"unsent", "over", "insert", "update"},
         pc[r] \notin {"unsent", "over", "answer"}, pc' = [pc EXCEPT ![r] = l],
         UNCHANGED <<jar, ask, sent, anonymous, states, away, want>>,
         \A q \in Requests \ {r} : answer'[q] = answer[q],
         answer'[r].sets # "anonymous",
         answer'[r].to = None \/ answer'[r].to = answer[r].to
  PROVE  PathInv'
<1>1. pc \in [Requests -> Labels]
  BY DEF TypeInv, StoreInv, StoreTypes
<1>2. \A q \in Requests : UnderWay(q)' = UnderWay(q)
  BY <1>1 DEF UnderWay
<1>3. OneNewcomer' /\ SessionIsKnown'
  BY <1>2 DEF PathInv, OneNewcomer, SessionIsKnown
<1>4. RowIsRight'
  BY DEF PathInv, RowIsRight
<1>5. NewSession'
  BY <1>1 DEF PathInv, NewSession
<1>6. AnswersRight'
  BY DEF PathInv, AnswersRight
<1>7. StatesRight'
  BY <1>1 DEF PathInv, StatesRight
<1> QED
  BY <1>3, <1>4, <1>5, <1>6, <1>7 DEF PathInv

LEMMA PathStep ==
  ASSUME TypeInv, PathInv, Next
  PROVE  PathInv'
<1> SUFFICES ASSUME Calm' PROVE PathInv'
  BY DEF PathInv
<1> USE SessionsAssumption
<1>1. /\ faults \in Nat /\ crossed \in BOOLEAN /\ faults' = 0 /\ ~crossed'
      /\ jar \in Cookies /\ pc \in [Requests -> Labels]
      /\ ask \in [Requests -> Asks \cup {None}] /\ sent \in [Requests -> Cookies]
      /\ answer \in [Requests -> Answers]
      /\ anonymous \in [Tokens -> Paths \cup {NoRow, NoPath}]
      /\ states \in [Requests -> Locations \cup {NoRow}]
      /\ want \in [Requests -> Locations \cup {None}]
      /\ Tokens = Requests \cup {First}
  BY DEF Calm, TypeInv, StoreInv, StoreTypes, OtherTypes, Tokens
<1>2. ~Fault
  BY <1>1 DEF Fault
<1>3. ~CookieExpires /\ \A r \in Requests : ~QueryFails(r) /\ ~AnswerLost(r)
  BY <1>2 DEF CookieExpires, AnswerLost, QueryFails, LookUpUserFails,
              InsertAnonymousFails, RememberFails, GetStoreFails, ReadStoreFails,
              WriteStoreFails, CreateSessionFails, FindReturnPathFails,
              StoreStateFails, ConsumeStateFails, DeleteSessionFails
<1>4. ASSUME NEW r \in Requests, Send(r) PROVE PathInv'
  <2>1. Calm
    BY <1>1, <1>4 DEF Send, Calm
  <2>2. PICK a \in Asks :
          /\ ask' = [ask EXCEPT ![r] = a] /\ pc' = [pc EXCEPT ![r] = FirstStep(a)]
          /\ answer' = [answer EXCEPT ![r] = FirstAnswer(a)]
    BY <1>4 DEF Send, Give, Goto
  <2>3. /\ pc[r] = "unsent" /\ sent' = [sent EXCEPT ![r] = jar]
        /\ UNCHANGED <<jar, anonymous, states, away, want>>
        /\ jar.anonymous = None =>
             ~\E q \in Requests : UnderWay(q) /\ sent[q].anonymous = None
    BY <1>1, <1>4 DEF Send, tables
  <2>4. FirstStep(a) \in Labels \ {"unsent", "over", "insert", "update"}
    BY DEF FirstStep, FirstQuery, Asks, Labels
  <2>5. \A q \in Requests \ {r} : /\ UnderWay(q)' = UnderWay(q)
                                   /\ sent'[q] = sent[q]
    BY <1>1, <2>2, <2>3 DEF UnderWay
  <2>6. sent'[r] = jar
    BY <1>1, <2>3
  <2>7. SessionIsKnown'
    BY <2>1, <2>3, <2>5, <2>6 DEF PathInv, SessionIsKnown
  <2>8. OneNewcomer'
    BY <2>1, <2>3, <2>5, <2>6 DEF PathInv, OneNewcomer
  <2>9. RowIsRight'
    BY <2>1, <2>3 DEF PathInv, RowIsRight
  <2>10. /\ answer'[r].sets # "anonymous" /\ answer'[r].to = None
         /\ \A q \in Requests \ {r} : answer'[q] = answer[q]
    BY <1>1, <2>2 DEF FirstAnswer, NoAnswer
  <2>11. NewSession'
    BY <1>1, <2>1, <2>2, <2>3, <2>4, <2>5, <2>10 DEF PathInv, NewSession
  <2>12. AnswersRight'
    BY <2>1, <2>3, <2>10 DEF PathInv, AnswersRight
  <2>13. StatesRight'
    BY <1>1, <2>1, <2>2, <2>3 DEF PathInv, StatesRight
  <2> QED
    BY <2>7, <2>8, <2>9, <2>11, <2>12, <2>13 DEF PathInv
<1>5. ASSUME NEW r \in Requests, Answer(r) PROVE PathInv'
  <2>1. /\ Calm
        /\ pc[r] = "answer" /\ pc' = [pc EXCEPT ![r] = "over"]
        /\ ask' = [ask EXCEPT ![r] = None]
        /\ sent' = [sent EXCEPT ![r] = NoCookies]
        /\ answer' = [answer EXCEPT ![r] = NoAnswer]
        /\ want' = [want EXCEPT ![r] = IF ask[r].kind = "github" THEN @ ELSE None]
        /\ jar' = SetCookies(r)
        /\ UNCHANGED <<anonymous, states, away>>
    BY <1>1, <1>5 DEF Answer, Over, Give, Goto, Calm, tables
  <2>2. /\ ~UnderWay(r)'
        /\ \A q \in Requests \ {r} : /\ UnderWay(q)' = UnderWay(q)
                                      /\ sent'[q] = sent[q]
        /\ UnderWay(r)
    BY <1>1, <2>1 DEF UnderWay
  <2>3. OneNewcomer'
    BY <2>1, <2>2 DEF PathInv, OneNewcomer
  <2>4. SessionIsKnown' /\ RowIsRight'
    <3>1. CASE answer[r].sets = "anonymous"
      <4>1. /\ jar.anonymous = None /\ jar'.anonymous = r /\ anonymous[r] = NoPath
            /\ sent[r].anonymous = None
        BY <2>1, <2>2, <3>1 DEF PathInv, NewSession, SessionIsKnown, SetCookies
      <4>2. \A q \in Requests : ~UnderWay(q)'
        BY <2>1, <2>2, <4>1 DEF PathInv, OneNewcomer, SessionIsKnown
      <4>3. SessionIsKnown'
        BY <4>2 DEF SessionIsKnown
      <4>4. RowIsRight'
        BY <2>1, <4>1 DEF PathInv, RowIsRight
      <4> QED
        BY <4>3, <4>4
    <3>2. CASE answer[r].sets # "anonymous"
      <4>1. jar'.anonymous = jar.anonymous
        BY <2>1, <3>2 DEF SetCookies
      <4>2. SessionIsKnown'
        BY <2>1, <2>2, <4>1 DEF PathInv, SessionIsKnown
      <4>3. RowIsRight'
        BY <2>1, <4>1 DEF PathInv, RowIsRight
      <4> QED
        BY <4>2, <4>3
    <3> QED
      BY <3>1, <3>2
  <2>6. NewSession'
    BY <1>1, <2>1, <2>2 DEF PathInv, NewSession, NoAnswer
  <2>7. AnswersRight'
    BY <1>1, <2>1 DEF PathInv, AnswersRight, NoAnswer
  <2>8. StatesRight'
    BY <1>1, <2>1 DEF PathInv, StatesRight
  <2> QED
    BY <2>3, <2>4, <2>6, <2>7, <2>8 DEF PathInv
<1>6. ASSUME NEW r \in Requests, LookUpUser(r) PROVE PathInv'
  <2>1. /\ Calm /\ pc[r] = "user"
        /\ UNCHANGED <<jar, ask, sent, answer, anonymous, states, away, want>>
        /\ \E l \in {"answer", "insert", "update"} :
             /\ pc' = [pc EXCEPT ![r] = l]
             /\ l = "insert" => sent[r].anonymous = None
             /\ l = "update" => sent[r].anonymous # None
    BY <1>1, <1>6 DEF LookUpUser, ShowPage, TurnAway, Goto, Calm, tables, history
  <2>2. \A q \in Requests : UnderWay(q)' = UnderWay(q)
    BY <1>1, <2>1 DEF UnderWay
  <2>3. OneNewcomer' /\ SessionIsKnown'
    BY <2>1, <2>2 DEF PathInv, OneNewcomer, SessionIsKnown
  <2>4. RowIsRight' /\ AnswersRight'
    BY <2>1 DEF PathInv, RowIsRight, AnswersRight
  <2>5. NewSession'
    BY <1>1, <2>1 DEF PathInv, NewSession
  <2>6. StatesRight'
    BY <1>1, <2>1 DEF PathInv, StatesRight
  <2> QED
    BY <2>3, <2>4, <2>5, <2>6 DEF PathInv
<1>7. ASSUME NEW r \in Requests, InsertAnonymous(r) PROVE PathInv'
  <2>1. /\ Calm /\ pc[r] = "insert" /\ pc' = [pc EXCEPT ![r] = "answer"]
        /\ UNCHANGED <<jar, ask, sent, states, away, want>>
        /\ anonymous' = [anonymous EXCEPT ![r] = NoPath]
        /\ answer' = [answer EXCEPT ![r] = [NoAnswer EXCEPT !.sets = "anonymous"]]
    BY <1>1, <1>7 DEF InsertAnonymous, Give, Goto, Calm, history
  <2>2. /\ \A q \in Requests : UnderWay(q)' = UnderWay(q)
        /\ UnderWay(r)
    BY <1>1, <2>1 DEF UnderWay
  <2>3. jar.anonymous = None /\ sent[r].anonymous = None
    BY <2>1, <2>2 DEF PathInv, NewSession, SessionIsKnown
  <2>4. OneNewcomer' /\ SessionIsKnown'
    BY <2>1, <2>2 DEF PathInv, OneNewcomer, SessionIsKnown
  <2>5. RowIsRight'
    <3>1. away.token = None
      BY <2>1, <2>3 DEF PathInv, RowIsRight
    <3> QED
      BY <2>1, <2>3, <3>1 DEF RowIsRight
  <2>6. AnswersRight'
    BY <1>1, <2>1 DEF PathInv, AnswersRight, NoAnswer
  <2>7. NewSession'
    BY <1>1, <2>1, <2>3 DEF PathInv, NewSession
  <2>8. StatesRight'
    BY <1>1, <2>1 DEF PathInv, StatesRight
  <2> QED
    BY <2>4, <2>5, <2>6, <2>7, <2>8 DEF PathInv
<1>8. ASSUME NEW r \in Requests, Remember(r) PROVE PathInv'
  <2> DEFINE t == sent[r].anonymous
  <2>1. /\ Calm /\ pc[r] = "update" /\ pc' = [pc EXCEPT ![r] = "answer"]
        /\ UNCHANGED <<jar, ask, sent, answer, states, want>>
        /\ anonymous' = [anonymous EXCEPT ![t] = IF @ = NoRow THEN NoRow ELSE ask[r].path]
        /\ away' = [token |-> t, path |-> ask[r].path]
        /\ ask[r].path \in Paths
    BY <1>1, <1>8 DEF Remember, Goto, Calm, TypeInv, Working
  <2>2. /\ \A q \in Requests : UnderWay(q)' = UnderWay(q)
        /\ UnderWay(r)
    BY <1>1, <2>1 DEF UnderWay
  <2>3. t = jar.anonymous /\ t # None /\ t \in Tokens
    BY <1>1, <2>1, <2>2 DEF PathInv, NewSession, SessionIsKnown, Cookies
  <2>4. OneNewcomer' /\ SessionIsKnown'
    BY <2>1, <2>2 DEF PathInv, OneNewcomer, SessionIsKnown
  <2>5. anonymous[t] # NoRow
    BY <2>1, <2>3 DEF PathInv, RowIsRight, NoRow, NoPath
  <2>6. anonymous'[t] = ask[r].path
    BY <1>1, <2>1, <2>3, <2>5
  <2>7. RowIsRight'
    BY <2>1, <2>3, <2>6 DEF RowIsRight
  <2>8. AnswersRight'
    BY <2>1 DEF PathInv, AnswersRight
  <2>9. NewSession'
    <3> SUFFICES ASSUME NEW q \in Requests, answer[q].sets = "anonymous"
                 PROVE  /\ pc'[q] = "answer" /\ sent[q].anonymous = None
                        /\ anonymous'[q] = NoPath
      BY <1>1, <2>1 DEF PathInv, NewSession
    <3>1. /\ pc[q] = "answer" /\ sent[q].anonymous = None /\ anonymous[q] = NoPath
          /\ UnderWay(q)
      BY <2>1 DEF PathInv, NewSession, UnderWay
    <3>2. jar.anonymous = None
      BY <2>1, <3>1 DEF PathInv, SessionIsKnown
    <3> QED
      BY <2>3, <3>2
  <2>10. StatesRight'
    BY <1>1, <2>1 DEF PathInv, StatesRight
  <2> QED
    BY <2>4, <2>7, <2>8, <2>9, <2>10 DEF PathInv
<1>9. ASSUME NEW r \in Requests, FindReturnPath(r) PROVE PathInv'
  <2>1. /\ Calm /\ pc[r] = "where"
        /\ UNCHANGED <<jar, ask, sent, anonymous, states, away>>
        /\ want' = [want EXCEPT ![r] = Expected(r)]
        /\ answer' = [answer EXCEPT ![r] = [answer[r] EXCEPT !.to = ReturnPath(r)]]
        /\ \E l \in {"answer", "state"} : pc' = [pc EXCEPT ![r] = l]
    BY <1>1, <1>9 DEF FindReturnPath, Give, Goto, Calm, tables
  <2>2. /\ \A q \in Requests : UnderWay(q)' = UnderWay(q)
        /\ UnderWay(r)
    BY <1>1, <2>1 DEF UnderWay
  <2>3. ReturnPath(r) = Expected(r)
    <3>1. sent[r].anonymous = jar.anonymous
      BY <2>1, <2>2 DEF PathInv, SessionIsKnown
    <3> QED
      BY <2>1, <3>1 DEF PathInv, RowIsRight, ReturnPath, Expected, NoRow, NoPath
  <2>4. OneNewcomer' /\ SessionIsKnown'
    BY <2>1, <2>2 DEF PathInv, OneNewcomer, SessionIsKnown
  <2>5. RowIsRight'
    BY <2>1 DEF PathInv, RowIsRight
  <2>6. AnswersRight'
    <3>1. answer'[r].to = want'[r]
      BY <1>1, <2>1, <2>3 DEF Answers
    <3>2. \A q \in Requests \ {r} : answer'[q] = answer[q] /\ want'[q] = want[q]
      BY <1>1, <2>1
    <3> QED
      BY <2>1, <3>1, <3>2 DEF PathInv, AnswersRight
  <2>7. NewSession'
    <3>1. answer'[r].sets = answer[r].sets
      BY <1>1, <2>1 DEF Answers
    <3> QED
      BY <1>1, <2>1, <3>1 DEF PathInv, NewSession
  <2>8. StatesRight'
    BY <1>1, <2>1 DEF PathInv, StatesRight
  <2> QED
    BY <2>4, <2>5, <2>6, <2>7, <2>8 DEF PathInv
<1>10. ASSUME NEW r \in Requests, StoreState(r) PROVE PathInv'
  <2>1. /\ Calm /\ pc[r] = "state" /\ pc' = [pc EXCEPT ![r] = "answer"]
        /\ UNCHANGED <<jar, ask, sent, anonymous, away, want>>
        /\ states' = [states EXCEPT ![r] = answer[r].to]
        /\ answer' = [answer EXCEPT ![r] = [NoAnswer EXCEPT !.value = TRUE]]
        /\ ask[r].kind = "github" /\ answer[r].to \in Locations
    BY <1>1, <1>10 DEF StoreState, Give, Goto, Calm, TypeInv, Working, history
  <2>2. \A q \in Requests : UnderWay(q)' = UnderWay(q)
    BY <1>1, <2>1 DEF UnderWay
  <2>3. OneNewcomer' /\ SessionIsKnown'
    BY <2>1, <2>2 DEF PathInv, OneNewcomer, SessionIsKnown
  <2>4. RowIsRight'
    BY <2>1 DEF PathInv, RowIsRight
  <2>5. AnswersRight' /\ NewSession'
    BY <1>1, <2>1 DEF PathInv, AnswersRight, NewSession, NoAnswer
  <2>6. answer[r].to = want[r]
    BY <2>1 DEF PathInv, AnswersRight, Locations
  <2>7. StatesRight'
    BY <1>1, <2>1, <2>6 DEF PathInv, StatesRight
  <2> QED
    BY <2>3, <2>4, <2>5, <2>7 DEF PathInv
<1>11. ASSUME NEW r \in Requests, ConsumeState(r) PROVE PathInv'
  <2> DEFINE g == ask[r].state
  <2>1. /\ Calm /\ pc[r] = "callback" /\ g \in Requests
        /\ UNCHANGED <<jar, ask, sent, anonymous, away>>
        /\ \E l \in {"answer", "session"} : pc' = [pc EXCEPT ![r] = l]
        /\ states' = [states EXCEPT ![g] = NoRow]
    BY <1>1, <1>11 DEF ConsumeState, Goto, Calm, TypeInv, Working
  <2>2. \/ UNCHANGED <<answer, want>>
        \/ /\ states[g] # NoRow
           /\ answer' = [answer EXCEPT ![r] = [NoAnswer EXCEPT !.to = states[g]]]
           /\ want' = [want EXCEPT ![r] = want[g]]
    BY <1>11 DEF ConsumeState, Give
  <2>3. \A q \in Requests : UnderWay(q)' = UnderWay(q)
    BY <1>1, <2>1 DEF UnderWay
  <2>4. OneNewcomer' /\ SessionIsKnown'
    BY <2>1, <2>3 DEF PathInv, OneNewcomer, SessionIsKnown
  <2>5. RowIsRight'
    BY <2>1 DEF PathInv, RowIsRight
  <2>6. AnswersRight'
    BY <1>1, <2>1, <2>2 DEF PathInv, AnswersRight, StatesRight, NoAnswer
  <2>7. NewSession'
    BY <1>1, <2>1, <2>2 DEF PathInv, NewSession, NoAnswer
  <2>8. StatesRight'
    <3> SUFFICES ASSUME NEW q \in Requests, states'[q] # NoRow
                 PROVE  /\ states'[q] = want'[q] /\ pc'[q] \in {"answer", "over"}
                        /\ pc'[q] = "answer" => ask'[q].kind = "github"
      BY DEF StatesRight
    <3>1. /\ states'[q] = states[q] /\ states[q] # NoRow
      BY <1>1, <2>1
    <3>2. /\ states[q] = want[q] /\ pc[q] \in {"answer", "over"}
          /\ pc[q] = "answer" => ask[q].kind = "github"
      BY <2>1, <3>1 DEF PathInv, StatesRight
    <3>3. q # r
      BY <2>1, <3>2
    <3> QED
      BY <1>1, <2>1, <2>2, <3>1, <3>2, <3>3
  <2> QED
    BY <2>4, <2>5, <2>6, <2>7, <2>8 DEF PathInv
<1>12. ASSUME NEW r \in Requests,
              GetStore(r) \/ ReadStore(r) \/ WriteStore(r) \/ DeleteSession(r)
       PROVE  PathInv'
  <2>1. /\ Calm /\ pc[r] \in {"get", "read", "merge", "delete"}
        /\ \E l \in {"answer", "merge"} : pc' = [pc EXCEPT ![r] = l]
        /\ UNCHANGED <<jar, ask, sent, anonymous, states, away, want>>
        /\ answer' = answer
             \/ \E v : answer' = [answer EXCEPT ![r] = [NoAnswer EXCEPT !.value = v]]
    BY <1>1, <1>12 DEF GetStore, ReadStore, WriteStore, DeleteSession, Goto, Give,
                       Calm, tables, history
  <2>2. \A q \in Requests \ {r} : answer'[q] = answer[q]
    BY <1>1, <2>1
  <2>3. /\ answer'[r].sets # "anonymous"
        /\ answer'[r].to = None \/ answer'[r].to = answer[r].to
    BY <1>1, <2>1 DEF PathInv, NewSession, NoAnswer
  <2>4. PICK l \in {"answer", "merge"} : pc' = [pc EXCEPT ![r] = l]
    BY <2>1
  <2>5. l \in Labels /\ l \notin {"unsent", "over", "insert", "update"}
    BY DEF Labels
  <2>6. pc[r] \notin {"unsent", "over", "answer"}
    BY <2>1
  <2> QED
    BY <2>1, <2>2, <2>3, <2>4, <2>5, <2>6, PathElsewhere
<1>13. ASSUME NEW r \in Requests, CreateSession(r)
       PROVE  PathInv'
  <2>1. /\ Calm /\ pc[r] = "session"
        /\ \E l \in {"answer", "where"} : pc' = [pc EXCEPT ![r] = l]
        /\ UNCHANGED <<jar, ask, sent, anonymous, states, away, want>>
        /\ answer' = [answer EXCEPT ![r] = [answer[r] EXCEPT !.sets = "session"]]
    BY <1>1, <1>13 DEF CreateSession, Goto, Give, Calm, history
  <2>2. /\ \A q \in Requests \ {r} : answer'[q] = answer[q]
        /\ answer'[r].sets # "anonymous" /\ answer'[r].to = answer[r].to
    BY <1>1, <2>1 DEF Answers
  <2>3. PICK l \in {"answer", "where"} : pc' = [pc EXCEPT ![r] = l]
    BY <2>1
  <2>4. l \in Labels /\ l \notin {"unsent", "over", "insert", "update"}
    BY DEF Labels
  <2>5. pc[r] \notin {"unsent", "over", "answer"}
    BY <2>1
  <2> QED
    BY <2>1, <2>2, <2>3, <2>4, <2>5, PathElsewhere
<1> QED
  BY <1>3, <1>4, <1>5, <1>6, <1>7, <1>8, <1>9, <1>10, <1>11, <1>12, <1>13
     DEF Next, Query

(* After a login the browser is where it was turned away, unless it made   *)
(* two first visits at once, or something failed.                          *)
THEOREM LoginsLeadBack == Spec => []LedBack
<1>1. TypeInv /\ PathInv => LedBack
  BY DEF PathInv, Calm, AnswersRight, LedBack
<1>2. TypeInv /\ PathInv /\ [Next]_vars => PathInv'
  <2> SUFFICES ASSUME TypeInv, PathInv, [Next]_vars PROVE PathInv'
    OBVIOUS
  <2>1. CASE Next
    BY <2>1, PathStep
  <2>2. CASE UNCHANGED vars
    BY <2>2 DEF vars, tables, history, PathInv, Calm, OneNewcomer, SessionIsKnown,
                RowIsRight, NewSession, AnswersRight, StatesRight, UnderWay
  <2> QED
    BY <2>1, <2>2
<1> QED
  BY <1>1, <1>2, PathInit, TypeInvAlways, PTL DEF Spec
=============================================================================
