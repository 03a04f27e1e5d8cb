------------------------------ MODULE Database ------------------------------
(***************************************************************************)
(* The query layer of src/src/server/db.c on top of ConnPool:              *)
(* executeQuery, executeParameterizedQuery and the cache of prepared       *)
(* statements they share.  While a thread holds a connection, at[t] says   *)
(* how far its query is:                                                    *)
(*   start    the connection was just leased (or there is none)            *)
(*   find     inside stmt_lock, looking the statement up                   *)
(*   new      PQprepare succeeded, the entry is not linked yet             *)
(*   push     the entry points to the old head of the chain, next[t]       *)
(*   exec     outside stmt_lock, about to call PQexecPrepared              *)
(*   done     the query is over, answer[t] is what the caller gets         *)
(*                                                                         *)
(* A cache entry and a prepared statement are the pair <<connection, sql>> *)
(* they stand for: statement names contain a counter and are never reused. *)
(* The hash chains are one chain here: an entry's bucket is its sql's.     *)
(***************************************************************************)
EXTENDS ConnPool

CONSTANTS
  Sqls,      \* texts of parameterised statements
  Rejected,  \* those of Sqls the server refuses to prepare
  Plain      \* a query without parameters, run by executeQuery

ASSUME StatementAssumption == Rejected \subseteq Sqls /\ Plain \notin Sqls

VARIABLES
  query,     \* what each thread was asked to run
  at,        \* see above
  stmtLock,  \* holder of db->stmt_lock
  cache,     \* db->stmt_cache
  next,      \* next[t]: the chain head read by t
  prepared,  \* the statements that exist in the live sessions
  answer     \* outcome of each thread's latest query

stmtVars == <<query, at, stmtLock, cache, next, prepared, answer>>
dbVars == <<vars, stmtVars>>

Entries == Conns \X Sqls

DbTypeOK ==
  /\ TypeOK
  /\ query \in [Threads -> Sqls \cup {Plain}]
  /\ at \in [Threads -> {"start", "find", "new", "push", "exec", "done"}]
  /\ stmtLock \in Threads \cup {NoThread}
  /\ cache \subseteq Entries
  /\ next \in [Threads -> SUBSET Entries]
  /\ prepared \subseteq Entries
  /\ answer \in [Threads -> {"none", "null", "error", "sqlError", "rows"}]
  /\ \A t \in Threads : pc[t] = "using" => conn[t] \in Conns

DbInit ==
  /\ Init
  /\ query = [t \in Threads |-> Plain]
  /\ at = [t \in Threads |-> "start"]
  /\ stmtLock = NoThread
  /\ cache = {}
  /\ next = [t \in Threads |-> {}]
  /\ prepared = {}
  /\ answer = [t \in Threads |-> "none"]

Entry(t) == <<conn[t], query[t]>>
Holding(t, l) == pc[t] = "using" /\ at[t] = l
Move(t, l) == at' = [at EXCEPT ![t] = l]
Answer(t, a) == answer' = [answer EXCEPT ![t] = a]

(* libpq reports CONNECTION_BAD once it has used a connection in vain. *)
Touch(t) ==
  status' = IF session[conn[t]] = "down"
              THEN [status EXCEPT ![conn[t]] = "bad"] ELSE status

-----------------------------------------------------------------------------
(* The pool's steps, seen from here *)

BeginQuery(t) ==
  /\ BeginGet(t)
  /\ \E q \in Sqls \cup {Plain} : query' = [query EXCEPT ![t] = q]
  /\ Answer(t, "none")
  /\ UNCHANGED <<at, stmtLock, cache, next, prepared>>

(* executeQuery refuses a text that is too long or has comment markers,    *)
(* before it asks for a connection.                                        *)
RefuseQuery(t) ==
  /\ phase = "running"
  /\ pc[t] = "idle"
  /\ query' = [query EXCEPT ![t] = Plain]
  /\ Answer(t, "null")
  /\ UNCHANGED <<vars, at, stmtLock, cache, next, prepared>>

(* getDbConnection comes back without a connection. *)
NoConnection(t) ==
  /\ GiveUp(t) \/ ConnectFails(t)
  /\ Answer(t, "null")
  /\ UNCHANGED <<query, at, stmtLock, cache, next, prepared>>

GetStep(t) ==
  /\ LockForGet(t) \/ FindFree(t) \/ Claim(t) \/ StartConnect(t)
       \/ Connect(t) \/ Link(t)
  /\ UNCHANGED stmtVars

(* releaseConnection, when the query is over. *)
Finish(t) ==
  /\ at[t] = "done"
  /\ BeginReturn(t)
  /\ Move(t, "start")
  /\ UNCHANGED <<query, stmtLock, cache, next, prepared, answer>>

(* Mutant: PQstatus is not looked at, so a broken connection stays broken. *)
ReturnStep_NoReset(t) ==
  /\ \/ LockForReturn(t)
     \/ /\ pc[t] = "check"
        /\ Goto(t, "release")
        /\ UNCHANGED <<connections, size, inUse, lock, conn, linkVars, envVars>>
     \/ Release(t)
  /\ UNCHANGED stmtVars

ReturnStep(t) ==
  /\ LockForReturn(t) \/ StatusOK(t) \/ Reset(t) \/ ResetFails(t) \/ Release(t)
  /\ UNCHANGED stmtVars

-----------------------------------------------------------------------------
(* prepareSqlStatement *)

(* Mutant: the chain is searched and extended without stmt_lock. *)
LockStmt_NoWait(t) ==
  /\ Holding(t, "start")
  /\ query[t] # Plain
  /\ stmtLock' = t
  /\ Move(t, "find")
  /\ UNCHANGED <<vars, query, cache, next, prepared, answer>>

LockStmt(t) ==
  /\ Holding(t, "start")
  /\ query[t] # Plain
  /\ stmtLock = NoThread
  /\ stmtLock' = t
  /\ Move(t, "find")
  /\ UNCHANGED <<vars, query, cache, next, prepared, answer>>

(* Mutant: the look-up compares the text only, not the connection. *)
Cached_AnyConnection(t) == \E c \in Conns : <<c, query[t]>> \in cache

(* findPreparedStmt *)
Cached(t) == Entry(t) \in cache

Hit(t) ==
  /\ Holding(t, "find")
  /\ Cached(t)
  /\ stmtLock' = NoThread
  /\ Move(t, "exec")
  /\ UNCHANGED <<vars, query, cache, next, prepared, answer>>

(* PQprepare succeeds. *)
Prepare(t) ==
  /\ Holding(t, "find")
  /\ ~Cached(t)
  /\ session[conn[t]] = "up"
  /\ query[t] \notin Rejected
  /\ prepared' = prepared \cup {Entry(t)}
  /\ Move(t, "new")
  /\ UNCHANGED <<vars, query, stmtLock, cache, next, answer>>

(* Mutant: the failed statement is left without releasing the lock. *)
PrepareFails_KeepsLock(t) ==
  /\ Holding(t, "find")
  /\ ~Cached(t)
  /\ session[conn[t]] = "down" \/ query[t] \in Rejected
  /\ Touch(t)
  /\ Move(t, "done")
  /\ Answer(t, "null")
  /\ UNCHANGED <<poolVars, session, envVars, query, stmtLock, cache, next, prepared>>

(* Mutant: the error path forgets releaseConnection. *)
PrepareFails_NoRelease(t) ==
  /\ Holding(t, "find")
  /\ ~Cached(t)
  /\ session[conn[t]] = "down" \/ query[t] \in Rejected
  /\ Touch(t)
  /\ stmtLock' = NoThread
  /\ Move(t, "start")
  /\ Goto(t, "idle")
  /\ Answer(t, "null")
  /\ UNCHANGED <<connections, size, inUse, lock, conn, session, envVars,
                 query, cache, next, prepared>>

(* PQprepare fails; the caller of the query gets NULL. *)
PrepareFails(t) ==
  /\ Holding(t, "find")
  /\ ~Cached(t)
  /\ session[conn[t]] = "down" \/ query[t] \in Rejected
  /\ Touch(t)
  /\ stmtLock' = NoThread
  /\ Move(t, "done")
  /\ Answer(t, "null")
  /\ UNCHANGED <<poolVars, session, envVars, query, cache, next, prepared>>

(* stmt->next = db->stmt_cache[hash] *)
ReadHead(t) ==
  /\ Holding(t, "new")
  /\ next' = [next EXCEPT ![t] = cache]
  /\ Move(t, "push")
  /\ UNCHANGED <<vars, query, stmtLock, cache, prepared, answer>>

(* db->stmt_cache[hash] = stmt, and the end of the critical section *)
WriteHead(t) ==
  /\ Holding(t, "push")
  /\ cache' = next[t] \cup {Entry(t)}
  /\ next' = [next EXCEPT ![t] = {}]
  /\ stmtLock' = NoThread
  /\ Move(t, "exec")
  /\ UNCHANGED <<vars, query, prepared, answer>>

-----------------------------------------------------------------------------
(* Execution *)

(* PQexecPrepared.  "sqlError" is what the server reports of a statement   *)
(* it knows: a constraint violated, a value of the wrong type.  A name the *)
(* session does not know is an error of the statement too, not of the      *)
(* connection, so PQstatus stays as it is.                                 *)
Execute(t) ==
  /\ Holding(t, "exec")
  /\ Touch(t)
  /\ \E a \in IF session[conn[t]] = "up" /\ Entry(t) \in prepared
               THEN {"rows", "sqlError"} ELSE {"error"} : Answer(t, a)
  /\ Move(t, "done")
  /\ UNCHANGED <<poolVars, session, envVars, query, stmtLock, cache, next, prepared>>

(* executeQuery: PQexec, with NULL for any failure, also for an SQL error. *)
ExecutePlain(t) ==
  /\ Holding(t, "start")
  /\ query[t] = Plain
  /\ Touch(t)
  /\ \E a \in IF session[conn[t]] = "up" THEN {"rows", "null"} ELSE {"null"} : Answer(t, a)
  /\ Move(t, "done")
  /\ UNCHANGED <<poolVars, session, envVars, query, stmtLock, cache, next, prepared>>

-----------------------------------------------------------------------------
(* A session that ends takes its prepared statements with it. *)
SurviveOnly == prepared' = {e \in prepared : session'[e[1]] = "up"}

LoseSessions ==
  /\ ServerCrash \/ \E c \in Conns : SessionLost(c)
  /\ SurviveOnly
  /\ UNCHANGED <<query, at, stmtLock, cache, next, answer>>

(* closeDatabase empties the cache, then closes the pool. *)
CloseDatabase ==
  /\ Close
  /\ stmtLock = NoThread
  /\ cache' = {}
  /\ SurviveOnly
  /\ UNCHANGED <<query, at, stmtLock, next, answer>>

Surroundings ==
  /\ ServerRestart \/ StopDaemon \/ Closed
  /\ UNCHANGED stmtVars

DbThreadStep(t) ==
  \/ BeginQuery(t) \/ RefuseQuery(t)
  \/ NoConnection(t) \/ GetStep(t) \/ Finish(t) \/ ReturnStep(t)
  \/ LockStmt(t) \/ Hit(t) \/ Prepare(t) \/ PrepareFails(t)
  \/ ReadHead(t) \/ WriteHead(t) \/ Execute(t) \/ ExecutePlain(t)

DbNext ==
  \/ \E t \in Threads : DbThreadStep(t)
  \/ LoseSessions \/ CloseDatabase \/ Surroundings

DbSpec == DbInit /\ [][DbNext]_dbVars

(* Every call of libpq returns and a free lock is taken; the administrator *)
(* brings a stopped database server back.                                  *)
DbProgress(t) ==
  \/ NoConnection(t) \/ GetStep(t) \/ Finish(t) \/ ReturnStep(t)
  \/ LockStmt(t) \/ Hit(t) \/ Prepare(t) \/ PrepareFails(t)
  \/ ReadHead(t) \/ WriteHead(t) \/ Execute(t) \/ ExecutePlain(t)

DbFairSpec ==
  /\ DbSpec
  /\ \A t \in Threads : WF_dbVars(DbProgress(t))
  /\ WF_dbVars(ServerRestart /\ UNCHANGED stmtVars)
  /\ WF_dbVars(CloseDatabase)

-----------------------------------------------------------------------------
(* Properties *)

(* No statement is orphaned in a session: whatever was prepared on a live  *)
(* connection can be found again, except by the thread that is about to    *)
(* link it.  A concurrent insertion into the chain never drops one.        *)
NoOrphanStatement ==
  \A e \in prepared \ cache :
    \E t \in Threads : at[t] \in {"new", "push"} /\ Entry(t) = e

(* The cache of statements: what its entries and the threads that work on  *)
(* it may be, and that it loses nothing.  (findPreparedStmt,               *)
(* prepareSqlStatement)                                                    *)
CacheSound == DbTypeOK /\ NoOrphanStatement

(* A parameterised query that reaches its connection fails only by an SQL  *)
(* error of its own or because a session was lost at some time: until      *)
(* then, the statement found in the cache is one that this very            *)
(* connection's session knows.                                             *)
ErrorNeedsLostSession ==
  faults = 0 => \A t \in Threads : answer[t] # "error"

(* db.h:26 and db.c:69 say an entry stands for a statement prepared on its *)
(* connection.  With PQreset that is not so: the PGconn stays, the session *)
(* is a new one, and the entry is never dropped.                           *)
CachedIsPrepared ==
  \A e \in cache :
    session[e[1]] = "up" /\ phase # "closed" => e \in prepared

PlainFailure(t) == ExecutePlain(t) /\ session[conn[t]] = "down"

(* The pool heals: once faults have stopped and the server is back, every  *)
(* connection that was lost costs the queries that meet it, is reset when  *)
(* it is returned, and from some point on no plain query meets one.        *)
PlainQueriesRecover == <>[][\A t \in Threads : ~PlainFailure(t)]_dbVars

(* Whatever the server does, a stopped daemon gets its pool closed: no     *)
(* thread stays behind, blocked on one of the two locks.                   *)
DbStopCompletes == phase = "stopping" ~> phase = "closed"

(* The query layer uses the pool as module ConnPool lets it be used. *)
ImplementsPool == Spec
=============================================================================
