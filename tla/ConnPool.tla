------------------------------ MODULE ConnPool ------------------------------
(***************************************************************************)
(* The connection pool of src/src/server/db_pool.c, used by the request    *)
(* threads of the HTTP daemon through getDbConnection / releaseConnection  *)
(* of src/src/server/db.c.                                                 *)
(*                                                                         *)
(* A thread's pc says where it is:                                         *)
(*   idle     not in the pool's code and holding nothing                   *)
(*   get      called getConnection, waiting for pool->lock                 *)
(*   scan     inside the lock, walking the list                            *)
(*   claim    found conn[t] idle, about to set its in_use                  *)
(*   connect  found none, inside createConnection                          *)
(*   link     connected conn[t], about to push it on the list              *)
(*   using    the lock is released, conn[t] is leased                      *)
(*   return   called returnConnection, waiting for pool->lock              *)
(*   check    inside the lock, looking at PQstatus                         *)
(*   release  about to clear in_use and unlock                             *)
(*                                                                         *)
(* session[c] says whether the server still serves c, status[c] is what    *)
(* PQstatus tells: libpq only learns that a session is gone when it uses   *)
(* the connection, so status may be "ok" on a session that is "down".      *)
(***************************************************************************)
EXTENDS Naturals, Sequences

CONSTANTS
  Threads,       \* the daemon's worker threads
  Conns,         \* the PooledConnection structs that can be allocated
  InitialSize,   \* INITIAL_POOL_SIZE
  MaxSize,       \* pool->max_size (MAX_POOL_SIZE)
  MaxFaults,     \* bound on the faults of the database server and network
  NoThread,      \* pool->lock is free
  NoConn         \* NULL

ASSUME PoolAssumption ==
  /\ InitialSize \in Nat \ {0}
  /\ MaxSize \in Nat
  /\ InitialSize <= MaxSize
  /\ MaxFaults \in Nat
  /\ NoThread \notin Threads
  /\ NoConn \notin Conns

VARIABLES
  connections,   \* pool->connections, the head of the list first
  size,          \* pool->size
  inUse,         \* the in_use flag of every PooledConnection
  lock,          \* holder of pool->lock
  pc,            \* where each thread is
  conn,          \* the thread's PooledConnection pointer
  status,        \* PQstatus of every PGconn
  session,       \* the server's side of every connection
  serverUp,      \* whether the database server accepts connections
  faults,        \* faults that have happened
  phase          \* "running", "stopping" (daemon stopped), "closed"

poolVars == <<connections, size, inUse, lock, pc, conn>>
linkVars == <<status, session>>
envVars  == <<serverUp, faults, phase>>
vars == <<connections, size, inUse, lock, pc, conn,
          status, session, serverUp, faults, phase>>

PC == {"idle", "get", "scan", "claim", "connect", "link",
       "using", "return", "check", "release"}

Listed == {connections[i] : i \in 1..Len(connections)}

(* The locations inside the critical sections of pool->lock. *)
InLock == {"scan", "claim", "connect", "link", "check", "release"}

(* The locations at which the thread owns the connection it points to. *)
InLease == {"using", "return", "check", "release"}

TypeOK ==
  /\ connections \in Seq(Conns)
  /\ size \in Nat
  /\ inUse \in [Conns -> BOOLEAN]
  /\ lock \in Threads \cup {NoThread}
  /\ pc \in [Threads -> PC]
  /\ conn \in [Threads -> Conns \cup {NoConn}]
  /\ status \in [Conns -> {"ok", "bad"}]
  /\ session \in [Conns -> {"up", "down"}]
  /\ serverUp \in BOOLEAN
  /\ faults \in Nat
  /\ phase \in {"running", "stopping", "closed"}

-----------------------------------------------------------------------------
(* initConnectionPool: up to InitialSize connections, stopping at the first *)
(* that fails; a pool without any is not a pool and the server does not    *)
(* start (module Lifecycle).                                                *)
Init ==
  \E n \in 1..InitialSize :
    /\ connections \in [1..n -> Conns]
    /\ \A i, j \in 1..n : connections[i] = connections[j] => i = j
    /\ size = n
    /\ inUse = [c \in Conns |-> FALSE]
    /\ lock = NoThread
    /\ pc = [t \in Threads |-> "idle"]
    /\ conn = [t \in Threads |-> NoConn]
    /\ status = [c \in Conns |-> "ok"]
    /\ session = [c \in Conns |-> IF c \in Listed THEN "up" ELSE "down"]
    /\ serverUp = TRUE
    /\ faults = 0
    /\ phase = "running"

Goto(t, l) == pc' = [pc EXCEPT ![t] = l]

FreeIndices == {i \in 1..Len(connections) : ~inUse[connections[i]]}

Fault == faults < MaxFaults /\ faults' = faults + 1

-----------------------------------------------------------------------------
(* getConnection *)

(* A request needs the database. *)
BeginGet(t) ==
  /\ phase = "running"
  /\ pc[t] = "idle"
  /\ Goto(t, "get")
  /\ UNCHANGED <<connections, size, inUse, lock, conn, linkVars, envVars>>

(* Mutant: the search for an idle connection is made outside the lock. *)
LockForGet_NoWait(t) ==
  /\ pc[t] = "get"
  /\ lock' = t
  /\ Goto(t, "scan")
  /\ UNCHANGED <<connections, size, inUse, conn, linkVars, envVars>>

LockForGet(t) ==
  /\ pc[t] = "get"
  /\ lock = NoThread
  /\ lock' = t
  /\ Goto(t, "scan")
  /\ UNCHANGED <<connections, size, inUse, conn, linkVars, envVars>>

(* The walk from the head stops at the first connection not in use. *)
FindFree(t) ==
  /\ pc[t] = "scan"
  /\ \E i \in FreeIndices :
       /\ \A j \in FreeIndices : i <= j
       /\ conn' = [conn EXCEPT ![t] = connections[i]]
  /\ Goto(t, "claim")
  /\ UNCHANGED <<connections, size, inUse, lock, linkVars, envVars>>

(* Mutant: the found connection is returned without marking it. *)
Claim_Unmarked(t) ==
  /\ pc[t] = "claim"
  /\ lock' = NoThread
  /\ Goto(t, "using")
  /\ UNCHANGED <<connections, size, inUse, conn, linkVars, envVars>>

Claim(t) ==
  /\ pc[t] = "claim"
  /\ inUse' = [inUse EXCEPT ![conn[t]] = TRUE]
  /\ lock' = NoThread
  /\ Goto(t, "using")
  /\ UNCHANGED <<connections, size, conn, linkVars, envVars>>

MayGrow == size < MaxSize

(* Every connection is in use: a new one is made if there is room. *)
StartConnect(t) ==
  /\ pc[t] = "scan"
  /\ FreeIndices = {}
  /\ MayGrow
  /\ Goto(t, "connect")
  /\ UNCHANGED <<connections, size, inUse, lock, conn, linkVars, envVars>>

(* There is no room: the caller gets NULL at once, nobody waits. *)
GiveUp(t) ==
  /\ pc[t] = "scan"
  /\ FreeIndices = {}
  /\ ~MayGrow
  /\ lock' = NoThread
  /\ Goto(t, "idle")
  /\ UNCHANGED <<connections, size, inUse, conn, linkVars, envVars>>

(* createConnection: PQconnectdb succeeds; the struct is a fresh one. *)
Connect(t) ==
  /\ pc[t] = "connect"
  /\ serverUp
  /\ \E c \in Conns \ Listed :
       /\ conn' = [conn EXCEPT ![t] = c]
       /\ status' = [status EXCEPT ![c] = "ok"]
       /\ session' = [session EXCEPT ![c] = "up"]
       /\ inUse' = [inUse EXCEPT ![c] = FALSE]
  /\ Goto(t, "link")
  /\ UNCHANGED <<connections, size, lock, envVars>>

(* createConnection fails: the server is down or refuses. *)
ConnectFails(t) ==
  /\ pc[t] = "connect"
  /\ IF serverUp THEN Fault ELSE UNCHANGED faults
  /\ lock' = NoThread
  /\ Goto(t, "idle")
  /\ UNCHANGED <<connections, size, inUse, conn, linkVars, serverUp, phase>>

Link(t) ==
  /\ pc[t] = "link"
  /\ inUse' = [inUse EXCEPT ![conn[t]] = TRUE]
  /\ connections' = <<conn[t]>> \o connections
  /\ size' = size + 1
  /\ lock' = NoThread
  /\ Goto(t, "using")
  /\ UNCHANGED <<conn, linkVars, envVars>>

-----------------------------------------------------------------------------
(* The lease, and returnConnection *)

(* Using a connection whose session is gone is how libpq finds out. *)
NoticeBroken(t) ==
  /\ pc[t] = "using"
  /\ session[conn[t]] = "down"
  /\ status' = [status EXCEPT ![conn[t]] = "bad"]
  /\ UNCHANGED <<poolVars, session, envVars>>

BeginReturn(t) ==
  /\ pc[t] = "using"
  /\ Goto(t, "return")
  /\ UNCHANGED <<connections, size, inUse, lock, conn, linkVars, envVars>>

LockForReturn(t) ==
  /\ pc[t] = "return"
  /\ lock = NoThread
  /\ lock' = t
  /\ Goto(t, "check")
  /\ UNCHANGED <<connections, size, inUse, conn, linkVars, envVars>>

StatusOK(t) ==
  /\ pc[t] = "check"
  /\ status[conn[t]] = "ok"
  /\ Goto(t, "release")
  /\ UNCHANGED <<connections, size, inUse, lock, conn, linkVars, envVars>>

(* PQreset opens a new session behind the same PGconn. *)
Reset(t) ==
  /\ pc[t] = "check"
  /\ status[conn[t]] = "bad"
  /\ serverUp
  /\ status' = [status EXCEPT ![conn[t]] = "ok"]
  /\ session' = [session EXCEPT ![conn[t]] = "up"]
  /\ Goto(t, "release")
  /\ UNCHANGED <<connections, size, inUse, lock, conn, envVars>>

(* PQreset fails; the code does not look: the connection is pooled again. *)
ResetFails(t) ==
  /\ pc[t] = "check"
  /\ status[conn[t]] = "bad"
  /\ IF serverUp THEN Fault ELSE UNCHANGED faults
  /\ session' = [session EXCEPT ![conn[t]] = "down"]
  /\ Goto(t, "release")
  /\ UNCHANGED <<connections, size, inUse, lock, conn, status, serverUp, phase>>

(* Mutant: a connection that is still broken keeps its in_use flag. *)
Release_KeepsBroken(t) ==
  /\ pc[t] = "release"
  /\ inUse' = [inUse EXCEPT ![conn[t]] = (status[conn[t]] = "bad")]
  /\ conn' = [conn EXCEPT ![t] = NoConn]
  /\ lock' = NoThread
  /\ Goto(t, "idle")
  /\ UNCHANGED <<connections, size, linkVars, envVars>>

Release(t) ==
  /\ pc[t] = "release"
  /\ inUse' = [inUse EXCEPT ![conn[t]] = FALSE]
  /\ conn' = [conn EXCEPT ![t] = NoConn]
  /\ lock' = NoThread
  /\ Goto(t, "idle")
  /\ UNCHANGED <<connections, size, linkVars, envVars>>

-----------------------------------------------------------------------------
(* The surroundings: the database server, and the end of the daemon. *)

ServerCrash ==
  /\ serverUp
  /\ phase # "closed"
  /\ Fault
  /\ serverUp' = FALSE
  /\ session' = [c \in Conns |-> "down"]
  /\ UNCHANGED <<poolVars, status, phase>>

ServerRestart ==
  /\ ~serverUp
  /\ serverUp' = TRUE
  /\ UNCHANGED <<poolVars, linkVars, faults, phase>>

(* One backend is terminated: an idle timeout, an administrator. *)
SessionLost(c) ==
  /\ session[c] = "up"
  /\ Fault
  /\ session' = [session EXCEPT ![c] = "down"]
  /\ UNCHANGED <<poolVars, status, serverUp, phase>>

(* stopServer: MHD_stop_daemon waits for the requests being handled. *)
StopDaemon ==
  /\ phase = "running"
  /\ phase' = "stopping"
  /\ UNCHANGED <<poolVars, linkVars, serverUp, faults>>

(* closeConnectionPool, once no request is left. *)
Close ==
  /\ phase = "stopping"
  /\ \A t \in Threads : pc[t] = "idle"
  /\ lock = NoThread
  /\ session' = [c \in Conns |-> IF c \in Listed THEN "down" ELSE session[c]]
  /\ status' = [c \in Conns |-> IF c \in Listed THEN "bad" ELSE status[c]]
  /\ phase' = "closed"
  /\ UNCHANGED <<poolVars, serverUp, faults>>

(* The process is over. *)
Closed == phase = "closed" /\ UNCHANGED vars

ThreadStep(t) ==
  \/ BeginGet(t) \/ LockForGet(t) \/ FindFree(t) \/ Claim(t)
  \/ StartConnect(t) \/ GiveUp(t) \/ Connect(t) \/ ConnectFails(t) \/ Link(t)
  \/ NoticeBroken(t) \/ BeginReturn(t) \/ LockForReturn(t)
  \/ StatusOK(t) \/ Reset(t) \/ ResetFails(t) \/ Release(t)

Environment ==
  \/ ServerCrash \/ ServerRestart
  \/ \E c \in Conns : SessionLost(c)
  \/ StopDaemon \/ Close

Next == (\E t \in Threads : ThreadStep(t)) \/ Environment \/ Closed

Spec == Init /\ [][Next]_vars

-----------------------------------------------------------------------------
(* Properties *)

(* Two requests never share a PGconn: libpq connections are not thread     *)
(* safe, and getConnection hands out whatever it sees as idle.             *)
ExclusiveLease ==
  \A t, u \in Threads :
    t # u /\ pc[t] \in InLease /\ pc[u] \in InLease => conn[t] # conn[u]

(* No connection is lost to the pool: one that is flagged in_use is leased *)
(* to a thread that will return it, and a leased one is flagged.           *)
NoLostConnection ==
  \A c \in Conns :
    c \in Listed =>
      (inUse[c] <=> \E t \in Threads : pc[t] \in InLease /\ conn[t] = c)

(* The list and its counter agree, the list has no connection twice, and   *)
(* the pool stays within max_size.                                          *)
PoolBounded ==
  /\ size = Len(connections)
  /\ size <= MaxSize
  /\ \A i, j \in 1..Len(connections) : connections[i] = connections[j] => i = j

(* The books of the pool (flags, list and counter) are right at every step *)
(* of getConnection and returnConnection, whatever fails.                  *)
PoolSound == TypeOK /\ NoLostConnection /\ PoolBounded

(* What the pool promises: module Lease. *)
Promise == INSTANCE Lease
  WITH Limit  <- MaxSize,
       pooled <- Listed,
       held   <- [t \in Threads |-> IF pc[t] \in InLease THEN conn[t] ELSE NoConn]

(* Whatever getConnection, returnConnection and PQreset go through, their  *)
(* callers see grants and releases of connections only.                    *)
ImplementsLease == Promise!Spec
=============================================================================
