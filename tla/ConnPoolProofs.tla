--------------------------- MODULE ConnPoolProofs ---------------------------
(***************************************************************************)
(* Proofs about the connection pool and about the query layer on top of    *)
(* it, for any number of threads, connections, statements and faults.      *)
(***************************************************************************)
EXTENDS Database, FiniteSetTheorems, TLAPS

(* Exactly the holder of the lock is inside a critical section. *)
LockInv == \A t \in Threads : pc[t] \in InLock <=> lock = t

(* What a thread may rely on about the connection it points to. *)
PointerInv ==
  \A t \in Threads :
    /\ pc[t] \in InLease => conn[t] \in Listed /\ inUse[conn[t]]
    /\ pc[t] = "claim" => conn[t] \in Listed /\ ~inUse[conn[t]]
    /\ pc[t] = "link" => conn[t] \in Conns \ Listed
    /\ pc[t] \in {"connect", "link"} => size < MaxSize

(* The inductive invariant: the flags are the leases, the leases are        *)
(* exclusive, the list is what its counter says.                            *)
PoolInv ==
  /\ TypeOK
  /\ PoolBounded
  /\ LockInv
  /\ PointerInv
  /\ ExclusiveLease
  /\ NoLostConnection

-----------------------------------------------------------------------------
(* The elements of a sequence; Listed is Elems(connections). *)
Elems(s) == {s[i] : i \in 1..Len(s)}

(* Pushing a fresh connection keeps the list free of repetitions and adds   *)
(* just that connection to it.                                               *)
LEMMA PushFresh ==
  ASSUME NEW s \in Seq(Conns), NEW c \in Conns,
         \A i \in 1..Len(s) : s[i] # c,
         \A i, j \in 1..Len(s) : s[i] = s[j] => i = j,
         NEW r \in Seq(Conns), r = <<c>> \o s
  PROVE  /\ Len(r) = Len(s) + 1
         /\ Elems(r) = Elems(s) \cup {c}
         /\ \A i, j \in 1..Len(r) : r[i] = r[j] => i = j
<1>1. r \in Seq(Conns) /\ Len(r) = Len(s) + 1
  OBVIOUS
<1>2. r[1] = c /\ \A i \in 1..Len(s) : r[i + 1] = s[i]
  OBVIOUS
<1>3. \A i \in 2..Len(r) : i - 1 \in 1..Len(s) /\ r[i] = s[i - 1]
  BY <1>1, <1>2
<1>4. Elems(r) = Elems(s) \cup {c}
  <2>1. ASSUME NEW i \in 1..Len(r)
        PROVE  r[i] \in {s[k] : k \in 1..Len(s)} \cup {c}
    BY <1>1, <1>2, <1>3
  <2>2. ASSUME NEW k \in 1..Len(s)
        PROVE  s[k] \in {r[i] : i \in 1..Len(r)}
    <3>1. k + 1 \in 1..Len(r)
      BY <1>1
    <3>2. QED
      BY <3>1, <1>2
  <2>3. c \in {r[i] : i \in 1..Len(r)}
    BY <1>1, <1>2
  <2>4. {r[i] : i \in 1..Len(r)} \subseteq {s[k] : k \in 1..Len(s)} \cup {c}
    BY <2>1
  <2>5. {s[k] : k \in 1..Len(s)} \cup {c} \subseteq {r[i] : i \in 1..Len(r)}
    BY <2>2, <2>3
  <2>6. QED
    BY <2>4, <2>5 DEF Elems
<1>5. ASSUME NEW i \in 1..Len(r), NEW j \in 1..Len(r), r[i] = r[j]
      PROVE  i = j
  <2>1. CASE i = 1
    BY <2>1, <1>1, <1>2, <1>3, <1>5
  <2>2. CASE j = 1
    BY <2>2, <1>1, <1>2, <1>3, <1>5
  <2>3. CASE i # 1 /\ j # 1
    <3>1. i \in 2..Len(r) /\ j \in 2..Len(r)
      BY <2>3, <1>1
    <3>2. i - 1 = j - 1
      BY <3>1, <1>3, <1>5
    <3>3. QED
      BY <3>1, <3>2, <1>1
  <2>4. QED
    BY <2>1, <2>2, <2>3
<1>6. QED
  BY <1>1, <1>4, <1>5

-----------------------------------------------------------------------------
LEMMA InitInv == Init => PoolInv
<1>1. SUFFICES ASSUME Init PROVE PoolInv
  OBVIOUS
<1>2. PICK n \in 1..InitialSize :
        /\ connections \in [1..n -> Conns]
        /\ \A i, j \in 1..n : connections[i] = connections[j] => i = j
        /\ size = n
  BY <1>1 DEF Init
<1>3. connections \in Seq(Conns) /\ Len(connections) = n
  BY <1>2, PoolAssumption
<1>4. /\ inUse = [c \in Conns |-> FALSE]
      /\ lock = NoThread
      /\ pc = [t \in Threads |-> "idle"]
      /\ conn = [t \in Threads |-> NoConn]
      /\ status = [c \in Conns |-> "ok"]
      /\ session = [c \in Conns |-> IF c \in Listed THEN "up" ELSE "down"]
      /\ serverUp = TRUE
      /\ faults = 0
      /\ phase = "running"
  BY <1>1 DEF Init
<1>5. TypeOK
  BY <1>2, <1>3, <1>4, PoolAssumption DEF TypeOK, PC
<1>6. PoolBounded
  BY <1>2, <1>3, PoolAssumption DEF PoolBounded
<1>7. LockInv /\ PointerInv
  BY <1>4, PoolAssumption DEF LockInv, PointerInv, InLock, InLease
<1>8. ExclusiveLease /\ NoLostConnection
  BY <1>4 DEF ExclusiveLease, NoLostConnection, InLease
<1>9. QED
  BY <1>5, <1>6, <1>7, <1>8 DEF PoolInv

-----------------------------------------------------------------------------
(* Steps that move a thread without touching flags, list or pointers. *)
LEMMA MoveInv ==
  ASSUME PoolInv, NEW t \in Threads,
         \/ BeginGet(t) \/ LockForGet(t) \/ StartConnect(t) \/ GiveUp(t)
         \/ ConnectFails(t) \/ BeginReturn(t) \/ LockForReturn(t)
         \/ StatusOK(t) \/ Reset(t) \/ ResetFails(t)
  PROVE  PoolInv'
<1> USE DEF PoolInv, TypeOK
<1>1. UNCHANGED <<connections, size, inUse, conn>> /\ Listed' = Listed
  BY DEF BeginGet, LockForGet, StartConnect, GiveUp, ConnectFails, BeginReturn,
         LockForReturn, StatusOK, Reset, ResetFails, Listed
<1>2. TypeOK'
  BY DEF BeginGet, LockForGet, StartConnect, GiveUp, ConnectFails, BeginReturn,
         LockForReturn, StatusOK, Reset, ResetFails, Goto, Fault, PC,
         envVars, linkVars
<1>3. PoolBounded'
  BY <1>1 DEF PoolBounded
<1>4. \A u \in Threads \ {t} : pc'[u] = pc[u]
  BY DEF BeginGet, LockForGet, StartConnect, GiveUp, ConnectFails, BeginReturn,
         LockForReturn, StatusOK, Reset, ResetFails, Goto
<1>5. LockInv'
  <2>1. /\ pc'[t] \in InLock <=> lock' = t
        /\ lock' \in {lock, t, NoThread}
        /\ lock' = lock \/ lock \in {t, NoThread}
    BY PoolAssumption
    DEF BeginGet, LockForGet, StartConnect, GiveUp, ConnectFails, BeginReturn,
        LockForReturn, StatusOK, Reset, ResetFails, Goto, LockInv, InLock
  <2>2. QED
    BY <2>1, <1>4, PoolAssumption DEF LockInv
<1>6. /\ pc'[t] \in InLease <=> pc[t] \in InLease
      /\ pc'[t] \notin {"claim", "link"}
      /\ pc'[t] = "connect" => size < MaxSize
  BY DEF BeginGet, LockForGet, StartConnect, GiveUp, ConnectFails, BeginReturn,
         LockForReturn, StatusOK, Reset, ResetFails, Goto, InLease, MayGrow
<1>7. PointerInv'
  BY <1>1, <1>4, <1>6 DEF PointerInv, InLease
<1>8. \A u \in Threads : pc'[u] \in InLease <=> pc[u] \in InLease
  BY <1>4, <1>6
<1>9. ExclusiveLease' /\ NoLostConnection'
  BY <1>1, <1>8 DEF ExclusiveLease, NoLostConnection
<1>10. QED
  BY <1>2, <1>3, <1>5, <1>7, <1>9

LEMMA FindFreeInv ==
  ASSUME PoolInv, NEW t \in Threads, FindFree(t)
  PROVE  PoolInv'
<1> USE DEF PoolInv, TypeOK
<1>1. PICK i \in FreeIndices : conn' = [conn EXCEPT ![t] = connections[i]]
  BY DEF FindFree
<1>2. /\ UNCHANGED <<connections, size, inUse, lock, status, session,
                     serverUp, faults, phase>>
      /\ pc[t] = "scan" /\ pc' = [pc EXCEPT ![t] = "claim"]
      /\ Listed' = Listed
  BY DEF FindFree, Goto, Listed, linkVars, envVars
<1>3. connections[i] \in Listed /\ connections[i] \in Conns /\ ~inUse[connections[i]]
  BY <1>1 DEF FreeIndices, Listed
<1>4. TypeOK'
  BY <1>1, <1>2, <1>3 DEF PC
<1>5. PoolBounded' /\ LockInv'
  BY <1>2 DEF PoolBounded, LockInv, InLock
<1>6. PointerInv'
  BY <1>1, <1>2, <1>3 DEF PointerInv, InLease
<1>7. ExclusiveLease' /\ NoLostConnection'
  BY <1>1, <1>2 DEF ExclusiveLease, NoLostConnection, InLease
<1>8. QED
  BY <1>4, <1>5, <1>6, <1>7

(* The flag is set: the lock makes sure nobody else set it meanwhile. *)
LEMMA ClaimInv ==
  ASSUME PoolInv, NEW t \in Threads, Claim(t)
  PROVE  PoolInv'
<1> USE DEF PoolInv, TypeOK
<1>1. /\ UNCHANGED <<connections, size, conn, status, session,
                     serverUp, faults, phase>>
      /\ pc[t] = "claim" /\ pc' = [pc EXCEPT ![t] = "using"]
      /\ lock' = NoThread
      /\ inUse' = [inUse EXCEPT ![conn[t]] = TRUE]
      /\ Listed' = Listed
  BY DEF Claim, Goto, Listed, linkVars, envVars
<1>2. conn[t] \in Listed /\ conn[t] \in Conns /\ ~inUse[conn[t]] /\ lock = t
  BY <1>1 DEF PointerInv, LockInv, InLock, Listed
<1>3. \A u \in Threads \ {t} : pc[u] \notin InLock /\ pc'[u] = pc[u]
  BY <1>1, <1>2 DEF LockInv
<1>4. \A u \in Threads : pc[u] \in InLease => conn[u] # conn[t]
  BY <1>2 DEF PointerInv
<1>5. TypeOK' /\ PoolBounded'
  BY <1>1, <1>2 DEF PC, PoolBounded
<1>6. LockInv'
  BY <1>1, <1>3, PoolAssumption DEF LockInv, InLock
<1>7. PointerInv'
  BY <1>1, <1>2, <1>3, <1>4 DEF PointerInv, InLease, InLock
<1>8. ExclusiveLease'
  BY <1>1, <1>3, <1>4 DEF ExclusiveLease, InLease
<1>9. NoLostConnection'
  BY <1>1, <1>2, <1>3, <1>4 DEF NoLostConnection, InLease
<1>10. QED
  BY <1>5, <1>6, <1>7, <1>8, <1>9

LEMMA ConnectInv ==
  ASSUME PoolInv, NEW t \in Threads, Connect(t)
  PROVE  PoolInv'
<1> USE DEF PoolInv, TypeOK
<1>1. PICK c \in Conns \ Listed :
        /\ conn' = [conn EXCEPT ![t] = c]
        /\ status' = [status EXCEPT ![c] = "ok"]
        /\ session' = [session EXCEPT ![c] = "up"]
        /\ inUse' = [inUse EXCEPT ![c] = FALSE]
  BY DEF Connect
<1>2. /\ UNCHANGED <<connections, size, lock, serverUp, faults, phase>>
      /\ pc[t] = "connect" /\ pc' = [pc EXCEPT ![t] = "link"]
      /\ Listed' = Listed
  BY DEF Connect, Goto, Listed, envVars
<1>3. \A d \in Listed : d \in Conns /\ inUse'[d] = inUse[d]
  <2>1. Listed \subseteq Conns
    BY DEF Listed
  <2>2. QED
    BY <1>1, <2>1
<1>4. TypeOK' /\ PoolBounded'
  BY <1>1, <1>2 DEF PC, PoolBounded
<1>5. LockInv'
  BY <1>2 DEF LockInv, InLock
<1>6. PointerInv'
  BY <1>1, <1>2, <1>3 DEF PointerInv, InLease
<1>7. ExclusiveLease' /\ NoLostConnection'
  BY <1>1, <1>2, <1>3 DEF ExclusiveLease, NoLostConnection, InLease
<1>8. QED
  BY <1>4, <1>5, <1>6, <1>7

LEMMA LinkInv ==
  ASSUME PoolInv, NEW t \in Threads, Link(t)
  PROVE  PoolInv'
<1> USE DEF PoolInv, TypeOK
<1>1. /\ UNCHANGED <<conn, status, session, serverUp, faults, phase>>
      /\ pc[t] = "link" /\ pc' = [pc EXCEPT ![t] = "using"]
      /\ connections' = <<conn[t]>> \o connections
      /\ size' = size + 1
      /\ lock' = NoThread
      /\ inUse' = [inUse EXCEPT ![conn[t]] = TRUE]
  BY DEF Link, Goto, linkVars, envVars
<1>2. conn[t] \in Conns \ Listed /\ size < MaxSize /\ lock = t
  BY <1>1 DEF PointerInv, LockInv, InLock
<1>3. /\ connections' \in Seq(Conns)
      /\ Len(connections') = Len(connections) + 1
      /\ Listed' = Listed \cup {conn[t]}
      /\ \A i, j \in 1..Len(connections') : connections'[i] = connections'[j] => i = j
  <2>1. \A i \in 1..Len(connections) : connections[i] # conn[t]
    BY <1>2 DEF Listed
  <2>2. \A i, j \in 1..Len(connections) : connections[i] = connections[j] => i = j
    BY DEF PoolBounded
  <2>3. connections \in Seq(Conns) /\ conn[t] \in Conns
    BY <1>2
  <2>4. connections' \in Seq(Conns)
    BY <1>1, <2>3
  <2>5. \A r \in Seq(Conns) : r = <<conn[t]>> \o connections =>
          /\ Len(r) = Len(connections) + 1
          /\ Elems(r) = Elems(connections) \cup {conn[t]}
          /\ \A i, j \in 1..Len(r) : r[i] = r[j] => i = j
    BY <2>1, <2>2, <2>3, PushFresh
  <2>6. QED
    BY <1>1, <2>4, <2>5 DEF Listed, Elems
<1>4. \A u \in Threads \ {t} : pc[u] \notin InLock /\ pc'[u] = pc[u]
  BY <1>1, <1>2 DEF LockInv
<1>5. \A u \in Threads : pc[u] \in InLease => conn[u] # conn[t]
  BY <1>2 DEF PointerInv
<1>6. TypeOK'
  BY <1>1, <1>2, <1>3 DEF PC
<1>7. PoolBounded'
  BY <1>1, <1>2, <1>3, PoolAssumption DEF PoolBounded
<1>8. LockInv'
  BY <1>1, <1>4, PoolAssumption DEF LockInv, InLock
<1>9. PointerInv'
  BY <1>1, <1>2, <1>3, <1>4, <1>5 DEF PointerInv, InLease, InLock
<1>10. ExclusiveLease'
  BY <1>1, <1>4, <1>5 DEF ExclusiveLease, InLease
<1>11. NoLostConnection'
  BY <1>1, <1>2, <1>3, <1>4, <1>5 DEF NoLostConnection, InLease
<1>12. QED
  BY <1>6, <1>7, <1>8, <1>9, <1>10, <1>11

(* The flag is cleared: only the lease that ends had this connection. *)
LEMMA ReleaseInv ==
  ASSUME PoolInv, NEW t \in Threads, Release(t)
  PROVE  PoolInv'
<1> USE DEF PoolInv, TypeOK
<1>1. /\ UNCHANGED <<connections, size, status, session, serverUp, faults, phase>>
      /\ pc[t] = "release" /\ pc' = [pc EXCEPT ![t] = "idle"]
      /\ lock' = NoThread
      /\ conn' = [conn EXCEPT ![t] = NoConn]
      /\ inUse' = [inUse EXCEPT ![conn[t]] = FALSE]
      /\ Listed' = Listed
  BY DEF Release, Goto, Listed, linkVars, envVars
<1>2. conn[t] \in Listed /\ conn[t] \in Conns /\ lock = t /\ pc[t] \in InLease
  BY <1>1 DEF PointerInv, LockInv, InLock, InLease, Listed
<1>3. \A u \in Threads \ {t} :
        /\ pc[u] \notin InLock
        /\ pc'[u] = pc[u]
        /\ conn'[u] = conn[u]
        /\ pc[u] \in InLease => conn[u] # conn[t]
  BY <1>1, <1>2 DEF LockInv, ExclusiveLease
<1>4. TypeOK' /\ PoolBounded'
  BY <1>1, <1>2 DEF PC, PoolBounded
<1>5. LockInv'
  BY <1>1, <1>3, PoolAssumption DEF LockInv, InLock
<1>6. PointerInv'
  BY <1>1, <1>2, <1>3 DEF PointerInv, InLease, InLock
<1>7. ExclusiveLease'
  BY <1>1, <1>3 DEF ExclusiveLease, InLease
<1>8. NoLostConnection'
  BY <1>1, <1>2, <1>3 DEF NoLostConnection, InLease
<1>9. QED
  BY <1>4, <1>5, <1>6, <1>7, <1>8

(* Steps of the database server and of the shutdown, and libpq noticing. *)
LEMMA OutsideInv ==
  ASSUME PoolInv,
         \/ \E t \in Threads : NoticeBroken(t)
         \/ Environment
         \/ Closed
         \/ UNCHANGED vars
  PROVE  PoolInv'
<1> USE DEF PoolInv, TypeOK
<1>1. UNCHANGED <<connections, size, inUse, lock, pc, conn>> /\ Listed' = Listed
  BY DEF NoticeBroken, Environment, Closed, vars, ServerCrash, ServerRestart,
         SessionLost, StopDaemon, Close, poolVars, Listed
<1>2. TypeOK'
  <2>1. ASSUME NEW t \in Threads, NoticeBroken(t) PROVE TypeOK'
    BY <2>1, <1>1 DEF NoticeBroken, envVars
  <2>2. CASE ServerCrash
    <3>1. faults' \in Nat /\ serverUp' = FALSE /\ session' = [c \in Conns |-> "down"]
          /\ UNCHANGED <<status, phase>>
      BY <2>2 DEF ServerCrash, Fault
    <3>2. QED
      BY <1>1, <3>1
  <2>3. CASE ServerRestart
    BY <2>3, <1>1 DEF ServerRestart, linkVars
  <2>4. ASSUME NEW c \in Conns, SessionLost(c) PROVE TypeOK'
    BY <2>4, <1>1 DEF SessionLost, Fault
  <2>5. CASE StopDaemon
    BY <2>5, <1>1 DEF StopDaemon, linkVars
  <2>6. CASE Close
    BY <2>6, <1>1 DEF Close
  <2>7. CASE UNCHANGED vars
    BY <2>7 DEF vars
  <2>8. QED
    BY <2>1, <2>2, <2>3, <2>4, <2>5, <2>6, <2>7 DEF Environment, Closed
<1>3. PoolBounded' /\ LockInv' /\ PointerInv' /\ ExclusiveLease' /\ NoLostConnection'
  BY <1>1 DEF PoolBounded, LockInv, PointerInv, ExclusiveLease, NoLostConnection
<1>4. QED
  BY <1>2, <1>3

LEMMA NextInv == PoolInv /\ [Next]_vars => PoolInv'
<1>1. SUFFICES ASSUME PoolInv, [Next]_vars PROVE PoolInv'
  OBVIOUS
<1>2. ASSUME NEW t \in Threads, ThreadStep(t) PROVE PoolInv'
  BY <1>1, <1>2, MoveInv, FindFreeInv, ClaimInv, ConnectInv, LinkInv, ReleaseInv,
     OutsideInv DEF ThreadStep
<1>3. QED
  BY <1>1, <1>2, OutsideInv DEF Next

(* The inductive invariant holds in every reachable state. *)
THEOREM PoolInvariant == Spec => []PoolInv
  BY InitInv, NextInv, PTL DEF Spec

(* Every variable of the pool keeps its type: getConnection and            *)
(* returnConnection never store a dangling pointer or a foreign holder.    *)
THEOREM PoolTypeOK == Spec => []TypeOK
  BY PoolInvariant, PTL DEF PoolInv

(* getConnection never hands a connection to a thread while another one    *)
(* holds it, whatever the interleaving and whatever breaks.                *)
THEOREM LeaseIsExclusive == Spec => []ExclusiveLease
  BY PoolInvariant, PTL DEF PoolInv

(* in_use is set exactly while a thread holds the connection: none of the  *)
(* error paths of getConnection and returnConnection loses one for good.   *)
THEOREM NothingIsLost == Spec => []NoLostConnection
  BY PoolInvariant, PTL DEF PoolInv

(* The list never outgrows max_size, holds nothing twice and agrees with   *)
(* pool->size.                                                              *)
THEOREM PoolStaysBounded == Spec => []PoolBounded
  BY PoolInvariant, PTL DEF PoolInv

(* So the books of the pool are right, for any number of threads and       *)
(* connections, and whatever fails.                                        *)
THEOREM PoolIsSound == Spec => []PoolSound
  BY PoolTypeOK, NothingIsLost, PoolStaysBounded, PTL DEF PoolSound

-----------------------------------------------------------------------------
(* The refinement of module Lease.  Lease counts the pool's connections,   *)
(* the code keeps a counter: they agree.                                    *)
SizeInv == IsFiniteSet(Listed) /\ Cardinality(Listed) = size

(* Lease's Cardinality is ours. *)
LEMMA SameCardinality == \A S : Promise!Cardinality(S) = Cardinality(S)
  BY DEF Promise!Cardinality, Cardinality

LEMMA InitSize == Init => SizeInv
<1>1. SUFFICES ASSUME Init PROVE SizeInv
  OBVIOUS
<1>2. PICK n \in 1..InitialSize :
        /\ connections \in [1..n -> Conns]
        /\ \A i, j \in 1..n : connections[i] = connections[j] => i = j
        /\ size = n
  BY <1>1 DEF Init
<1>3. n \in Nat /\ Len(connections) = n
  BY <1>2, PoolAssumption
<1>4. connections \in Bijection(1..n, Listed)
  BY <1>2, <1>3 DEF Listed, Bijection, Injection, Surjection, IsInjective
<1>5. ExistsBijection(1..n, Listed)
  BY <1>4 DEF ExistsBijection
<1>6. IsFiniteSet(1..n) /\ Cardinality(1..n) = n
  BY <1>3, FS_Interval
<1>7. QED
  BY <1>2, <1>5, <1>6, FS_Bijection DEF SizeInv

(* A step that is not Link leaves the list and the counter alone. *)
LEMMA ListUnchanged ==
  ASSUME [Next]_vars, ~ \E t \in Threads : Link(t)
  PROVE  Listed' = Listed /\ size' = size
<1>1. connections' = connections /\ size' = size
  BY DEF Next, vars, ThreadStep, Environment, Closed, BeginGet, LockForGet,
         FindFree, Claim, StartConnect, GiveUp, Connect, ConnectFails,
         NoticeBroken, BeginReturn, LockForReturn, StatusOK, Reset, ResetFails,
         Release, ServerCrash, ServerRestart, SessionLost, StopDaemon, Close,
         poolVars
<1>2. QED
  BY <1>1 DEF Listed

(* What a Link step does to the set of pooled connections. *)
LEMMA LinkListed ==
  ASSUME PoolInv, NEW t \in Threads, Link(t)
  PROVE  /\ conn[t] \in Conns \ Listed
         /\ Listed' = Listed \cup {conn[t]}
<1>1. pc[t] = "link" /\ connections' = <<conn[t]>> \o connections
  BY DEF Link
<1>2. conn[t] \in Conns \ Listed
  BY <1>1 DEF PoolInv, PointerInv
<1>3. \A i \in 1..Len(connections) : connections[i] # conn[t]
  BY <1>2 DEF Listed
<1>4. connections \in Seq(Conns) /\ conn[t] \in Conns
      /\ connections' \in Seq(Conns)
  BY <1>1, <1>2 DEF PoolInv, TypeOK
<1>5. \A i, j \in 1..Len(connections) : connections[i] = connections[j] => i = j
  BY DEF PoolInv, PoolBounded
<1>6. \A r \in Seq(Conns) : r = <<conn[t]>> \o connections =>
        Elems(r) = Elems(connections) \cup {conn[t]}
  BY <1>3, <1>4, <1>5, PushFresh
<1>7. QED
  BY <1>1, <1>2, <1>4, <1>6 DEF Listed, Elems

LEMMA NextSize == PoolInv /\ SizeInv /\ [Next]_vars => SizeInv'
<1>1. SUFFICES ASSUME PoolInv, SizeInv, [Next]_vars PROVE SizeInv'
  OBVIOUS
<1>2. ASSUME NEW t \in Threads, Link(t) PROVE SizeInv'
  <2>1. conn[t] \notin Listed /\ Listed' = Listed \cup {conn[t]}
    BY <1>1, <1>2, LinkListed
  <2>2. size' = size + 1
    BY <1>2 DEF Link
  <2>3. IsFiniteSet(Listed \cup {conn[t]})
        /\ Cardinality(Listed \cup {conn[t]}) = Cardinality(Listed) + 1
    BY <1>1, <2>1, FS_AddElement DEF SizeInv
  <2>4. QED
    BY <1>1, <2>1, <2>2, <2>3 DEF SizeInv
<1>3. CASE ~ \E t \in Threads : Link(t)
  BY <1>1, <1>3, ListUnchanged DEF SizeInv
<1>4. QED
  BY <1>2, <1>3

(* The lease each thread has, as module Lease sees it. *)
Held == [t \in Threads |-> IF pc[t] \in InLease THEN conn[t] ELSE NoConn]

LEMMA ClaimGrants ==
  ASSUME PoolInv, NEW t \in Threads, Claim(t)
  PROVE  \E c \in Conns : Promise!Grant(t, c)
<1>1. /\ pc[t] = "claim" /\ pc' = [pc EXCEPT ![t] = "using"]
      /\ conn' = conn /\ connections' = connections
  BY DEF Claim, Goto
<1>2. conn[t] \in Listed /\ conn[t] \in Conns /\ ~inUse[conn[t]]
  BY <1>1 DEF PoolInv, PointerInv, TypeOK, Listed
<1>3. Held[t] = NoConn /\ Held' = [Held EXCEPT ![t] = conn[t]]
  BY <1>1 DEF Held, PoolInv, TypeOK, InLease
<1>4. \A u \in Threads : Held[u] # conn[t] \/ Held[u] = NoConn
  BY <1>2 DEF Held, PoolInv, PointerInv
<1>5. conn[t] \notin {Held[u] : u \in Threads} \ {NoConn}
  BY <1>4
<1>6. Listed' = Listed
  BY <1>1 DEF Listed
<1>7. QED
  BY <1>2, <1>3, <1>5, <1>6 DEF Promise!Grant, Promise!Leased, Held

LEMMA LinkGrants ==
  ASSUME PoolInv, SizeInv, NEW t \in Threads, Link(t)
  PROVE  \E c \in Conns : Promise!GrantNew(t, c)
<1>1. /\ pc[t] = "link" /\ pc' = [pc EXCEPT ![t] = "using"] /\ conn' = conn
  BY DEF Link, Goto
<1>2. conn[t] \in Conns \ Listed /\ Listed' = Listed \cup {conn[t]}
  BY LinkListed
<1>3. Held[t] = NoConn /\ Held' = [Held EXCEPT ![t] = conn[t]]
  BY <1>1 DEF Held, PoolInv, TypeOK, InLease
<1>4. Cardinality(Listed) < MaxSize
  BY <1>1 DEF PoolInv, PointerInv, SizeInv
<1>5. QED
  BY <1>2, <1>3, <1>4, SameCardinality DEF Promise!GrantNew, Held

LEMMA ReleaseReleases ==
  ASSUME PoolInv, NEW t \in Threads, Release(t)
  PROVE  Promise!Release(t)
<1>1. /\ pc[t] = "release" /\ pc' = [pc EXCEPT ![t] = "idle"]
      /\ conn' = [conn EXCEPT ![t] = NoConn] /\ connections' = connections
  BY DEF Release, Goto
<1>2. Listed' = Listed
  BY <1>1 DEF Listed
<1>3. conn[t] \in Conns
  BY <1>1 DEF PoolInv, TypeOK, PointerInv, InLease, Listed
<1>4. Held[t] # NoConn
  BY <1>1, <1>3, PoolAssumption DEF Held, InLease
<1>5. Held' = [Held EXCEPT ![t] = NoConn]
  BY <1>1 DEF Held, PoolInv, TypeOK, InLease
<1>6. QED
  BY <1>2, <1>4, <1>5 DEF Promise!Release, Held

(* All other steps are invisible in module Lease. *)
LEMMA OthersStutter ==
  ASSUME PoolInv, [Next]_vars,
         ~ \E t \in Threads : Claim(t) \/ Link(t) \/ Release(t)
  PROVE  Listed' = Listed /\ Held' = Held
<1> USE DEF PoolInv, TypeOK
<1>1. Listed' = Listed
  BY ListUnchanged
<1>2. ASSUME NEW t \in Threads,
             \/ BeginGet(t) \/ LockForGet(t) \/ StartConnect(t) \/ GiveUp(t)
             \/ ConnectFails(t) \/ BeginReturn(t) \/ LockForReturn(t)
             \/ StatusOK(t) \/ Reset(t) \/ ResetFails(t)
      PROVE  Held' = Held
  <2>1. conn' = conn /\ \A u \in Threads : pc'[u] \in InLease <=> pc[u] \in InLease
    BY <1>2 DEF BeginGet, LockForGet, StartConnect, GiveUp, ConnectFails,
                BeginReturn, LockForReturn, StatusOK, Reset, ResetFails, Goto,
                InLease
  <2>2. QED
    BY <2>1 DEF Held
<1>3. ASSUME NEW t \in Threads, FindFree(t) \/ Connect(t)
      PROVE  Held' = Held
  <2>1. /\ \A u \in Threads : pc'[u] \in InLease <=> pc[u] \in InLease
        /\ \A u \in Threads : pc[u] \in InLease => conn'[u] = conn[u]
    BY <1>3 DEF FindFree, Connect, Goto, InLease
  <2>2. QED
    BY <2>1 DEF Held
<1>4. ASSUME \/ \E t \in Threads : NoticeBroken(t)
             \/ Environment \/ Closed \/ UNCHANGED vars
      PROVE  Held' = Held
  <2>1. conn' = conn /\ pc' = pc
    BY <1>4 DEF NoticeBroken, Environment, Closed, vars, ServerCrash,
                ServerRestart, SessionLost, StopDaemon, Close, poolVars
  <2>2. QED
    BY <2>1 DEF Held
<1>5. ASSUME NEW t \in Threads, ThreadStep(t), ~Claim(t), ~Link(t), ~Release(t)
      PROVE  Held' = Held
  BY <1>2, <1>3, <1>4, <1>5 DEF ThreadStep
<1>6. Held' = Held
  <2>1. CASE \E t \in Threads : ThreadStep(t)
    BY <2>1, <1>5
  <2>2. CASE Environment \/ Closed \/ UNCHANGED vars
    BY <2>2, <1>4
  <2>3. QED
    BY <2>1, <2>2 DEF Next
<1>7. QED
  BY <1>1, <1>6

(* The pool implements module Lease: seen from outside, its critical       *)
(* sections, retries and failures only ever grant an idle or a new         *)
(* connection to a thread without one, or take one back.                   *)
THEOREM PoolImplementsLease == Spec => ImplementsLease
<1>1. Init => Promise!Init
  <2>1. SUFFICES ASSUME Init PROVE Promise!Init
    OBVIOUS
  <2>2. Listed \in SUBSET Conns
    BY <2>1, InitInv DEF PoolInv, TypeOK, Listed
  <2>3. Cardinality(Listed) \in 1..MaxSize
    <3>1. size \in 1..InitialSize
      BY <2>1 DEF Init
    <3>2. Cardinality(Listed) = size
      BY <2>1, InitSize DEF SizeInv
    <3>3. QED
      BY <3>1, <3>2, PoolAssumption
  <2>4. Held = [t \in Threads |-> NoConn]
    BY <2>1 DEF Init, Held, InLease
  <2>5. QED
    BY <2>2, <2>3, <2>4, SameCardinality DEF Promise!Init, Held
<1>2. PoolInv /\ SizeInv /\ [Next]_vars => [Promise!Next]_(Promise!vars)
  <2>1. SUFFICES ASSUME PoolInv, SizeInv, [Next]_vars
                 PROVE  [Promise!Next]_(Promise!vars)
    OBVIOUS
  <2>2. ASSUME NEW t \in Threads, Claim(t) PROVE Promise!Next
    BY <2>1, <2>2, ClaimGrants DEF Promise!Next
  <2>3. ASSUME NEW t \in Threads, Link(t) PROVE Promise!Next
    BY <2>1, <2>3, LinkGrants DEF Promise!Next
  <2>4. ASSUME NEW t \in Threads, Release(t) PROVE Promise!Next
    BY <2>1, <2>4, ReleaseReleases DEF Promise!Next
  <2>5. CASE ~ \E t \in Threads : Claim(t) \/ Link(t) \/ Release(t)
    BY <2>1, <2>5, OthersStutter DEF Promise!vars, Held
  <2>6. QED
    BY <2>2, <2>3, <2>4, <2>5
<1>3. Spec => []SizeInv
  BY PoolInvariant, InitSize, NextSize, PTL DEF Spec
<1>4. QED
  BY <1>1, <1>2, <1>3, PoolInvariant, PTL DEF Spec, ImplementsLease, Promise!Spec
-----------------------------------------------------------------------------
(* The query layer: module Database.                                       *)

(* Whatever a thread does with statements, the pool sees one of its own    *)
(* steps or none: a query that meets a lost session is NoticeBroken.       *)
LEMMA QueriesUseThePool == [DbNext]_dbVars => [Next]_vars
<1>1. SUFFICES ASSUME [DbNext]_dbVars PROVE [Next]_vars
  OBVIOUS
<1>2. ASSUME NEW t \in Threads, DbThreadStep(t) PROVE [Next]_vars
  <2>1. CASE BeginQuery(t) \/ NoConnection(t) \/ GetStep(t) \/ Finish(t) \/ ReturnStep(t)
    <3>1. ThreadStep(t)
      BY <2>1 DEF BeginQuery, NoConnection, GetStep, Finish, ReturnStep, ThreadStep
    <3>2. QED
      BY <3>1 DEF Next
  <2>2. CASE \/ LockStmt(t) \/ Hit(t) \/ Prepare(t) \/ ReadHead(t) \/ WriteHead(t)
             \/ RefuseQuery(t)
    BY <2>2 DEF LockStmt, Hit, Prepare, ReadHead, WriteHead, RefuseQuery
  <2>3. CASE PrepareFails(t) \/ Execute(t) \/ ExecutePlain(t)
    <3>1. pc[t] = "using" /\ Touch(t) /\ UNCHANGED <<poolVars, session, envVars>>
      BY <2>3 DEF PrepareFails, Execute, ExecutePlain, Holding
    <3>2. CASE session[conn[t]] = "down"
      <4>1. NoticeBroken(t)
        BY <3>1, <3>2 DEF NoticeBroken, Touch
      <4>2. QED
        BY <4>1 DEF Next, ThreadStep
    <3>3. CASE session[conn[t]] # "down"
      BY <3>1, <3>3 DEF Touch, vars, poolVars, envVars
    <3>4. QED
      BY <3>2, <3>3
  <2>4. QED
    BY <1>2, <2>1, <2>2, <2>3 DEF DbThreadStep
<1>3. CASE LoseSessions \/ CloseDatabase \/ Surroundings
  BY <1>3 DEF LoseSessions, CloseDatabase, Surroundings, Next, Environment
<1>4. CASE UNCHANGED dbVars
  BY <1>4 DEF dbVars
<1>5. QED
  BY <1>1, <1>2, <1>3, <1>4 DEF DbNext

(* The query layer uses the pool as module ConnPool lets it be used, so    *)
(* everything proved above of the pool holds under every query.            *)
THEOREM QueriesImplementPool == DbSpec => ImplementsPool
<1>1. DbInit => Init
  BY DEF DbInit
<1>2. QED
  BY <1>1, QueriesUseThePool, PTL DEF DbSpec, Spec, ImplementsPool

(* Where a thread is in its query, and what it may then rely on.           *)
QueryHolds ==
  \A t \in Threads :
    /\ at[t] # "start" => pc[t] = "using"
    /\ at[t] \in {"find", "new", "push", "exec"} => query[t] \in Sqls
    /\ at[t] \in {"find", "new", "push"} <=> stmtLock = t
    /\ at[t] = "push" => next[t] = cache

(* What PQstatus says, and where prepared statements are. *)
SessionsHold ==
  /\ \A c \in Conns : status[c] = "bad" => session[c] = "down"
  /\ \A e \in prepared : e[1] \in Listed /\ session[e[1]] = "up"
  /\ phase = "closed" => \A t \in Threads : pc[t] = "idle"

(* As long as nothing was lost, every entry of the cache and every         *)
(* statement a thread is about to use is known to the session it names.    *)
Faultless ==
  faults = 0 =>
    /\ serverUp
    /\ phase # "closed" => \A c \in Listed : session[c] = "up"
    /\ cache \subseteq prepared
    /\ \A t \in Threads :
         /\ answer[t] # "error"
         /\ pc[t] = "link" => session[conn[t]] = "up"
         /\ at[t] \in {"new", "push", "exec"} => Entry(t) \in prepared

(* The inductive invariant of the query layer. *)
DbInv ==
  PoolInv /\ DbTypeOK /\ QueryHolds /\ SessionsHold /\ NoOrphanStatement /\ Faultless

LEMMA DbInitInv == DbInit => DbInv
<1>1. SUFFICES ASSUME DbInit PROVE DbInv
  OBVIOUS
<1>2. Init /\ PoolInv
  BY <1>1, InitInv DEF DbInit
<1>3. pc = [t \in Threads |-> "idle"] /\ phase = "running" /\ serverUp
      /\ status = [c \in Conns |-> "ok"]
      /\ session = [c \in Conns |-> IF c \in Listed THEN "up" ELSE "down"]
  BY <1>2 DEF Init
<1>4. DbTypeOK
  BY <1>1, <1>2, <1>3 DEF DbInit, DbTypeOK, PoolInv
<1>5. QueryHolds
  BY <1>1, PoolAssumption DEF DbInit, QueryHolds
<1>6. Listed \subseteq Conns
  BY <1>2 DEF PoolInv, TypeOK, Listed
<1>7. SessionsHold /\ NoOrphanStatement /\ Faultless
  BY <1>1, <1>3, <1>6 DEF DbInit, SessionsHold, NoOrphanStatement, Faultless
<1>8. QED
  BY <1>2, <1>4, <1>5, <1>7 DEF DbInv

(* The steps of the pool, other than those that end a session. *)
PoolMove(t) ==
  \/ BeginGet(t) \/ LockForGet(t) \/ FindFree(t) \/ Claim(t)
  \/ StartConnect(t) \/ GiveUp(t) \/ Connect(t) \/ ConnectFails(t) \/ Link(t)
  \/ BeginReturn(t) \/ LockForReturn(t)
  \/ StatusOK(t) \/ Reset(t) \/ ResetFails(t) \/ Release(t)

(* A thread moves through the pool on its own, and leaves the connection   *)
(* of a query alone.                                                       *)
LEMMA MoveIsLocal ==
  ASSUME PoolInv, NEW t \in Threads, PoolMove(t)
  PROVE  /\ \A u \in Threads \ {t} : pc'[u] = pc[u] /\ conn'[u] = conn[u]
         /\ pc[t] = "using" => BeginReturn(t)
         /\ Listed \subseteq Listed'
         /\ phase' = phase /\ serverUp' = serverUp
         /\ faults' = 0 => faults = 0
         /\ phase = "closed" => pc[t] # "idle"
<1> USE DEF PoolInv, TypeOK
<1>1. Listed \subseteq Listed'
  <2>1. [Next]_vars
    BY DEF Next, ThreadStep, PoolMove
  <2>2. CASE Link(t)
    BY <2>2, LinkListed
  <2>3. CASE ~Link(t)
    <3>1. connections' = connections
      BY <2>3 DEF PoolMove, BeginGet, LockForGet, FindFree, Claim, StartConnect,
         GiveUp, Connect, ConnectFails, BeginReturn, LockForReturn, StatusOK,
         Reset, ResetFails, Release
    <3>2. QED
      BY <3>1 DEF Listed
  <2>4. QED
    BY <2>2, <2>3
<1>2. CASE BeginGet(t) \/ LockForGet(t) \/ StartConnect(t) \/ GiveUp(t) \/ Claim(t)
           \/ Link(t) \/ BeginReturn(t) \/ LockForReturn(t) \/ StatusOK(t)
  <2>1. conn' = conn /\ \E l \in PC : pc' = [pc EXCEPT ![t] = l]
    BY <1>2 DEF BeginGet, LockForGet, StartConnect, GiveUp, Claim, Link,
       BeginReturn, LockForReturn, StatusOK, Goto, PC
  <2>2. UNCHANGED envVars /\ (pc[t] = "using" => BeginReturn(t))
        /\ (phase = "closed" => pc[t] # "idle")
    BY <1>2 DEF BeginGet, LockForGet, StartConnect, GiveUp, Claim, Link,
       BeginReturn, LockForReturn, StatusOK
  <2>3. QED
    BY <1>1, <2>1, <2>2 DEF envVars, PC
<1>3. CASE FindFree(t) \/ Connect(t) \/ Reset(t) \/ Release(t)
  <2>1. \E l \in PC : pc' = [pc EXCEPT ![t] = l]
    BY <1>3 DEF FindFree, Connect, Reset, Release, Goto, PC
  <2>2. \A u \in Threads \ {t} : conn'[u] = conn[u]
    BY <1>3 DEF FindFree, Connect, Reset, Release
  <2>3. UNCHANGED envVars /\ pc[t] \notin {"using", "idle"}
    BY <1>3 DEF FindFree, Connect, Reset, Release
  <2>4. QED
    BY <1>1, <2>1, <2>2, <2>3 DEF envVars, PC
<1>4. CASE ConnectFails(t) \/ ResetFails(t)
  <2>1. conn' = conn /\ \E l \in PC : pc' = [pc EXCEPT ![t] = l]
    BY <1>4 DEF ConnectFails, ResetFails, Goto, PC
  <2>2. /\ phase' = phase /\ serverUp' = serverUp
        /\ faults' = 0 => faults = 0
        /\ pc[t] \notin {"using", "idle"}
    BY <1>4 DEF ConnectFails, ResetFails, Fault
  <2>3. QED
    BY <1>1, <2>1, <2>2 DEF PC
<1>5. QED
  BY <1>2, <1>3, <1>4 DEF PoolMove

(* No step of the pool ends a session that is up: PQreset is only called   *)
(* on a connection that has lost its own.                                  *)
LEMMA MoveKeepsSessions ==
  ASSUME PoolInv, SessionsHold, Faultless, NEW t \in Threads, PoolMove(t)
  PROVE  /\ \A c \in Conns : session[c] = "up" => session'[c] = "up"
         /\ \A c \in Conns : status'[c] = "bad" => session'[c] = "down"
         /\ faults' = 0 => /\ phase # "closed" => \A c \in Listed' : session'[c] = "up"
                           /\ pc'[t] = "link" => session'[conn'[t]] = "up"
<1> USE DEF PoolInv, TypeOK, SessionsHold
<1>1. Listed \subseteq Conns
  BY DEF Listed
<1>2. CASE Link(t)
  <2>1. conn[t] \in Conns /\ Listed' = Listed \cup {conn[t]} /\ pc[t] = "link"
        /\ UNCHANGED <<conn, status, session, faults>> /\ pc'[t] = "using"
    BY <1>2, LinkListed DEF Link, linkVars, envVars, Goto
  <2>2. QED
    BY <2>1 DEF Faultless
<1>3. CASE Connect(t)
  <2>1. PICK c \in Conns \ Listed :
          /\ conn' = [conn EXCEPT ![t] = c]
          /\ status' = [status EXCEPT ![c] = "ok"]
          /\ session' = [session EXCEPT ![c] = "up"]
    BY <1>3 DEF Connect
  <2>2. Listed' = Listed /\ faults' = faults
    BY <1>3 DEF Connect, Listed, envVars
  <2>3. QED
    BY <1>1, <2>1, <2>2 DEF Faultless
<1>4. CASE Reset(t)
  <2>1. conn[t] \in Conns
    BY <1>1, <1>4 DEF Reset, PointerInv, InLease
  <2>2. Listed' = Listed /\ faults' = faults /\ pc'[t] = "release"
        /\ status' = [status EXCEPT ![conn[t]] = "ok"]
        /\ session' = [session EXCEPT ![conn[t]] = "up"]
    BY <1>4 DEF Reset, Listed, envVars, Goto
  <2>3. QED
    BY <1>1, <2>1, <2>2 DEF Faultless
<1>5. CASE ResetFails(t)
  <2>1. conn[t] \in Listed /\ conn[t] \in Conns
    BY <1>1, <1>5 DEF ResetFails, PointerInv, InLease
  <2>2. Listed' = Listed /\ pc'[t] = "release" /\ status[conn[t]] = "bad"
        /\ status' = status
        /\ session' = [session EXCEPT ![conn[t]] = "down"]
        /\ (faults' = 0 => faults = 0 /\ ~serverUp)
    BY <1>5 DEF ResetFails, Listed, Goto, Fault
  <2>3. QED
    BY <1>1, <2>1, <2>2 DEF Faultless
<1>6. CASE ~Link(t) /\ ~Connect(t) /\ ~Reset(t) /\ ~ResetFails(t)
  <2>1. UNCHANGED <<status, session>> /\ connections' = connections /\ pc'[t] # "link"
    BY <1>6 DEF PoolMove, BeginGet, LockForGet, FindFree, Claim, StartConnect,
       GiveUp, ConnectFails, BeginReturn, LockForReturn, StatusOK, Release, Goto,
       linkVars
  <2>2. Listed' = Listed
    BY <2>1 DEF Listed
  <2>3. faults' = 0 => faults = 0
    BY MoveIsLocal
  <2>4. QED
    BY <2>1, <2>2, <2>3 DEF Faultless
<1>7. QED
  BY <1>2, <1>3, <1>4, <1>5, <1>6

(* The pool's steps as the query layer takes them. *)
PoolSide(t) ==
  BeginQuery(t) \/ NoConnection(t) \/ GetStep(t) \/ Finish(t) \/ ReturnStep(t)

(* In such a step every query that is under way stays where it is, unless  *)
(* it is over and its thread returns the connection.                       *)
LEMMA QueriesStandStill ==
  ASSUME DbInv, NEW t \in Threads, PoolSide(t)
  PROVE  /\ PoolMove(t)
         /\ UNCHANGED <<stmtLock, cache, next, prepared>>
         /\ \A u \in Threads :
              at'[u] # "start" => /\ at'[u] = at[u] /\ query'[u] = query[u]
                                  /\ pc'[u] = pc[u] /\ conn'[u] = conn[u]
         /\ \A u \in Threads : at[u] \notin {"start", "done"} => at'[u] = at[u]
         /\ \A u \in Threads : answer'[u] = answer[u] \/ answer'[u] \in {"none", "null"}
         /\ at' \in [Threads -> {"start", "find", "new", "push", "exec", "done"}]
         /\ query' \in [Threads -> Sqls \cup {Plain}]
<1> USE DEF DbInv, DbTypeOK
<1>1. PoolMove(t)
  BY DEF PoolSide, BeginQuery, NoConnection, GetStep, Finish, ReturnStep, PoolMove
<1>2. \A u \in Threads \ {t} : pc'[u] = pc[u] /\ conn'[u] = conn[u]
  BY <1>1, MoveIsLocal
<1>3. CASE Finish(t)
  BY <1>1, <1>2, <1>3 DEF Finish, Move
<1>4. CASE ~Finish(t)
  <2>1. pc[t] # "using"
    BY <1>4 DEF PoolSide, BeginQuery, NoConnection, GetStep, ReturnStep, BeginGet,
       GiveUp, ConnectFails, LockForGet, FindFree, Claim, StartConnect, Connect,
       Link, LockForReturn, StatusOK, Reset, ResetFails, Release
  <2>2. at[t] = "start"
    BY <2>1 DEF QueryHolds
  <2>3. UNCHANGED <<at, stmtLock, cache, next, prepared>>
    BY <1>4 DEF PoolSide, BeginQuery, NoConnection, GetStep, ReturnStep, stmtVars
  <2>4. /\ \A u \in Threads \ {t} : query'[u] = query[u]
        /\ query' \in [Threads -> Sqls \cup {Plain}]
    BY <1>4 DEF PoolSide, BeginQuery, NoConnection, GetStep, ReturnStep, stmtVars
  <2>5. \A u \in Threads : answer'[u] = answer[u] \/ answer'[u] \in {"none", "null"}
    BY <1>4 DEF PoolSide, BeginQuery, NoConnection, GetStep, ReturnStep, stmtVars,
                Answer
  <2>6. QED
    BY <1>1, <1>2, <2>2, <2>3, <2>4, <2>5
<1>5. QED
  BY <1>3, <1>4

LEMMA PoolSideKeeps ==
  ASSUME DbInv, NEW t \in Threads, PoolSide(t)
  PROVE  DbInv'
<1> USE DEF DbInv
<1>1. PoolInv'
  BY NextInv, QueriesUseThePool DEF DbNext, DbThreadStep, PoolSide
<1>2. /\ PoolMove(t)
      /\ UNCHANGED <<stmtLock, cache, next, prepared>>
      /\ \A u \in Threads :
           at'[u] # "start" => /\ at'[u] = at[u] /\ query'[u] = query[u]
                               /\ pc'[u] = pc[u] /\ conn'[u] = conn[u]
      /\ \A u \in Threads : at[u] \notin {"start", "done"} => at'[u] = at[u]
  BY QueriesStandStill
<1>3. /\ \A u \in Threads \ {t} : pc'[u] = pc[u] /\ conn'[u] = conn[u]
      /\ Listed \subseteq Listed' /\ phase' = phase /\ serverUp' = serverUp
      /\ faults' = 0 => faults = 0
      /\ phase = "closed" => pc[t] # "idle"
  BY <1>2, MoveIsLocal
<1>4. /\ \A c \in Conns : session[c] = "up" => session'[c] = "up"
      /\ \A c \in Conns : status'[c] = "bad" => session'[c] = "down"
      /\ faults' = 0 => /\ phase # "closed" => \A c \in Listed' : session'[c] = "up"
                        /\ pc'[t] = "link" => session'[conn'[t]] = "up"
  BY <1>2, MoveKeepsSessions
<1>5. answer' \in [Threads -> {"none", "null", "error", "sqlError", "rows"}]
  BY DEF PoolSide, BeginQuery, NoConnection, GetStep, Finish, ReturnStep, stmtVars,
         Answer, DbTypeOK
<1>6. DbTypeOK'
  <2>1. \A u \in Threads : pc'[u] = "using" => conn'[u] \in Conns
    BY <1>1 DEF PoolInv, PointerInv, InLease, Listed, TypeOK
  <2>2. QED
    BY <1>1, <1>2, <1>5, <2>1, QueriesStandStill DEF DbTypeOK, PoolInv
<1>7. QueryHolds'
  <2> SUFFICES ASSUME NEW u \in Threads
               PROVE  /\ at'[u] # "start" => pc'[u] = "using"
                      /\ at'[u] \in {"find", "new", "push", "exec"} => query'[u] \in Sqls
                      /\ at'[u] \in {"find", "new", "push"} <=> stmtLock' = u
                      /\ at'[u] = "push" => next'[u] = cache'
    BY DEF QueryHolds
  <2> QED
    BY <1>2 DEF QueryHolds
<1>8. SessionsHold'
  <2>1. \A e \in prepared : e[1] \in Conns
    BY DEF DbTypeOK, Entries
  <2>2. QED
    BY <1>2, <1>3, <1>4, <2>1 DEF SessionsHold
<1>9. \A u \in Threads : at'[u] \in {"new", "push", "exec"} <=> at[u] \in {"new", "push", "exec"}
  BY <1>2
<1>10. \A u \in Threads : at'[u] \in {"new", "push", "exec"} => Entry(u)' = Entry(u)
  BY <1>2 DEF Entry
<1>11. NoOrphanStatement'
  <2> SUFFICES ASSUME NEW e \in prepared' \ cache'
               PROVE  \E u \in Threads : at'[u] \in {"new", "push"} /\ Entry(u)' = e
    BY DEF NoOrphanStatement
  <2>1. PICK u \in Threads : at[u] \in {"new", "push"} /\ Entry(u) = e
    BY <1>2 DEF NoOrphanStatement
  <2>2. QED
    BY <1>2, <1>10, <2>1
<1>12. Faultless'
  <2> SUFFICES ASSUME faults' = 0
               PROVE  /\ serverUp'
                      /\ phase' # "closed" => \A c \in Listed' : session'[c] = "up"
                      /\ cache' \subseteq prepared'
                      /\ \A u \in Threads :
                           /\ answer'[u] # "error"
                           /\ pc'[u] = "link" => session'[conn'[u]] = "up"
                           /\ at'[u] \in {"new", "push", "exec"} => Entry(u)' \in prepared'
    BY DEF Faultless
  <2>1. faults = 0
    BY <1>3
  <2>2. ASSUME NEW u \in Threads, u # t, pc'[u] = "link"
        PROVE  session'[conn'[u]] = "up"
    <3>1. pc[u] = "link" /\ conn'[u] = conn[u]
      BY <1>3, <2>2
    <3>2. conn[u] \in Conns
      BY <3>1 DEF PoolInv, PointerInv
    <3>3. QED
      BY <1>4, <2>1, <3>1, <3>2 DEF Faultless
  <2>3. \A u \in Threads : answer'[u] # "error"
    BY <2>1, QueriesStandStill DEF Faultless
  <2>4. QED
    BY <1>2, <1>3, <1>4, <1>9, <1>10, <2>1, <2>2, <2>3 DEF Faultless
<1>13. QED
  BY <1>1, <1>6, <1>7, <1>8, <1>11, <1>12

(* A step on statements changes nothing of the pool but what PQstatus says *)
(* of a connection whose session is down.                                  *)
LEMMA StatementStepsStayInside ==
  ASSUME DbInv, NEW t \in Threads,
         \/ LockStmt(t) \/ Hit(t) \/ Prepare(t) \/ PrepareFails(t)
         \/ ReadHead(t) \/ WriteHead(t) \/ Execute(t) \/ ExecutePlain(t)
  PROVE  /\ PoolInv'
         /\ pc[t] = "using" /\ conn[t] \in Listed /\ conn[t] \in Conns
         /\ UNCHANGED <<pc, conn, session, serverUp, faults, phase, query>>
         /\ Listed' = Listed
         /\ \A c \in Conns : status'[c] = "bad" => session[c] = "down"
         /\ (at[t] \in {"find", "new", "push", "exec"} => Entry(t) \in Entries)
         /\ \A u \in Threads : Entry(u)' = Entry(u)
<1> USE DEF DbInv, PoolInv, TypeOK
<1>1. PoolInv'
  BY NextInv, QueriesUseThePool DEF DbNext, DbThreadStep
<1>2. pc[t] = "using" /\ conn[t] \in Listed /\ conn[t] \in Conns
  <2>1. pc[t] = "using"
    BY DEF LockStmt, Hit, Prepare, PrepareFails, ReadHead, WriteHead, Execute,
           ExecutePlain, Holding
  <2>2. QED
    BY <2>1 DEF PointerInv, InLease, Listed
<1>3. UNCHANGED <<connections, pc, conn, session, serverUp, faults, phase, query>>
  BY DEF LockStmt, Hit, Prepare, PrepareFails, ReadHead, WriteHead, Execute,
         ExecutePlain, vars, poolVars, envVars
<1>4. Listed' = Listed
  BY <1>3 DEF Listed
<1>5. \A c \in Conns : status'[c] = "bad" => session[c] = "down"
  <2>1. status' = status \/ Touch(t)
    BY DEF LockStmt, Hit, Prepare, PrepareFails, ReadHead, WriteHead, Execute,
           ExecutePlain, vars
  <2>2. QED
    BY <1>2, <2>1 DEF Touch, SessionsHold
<1>6. at[t] \in {"find", "new", "push", "exec"} => Entry(t) \in Entries
  BY <1>2 DEF QueryHolds, Entry, Entries
<1>7. \A u \in Threads : Entry(u)' = Entry(u)
  BY <1>3 DEF Entry
<1>8. QED
  BY <1>1, <1>2, <1>3, <1>4, <1>5, <1>6, <1>7

(* Looking a statement up, preparing it and giving up on it.               *)
LEMMA LookupKeeps ==
  ASSUME DbInv, NEW t \in Threads,
         LockStmt(t) \/ Hit(t) \/ Prepare(t) \/ PrepareFails(t)
  PROVE  DbInv'
<1> USE DEF DbInv, DbTypeOK
<1>1. /\ PoolInv'
      /\ pc[t] = "using" /\ conn[t] \in Listed /\ conn[t] \in Conns
      /\ UNCHANGED <<pc, conn, session, serverUp, faults, phase, query>>
      /\ Listed' = Listed
      /\ \A c \in Conns : status'[c] = "bad" => session[c] = "down"
      /\ (at[t] \in {"find", "new", "push", "exec"} => Entry(t) \in Entries)
      /\ \A u \in Threads : Entry(u)' = Entry(u)
  BY StatementStepsStayInside
<1>2. cache' = cache /\ next' = next
  BY DEF LockStmt, Hit, Prepare, PrepareFails
<1>3. CASE LockStmt(t)
  <2>1. /\ at[t] = "start" /\ query[t] \in Sqls
        /\ stmtLock = NoThread /\ stmtLock' = t
        /\ at' = [at EXCEPT ![t] = "find"] /\ UNCHANGED <<prepared, answer>>
    BY <1>3 DEF LockStmt, Holding, Move
  <2>2. DbTypeOK' /\ SessionsHold'
    BY <1>1, <1>2, <2>1 DEF PoolInv, SessionsHold
  <2>3. QueryHolds'
    BY <1>1, <1>2, <2>1, PoolAssumption DEF QueryHolds
  <2>4. NoOrphanStatement' /\ Faultless'
    BY <1>1, <1>2, <2>1 DEF NoOrphanStatement, Faultless
  <2>5. QED
    BY <1>1, <2>2, <2>3, <2>4
<1>4. CASE Hit(t)
  <2>1. /\ at[t] = "find" /\ Entry(t) \in cache /\ stmtLock' = NoThread
        /\ at' = [at EXCEPT ![t] = "exec"] /\ UNCHANGED <<prepared, answer>>
    BY <1>4 DEF Hit, Holding, Move, Cached
  <2>2. DbTypeOK' /\ SessionsHold'
    BY <1>1, <1>2, <2>1 DEF PoolInv, SessionsHold
  <2>3. QueryHolds'
    BY <1>1, <1>2, <2>1, PoolAssumption DEF QueryHolds
  <2>4. NoOrphanStatement' /\ Faultless'
    BY <1>1, <1>2, <2>1 DEF NoOrphanStatement, Faultless
  <2>5. QED
    BY <1>1, <2>2, <2>3, <2>4
<1>5. CASE Prepare(t)
  <2>1. /\ at[t] = "find" /\ session[conn[t]] = "up"
        /\ prepared' = prepared \cup {Entry(t)}
        /\ at' = [at EXCEPT ![t] = "new"] /\ UNCHANGED <<stmtLock, answer>>
    BY <1>5 DEF Prepare, Holding, Move
  <2>2. Entry(t)[1] = conn[t]
    BY DEF Entry
  <2>3. DbTypeOK' /\ SessionsHold'
    BY <1>1, <1>2, <2>1, <2>2 DEF PoolInv, SessionsHold
  <2>4. QueryHolds'
    BY <1>1, <1>2, <2>1 DEF QueryHolds
  <2>5. NoOrphanStatement'
    <3> SUFFICES ASSUME NEW e \in prepared' \ cache'
                 PROVE  \E u \in Threads : at'[u] \in {"new", "push"} /\ Entry(u)' = e
      BY DEF NoOrphanStatement
    <3>1. CASE e = Entry(t)
      BY <1>1, <2>1, <3>1
    <3>2. CASE e # Entry(t)
      <4>1. PICK u \in Threads : at[u] \in {"new", "push"} /\ Entry(u) = e
        BY <1>2, <2>1, <3>2 DEF NoOrphanStatement
      <4>2. QED
        BY <1>1, <2>1, <4>1
    <3>3. QED
      BY <3>1, <3>2
  <2>6. Faultless'
    BY <1>1, <1>2, <2>1 DEF Faultless
  <2>7. QED
    BY <1>1, <2>3, <2>4, <2>5, <2>6
<1>6. CASE PrepareFails(t)
  <2>1. /\ at[t] = "find" /\ stmtLock' = NoThread /\ prepared' = prepared
        /\ at' = [at EXCEPT ![t] = "done"] /\ answer' = [answer EXCEPT ![t] = "null"]
    BY <1>6 DEF PrepareFails, Holding, Move, Answer
  <2>2. DbTypeOK' /\ SessionsHold'
    BY <1>1, <1>2, <2>1 DEF PoolInv, SessionsHold
  <2>3. QueryHolds'
    BY <1>1, <1>2, <2>1, PoolAssumption DEF QueryHolds
  <2>4. NoOrphanStatement' /\ Faultless'
    BY <1>1, <1>2, <2>1 DEF NoOrphanStatement, Faultless
  <2>5. QED
    BY <1>1, <2>2, <2>3, <2>4
<1>7. QED
  BY <1>3, <1>4, <1>5, <1>6

(* Linking the new entry: the head read is still the head when the entry   *)
(* is written, because stmt_lock is held throughout.                       *)
LEMMA InsertKeeps ==
  ASSUME DbInv, NEW t \in Threads, ReadHead(t) \/ WriteHead(t)
  PROVE  DbInv'
<1> USE DEF DbInv, DbTypeOK
<1>1. /\ PoolInv'
      /\ pc[t] = "using" /\ conn[t] \in Listed /\ conn[t] \in Conns
      /\ UNCHANGED <<pc, conn, session, serverUp, faults, phase, query>>
      /\ Listed' = Listed
      /\ \A c \in Conns : status'[c] = "bad" => session[c] = "down"
      /\ (at[t] \in {"find", "new", "push", "exec"} => Entry(t) \in Entries)
      /\ \A u \in Threads : Entry(u)' = Entry(u)
  BY StatementStepsStayInside
<1>2. UNCHANGED <<prepared, answer>>
  BY DEF ReadHead, WriteHead
<1>3. CASE ReadHead(t)
  <2>1. /\ at[t] = "new" /\ next' = [next EXCEPT ![t] = cache]
        /\ at' = [at EXCEPT ![t] = "push"] /\ UNCHANGED <<stmtLock, cache>>
    BY <1>3 DEF ReadHead, Holding, Move
  <2>2. DbTypeOK' /\ SessionsHold'
    BY <1>1, <1>2, <2>1 DEF PoolInv, SessionsHold
  <2>3. QueryHolds'
    BY <1>1, <1>2, <2>1 DEF QueryHolds
  <2>4. NoOrphanStatement' /\ Faultless'
    BY <1>1, <1>2, <2>1 DEF NoOrphanStatement, Faultless
  <2>5. QED
    BY <1>1, <2>2, <2>3, <2>4
<1>4. CASE WriteHead(t)
  <2>1. /\ at[t] = "push" /\ next' = [next EXCEPT ![t] = {}]
        /\ stmtLock = t /\ stmtLock' = NoThread
        /\ cache' = cache \cup {Entry(t)} /\ at' = [at EXCEPT ![t] = "exec"]
    BY <1>4 DEF WriteHead, Holding, Move, QueryHolds
  <2>2. \A u \in Threads \ {t} : at[u] \notin {"find", "new", "push"}
    BY <2>1 DEF QueryHolds
  <2>3. DbTypeOK' /\ SessionsHold'
    BY <1>1, <1>2, <2>1 DEF PoolInv, SessionsHold
  <2>4. QueryHolds'
    BY <1>1, <1>2, <2>1, <2>2, PoolAssumption DEF QueryHolds
  <2>5. NoOrphanStatement' /\ Faultless'
    BY <1>1, <1>2, <2>1 DEF NoOrphanStatement, Faultless
  <2>6. QED
    BY <1>1, <2>3, <2>4, <2>5
<1>5. QED
  BY <1>3, <1>4

(* Running the query. *)
LEMMA RunKeeps ==
  ASSUME DbInv, NEW t \in Threads, Execute(t) \/ ExecutePlain(t)
  PROVE  DbInv'
<1> USE DEF DbInv, DbTypeOK
<1>1. /\ PoolInv'
      /\ pc[t] = "using" /\ conn[t] \in Listed /\ conn[t] \in Conns
      /\ UNCHANGED <<pc, conn, session, serverUp, faults, phase, query>>
      /\ Listed' = Listed
      /\ \A c \in Conns : status'[c] = "bad" => session[c] = "down"
      /\ \A u \in Threads : Entry(u)' = Entry(u)
  BY StatementStepsStayInside
<1>2. /\ at[t] \in {"start", "exec"} /\ at' = [at EXCEPT ![t] = "done"]
      /\ UNCHANGED <<stmtLock, cache, next, prepared>>
  BY DEF Execute, ExecutePlain, Holding, Move
<1>3. \E a \in {"rows", "sqlError", "error", "null"} :
        answer' = [answer EXCEPT ![t] = a] /\ (faults = 0 => a # "error")
  <2>1. CASE Execute(t)
    <3>1. phase # "closed"
      BY <1>1 DEF SessionsHold
    <3>2. faults = 0 => session[conn[t]] = "up" /\ Entry(t) \in prepared
      BY <1>1, <2>1, <3>1 DEF Faultless, Execute, Holding
    <3>3. QED
      BY <2>1, <3>2 DEF Execute, Answer
  <2>2. CASE ExecutePlain(t)
    BY <2>2 DEF ExecutePlain, Answer
  <2>3. QED
    BY <2>1, <2>2
<1>4. DbTypeOK' /\ SessionsHold'
  BY <1>1, <1>2, <1>3 DEF PoolInv, SessionsHold
<1>5. QueryHolds'
  BY <1>1, <1>2 DEF QueryHolds
<1>6. NoOrphanStatement' /\ Faultless'
  BY <1>1, <1>2, <1>3 DEF NoOrphanStatement, Faultless
<1>7. QED
  BY <1>1, <1>4, <1>5, <1>6

(* A refused query touches nothing but its answer. *)
LEMMA RefusalKeeps ==
  ASSUME DbInv, NEW t \in Threads, RefuseQuery(t)
  PROVE  DbInv'
<1> USE DEF DbInv, DbTypeOK
<1>1. PoolInv'
  BY NextInv, QueriesUseThePool DEF DbNext, DbThreadStep
<1>2. /\ UNCHANGED <<vars, at, stmtLock, cache, next, prepared>>
      /\ pc[t] = "idle" /\ query' = [query EXCEPT ![t] = Plain]
      /\ answer' = [answer EXCEPT ![t] = "null"]
  BY DEF RefuseQuery, Answer
<1>3. /\ UNCHANGED <<pc, conn, session, status, serverUp, faults, phase>>
      /\ Listed' = Listed
  BY <1>2 DEF vars, poolVars, linkVars, envVars, Listed
<1>4. DbTypeOK' /\ SessionsHold'
  BY <1>1, <1>2, <1>3 DEF PoolInv, SessionsHold
<1>5. at[t] = "start"
  BY <1>2 DEF QueryHolds
<1>6. QueryHolds'
  BY <1>2, <1>3, <1>5 DEF QueryHolds
<1>7. \A u \in Threads \ {t} : Entry(u)' = Entry(u)
  BY <1>2, <1>3 DEF Entry
<1>8. NoOrphanStatement' /\ Faultless'
  BY <1>2, <1>3, <1>5, <1>7 DEF NoOrphanStatement, Faultless
<1>9. QED
  BY <1>1, <1>4, <1>6, <1>8

(* The database server and the shutdown: sessions end, and their           *)
(* statements with them.                                                   *)
LEMMA SurroundingsKeep ==
  ASSUME DbInv, LoseSessions \/ CloseDatabase \/ Surroundings \/ UNCHANGED dbVars
  PROVE  DbInv'
<1> USE DEF DbInv, DbTypeOK
<1>1. PoolInv'
  BY NextInv, QueriesUseThePool DEF DbNext
<1>2. UNCHANGED <<connections, pc, conn>> /\ Listed' = Listed
  BY DEF LoseSessions, CloseDatabase, Surroundings, dbVars, vars, ServerCrash,
         SessionLost, Close, ServerRestart, StopDaemon, Closed, poolVars, Listed
<1>3. UNCHANGED <<query, at, stmtLock, next, answer>>
  BY DEF LoseSessions, CloseDatabase, Surroundings, dbVars, stmtVars
<1>4. \A u \in Threads : Entry(u)' = Entry(u)
  BY <1>2, <1>3 DEF Entry
<1>5. CASE LoseSessions
  <2>1. /\ SurviveOnly /\ UNCHANGED <<cache, status, phase>>
        /\ faults \in Nat /\ faults' = faults + 1
        /\ \A c \in Conns : session[c] = "down" => session'[c] = "down"
    BY <1>5 DEF LoseSessions, ServerCrash, SessionLost, Fault, PoolInv, TypeOK
  <2>2. prepared' \subseteq prepared /\ \A e \in prepared' : session'[e[1]] = "up"
    BY <2>1 DEF SurviveOnly
  <2>3. faults' # 0
    BY <2>1
  <2>4. DbTypeOK' /\ QueryHolds'
    BY <1>1, <1>2, <1>3, <2>1, <2>2 DEF PoolInv, QueryHolds
  <2>5. SessionsHold' /\ NoOrphanStatement' /\ Faultless'
    BY <1>2, <1>3, <1>4, <2>1, <2>2, <2>3
       DEF SessionsHold, NoOrphanStatement, Faultless
  <2>6. QED
    BY <1>1, <2>4, <2>5
<1>6. CASE CloseDatabase
  <2>1. /\ stmtLock = NoThread /\ cache' = {} /\ SurviveOnly
        /\ \A u \in Threads : pc[u] = "idle"
        /\ session' = [c \in Conns |-> IF c \in Listed THEN "down" ELSE session[c]]
        /\ status' = [c \in Conns |-> IF c \in Listed THEN "bad" ELSE status[c]]
        /\ phase' = "closed" /\ UNCHANGED <<serverUp, faults>>
    BY <1>6 DEF CloseDatabase, Close
  <2>2. \A u \in Threads : at[u] = "start"
    BY <2>1 DEF QueryHolds
  <2>3. prepared' = {}
    <3>1. \A e \in prepared : e[1] \in Listed /\ e[1] \in Conns
      BY DEF SessionsHold, Entries
    <3>2. QED
      BY <2>1, <3>1 DEF SurviveOnly
  <2>4. DbTypeOK' /\ QueryHolds'
    BY <1>1, <1>2, <1>3, <2>1, <2>2, <2>3 DEF PoolInv, QueryHolds
  <2>5. SessionsHold' /\ NoOrphanStatement' /\ Faultless'
    BY <1>2, <1>3, <1>4, <2>1, <2>2, <2>3
       DEF SessionsHold, NoOrphanStatement, Faultless
  <2>6. QED
    BY <1>1, <2>4, <2>5
<1>7. CASE Surroundings \/ UNCHANGED dbVars
  <2>1. /\ UNCHANGED <<cache, prepared, status, session, faults>>
        /\ (phase = "closed") = (phase' = "closed")
        /\ serverUp => serverUp'
    BY <1>7 DEF Surroundings, dbVars, vars, stmtVars, ServerRestart, StopDaemon,
                Closed, linkVars
  <2>2. DbTypeOK' /\ QueryHolds'
    BY <1>1, <1>2, <1>3, <2>1 DEF PoolInv, QueryHolds
  <2>3. SessionsHold' /\ NoOrphanStatement' /\ Faultless'
    BY <1>2, <1>3, <1>4, <2>1 DEF SessionsHold, NoOrphanStatement, Faultless
  <2>4. QED
    BY <1>1, <2>2, <2>3
<1>8. QED
  BY <1>5, <1>6, <1>7

LEMMA DbNextKeeps == DbInv /\ [DbNext]_dbVars => DbInv'
<1>1. SUFFICES ASSUME DbInv, [DbNext]_dbVars PROVE DbInv'
  OBVIOUS
<1>2. ASSUME NEW t \in Threads, DbThreadStep(t) PROVE DbInv'
  BY <1>1, <1>2, PoolSideKeeps, LookupKeeps, InsertKeeps, RunKeeps,
                  RefusalKeeps
     DEF DbThreadStep, PoolSide
<1>3. QED
  BY <1>1, <1>2, SurroundingsKeep DEF DbNext

THEOREM DbInvariant == DbSpec => []DbInv
  BY DbInitInv, DbNextKeeps, PTL DEF DbSpec

(* The cache of statements loses nothing: whatever the interleaving of     *)
(* look-ups, insertions, lost sessions and resets, a statement that is     *)
(* prepared in a live session can be found, or is about to be linked.      *)
THEOREM CacheIsSound == DbSpec => []CacheSound
  BY DbInvariant, PTL DEF DbInv, CacheSound

(* A parameterised query that got a connection fails only by an SQL error  *)
(* of its own or after a session was lost: the cache never names a         *)
(* statement another connection has.                                       *)
THEOREM ErrorsNeedLostSessions == DbSpec => []ErrorNeedsLostSession
<1>1. DbInv => ErrorNeedsLostSession
  BY DEF DbInv, Faultless, ErrorNeedsLostSession
<1>2. QED
  BY <1>1, DbInvariant, PTL
=============================================================================
