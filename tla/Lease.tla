------------------------------- MODULE Lease -------------------------------
(***************************************************************************)
(* What the database connection pool promises to the request threads: a   *)
(* connection is leased to one thread at a time, a thread holds at most    *)
(* one, only a connection that is in the pool is leased, and the pool      *)
(* never grows beyond Limit connections and never loses one.  Nothing is  *)
(* said of locks, of list order or of broken connections: ConnPool adds   *)
(* them and is shown to implement this module.                             *)
(***************************************************************************)
EXTENDS Naturals, FiniteSets

CONSTANTS
  Threads,   \* the clients of the pool
  Conns,     \* every connection that can come into being
  Limit,     \* the most connections the pool may own
  NoConn     \* "holds nothing"

VARIABLES
  pooled,    \* the connections the pool owns
  held       \* held[t] is the connection leased to t, or NoConn

vars == <<pooled, held>>

Leased == {held[t] : t \in Threads} \ {NoConn}

Init ==
  /\ pooled \in SUBSET Conns
  /\ Cardinality(pooled) \in 1..Limit
  /\ held = [t \in Threads |-> NoConn]

(* An idle connection of the pool is leased. *)
Grant(t, c) ==
  /\ held[t] = NoConn
  /\ c \in pooled \ Leased
  /\ held' = [held EXCEPT ![t] = c]
  /\ UNCHANGED pooled

(* The pool grows by a connection that is leased at once. *)
GrantNew(t, c) ==
  /\ held[t] = NoConn
  /\ c \in Conns \ pooled
  /\ Cardinality(pooled) < Limit
  /\ pooled' = pooled \cup {c}
  /\ held' = [held EXCEPT ![t] = c]

Release(t) ==
  /\ held[t] # NoConn
  /\ held' = [held EXCEPT ![t] = NoConn]
  /\ UNCHANGED pooled

Next ==
  \E t \in Threads :
    \/ \E c \in Conns : Grant(t, c) \/ GrantNew(t, c)
    \/ Release(t)

Spec == Init /\ [][Next]_vars
=============================================================================
