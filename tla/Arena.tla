------------------------------- MODULE Arena -------------------------------
(***************************************************************************)
(* The bump allocator of src/src/arena.c and who uses which arena.         *)
(*                                                                         *)
(* A request has an arena of its own (handler.c creates it at the first    *)
(* call and frees it when the request is completed), used by the one       *)
(* thread that serves the connection.  The server has one arena for the    *)
(* whole configuration (parser.c creates it, website.c frees it at the     *)
(* next reload): prepared statements, pooled connections, compiled jq      *)
(* programs and many strings of auth.c and github.c come from it, in       *)
(* whatever thread serves the request.                                     *)
(*                                                                         *)
(* arenaAlloc takes no lock.  Its reads of arena->used (the test, the      *)
(* pointer, the addition) are a data race when two threads share an arena: *)
(* each may see the value the test saw or the current one.                 *)
(***************************************************************************)
EXTENDS Integers, FiniteSets

CONSTANTS
  Threads,
  Arenas,
  Users,      \* Users[a]: the threads that may allocate from a
  Capacity,   \* arena->size, in bytes
  Requests    \* the sizes that callers ask for

ASSUME ArenaAssumption ==
  /\ Users \in [Arenas -> SUBSET Threads]
  /\ Capacity \in Nat
  /\ Requests \subseteq Nat

VARIABLES
  used,       \* arena->used
  live,       \* live[a]: the blocks handed out, and to whom
  pc,         \* "out", or "bump": between the test and the update
  call        \* call[t]: the arena, the rounded size and the value seen

vars == <<used, live, pc, call>>

Blocks == [by : Threads, at : Nat, len : Nat]

(* (size + 7) & ~7 *)
Aligned(n) == ((n + 7) \div 8) * 8

TypeOK ==
  /\ used \in [Arenas -> Nat]
  /\ live \in [Arenas -> SUBSET Blocks]
  /\ pc \in [Threads -> {"out", "bump"}]
  /\ call \in [Threads -> [arena : Arenas, size : Nat, seen : Nat]]

Init ==
  /\ used = [a \in Arenas |-> 0]
  /\ live = [a \in Arenas |-> {}]
  /\ pc = [t \in Threads |-> "out"]
  /\ call \in [Threads -> [arena : Arenas, size : {0}, seen : {0}]]

(* The size the block really takes. *)
Rounded(n) == Aligned(n)

Fits(a, n) == used[a] + n <= Capacity

(* The call and its test; a request that does not fit returns NULL, *)
(* which changes nothing.                                            *)
Test(t) ==
  /\ pc[t] = "out"
  /\ \E a \in Arenas, n \in Requests :
       /\ t \in Users[a]
       /\ Fits(a, Rounded(n))
       /\ call' = [call EXCEPT ![t] = [arena |-> a, size |-> Rounded(n), seen |-> used[a]]]
  /\ pc' = [pc EXCEPT ![t] = "bump"]
  /\ UNCHANGED <<used, live>>

(* Mutant: the pointer is taken but the counter is not advanced. *)
Bump_Forgotten(t) ==
  LET a == call[t].arena IN
  /\ pc[t] = "bump"
  /\ live' = [live EXCEPT ![a] = @ \cup {[by |-> t, at |-> used[a], len |-> call[t].size]}]
  /\ call' = [call EXCEPT ![t].size = 0, ![t].seen = 0]
  /\ pc' = [pc EXCEPT ![t] = "out"]
  /\ UNCHANGED used

(* ptr = buffer + used; used += size *)
Bump(t) ==
  LET a == call[t].arena IN
  /\ pc[t] = "bump"
  /\ \E p, u \in {call[t].seen, used[a]} :
       /\ live' = [live EXCEPT ![a] = @ \cup {[by |-> t, at |-> p, len |-> call[t].size]}]
       /\ used' = [used EXCEPT ![a] = u + call[t].size]
  /\ call' = [call EXCEPT ![t].size = 0, ![t].seen = 0]
  /\ pc' = [pc EXCEPT ![t] = "out"]

(* freeArena, and createArena for the next request or configuration: the   *)
(* request is completed, the daemon is stopped, so nobody is inside.       *)
FreeArena(a) ==
  /\ \A t \in Users[a] : pc[t] = "out"
  /\ used' = [used EXCEPT ![a] = 0]
  /\ live' = [live EXCEPT ![a] = {}]
  /\ UNCHANGED <<pc, call>>

Next ==
  \/ \E t \in Threads : Test(t) \/ Bump(t)
  \/ \E a \in Arenas : FreeArena(a)

Spec == Init /\ [][Next]_vars

-----------------------------------------------------------------------------
(* Properties *)

Private(a) == \A t, u \in Users[a] : t = u

Disjoint(b, c) == b.at + b.len <= c.at \/ c.at + c.len <= b.at

BlocksDisjoint(a) ==
  \A b, c \in live[a] : b # c => Disjoint(b, c)

BlocksInside(a) ==
  \A b \in live[a] : b.at + b.len <= used[a] /\ used[a] <= Capacity

(* What the rest of the program takes for granted about memory from a      *)
(* request's own arena: no two blocks overlap, none reaches beyond the     *)
(* part that is in use, which never exceeds the buffer.                    *)
PrivateArenaSound ==
  \A a \in Arenas : Private(a) => BlocksDisjoint(a) /\ BlocksInside(a)

(* Every block starts at a multiple of 8 (test_arena.c:32, :80): the JSON  *)
(* values and node structs placed there need it.                           *)
BlocksAligned == \A a \in Arenas : \A b \in live[a] : b.at % 8 = 0

(* The same for the arena the request threads share, as test_arena.c:40    *)
(* expects of successive allocations.                                      *)
SharedArenaSound == \A a \in Arenas : BlocksDisjoint(a)
=============================================================================
