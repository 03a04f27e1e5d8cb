---------------------------- MODULE ArenaProofs ----------------------------
(***************************************************************************)
(* What a request may take for granted about its own arena, for every      *)
(* capacity, every size asked for and any number of threads and arenas;    *)
(* and that the string builder, whatever is appended to it, stays inside   *)
(* the blocks it was given and loses no text it did not refuse.            *)
(***************************************************************************)
EXTENDS StringBuilder, TLAPS

(* Nobody but the caller has moved the counter since its test, and every   *)
(* block lies below the counter.                                            *)
PrivateInv ==
  \A a \in Arenas : Private(a) =>
    /\ \A t \in Users[a] : pc[t] = "bump" /\ call[t].arena = a =>
         call[t].seen = used[a] /\ used[a] + call[t].size <= Capacity
    /\ used[a] <= Capacity
    /\ \A b \in live[a] : b.at + b.len <= used[a]
    /\ \A b, c \in live[a] : b # c => Disjoint(b, c)

(* A thread inside arenaAlloc is one of the arena's users. *)
CallerInv == \A t \in Threads : pc[t] = "bump" => t \in Users[call[t].arena]

ArenaInv == TypeOK /\ CallerInv /\ PrivateInv

(* Rounding up gives a multiple of 8 that is large enough. *)
LEMMA AlignedUp ==
  ASSUME NEW n \in Nat
  PROVE  Aligned(n) \in Nat /\ Aligned(n) >= n /\ Aligned(n) % 8 = 0
<1>1. (n + 7) \div 8 \in Nat /\ n + 7 < 8 * ((n + 7) \div 8) + 8
  OBVIOUS
<1>2. QED
  BY <1>1 DEF Aligned

LEMMA InitArena == Init => ArenaInv
<1>1. SUFFICES ASSUME Init PROVE ArenaInv
  OBVIOUS
<1>2. TypeOK
  BY <1>1 DEF Init, TypeOK
<1>3. CallerInv /\ PrivateInv
  BY <1>1, ArenaAssumption DEF Init, CallerInv, PrivateInv
<1>4. QED
  BY <1>2, <1>3 DEF ArenaInv

LEMMA TestInv ==
  ASSUME ArenaInv, NEW t \in Threads, Test(t)
  PROVE  ArenaInv'
<1> USE DEF ArenaInv, TypeOK
<1>1. PICK a \in Arenas, n \in Requests :
        /\ t \in Users[a]
        /\ used[a] + Rounded(n) <= Capacity
        /\ call' = [call EXCEPT ![t] = [arena |-> a, size |-> Rounded(n), seen |-> used[a]]]
  BY DEF Test, Fits
<1>2. /\ UNCHANGED <<used, live>>
      /\ pc' = [pc EXCEPT ![t] = "bump"]
  BY DEF Test
<1>3. Rounded(n) \in Nat
  BY AlignedUp, ArenaAssumption DEF Rounded
<1>4. TypeOK'
  BY <1>1, <1>2, <1>3
<1>5. CallerInv'
  BY <1>1, <1>2 DEF CallerInv
<1>6. PrivateInv'
  <2>1. SUFFICES ASSUME NEW x \in Arenas, Private(x)
                 PROVE  \A u \in Users[x] : pc'[u] = "bump" /\ call'[u].arena = x =>
                          call'[u].seen = used[x] /\ used[x] + call'[u].size <= Capacity
    BY <1>2 DEF PrivateInv, Disjoint
  <2>2. Users[x] \subseteq Threads
    BY ArenaAssumption
  <2>3. QED
    BY <2>1, <2>2, <1>1, <1>2 DEF PrivateInv
<1>7. QED
  BY <1>4, <1>5, <1>6

LEMMA BumpInv ==
  ASSUME ArenaInv, NEW t \in Threads, Bump(t)
  PROVE  ArenaInv'
<1> USE DEF ArenaInv, TypeOK
<1> DEFINE a == call[t].arena
           n == call[t].size
<1>1. a \in Arenas /\ n \in Nat /\ pc[t] = "bump" /\ t \in Users[a]
  BY DEF Bump, CallerInv
<1>2. PICK p \in {call[t].seen, used[a]}, v \in {call[t].seen, used[a]} :
        /\ live' = [live EXCEPT ![a] = @ \cup {[by |-> t, at |-> p, len |-> n]}]
        /\ used' = [used EXCEPT ![a] = v + n]
  BY DEF Bump
<1>3. /\ pc' = [pc EXCEPT ![t] = "out"]
      /\ call' = [call EXCEPT ![t].size = 0, ![t].seen = 0]
  BY DEF Bump
<1>4. p \in Nat /\ v \in Nat
  BY <1>1, <1>2
<1>5. TypeOK'
  <2>1. [by |-> t, at |-> p, len |-> n] \in Blocks
    BY <1>1, <1>4 DEF Blocks
  <2>2. live' \in [Arenas -> SUBSET Blocks]
    BY <1>1, <1>2, <2>1
  <2>3. used' \in [Arenas -> Nat]
    BY <1>1, <1>2, <1>4
  <2>4. pc' \in [Threads -> {"out", "bump"}]
    BY <1>3
  <2>5. call' \in [Threads -> [arena : Arenas, size : Nat, seen : Nat]]
    BY <1>3
  <2>6. QED
    BY <2>2, <2>3, <2>4, <2>5
<1>6. CallerInv'
  BY <1>3 DEF CallerInv
<1>7. PrivateInv'
  <2>1. SUFFICES ASSUME NEW x \in Arenas, Private(x)
                 PROVE  /\ \A u \in Users[x] : pc'[u] = "bump" /\ call'[u].arena = x =>
                             call'[u].seen = used'[x] /\ used'[x] + call'[u].size <= Capacity
                        /\ used'[x] <= Capacity
                        /\ \A b \in live'[x] : b.at + b.len <= used'[x]
                        /\ \A b, c \in live'[x] : b # c => Disjoint(b, c)
    BY DEF PrivateInv
  <2>2. Users[x] \subseteq Threads
    BY ArenaAssumption
  <2>3. CASE x # a
    <3>1. used'[x] = used[x] /\ live'[x] = live[x]
      BY <2>3, <1>1, <1>2
    <3>2. \A u \in Users[x] : pc'[u] = "bump" => u # t /\ pc[u] = "bump" /\ call'[u] = call[u]
      BY <2>2, <1>3
    <3>3. QED
      BY <2>1, <3>1, <3>2 DEF PrivateInv
  <2>4. CASE x = a
    <3>1. /\ call[t].seen = used[a] /\ used[a] + n <= Capacity
          /\ \A b \in live[a] : b.at + b.len <= used[a]
          /\ \A b, c \in live[a] : b # c => Disjoint(b, c)
      BY <2>1, <2>4, <1>1 DEF PrivateInv
    <3>2. p = used[a] /\ v = used[a]
      BY <3>1, <1>2
    <3>3. used'[x] = used[a] + n
      BY <3>2, <2>4, <1>1, <1>2
    <3>4. live'[x] = live[a] \cup {[by |-> t, at |-> used[a], len |-> n]}
      BY <3>2, <2>4, <1>1, <1>2
    <3>5. \A u \in Users[x] : pc'[u] # "bump"
      BY <2>1, <2>2, <2>4, <1>1, <1>3 DEF Private
    <3>6. used[a] \in Nat /\ Capacity \in Nat /\ live[a] \subseteq Blocks
      BY <1>1, ArenaAssumption
    <3>7. \A b \in live'[x] : b.at + b.len <= used'[x]
      BY <3>1, <3>3, <3>4, <3>6, <1>1 DEF Blocks
    <3>8. \A b, c \in live'[x] : b # c => Disjoint(b, c)
      BY <3>1, <3>4, <3>6, <1>1 DEF Blocks, Disjoint
    <3>9. QED
      BY <3>1, <3>3, <3>5, <3>7, <3>8
  <2>5. QED
    BY <2>3, <2>4
<1>8. QED
  BY <1>5, <1>6, <1>7

LEMMA FreeArenaInv ==
  ASSUME ArenaInv, NEW a \in Arenas, FreeArena(a)
  PROVE  ArenaInv'
<1> USE DEF ArenaInv, TypeOK
<1>1. /\ \A t \in Users[a] : pc[t] = "out"
      /\ used' = [used EXCEPT ![a] = 0]
      /\ live' = [live EXCEPT ![a] = {}]
      /\ UNCHANGED <<pc, call>>
  BY DEF FreeArena
<1>2. TypeOK' /\ CallerInv'
  BY <1>1 DEF CallerInv
<1>3. PrivateInv'
  BY <1>1, ArenaAssumption DEF PrivateInv, Disjoint
<1>4. QED
  BY <1>2, <1>3

LEMMA NextArena == ArenaInv /\ [Next]_vars => ArenaInv'
<1>1. SUFFICES ASSUME ArenaInv, [Next]_vars PROVE ArenaInv'
  OBVIOUS
<1>2. CASE UNCHANGED vars
  BY <1>1, <1>2 DEF vars, ArenaInv, TypeOK, CallerInv, PrivateInv
<1>3. QED
  BY <1>1, <1>2, TestInv, BumpInv, FreeArenaInv DEF Next

THEOREM ArenaInvariant == Spec => []ArenaInv
  BY InitArena, NextArena, PTL DEF Spec

(* arenaAlloc never returns overlapping blocks from an arena that one      *)
(* thread uses, nor a block beyond the buffer: a request's memory is its   *)
(* own whatever other threads do to theirs.                                *)
THEOREM RequestArenaIsSound == Spec => []PrivateArenaSound
<1>1. ArenaInv => PrivateArenaSound
  BY DEF ArenaInv, PrivateInv, PrivateArenaSound, BlocksDisjoint, BlocksInside
<1>2. QED
  BY <1>1, ArenaInvariant, PTL

-----------------------------------------------------------------------------
(* Alignment survives even the races on a shared arena: whichever of the   *)
(* two values a thread works with, it is a multiple of 8.                  *)
AlignInv ==
  /\ TypeOK
  /\ \A a \in Arenas : used[a] % 8 = 0
  /\ \A t \in Threads : call[t].size % 8 = 0 /\ call[t].seen % 8 = 0
  /\ \A a \in Arenas : \A b \in live[a] : b.at % 8 = 0

LEMMA SumAligned ==
  ASSUME NEW x \in Nat, NEW y \in Nat, x % 8 = 0, y % 8 = 0
  PROVE  (x + y) % 8 = 0
  OBVIOUS

LEMMA BumpAligned ==
  ASSUME AlignInv, NEW t \in Threads, Bump(t), TypeOK'
  PROVE  AlignInv'
<1> USE DEF AlignInv, TypeOK
<1> DEFINE a == call[t].arena
           n == call[t].size
<1>1. a \in Arenas /\ n \in Nat /\ n % 8 = 0
  OBVIOUS
<1>2. PICK p \in {call[t].seen, used[a]}, v \in {call[t].seen, used[a]} :
        /\ live' = [live EXCEPT ![a] = @ \cup {[by |-> t, at |-> p, len |-> n]}]
        /\ used' = [used EXCEPT ![a] = v + n]
  BY DEF Bump
<1>3. p \in Nat /\ v \in Nat /\ p % 8 = 0 /\ v % 8 = 0
  <2>1. /\ call[t].seen \in Nat /\ call[t].seen % 8 = 0
        /\ used[a] \in Nat /\ used[a] % 8 = 0
    BY <1>1
  <2>2. QED
    BY <2>1
<1>4. (v + n) % 8 = 0
  <2> HIDE DEF n
  <2>1. QED
    BY <1>1, <1>3, SumAligned
<1>5. \A x \in Arenas : used'[x] % 8 = 0
  BY <1>1, <1>2, <1>4
<1>6. \A u \in Threads : call'[u].size % 8 = 0 /\ call'[u].seen % 8 = 0
  <2>1. call' = [call EXCEPT ![t].size = 0, ![t].seen = 0]
    BY DEF Bump
  <2>2. QED
    BY <2>1
<1>7. \A x \in Arenas : \A b \in live'[x] : b.at % 8 = 0
  BY <1>1, <1>2, <1>3
<1>8. QED
  BY <1>5, <1>6, <1>7

LEMMA NextAligned == AlignInv /\ ArenaInv /\ [Next]_vars => AlignInv'
<1>1. SUFFICES ASSUME AlignInv, ArenaInv, [Next]_vars PROVE AlignInv'
  OBVIOUS
<1>2. TypeOK'
  BY <1>1, NextArena DEF ArenaInv
<1>3. ASSUME NEW t \in Threads, Test(t) PROVE AlignInv'
  <2>1. PICK a \in Arenas, n \in Requests :
          call' = [call EXCEPT ![t] = [arena |-> a, size |-> Rounded(n), seen |-> used[a]]]
    BY <1>3 DEF Test
  <2>2. Rounded(n) % 8 = 0
    BY AlignedUp, ArenaAssumption DEF Rounded
  <2>3. QED
    BY <1>1, <1>2, <1>3, <2>1, <2>2 DEF Test, AlignInv, TypeOK
<1>4. ASSUME NEW t \in Threads, Bump(t) PROVE AlignInv'
  BY <1>1, <1>2, <1>4, BumpAligned
<1>5. ASSUME NEW a \in Arenas, FreeArena(a) PROVE AlignInv'
  BY <1>1, <1>2, <1>5 DEF FreeArena, AlignInv, TypeOK
<1>6. CASE UNCHANGED vars
  BY <1>1, <1>2, <1>6 DEF vars, AlignInv
<1>7. QED
  BY <1>1, <1>3, <1>4, <1>5, <1>6 DEF Next

(* Every block of every arena, shared or not, starts at a multiple of 8.   *)
THEOREM BlocksStayAligned == Spec => []BlocksAligned
<1>1. Init => AlignInv
  BY InitArena DEF Init, ArenaInv, AlignInv
<1>2. AlignInv => BlocksAligned
  BY DEF AlignInv, BlocksAligned
<1>3. QED
  BY <1>1, <1>2, NextAligned, ArenaInvariant, PTL DEF Spec
-----------------------------------------------------------------------------
(* The string builder: module StringBuilder.                               *)

(* Handing out several blocks at once, in the arena of one thread that is  *)
(* not inside arenaAlloc.                                                  *)
LEMMA TakeKeepsArena ==
  ASSUME ArenaInv, AlignInv, NEW t \in Threads, NEW a \in Arenas,
         Private(a), t \in Users[a], pc[t] = "out",
         NEW blocks \in SUBSET Blocks, NEW total \in Nat,
         Take(t, a, blocks, total), Fits(a, total), total % 8 = 0,
         \A b \in blocks : /\ b.at % 8 = 0 /\ used[a] <= b.at
                           /\ b.at + b.len <= used[a] + total,
         \A b, c \in blocks : b # c => Disjoint(b, c)
  PROVE  /\ ArenaInv' /\ AlignInv'
         /\ \A x \in Arenas : live[x] \subseteq live'[x]
<1> USE DEF ArenaInv, TypeOK
<1>1. /\ used' = [used EXCEPT ![a] = @ + total]
      /\ live' = [live EXCEPT ![a] = @ \cup blocks]
      /\ UNCHANGED <<pc, call>>
  BY DEF Take
<1>2. TypeOK' /\ CallerInv'
  <2>1. used[a] \in Nat /\ total \in Nat /\ live[a] \cup blocks \subseteq Blocks
    OBVIOUS
  <2>2. used' \in [Arenas -> Nat] /\ live' \in [Arenas -> SUBSET Blocks]
    BY ONLY <1>1, <2>1, a \in Arenas, used \in [Arenas -> Nat],
            live \in [Arenas -> SUBSET Blocks]
  <2>3. QED
    BY <1>1, <2>2 DEF CallerInv
<1>3. used[a] \in Nat /\ used[a] % 8 = 0
  BY DEF AlignInv
<1>4. PrivateInv'
  <2>1. SUFFICES ASSUME NEW x \in Arenas, Private(x)
                 PROVE  /\ \A u \in Users[x] : pc'[u] = "bump" /\ call'[u].arena = x =>
                             call'[u].seen = used'[x] /\ used'[x] + call'[u].size <= Capacity
                        /\ used'[x] <= Capacity
                        /\ \A b \in live'[x] : b.at + b.len <= used'[x]
                        /\ \A b, c \in live'[x] : b # c => Disjoint(b, c)
    BY DEF PrivateInv
  <2>2. CASE x # a
    <3>1. used'[x] = used[x] /\ live'[x] = live[x]
      BY <1>1, <2>2
    <3>2. QED
      BY <1>1, <2>1, <3>1 DEF PrivateInv
  <2>3. CASE x = a
    <3>1. \A u \in Users[x] : pc'[u] # "bump"
      BY <1>1, <2>1, <2>3 DEF Private
    <3>2. used'[x] = used[a] + total /\ live'[x] = live[a] \cup blocks
      BY <1>1, <2>3
    <3>3. used'[x] <= Capacity
      BY <3>2 DEF Fits
    <3>4. live[a] \subseteq Blocks /\ \A b \in live[a] : b.at + b.len <= used[a]
      BY DEF PrivateInv
    <3>5. \A b \in live'[x] : b.at + b.len <= used'[x]
      BY <1>3, <3>2, <3>4 DEF Blocks
    <3>6. \A b, c \in live'[x] : b # c => Disjoint(b, c)
      <4>1. \A b, c \in live[a] : b # c => Disjoint(b, c)
        BY DEF PrivateInv
      <4>2. \A b \in live[a], c \in blocks : Disjoint(b, c) /\ Disjoint(c, b)
        BY <1>3, <3>4 DEF Blocks, Disjoint
      <4>3. QED
        BY <3>2, <4>1, <4>2
    <3>7. QED
      BY <3>1, <3>3, <3>5, <3>6
  <2>4. QED
    BY <2>2, <2>3
<1>5. AlignInv'
  <2>1. used'[a] = used[a] + total /\ (used[a] + total) % 8 = 0
    BY <1>1, <1>3, SumAligned
  <2>2. \A x \in Arenas : used'[x] % 8 = 0
    BY <1>1, <2>1 DEF AlignInv
  <2>3. QED
    BY <1>1, <1>2, <2>2 DEF AlignInv
<1>6. QED
  BY <1>1, <1>2, <1>4, <1>5

(* One block, where the arena's counter stands. *)
LEMMA TakeOne ==
  ASSUME ArenaInv, AlignInv, NEW t \in Threads, NEW a \in Arenas,
         Private(a), t \in Users[a], pc[t] = "out", NEW n \in Nat,
         Take(t, a, {Block(t, used[a], n)}, Rounded(n)), Fits(a, Rounded(n))
  PROVE  /\ ArenaInv' /\ AlignInv'
         /\ \A x \in Arenas : live[x] \subseteq live'[x]
         /\ \E b \in live'[a] : b.at = used[a] /\ n <= b.len
<1> DEFINE r == Rounded(n)
<1>1. r \in Nat /\ n <= r /\ r % 8 = 0
  BY AlignedUp DEF Rounded
<1>2. used[a] \in Nat /\ used[a] % 8 = 0
  BY DEF ArenaInv, TypeOK, AlignInv
<1>3. Block(t, used[a], n) = [by |-> t, at |-> used[a], len |-> r]
  BY DEF Block
<1>4. Take(t, a, {Block(t, used[a], n)}, r) /\ Fits(a, r)
  OBVIOUS
<1> HIDE DEF r
<1>5. {Block(t, used[a], n)} \in SUBSET Blocks
  BY <1>1, <1>2, <1>3 DEF Blocks
<1>6. \A b \in {Block(t, used[a], n)} :
        b.at % 8 = 0 /\ used[a] <= b.at /\ b.at + b.len <= used[a] + r
  BY <1>1, <1>2, <1>3
<1>7. /\ ArenaInv' /\ AlignInv'
      /\ \A x \in Arenas : live[x] \subseteq live'[x]
  BY <1>1, <1>4, <1>5, <1>6, TakeKeepsArena
<1>8. Block(t, used[a], n) \in live'[a]
  BY <1>4 DEF Take, ArenaInv, TypeOK
<1>9. QED
  BY <1>1, <1>3, <1>7, <1>8

(* The two blocks of a new builder. *)
LEMMA TakeTwo ==
  ASSUME ArenaInv, AlignInv, NEW t \in Threads, NEW a \in Arenas,
         Private(a), t \in Users[a], pc[t] = "out",
         NEW m \in Nat, NEW n \in Nat,
         Take(t, a, {Block(t, used[a], m), Block(t, used[a] + Rounded(m), n)},
              Rounded(m) + Rounded(n)),
         Fits(a, Rounded(m) + Rounded(n))
  PROVE  /\ ArenaInv' /\ AlignInv'
         /\ \A x \in Arenas : live[x] \subseteq live'[x]
         /\ \E b \in live'[a] : b.at = used[a] + Rounded(m) /\ n <= b.len
<1> DEFINE r == Rounded(m)
           s == Rounded(n)
<1>1. r \in Nat /\ r % 8 = 0 /\ s \in Nat /\ n <= s /\ s % 8 = 0
  BY AlignedUp DEF Rounded
<1>2. used[a] \in Nat /\ used[a] % 8 = 0
  BY DEF ArenaInv, TypeOK, AlignInv
<1>3. /\ Block(t, used[a], m) = [by |-> t, at |-> used[a], len |-> r]
      /\ Block(t, used[a] + r, n) = [by |-> t, at |-> used[a] + r, len |-> s]
  BY DEF Block
<1>4. /\ Take(t, a, {Block(t, used[a], m), Block(t, used[a] + r, n)}, r + s)
      /\ Fits(a, r + s)
  OBVIOUS
<1> HIDE DEF r, s
<1> DEFINE B == {Block(t, used[a], m), Block(t, used[a] + r, n)}
<1>5. B \in SUBSET Blocks
  BY <1>1, <1>2, <1>3 DEF Blocks
<1>6. (used[a] + r) % 8 = 0 /\ (r + s) % 8 = 0 /\ r + s \in Nat
  BY <1>1, <1>2, SumAligned
<1>7. \A b \in B : b.at % 8 = 0 /\ used[a] <= b.at /\ b.at + b.len <= used[a] + (r + s)
  BY <1>1, <1>2, <1>3, <1>6
<1>8. \A b, c \in B : b # c => Disjoint(b, c)
  BY <1>1, <1>2, <1>3 DEF Disjoint
<1>9. Take(t, a, B, r + s)
  BY <1>4
<1> HIDE DEF B
<1>10. /\ ArenaInv' /\ AlignInv'
       /\ \A x \in Arenas : live[x] \subseteq live'[x]
  BY <1>4, <1>5, <1>6, <1>7, <1>8, <1>9, TakeKeepsArena
<1>11. Block(t, used[a] + r, n) \in live'[a]
  BY <1>4 DEF Take, ArenaInv, TypeOK
<1>12. QED
  BY <1>1, <1>3, <1>10, <1>11 DEF r

(* The thread of a builder uses the builder's arena, and is not inside     *)
(* arenaAlloc while it appends.                                            *)
StepsHold ==
  \A t \in Threads :
    /\ Built(t) => t \in Users[sb[t].arena]
    /\ step[t] \in {"grow", "retry"} => pc[t] = "out"

(* After the loop the capacity is enough, or it is SIZE_MAX.               *)
LoopHolds ==
  \A t \in Threads :
    step[t] = "retry" => grown[t] = Limit \/ MinNewSize(t) <= grown[t]

(* What the text will be when the append is over.                          *)
TextHolds ==
  \A t \in Threads : Built(t) =>
    /\ sb[t].length <= sb[t].text
    /\ step[t] = "ready" /\ ~refused[t] =>
         sb[t].text = asked[t] /\ sb[t].length = asked[t]
    /\ step[t] # "ready" /\ ~refused[t] => asked[t] = sb[t].length + piece[t]

(* The inductive invariant of the builder. *)
BuilderInv ==
  /\ ArenaInv /\ AlignInv /\ BuilderTypeOK
  /\ StepsHold /\ WritesInside /\ LoopHolds /\ TextHolds

LEMMA BuilderInitInv == BuilderInit => BuilderInv
<1>1. SUFFICES ASSUME BuilderInit PROVE BuilderInv
  OBVIOUS
<1>2. Init /\ ArenaInv
  BY <1>1, InitArena DEF BuilderInit
<1>3. AlignInv
  BY <1>2 DEF Init, ArenaInv, AlignInv
<1>4. sb \in [Threads -> Builders]
  BY <1>1 DEF BuilderInit, NoBuilder, Builders
<1>5. BuilderTypeOK
  BY <1>1, <1>2, <1>4 DEF BuilderInit, ArenaInv, BuilderTypeOK
<1>6. StepsHold /\ WritesInside /\ LoopHolds /\ TextHolds
  BY <1>1 DEF BuilderInit, StepsHold, WritesInside, LoopHolds, TextHolds, Built
<1>7. QED
  BY <1>2, <1>3, <1>5, <1>6 DEF BuilderInv

(* What BuilderInv says of one thread. *)
ThreadSound(t) ==
  /\ step[t] \in {"grow", "retry"} => pc[t] = "out"
  /\ step[t] = "retry" => grown[t] = Limit \/ MinNewSize(t) <= grown[t]
  /\ Built(t) =>
       /\ t \in Users[sb[t].arena]
       /\ sb[t].length < sb[t].capacity /\ sb[t].text < sb[t].capacity
       /\ \E b \in live[sb[t].arena] :
            b.at = sb[t].buffer /\ sb[t].capacity <= b.len
       /\ sb[t].length <= sb[t].text
       /\ step[t] = "ready" /\ ~refused[t] =>
            sb[t].text = asked[t] /\ sb[t].length = asked[t]
       /\ step[t] # "ready" /\ ~refused[t] => asked[t] = sb[t].length + piece[t]

LEMMA ThreadByThread ==
  /\ BuilderInv => \A t \in Threads : ThreadSound(t)
  /\ ArenaInv' /\ AlignInv' /\ BuilderTypeOK' /\ (\A t \in Threads : ThreadSound(t)')
       => BuilderInv'
  BY DEF BuilderInv, ThreadSound, StepsHold, WritesInside, LoopHolds, TextHolds

(* A thread whose builder is left alone only needs its blocks to stay. *)
LEMMA OthersKeep ==
  ASSUME BuilderInv, NEW u \in Threads,
         step'[u] = step[u], pc'[u] = pc[u] \/ step[u] \in {"none", "ready"},
         sb'[u] = sb[u], piece'[u] = piece[u], grown'[u] = grown[u],
         asked'[u] = asked[u], refused'[u] = refused[u],
         Built(u) => live[sb[u].arena] \subseteq live'[sb[u].arena]
  PROVE  ThreadSound(u)'
<1>1. ThreadSound(u)
  BY ThreadByThread
<1>2. MinNewSize(u)' = MinNewSize(u) /\ Built(u)' = Built(u)
  BY DEF MinNewSize, Built
<1>3. QED
  BY <1>1, <1>2 DEF ThreadSound, Built

(* Making a builder. *)
LEMMA NewKeeps ==
  ASSUME BuilderInv, NEW t \in Threads, New(t)
  PROVE  BuilderInv'
<1> USE DEF BuilderInv, BuilderTypeOK
<1>1. PICK a \in Arenas :
        /\ t \in Users[a]
        /\ Fits(a, Rounded(Header) + Rounded(Initial))
        /\ Take(t, a, {Block(t, used[a], Header),
                       Block(t, used[a] + Rounded(Header), Initial)},
                Rounded(Header) + Rounded(Initial))
        /\ sb' = [sb EXCEPT ![t] = [arena |-> a, buffer |-> used[a] + Rounded(Header),
                                    capacity |-> Initial, length |-> 0, text |-> 0]]
  BY DEF New
<1>2. /\ pc[t] = "out" /\ step' = [step EXCEPT ![t] = "ready"]
      /\ asked' = [asked EXCEPT ![t] = 0] /\ refused' = [refused EXCEPT ![t] = FALSE]
      /\ UNCHANGED <<piece, grown, pc>>
  BY <1>1 DEF New, Goto, Take
<1>3. Private(a) /\ Header \in Nat /\ Initial \in Nat \ {0}
  BY BuilderAssumption
<1>4. /\ ArenaInv' /\ AlignInv'
      /\ \A x \in Arenas : live[x] \subseteq live'[x]
      /\ \E b \in live'[a] : b.at = used[a] + Rounded(Header) /\ Initial <= b.len
  <2>1. ArenaInv /\ AlignInv
    BY DEF BuilderInv
  <2>2. t \in Users[a] /\ Fits(a, Rounded(Header) + Rounded(Initial)) /\ Initial \in Nat
    BY <1>1, <1>3
  <2>3. QED
    BY ONLY t \in Threads, a \in Arenas, <1>1, <1>2, <1>3, <2>1, <2>2, TakeTwo
<1>5. used[a] + Rounded(Header) \in Nat
  BY <1>3, AlignedUp DEF Rounded, TypeOK
<1>6. BuilderTypeOK'
  <2>1. [arena |-> a, buffer |-> used[a] + Rounded(Header),
         capacity |-> Initial, length |-> 0, text |-> 0] \in Builders
    BY ONLY <1>3, <1>5, a \in Arenas DEF Builders
  <2>2. sb' \in [Threads -> Builders]
    BY <1>1, <2>1
  <2>3. QED
    BY <1>2, <1>4, <2>2 DEF ArenaInv
<1>7. ASSUME NEW u \in Threads, u # t PROVE ThreadSound(u)'
  <2>1. Built(u) => sb[u].arena \in Arenas
    BY DEF Builders
  <2>2. QED
    BY <1>1, <1>2, <1>4, <1>7, <2>1, OthersKeep
<1>8. ThreadSound(t)'
  <2>1. sb'[t] = [arena |-> a, buffer |-> used[a] + Rounded(Header),
                  capacity |-> Initial, length |-> 0, text |-> 0]
    BY <1>1
  <2>2. step'[t] = "ready" /\ asked'[t] = 0
    BY <1>2
  <2>3. QED
    BY <1>1, <1>3, <1>4, <2>1, <2>2 DEF ThreadSound, Built
<1>9. QED
  BY <1>4, <1>6, <1>7, <1>8, ThreadByThread

LEMMA NewFailsKeeps ==
  ASSUME BuilderInv, NEW t \in Threads, NewFails(t)
  PROVE  BuilderInv'
<1> USE DEF BuilderInv, BuilderTypeOK
<1>1. PICK a \in Arenas :
        /\ t \in Users[a]
        /\ Fits(a, Rounded(Header))
        /\ Take(t, a, {Block(t, used[a], Header)}, Rounded(Header))
  BY DEF NewFails
<1>2. pc[t] = "out" /\ UNCHANGED <<builderVars, pc>>
  BY <1>1 DEF NewFails, Take
<1>3. ArenaInv' /\ AlignInv' /\ \A x \in Arenas : live[x] \subseteq live'[x]
  BY <1>1, <1>2, BuilderAssumption, TakeOne
<1>4. BuilderTypeOK'
  BY <1>2, <1>3 DEF ArenaInv, builderVars
<1>5. ASSUME NEW u \in Threads PROVE ThreadSound(u)'
  <2>1. sb[u].arena \in Arenas
    BY DEF Builders
  <2>2. QED
    BY <1>2, <1>3, <2>1, OthersKeep DEF builderVars
<1>6. QED
  BY <1>3, <1>4, <1>5, ThreadByThread

(* A text is added, or cut off to be printed again.                        *)
LEMMA AppendKeeps ==
  ASSUME BuilderInv, NEW t \in Threads, NEW n \in Pieces, Append(t, n)
  PROVE  BuilderInv'
<1> USE DEF BuilderInv, BuilderTypeOK
<1>1. /\ step[t] = "ready" /\ pc[t] = "out" /\ UNCHANGED <<vars, refused>>
      /\ asked' = [asked EXCEPT ![t] = IF refused[t] THEN asked[t] ELSE asked[t] + n]
  BY DEF Append
<1>2. n \in Nat
  BY BuilderAssumption
<1>3. ArenaInv' /\ AlignInv'
  BY <1>1 DEF vars, ArenaInv, TypeOK, CallerInv, PrivateInv, AlignInv
<1>4. sb[t] \in Builders /\ ThreadSound(t)
  BY ThreadByThread
<1>5. /\ sb[t].capacity \in Nat /\ sb[t].length \in Nat /\ sb[t].text \in Nat
      /\ sb[t].length < sb[t].capacity /\ sb[t].text < sb[t].capacity
  BY <1>1, <1>4 DEF Builders, ThreadSound, Built
<1>6. ASSUME /\ step' \in [Threads -> {"none", "ready", "grow", "retry"}]
             /\ sb' \in [Threads -> Builders]
             /\ piece' \in [Threads -> Nat] /\ grown' \in [Threads -> Nat]
             /\ \A u \in Threads \ {t} : /\ step'[u] = step[u] /\ sb'[u] = sb[u]
                                          /\ piece'[u] = piece[u] /\ grown'[u] = grown[u]
             /\ ThreadSound(t)'
      PROVE  BuilderInv'
  <2>1. BuilderTypeOK'
    <3>1. asked' \in [Threads -> Nat] /\ refused' \in [Threads -> BOOLEAN]
      BY <1>1, <1>2
    <3>2. QED
      BY <1>3, <1>6, <3>1 DEF ArenaInv
  <2>2. ASSUME NEW u \in Threads, u # t PROVE ThreadSound(u)'
    BY <1>1, <1>6, <2>2, OthersKeep DEF vars
  <2>3. QED
    BY <1>3, <1>6, <2>1, <2>2, ThreadByThread
<1>7. CASE Enough(t, n)
  <2>1. /\ sb' = [sb EXCEPT ![t].length = sb[t].length + n, ![t].text = sb[t].length + n]
        /\ UNCHANGED <<step, piece, grown>> /\ sb[t].length + n < sb[t].capacity
    BY <1>2, <1>5, <1>7 DEF Append, Enough, Remaining
  <2>2. sb'[t] = [sb[t] EXCEPT !.length = sb[t].length + n, !.text = sb[t].length + n]
    BY <2>1
  <2>3. /\ sb'[t].arena = sb[t].arena /\ sb'[t].buffer = sb[t].buffer
        /\ sb'[t].capacity = sb[t].capacity
        /\ sb'[t].length = sb[t].length + n /\ sb'[t].text = sb[t].length + n
        /\ sb'[t] \in Builders
    <3>1. sb[t].length + n \in Nat
      BY <1>2, <1>5
    <3>2. QED
      BY <1>4, <2>2, <3>1 DEF Builders
  <2>4. sb' \in [Threads -> Builders]
    BY <2>1, <2>3
  <2>5. ThreadSound(t)'
    BY <1>1, <1>2, <1>4, <1>5, <2>1, <2>3 DEF ThreadSound, Built, vars
  <2>6. QED
    BY <1>6, <2>1, <2>4, <2>5
<1>8. CASE ~Enough(t, n)
  <2>1. /\ sb' = [sb EXCEPT ![t].text = sb[t].capacity - 1]
        /\ piece' = [piece EXCEPT ![t] = n] /\ grown' = [grown EXCEPT ![t] = sb[t].capacity]
        /\ step' = [step EXCEPT ![t] = "grow"]
    BY <1>8 DEF Append, Goto
  <2>2. sb'[t] = [sb[t] EXCEPT !.text = sb[t].capacity - 1]
    BY <2>1
  <2>3. /\ sb'[t].arena = sb[t].arena /\ sb'[t].buffer = sb[t].buffer
        /\ sb'[t].capacity = sb[t].capacity /\ sb'[t].length = sb[t].length
        /\ sb'[t].text = sb[t].capacity - 1
        /\ sb'[t] \in Builders
    BY <1>4, <1>5, <2>2 DEF Builders
  <2>4. sb' \in [Threads -> Builders] /\ piece' \in [Threads -> Nat]
        /\ grown' \in [Threads -> Nat]
        /\ step' \in [Threads -> {"none", "ready", "grow", "retry"}]
    BY <1>2, <1>5, <2>1, <2>3
  <2>5. ThreadSound(t)'
    <3>1. step'[t] = "grow" /\ piece'[t] = n /\ pc'[t] = "out" /\ live' = live
          /\ refused'[t] = refused[t]
      BY <1>1, <2>1 DEF vars
    <3>2. ~refused[t] => asked'[t] = sb[t].length + n
      BY <1>1, <1>4 DEF ThreadSound, Built
    <3>3. QED
      BY <1>1, <1>4, <1>5, <2>3, <3>1, <3>2 DEF ThreadSound, Built
  <2>6. QED
    BY <1>6, <2>1, <2>4, <2>5
<1>9. QED
  BY <1>7, <1>8

(* The loop that looks for a capacity. *)
LEMMA LoopKeeps ==
  ASSUME BuilderInv, NEW t \in Threads, Double(t) \/ StopDoubling(t)
  PROVE  BuilderInv'
<1> USE DEF BuilderInv, BuilderTypeOK
<1>1. step[t] = "grow" /\ UNCHANGED <<vars, sb, piece, asked, refused>>
  BY DEF Double, StopDoubling
<1>2. ArenaInv' /\ AlignInv'
  BY <1>1 DEF vars, ArenaInv, TypeOK, CallerInv, PrivateInv, AlignInv
<1>3. /\ \A u \in Threads \ {t} : step'[u] = step[u] /\ grown'[u] = grown[u]
      /\ step' \in [Threads -> {"none", "ready", "grow", "retry"}]
      /\ grown' \in [Threads -> Nat]
      /\ \/ step'[t] = "grow"
         \/ step'[t] = "retry" /\ (grown'[t] = Limit \/ MinNewSize(t) <= grown'[t])
  <2>1. Limit \in Nat /\ \A k \in Nat : 2 * k \in Nat
    BY BuilderAssumption
  <2>2. CASE Double(t)
    BY <2>1, <2>2, <1>1 DEF Double, Goto
  <2>3. CASE StopDoubling(t)
    <3>1. MinNewSize(t) \in Nat
      BY DEF MinNewSize, Builders
    <3>2. QED
      BY <2>3, <3>1, <1>1 DEF StopDoubling, Goto
  <2>4. QED
    BY <2>2, <2>3
<1>4. BuilderTypeOK'
  BY <1>1, <1>2, <1>3 DEF ArenaInv
<1>5. ASSUME NEW u \in Threads, u # t PROVE ThreadSound(u)'
  BY <1>1, <1>3, <1>5, OthersKeep DEF vars
<1>6. ThreadSound(t)'
  <2>1. ThreadSound(t)
    BY ThreadByThread
  <2>2. MinNewSize(t)' = MinNewSize(t) /\ pc' = pc /\ live' = live
    BY <1>1 DEF MinNewSize, vars
  <2>3. QED
    BY <1>1, <1>3, <2>1, <2>2 DEF ThreadSound, Built
<1>7. QED
  BY <1>2, <1>4, <1>5, <1>6, ThreadByThread

(* If the arena still has the memory, it is enough for the text: were the  *)
(* capacity capped at SIZE_MAX, the arena, which is no larger and not      *)
(* empty, would not have it.                                               *)
LEMMA CappedNeverFits ==
  ASSUME BuilderInv, NEW t \in Threads, step[t] = "retry", CanExpand(t)
  PROVE  MinNewSize(t) <= grown[t]
<1> USE DEF BuilderInv, BuilderTypeOK
<1>1. ThreadSound(t) /\ sb[t] \in Builders
  BY ThreadByThread
<1> DEFINE a == sb[t].arena
<1>2. a \in Arenas /\ t \in Users[a] /\ Private(a) /\ sb[t].capacity \in Nat
      /\ sb[t].length \in Nat /\ sb[t].length < sb[t].capacity
  BY <1>1, BuilderAssumption DEF ThreadSound, Built, Builders
<1>3. PICK b \in live[a] : b.at = sb[t].buffer /\ sb[t].capacity <= b.len
  BY <1>1 DEF ThreadSound, Built
<1>4. used[a] \in Nat /\ b.at \in Nat /\ b.len \in Nat /\ b.at + b.len <= used[a]
  BY <1>2, <1>3 DEF TypeOK, Blocks, ArenaInv, PrivateInv
<1>5. used[a] > 0
  BY <1>2, <1>3, <1>4
<1>6. ASSUME grown[t] = Limit PROVE FALSE
  <2>1. Rounded(grown[t]) \in Nat /\ Rounded(grown[t]) >= grown[t]
    BY AlignedUp DEF Rounded
  <2>2. used[a] + Rounded(grown[t]) <= Capacity
    BY DEF CanExpand, Fits
  <2>3. Capacity <= Limit /\ Limit \in Nat /\ Capacity \in Nat
    BY BuilderAssumption, ArenaAssumption
  <2>4. QED
    BY <1>4, <1>5, <1>6, <2>1, <2>2, <2>3
<1>7. QED
  BY <1>1, <1>6 DEF ThreadSound

(* The new buffer, with the text copied and the piece printed. *)
LEMMA ExpandKeeps ==
  ASSUME BuilderInv, NEW t \in Threads, Expand(t)
  PROVE  BuilderInv'
<1> USE DEF BuilderInv, BuilderTypeOK
<1> DEFINE a == sb[t].arena
           whole == sb[t].length + piece[t]
<1>1. ThreadSound(t) /\ sb[t] \in Builders /\ step[t] = "retry" /\ CanExpand(t)
  BY ThreadByThread DEF Expand
<1>2. /\ a \in Arenas /\ t \in Users[a] /\ Private(a) /\ pc[t] = "out"
      /\ sb[t].length \in Nat /\ piece[t] \in Nat /\ grown[t] \in Nat
      /\ used[a] \in Nat
  BY <1>1, BuilderAssumption DEF ThreadSound, Built, Builders, TypeOK
<1>3. MinNewSize(t) = whole + 1 /\ whole < grown[t] /\ whole \in Nat
  BY <1>1, <1>2, CappedNeverFits DEF MinNewSize
<1>4. /\ Take(t, a, {Block(t, used[a], grown[t])}, Rounded(grown[t]))
      /\ Fits(a, Rounded(grown[t]))
      /\ sb' = [sb EXCEPT ![t].buffer = used[a], ![t].capacity = grown[t],
                          ![t].length = whole, ![t].text = whole]
      /\ step' = [step EXCEPT ![t] = "ready"]
      /\ piece' = [piece EXCEPT ![t] = 0] /\ grown' = [grown EXCEPT ![t] = 0]
      /\ UNCHANGED <<asked, refused, pc>>
  <2>1. MinNewSize(t) - 1 = whole
    BY <1>2, <1>3
  <2>2. sb' = [sb EXCEPT ![t].buffer = used[a], ![t].capacity = grown[t],
                         ![t].length = whole, ![t].text = whole]
    BY <1>3, <2>1 DEF Expand
  <2>3. QED
    BY <1>1, <2>2 DEF Expand, CanExpand, Forget, Goto, Take
<1>5. /\ ArenaInv' /\ AlignInv'
      /\ \A x \in Arenas : live[x] \subseteq live'[x]
      /\ \E b \in live'[a] : b.at = used[a] /\ grown[t] <= b.len
  BY <1>2, <1>4, TakeOne
<1> HIDE DEF whole, a
<1>6. sb'[t] = [sb[t] EXCEPT !.buffer = used[a], !.capacity = grown[t],
                            !.length = whole, !.text = whole]
  BY <1>4
<1>7. /\ sb'[t].arena = a /\ sb'[t].buffer = used[a] /\ sb'[t].capacity = grown[t]
      /\ sb'[t].length = whole /\ sb'[t].text = whole
      /\ sb'[t] \in Builders
  BY <1>1, <1>2, <1>3, <1>6 DEF Builders, a
<1>8. BuilderTypeOK'
  BY <1>4, <1>5, <1>7 DEF ArenaInv
<1>9. ASSUME NEW u \in Threads, u # t PROVE ThreadSound(u)'
  <2>1. sb[u].arena \in Arenas
    BY DEF Builders
  <2>2. QED
    BY <1>4, <1>5, <1>9, <2>1, OthersKeep
<1>10. ThreadSound(t)'
  <2>1. ~refused[t] => asked[t] = whole
    BY <1>1 DEF ThreadSound, Built, whole
  <2>2. step'[t] = "ready" /\ asked'[t] = asked[t] /\ refused'[t] = refused[t]
    BY <1>4
  <2>3. QED
    BY <1>2, <1>3, <1>5, <1>7, <2>1, <2>2 DEF ThreadSound, Built
<1>11. QED
  BY <1>5, <1>8, <1>9, <1>10, ThreadByThread

LEMMA RefuseKeeps ==
  ASSUME BuilderInv, NEW t \in Threads, Refuse(t)
  PROVE  BuilderInv'
<1> USE DEF BuilderInv, BuilderTypeOK
<1>1. /\ step[t] = "retry" /\ UNCHANGED <<vars, sb>>
      /\ refused' = [refused EXCEPT ![t] = TRUE] /\ asked' = [asked EXCEPT ![t] = 0]
      /\ step' = [step EXCEPT ![t] = "ready"]
      /\ piece' = [piece EXCEPT ![t] = 0] /\ grown' = [grown EXCEPT ![t] = 0]
  BY DEF Refuse, Forget, Goto
<1>2. ArenaInv' /\ AlignInv'
  BY <1>1 DEF vars, ArenaInv, TypeOK, CallerInv, PrivateInv, AlignInv
<1>3. BuilderTypeOK'
  BY <1>1, <1>2 DEF ArenaInv
<1>4. ASSUME NEW u \in Threads, u # t PROVE ThreadSound(u)'
  BY <1>1, <1>4, OthersKeep DEF vars
<1>5. ThreadSound(t)'
  <2>1. ThreadSound(t)
    BY ThreadByThread
  <2>2. QED
    BY <1>1, <2>1 DEF ThreadSound, Built, vars
<1>6. QED
  BY <1>2, <1>3, <1>4, <1>5, ThreadByThread

(* What else the request allocates. *)
LEMMA OtherAllocKeeps ==
  ASSUME BuilderInv, NEW t \in Threads, OtherAlloc(t)
  PROVE  BuilderInv'
<1> USE DEF BuilderInv, BuilderTypeOK
<1>1. Test(t) \/ Bump(t)
  BY DEF OtherAlloc
<1>2. UNCHANGED builderVars /\ step[t] \in {"none", "ready"}
  BY DEF OtherAlloc
<1>3. ArenaInv' /\ AlignInv'
  BY <1>1, NextArena, NextAligned DEF Next
<1>4. \A x \in Arenas : live[x] \subseteq live'[x]
  <2>1. CASE Test(t)
    BY <2>1 DEF Test
  <2>2. CASE Bump(t)
    <3>1. live' = live \/ \E S : live' = [live EXCEPT ![call[t].arena] = @ \cup S]
      BY <2>2 DEF Bump
    <3>2. live \in [Arenas -> SUBSET Blocks]
      BY DEF ArenaInv, TypeOK
    <3>3. QED
      BY <3>1, <3>2
  <2>3. QED
    BY <1>1, <2>1, <2>2
<1>5. \A u \in Threads \ {t} : pc'[u] = pc[u]
  <2>1. \E l \in {"out", "bump"} : pc' = [pc EXCEPT ![t] = l]
    BY <1>1 DEF Test, Bump
  <2>2. QED
    BY <2>1 DEF ArenaInv, TypeOK
<1>6. BuilderTypeOK'
  BY <1>2, <1>3 DEF ArenaInv, builderVars
<1>7. ASSUME NEW u \in Threads PROVE ThreadSound(u)'
  <2>1. sb[u].arena \in Arenas
    BY DEF Builders
  <2>2. QED
    BY <1>2, <1>4, <1>5, <2>1, OthersKeep DEF builderVars
<1>8. QED
  BY <1>3, <1>6, <1>7, ThreadByThread

(* The arena goes, and with it the builders in it, and no other's block.   *)
LEMMA EndRequestKeeps ==
  ASSUME BuilderInv, NEW a \in Arenas, EndRequest(a)
  PROVE  BuilderInv'
<1> USE DEF BuilderInv, BuilderTypeOK
<1>1. FreeArena(a) /\ \A t \in Users[a] : step[t] \in {"none", "ready"}
  BY DEF EndRequest
<1>2. /\ step' = [t \in Threads |-> IF Gone(t, a) THEN "none" ELSE step[t]]
      /\ sb' = [t \in Threads |-> IF Gone(t, a) THEN NoBuilder(a) ELSE sb[t]]
      /\ asked' = [t \in Threads |-> IF Gone(t, a) THEN 0 ELSE asked[t]]
      /\ refused' = [t \in Threads |-> IF Gone(t, a) THEN FALSE ELSE refused[t]]
      /\ UNCHANGED <<piece, grown>>
  BY DEF EndRequest
<1>3. ArenaInv' /\ AlignInv'
  BY <1>1, NextArena, NextAligned DEF Next
<1>4. pc' = pc /\ \A x \in Arenas \ {a} : live'[x] = live[x]
  BY <1>1 DEF FreeArena, ArenaInv, TypeOK
<1>5. BuilderTypeOK'
  <2>1. NoBuilder(a) \in Builders
    BY DEF NoBuilder, Builders
  <2>2. sb' \in [Threads -> Builders]
    BY <1>2, <2>1
  <2>3. QED
    BY <1>2, <1>3, <2>2 DEF ArenaInv
<1>6. ASSUME NEW u \in Threads PROVE ThreadSound(u)'
  <2>1. CASE Gone(u, a)
    BY <1>2, <2>1 DEF ThreadSound, Built
  <2>2. CASE ~Gone(u, a)
    <3>1. Built(u) => u \in Users[sb[u].arena] /\ sb[u].arena \in Arenas
      BY ThreadByThread DEF ThreadSound, Builders
    <3>2. Built(u) => sb[u].arena # a
      BY <1>1, <2>2, <3>1 DEF Built, Gone
    <3>3. /\ step'[u] = step[u] /\ sb'[u] = sb[u]
          /\ asked'[u] = asked[u] /\ refused'[u] = refused[u]
      BY <1>2, <2>2
    <3>4. Built(u) => live[sb[u].arena] \subseteq live'[sb[u].arena]
      BY <1>4, <3>1, <3>2
    <3>5. QED
      BY <1>2, <1>4, <3>3, <3>4, OthersKeep
  <2>3. QED
    BY <2>1, <2>2
<1>7. QED
  BY <1>3, <1>5, <1>6, ThreadByThread

LEMMA BuilderNextKeeps == BuilderInv /\ [BuilderNext]_allVars => BuilderInv'
<1>1. SUFFICES ASSUME BuilderInv, [BuilderNext]_allVars PROVE BuilderInv'
  OBVIOUS
<1>2. CASE UNCHANGED allVars
  <2>1. UNCHANGED <<vars, builderVars>>
    BY <1>2 DEF allVars
  <2>2. ArenaInv' /\ AlignInv'
    BY <1>1, <2>1 DEF BuilderInv, vars, ArenaInv, TypeOK, CallerInv, PrivateInv, AlignInv
  <2>3. BuilderTypeOK'
    BY <1>1, <2>1, <2>2 DEF BuilderInv, BuilderTypeOK, ArenaInv, builderVars
  <2>4. ASSUME NEW u \in Threads PROVE ThreadSound(u)'
    BY <1>1, <2>1, OthersKeep DEF vars, builderVars
  <2>5. QED
    BY <2>2, <2>3, <2>4, ThreadByThread
<1>3. QED
  BY <1>1, <1>2, NewKeeps, NewFailsKeeps, AppendKeeps, LoopKeeps, ExpandKeeps,
     RefuseKeeps, OtherAllocKeeps, EndRequestKeeps DEF BuilderNext, BuilderStep

THEOREM BuilderInvariant == BuilderSpec => []BuilderInv
  BY BuilderInitInv, BuilderNextKeeps, PTL DEF BuilderSpec

(* StringBuilder_append never writes outside the block the arena gave it,  *)
(* although it looks at the capped capacity no more: in every arena no     *)
(* larger than SIZE_MAX, for every text.                                   *)
THEOREM BuilderIsSound == BuilderSpec => []BuilderSound
<1>1. BuilderInv => BuilderSound
  BY DEF BuilderInv, BuilderSound, AlignInv, BlocksAligned
<1>2. QED
  BY <1>1, BuilderInvariant, PTL

(* The buffer holds everything that was appended, and stops doing so only  *)
(* with the first text for which there was no memory.                      *)
THEOREM NoTextIsLost == BuilderSpec => []TextIsWhole
<1>1. BuilderInv => TextIsWhole
  BY DEF BuilderInv, TextHolds, TextIsWhole, Built
<1>2. QED
  BY <1>1, BuilderInvariant, PTL

(* Builders do not break the promise of the arena they work in. *)
THEOREM BuildersKeepArenasSound == BuilderSpec => []PrivateArenaSound
<1>1. BuilderInv => PrivateArenaSound
  BY DEF BuilderInv, ArenaInv, PrivateInv, PrivateArenaSound, BlocksDisjoint,
         BlocksInside
<1>2. QED
  BY <1>1, BuilderInvariant, PTL
=============================================================================
