--------------------------- MODULE StringBuilder ---------------------------
(***************************************************************************)
(* The string builder of src/src/stringbuilder.c, in which pages, style    *)
(* sheets and error messages are put together, on top of the request's     *)
(* arena: a buffer cannot be extended, so growing is a new block and a     *)
(* copy, and the other blocks of the request come in between.              *)
(*                                                                         *)
(* A text is known by its length.  length is sb->length; text is where the *)
(* buffer's NUL is, which is what a reader of the buffer sees.             *)
(*                                                                         *)
(* step: none (no builder), ready, grow (the loop that doubles the new     *)
(* capacity), retry (the loop is over).                                    *)
(***************************************************************************)
EXTENDS Arena

CONSTANTS
  Header,   \* sizeof(StringBuilder)
  Initial,  \* INITIAL_CAPACITY
  Limit,    \* SIZE_MAX, which stringbuilder.c defines as 1 MiB
  Pieces    \* the lengths of the formatted texts that are appended

(* An arena is a request's own, and has the size of SIZE_MAX               *)
(* (handler.c:713).                                                        *)
ASSUME BuilderAssumption ==
  /\ Header \in Nat \ {0}
  /\ Initial \in Nat \ {0}
  /\ Limit \in Nat
  /\ Pieces \subseteq Nat
  /\ Capacity <= Limit
  /\ \A a \in Arenas : Private(a)

VARIABLES
  step,
  sb,       \* each thread's builder: its arena, its buffer, and its lengths
  piece,    \* the length of the text being appended (needed)
  grown,    \* new_capacity
  asked,    \* the length of all texts, as long as none was refused
  refused   \* whether a text was left out for want of memory

builderVars == <<step, sb, piece, grown, asked, refused>>
allVars == <<vars, builderVars>>

Builders == [arena : Arenas, buffer : Nat, capacity : Nat, length : Nat,
             text : Nat]

BuilderTypeOK ==
  /\ TypeOK
  /\ step \in [Threads -> {"none", "ready", "grow", "retry"}]
  /\ sb \in [Threads -> Builders]
  /\ piece \in [Threads -> Nat] /\ grown \in [Threads -> Nat]
  /\ asked \in [Threads -> Nat] /\ refused \in [Threads -> BOOLEAN]

NoBuilder(a) == [arena |-> a, buffer |-> 0, capacity |-> 0, length |-> 0,
                 text |-> 0]

BuilderInit ==
  /\ Init
  /\ step = [t \in Threads |-> "none"]
  /\ sb \in [Threads -> {NoBuilder(a) : a \in Arenas}]
  /\ piece = [t \in Threads |-> 0] /\ grown = [t \in Threads |-> 0]
  /\ asked = [t \in Threads |-> 0]
  /\ refused = [t \in Threads |-> FALSE]

Goto(t, l) == step' = [step EXCEPT ![t] = l]

(* arenaAlloc, in an arena that no other thread uses.                      *)
Block(t, at, n) == [by |-> t, at |-> at, len |-> Rounded(n)]
Take(t, a, blocks, total) ==
  /\ used' = [used EXCEPT ![a] = @ + total]
  /\ live' = [live EXCEPT ![a] = @ \cup blocks]
  /\ UNCHANGED <<pc, call>>

-----------------------------------------------------------------------------
(* StringBuilder_new; without memory it returns NULL, and a struct that    *)
(* fitted is left behind.                                                  *)
New(t) ==
  /\ step[t] = "none" /\ pc[t] = "out"
  /\ \E a \in Arenas :
       LET h == Rounded(Header) IN
       /\ t \in Users[a]
       /\ Fits(a, h + Rounded(Initial))
       /\ Take(t, a, {Block(t, used[a], Header), Block(t, used[a] + h, Initial)},
               h + Rounded(Initial))
       /\ sb' = [sb EXCEPT ![t] = [arena |-> a, buffer |-> used[a] + h,
                                   capacity |-> Initial, length |-> 0,
                                   text |-> 0]]
  /\ Goto(t, "ready")
  /\ asked' = [asked EXCEPT ![t] = 0]
  /\ refused' = [refused EXCEPT ![t] = FALSE]
  /\ UNCHANGED <<piece, grown>>

NewFails(t) ==
  /\ step[t] = "none" /\ pc[t] = "out"
  /\ \E a \in Arenas :
       LET h == Rounded(Header) IN
       /\ t \in Users[a]
       /\ Fits(a, h) /\ ~Fits(a, h + Rounded(Initial))
       /\ Take(t, a, {Block(t, used[a], Header)}, h)
  /\ UNCHANGED builderVars

Remaining(t) == sb[t].capacity - sb[t].length

(* Mutant: the NUL at the end is not counted. *)
Enough_NoNul(t, n) == n <= Remaining(t)

(* needed < remaining *)
Enough(t, n) == n < Remaining(t)

(* StringBuilder_append, and its first vsnprintf: a text that does not fit *)
(* is cut off at the end of the buffer.                                    *)
Append(t, n) ==
  /\ step[t] = "ready" /\ pc[t] = "out"
  /\ asked' = [asked EXCEPT ![t] = IF refused[t] THEN @ ELSE @ + n]
  /\ IF Enough(t, n)
     THEN /\ sb' = [sb EXCEPT ![t].length = @ + n,
                              ![t].text = sb[t].length + n]
          /\ UNCHANGED <<step, piece, grown>>
     ELSE /\ sb' = [sb EXCEPT ![t].text = sb[t].capacity - 1]
          /\ piece' = [piece EXCEPT ![t] = n]
          /\ grown' = [grown EXCEPT ![t] = sb[t].capacity]
          /\ Goto(t, "grow")
  /\ UNCHANGED <<vars, refused>>

(* StringBuilder_append returns; its local variables are gone.             *)
Forget(t) ==
  /\ Goto(t, "ready")
  /\ piece' = [piece EXCEPT ![t] = 0]
  /\ grown' = [grown EXCEPT ![t] = 0]

MinNewSize(t) == sb[t].length + piece[t] + 1

(* The body of the loop.                                                   *)
Double(t) ==
  /\ step[t] = "grow"
  /\ grown[t] < MinNewSize(t)
  /\ IF grown[t] > Limit \div 2
     THEN grown' = [grown EXCEPT ![t] = Limit] /\ Goto(t, "retry")
     ELSE grown' = [grown EXCEPT ![t] = 2 * @] /\ UNCHANGED step
  /\ UNCHANGED <<vars, sb, piece, asked, refused>>

(* The condition of the loop fails.                                        *)
StopDoubling(t) ==
  /\ step[t] = "grow"
  /\ grown[t] >= MinNewSize(t)
  /\ Goto(t, "retry")
  /\ UNCHANGED <<vars, sb, piece, grown, asked, refused>>

CanExpand(t) ==
  /\ grown[t] > sb[t].capacity
  /\ Fits(sb[t].arena, Rounded(grown[t]))

(* Mutant: the new buffer is written to, but the length stays. *)
Expand_KeepsLength(t) ==
  LET a == sb[t].arena IN
  /\ step[t] = "retry" /\ CanExpand(t)
  /\ Take(t, a, {Block(t, used[a], grown[t])}, Rounded(grown[t]))
  /\ sb' = [sb EXCEPT ![t].buffer = used[a], ![t].capacity = grown[t],
                      ![t].text = MinNewSize(t) - 1]
  /\ Forget(t)
  /\ UNCHANGED <<asked, refused>>

(* The text so far is copied, and the second vsnprintf prints all of the   *)
(* new one, or what the new capacity leaves room for.                      *)
Expand(t) ==
  LET a == sb[t].arena
      whole == MinNewSize(t) - 1
  IN
  /\ step[t] = "retry" /\ CanExpand(t)
  /\ Take(t, a, {Block(t, used[a], grown[t])}, Rounded(grown[t]))
  /\ sb' = [sb EXCEPT ![t].buffer = used[a], ![t].capacity = grown[t],
                      ![t].length = whole,
                      ![t].text = IF whole < grown[t] THEN whole ELSE grown[t] - 1]
  /\ Forget(t)
  /\ UNCHANGED <<asked, refused>>

(* No memory: the caller is not told.                                      *)
Refuse(t) ==
  /\ step[t] = "retry" /\ ~CanExpand(t)
  /\ refused' = [refused EXCEPT ![t] = TRUE]
  /\ asked' = [asked EXCEPT ![t] = 0]
  /\ Forget(t)
  /\ UNCHANGED <<vars, sb>>

-----------------------------------------------------------------------------
(* The rest of the request *)

(* Other blocks of the same arena, between two calls of the builder.       *)
OtherAlloc(t) ==
  /\ step[t] \in {"none", "ready"}
  /\ Test(t) \/ Bump(t)
  /\ UNCHANGED builderVars

(* The request is over, and its builder with it.                           *)
Gone(t, a) == step[t] = "ready" /\ sb[t].arena = a
EndRequest(a) ==
  /\ \A t \in Users[a] : step[t] \in {"none", "ready"}
  /\ FreeArena(a)
  /\ step' = [t \in Threads |-> IF Gone(t, a) THEN "none" ELSE step[t]]
  /\ sb' = [t \in Threads |-> IF Gone(t, a) THEN NoBuilder(a) ELSE sb[t]]
  /\ asked' = [t \in Threads |-> IF Gone(t, a) THEN 0 ELSE asked[t]]
  /\ refused' = [t \in Threads |-> IF Gone(t, a) THEN FALSE ELSE refused[t]]
  /\ UNCHANGED <<piece, grown>>

BuilderStep(t) ==
  \/ New(t) \/ NewFails(t)
  \/ \E n \in Pieces : Append(t, n)
  \/ Double(t) \/ StopDoubling(t) \/ Expand(t) \/ Refuse(t)

BuilderNext ==
  \/ \E t \in Threads : BuilderStep(t) \/ OtherAlloc(t)
  \/ \E a \in Arenas : EndRequest(a)

BuilderSpec == BuilderInit /\ [][BuilderNext]_allVars

-----------------------------------------------------------------------------
(* Properties *)

Built(t) == step[t] # "none"

(* Every byte the builder writes lies in the block that the arena gave it: *)
(* stringbuilder.c does not look whether the capped capacity is enough,    *)
(* and computes the room that is left without a sign.  It is right because *)
(* the arena is never larger than SIZE_MAX.                                *)
WritesInside ==
  \A t \in Threads : Built(t) =>
    /\ sb[t].length < sb[t].capacity /\ sb[t].text < sb[t].capacity
    /\ \E b \in live[sb[t].arena] :
         b.at = sb[t].buffer /\ sb[t].capacity <= b.len

(* The blocks of the arena and the text in one of them.                    *)
BuilderSound == BuilderTypeOK /\ BlocksAligned /\ WritesInside

(* What a reader sees is all that was appended, unless a text was refused. *)
TextIsWhole ==
  \A t \in Threads :
    step[t] = "ready" =>
      /\ ~refused[t] => sb[t].text = asked[t] /\ sb[t].length = asked[t]
      /\ sb[t].length <= sb[t].text
=============================================================================
