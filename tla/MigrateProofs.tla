--------------------------- MODULE MigrateProofs ---------------------------
(***************************************************************************)
(* The table of applied migrations is a prefix of the migrations, what     *)
(* `up` reports as done is done, and table and schema differ by no more    *)
(* than the faults account for: for any number of migrations, of runners   *)
(* and of faults, as long as nobody else migrates while `down` runs.       *)
(***************************************************************************)
EXTENDS Migrate, FiniteSetTheorems, SequenceTheorems, TLAPS

InLoop == {"read", "execute", "record"}

(* Names grow with time, so an earlier migration has its directory, too. *)
DirectoriesClosed ==
  \A m, k \in Migrations : k < m /\ files[m] # "none" => files[k] # "none"

(* What a runner saw as applied is still recorded. *)
SnapshotsHold ==
  \A r \in Runners : pc[r] \in InLoop \cup {"list"} => applied[r] \subseteq Recorded

(* Every migration before one of the runner's list is in the list before   *)
(* it, and what lies behind the loop's index is recorded.                   *)
LoopInv ==
  \A r \in Runners : pc[r] \in InLoop =>
    /\ Ordered(list[r])
    /\ \A k \in 1..Len(list[r]), m \in Migrations :
         m < list[r][k] => \E j \in 1..Len(list[r]) : list[r][j] = m
    /\ \A j \in 1..Len(list[r]) : j < i[r] => list[r][j] \in Recorded
    /\ pc[r] # "read" => i[r] <= Len(list[r])

DownInv ==
  \A r \in Runners :
    /\ pc[r] \in InDown => \A q \in Runners : q # r => pc[q] = "idle"
    /\ pc[r] \in InDown \ {"last"} =>
         records # <<>> /\ list[r] = <<LastRecord>> /\ i[r] = 1

PrefixInv ==
  /\ TypeOK
  /\ AppliedIsPrefix
  /\ DirectoriesClosed
  /\ SnapshotsHold
  /\ LoopInv
  /\ DownInv

LEMMA InitPrefix == Init => PrefixInv
<1>1. SUFFICES ASSUME Init PROVE PrefixInv
  OBVIOUS
<1>2. TypeOK
  BY <1>1, MigrateAssumption DEF Init, TypeOK, PC
<1>3. AppliedIsPrefix /\ DirectoriesClosed
  BY <1>1 DEF Init, AppliedIsPrefix, DirectoriesClosed
<1>4. SnapshotsHold /\ LoopInv /\ DownInv
  BY <1>1 DEF Init, SnapshotsHold, LoopInv, DownInv, InLoop, InDown
<1>5. QED
  BY <1>2, <1>3, <1>4 DEF PrefixInv

(* What the table holds, when it is a prefix. *)
LEMMA RecordedIsPrefix ==
  ASSUME TypeOK, AppliedIsPrefix
  PROVE  Recorded = 1..Len(records) /\ Len(records) <= N
<1>1. Recorded = 1..Len(records)
  <2>1. ASSUME NEW m \in Recorded PROVE m \in 1..Len(records)
    BY <2>1 DEF AppliedIsPrefix, Recorded
  <2>2. ASSUME NEW m \in 1..Len(records) PROVE m \in Recorded
    BY <2>2 DEF AppliedIsPrefix, Recorded
  <2>3. QED
    BY <2>1, <2>2
<1>2. \A k \in 1..Len(records) : records[k] \in Migrations
  BY DEF TypeOK
<1>3. Len(records) \in Nat /\ N \in Nat
  BY MigrateAssumption DEF TypeOK
<1>4. Len(records) <= N
  BY <1>2, <1>3 DEF AppliedIsPrefix, Migrations
<1>5. QED
  BY <1>1, <1>4

(* The steps that leave the table alone and bring a runner nowhere near    *)
(* the critical places.                                                     *)
Quiescent(r) ==
  /\ records' = records
  /\ files' = files
  /\ \A q \in Runners :
       /\ pc'[q] = IF q = r THEN pc'[r] ELSE pc[q]
       /\ pc'[q] # "idle" =>
            applied'[q] = applied[q] /\ list'[q] = list[q] /\ i'[q] = i[q]
  /\ \/ pc'[r] = "idle"
     \/ pc[r] \in InLoop /\ pc'[r] \in InLoop
          /\ (pc'[r] # "read" => i[r] <= Len(list[r]))
     \/ pc[r] \in InDown \ {"last"} /\ pc'[r] \in InDown \ {"last"}

LEMMA QuiescentInv ==
  ASSUME PrefixInv, NEW r \in Runners, Quiescent(r), TypeOK'
  PROVE  PrefixInv'
<1>1. AppliedIsPrefix' /\ DirectoriesClosed'
  BY DEF PrefixInv, Quiescent, AppliedIsPrefix, DirectoriesClosed
<1>2. Recorded' = Recorded /\ LastRecord' = LastRecord
  BY DEF Quiescent, Recorded, LastRecord
<1>3. SnapshotsHold'
  BY <1>2 DEF PrefixInv, Quiescent, SnapshotsHold, InLoop, InDown
<1>4. LoopInv'
  <2>1. ASSUME NEW q \in Runners, pc'[q] \in InLoop
        PROVE  /\ pc[q] \in InLoop /\ list'[q] = list[q] /\ i'[q] = i[q]
               /\ pc'[q] # "read" => i[q] <= Len(list[q])
    BY <2>1 DEF PrefixInv, Quiescent, LoopInv, InLoop, InDown
  <2>2. QED
    BY <1>2, <2>1 DEF PrefixInv, LoopInv
<1>5. DownInv'
  BY <1>2 DEF PrefixInv, Quiescent, DownInv, InLoop, InDown
<1>6. QED
  BY <1>1, <1>3, <1>4, <1>5 DEF PrefixInv

(* A process that ends leaves the others as they are. *)
LEMMA VanishTypes ==
  ASSUME TypeOK, NEW r \in Runners, Vanish(r)
  PROVE  /\ pc' \in [Runners -> PC] /\ pc'[r] = "idle"
         /\ applied' \in [Runners -> SUBSET Migrations]
         /\ list' \in [Runners -> Seq(Migrations)]
         /\ i' \in [Runners -> Nat]
         /\ \A q \in Runners : i'[q] \in 1..Len(list'[q]) + 1
         /\ text' \in [Runners -> {"template", "sql"}]
         /\ \A q \in Runners \ {r} :
              /\ pc'[q] = pc[q] /\ applied'[q] = applied[q]
              /\ list'[q] = list[q] /\ i'[q] = i[q]
<1>1. <<>> \in Seq(Migrations) /\ Len(<<>>) = 0 /\ "idle" \in PC
  BY DEF PC
<1>2. /\ pc' = [pc EXCEPT ![r] = "idle"]
      /\ applied' = [applied EXCEPT ![r] = {}]
      /\ list' = [list EXCEPT ![r] = <<>>]
      /\ i' = [i EXCEPT ![r] = 1]
      /\ text' = [text EXCEPT ![r] = "template"]
  BY DEF Vanish, Goto
<1>3. \A q \in Runners \ {r} :
        /\ pc'[q] = pc[q] /\ applied'[q] = applied[q]
        /\ list'[q] = list[q] /\ i'[q] = i[q]
  BY <1>2 DEF TypeOK
<1>4. list'[r] = <<>> /\ i'[r] = 1 /\ pc'[r] = "idle"
  BY <1>2 DEF TypeOK
<1>5. \A q \in Runners : i'[q] \in 1..Len(list'[q]) + 1
  BY <1>1, <1>3, <1>4 DEF TypeOK
<1>6. list' \in [Runners -> Seq(Migrations)]
  BY <1>1, <1>2 DEF TypeOK
<1>7. pc' \in [Runners -> PC]
  BY <1>1, <1>2 DEF TypeOK
<1>8. /\ applied' \in [Runners -> SUBSET Migrations]
      /\ i' \in [Runners -> Nat]
      /\ text' \in [Runners -> {"template", "sql"}]
  BY <1>2 DEF TypeOK
<1>9. QED
  BY <1>3, <1>4, <1>5, <1>6, <1>7, <1>8

-----------------------------------------------------------------------------
(* One lemma for each step that is not quiescent *)

LEMMA SkipInv ==
  ASSUME PrefixInv, NEW r \in Runners, Skip(r)
  PROVE  PrefixInv'
<1> USE DEF PrefixInv, Skip, More
<1>1. i[r] \in Nat /\ Len(list[r]) \in Nat /\ i' = [i EXCEPT ![r] = i[r] + 1]
  BY DEF TypeOK
<1>2. TypeOK'
  <2>1. i' \in [Runners -> Nat] /\ \A q \in Runners : i'[q] \in 1..Len(list'[q]) + 1
    BY <1>1 DEF TypeOK
  <2>2. QED
    BY <2>1 DEF TypeOK, disk, base
<1>3. Recorded' = Recorded /\ LastRecord' = LastRecord
  BY DEF Recorded, LastRecord, base
<1>4. AppliedIsPrefix' /\ DirectoriesClosed' /\ SnapshotsHold'
  BY <1>3 DEF AppliedIsPrefix, DirectoriesClosed, SnapshotsHold, disk, base
<1>5. LoopInv'
  <2>1. list[r][i[r]] \in Recorded
    BY DEF SnapshotsHold, InLoop, Current
  <2>2. SUFFICES ASSUME NEW q \in Runners, pc[q] \in InLoop
                 PROVE  /\ \A j \in 1..Len(list[q]) : j < i'[q] => list[q][j] \in Recorded
                        /\ pc[q] # "read" => i'[q] <= Len(list[q])
    BY <1>3 DEF LoopInv
  <2>3. CASE q = r
    BY <1>1, <2>1, <2>2, <2>3 DEF LoopInv, TypeOK
  <2>4. CASE q # r
    BY <1>1, <2>2, <2>4 DEF LoopInv, TypeOK
  <2>5. QED
    BY <2>3, <2>4
<1>6. DownInv'
  BY <1>1, <1>3 DEF DownInv, InDown, TypeOK, base
<1>7. QED
  BY <1>2, <1>4, <1>5, <1>6

(* The directories are listed in order and none is missing. *)
LEMMA ListInv ==
  ASSUME PrefixInv, NEW r \in Runners, ListDirectories(r)
  PROVE  PrefixInv'
<1> USE DEF PrefixInv
<1>1. IsFiniteSet(Directories) /\ Directories \subseteq Migrations
  <2>1. IsFiniteSet(Migrations)
    BY MigrateAssumption, FS_Interval DEF Migrations
  <2>2. QED
    BY <2>1, FS_Subset DEF Directories
<1>2. PICK s \in [1..Cardinality(Directories) -> Directories] :
        /\ {s[k] : k \in DOMAIN s} = Directories
        /\ Ordered(s)
        /\ list' = [list EXCEPT ![r] = s]
  BY DEF ListDirectories
<1>3. /\ pc[r] = "list"
      /\ i' = [i EXCEPT ![r] = 1]
      /\ pc' = [pc EXCEPT ![r] = "read"]
      /\ UNCHANGED <<files, records, schema, applied, text, result, downs, faults>>
  BY DEF ListDirectories, Goto, disk, base
<1>4. Cardinality(Directories) \in Nat
  BY <1>1, FS_CardinalityType
<1>5. s \in Seq(Migrations) /\ Len(s) = Cardinality(Directories) /\ DOMAIN s = 1..Len(s)
  BY <1>1, <1>2, <1>4
<1>6. TypeOK'
  <2>1. list' \in [Runners -> Seq(Migrations)] /\ i' \in [Runners -> Nat]
    BY <1>2, <1>3, <1>5 DEF TypeOK
  <2>2. ASSUME NEW q \in Runners PROVE i'[q] \in 1..Len(list'[q]) + 1
    <3>1. CASE q = r
      <4>1. list'[q] = s /\ i'[q] = 1
        BY <1>2, <1>3, <3>1 DEF TypeOK
      <4>2. QED
        BY <1>5, <4>1
    <3>2. CASE q # r
      <4>1. list'[q] = list[q] /\ i'[q] = i[q]
        BY <1>2, <1>3, <3>2 DEF TypeOK
      <4>2. QED
        BY <4>1 DEF TypeOK
    <3>3. QED
      BY <3>1, <3>2
  <2>3. pc' \in [Runners -> PC]
    BY <1>3 DEF TypeOK, PC
  <2>4. QED
    BY <1>3, <2>1, <2>2, <2>3 DEF TypeOK
<1>7. Recorded' = Recorded /\ LastRecord' = LastRecord
  BY <1>3 DEF Recorded, LastRecord
<1>8. AppliedIsPrefix' /\ DirectoriesClosed' /\ SnapshotsHold'
  BY <1>3, <1>7 DEF AppliedIsPrefix, DirectoriesClosed, SnapshotsHold, InLoop, TypeOK
<1>9. LoopInv'
  <2>1. \A k \in 1..Len(s), m \in Migrations :
          m < s[k] => \E j \in 1..Len(s) : s[j] = m
    BY <1>1, <1>2, <1>5 DEF DirectoriesClosed, Directories
  <2>2. \A q \in Runners : q # r => list'[q] = list[q] /\ i'[q] = i[q] /\ pc'[q] = pc[q]
    BY <1>2, <1>3 DEF TypeOK
  <2>3. list'[r] = s /\ i'[r] = 1 /\ pc'[r] = "read"
    BY <1>2, <1>3 DEF TypeOK
  <2>4. QED
    BY <1>2, <1>5, <1>7, <2>1, <2>2, <2>3 DEF LoopInv
<1>10. DownInv'
  BY <1>2, <1>3, <1>7 DEF DownInv, InDown, TypeOK
<1>11. QED
  BY <1>6, <1>8, <1>9, <1>10

(* The migration that is recorded is the first one not in the table. *)
LEMMA RecordInv ==
  ASSUME PrefixInv, NEW r \in Runners, Record(r), DownsAlone
  PROVE  PrefixInv'
<1> USE DEF PrefixInv
<1> DEFINE m == list[r][i[r]]
           n == Len(records)
<1>1. /\ pc[r] = "record" /\ m \notin Recorded
      /\ records' = Append(records, m)
      /\ i' = [i EXCEPT ![r] = i[r] + 1]
      /\ pc' = [pc EXCEPT ![r] = "read"]
      /\ UNCHANGED <<files, schema, applied, list, text, result, downs, faults>>
  BY DEF Record, Current, Goto, disk, TypeOK
<1>2. /\ n \in Nat /\ Len(list[r]) \in Nat /\ i[r] \in 1..Len(list[r])
      /\ m \in Migrations
  BY <1>1 DEF TypeOK, LoopInv, InLoop
<1>3. Recorded = 1..n
  BY RecordedIsPrefix
<1>4. m = n + 1
  <2>1. ASSUME NEW k \in Migrations, k < m PROVE k \in Recorded
    <3>1. PICK j \in 1..Len(list[r]) : list[r][j] = k
      BY <1>1, <1>2, <2>1 DEF LoopInv, InLoop
    <3>2. j < i[r]
      <4>1. Ordered(list[r]) /\ DOMAIN list[r] = 1..Len(list[r])
        BY <1>1 DEF LoopInv, InLoop, TypeOK
      <4>2. ASSUME i[r] < j PROVE FALSE
        BY <1>2, <2>1, <3>1, <4>1, <4>2 DEF Ordered, Migrations
      <4>3. i[r] # j
        BY <2>1, <3>1 DEF Migrations
      <4>4. QED
        BY <1>2, <4>2, <4>3
    <3>3. QED
      BY <1>1, <3>1, <3>2 DEF LoopInv, InLoop
  <2>2. m \in Nat /\ m >= 1 /\ m <= N /\ N \in Nat
    BY <1>2, MigrateAssumption DEF Migrations
  <2>3. m > n
    BY <1>1, <1>2, <1>3, <2>2
  <2>4. ASSUME m > n + 1 PROVE FALSE
    BY <1>2, <1>3, <2>1, <2>2, <2>4 DEF Migrations
  <2>5. QED
    BY <1>2, <2>2, <2>3, <2>4
<1>5. TypeOK'
  BY <1>1, <1>2 DEF TypeOK, PC
<1>6. /\ Len(records') = n + 1
      /\ \A k \in 1..n + 1 : records'[k] = IF k = n + 1 THEN m ELSE records[k]
  BY <1>1, <1>2 DEF TypeOK
<1>7. AppliedIsPrefix'
  BY <1>2, <1>4, <1>6 DEF AppliedIsPrefix
<1>8. Recorded \subseteq Recorded' /\ m \in Recorded'
  BY <1>2, <1>3, <1>4, <1>6, <1>7 DEF Recorded, AppliedIsPrefix
<1>9. DirectoriesClosed' /\ SnapshotsHold'
  BY <1>1, <1>8 DEF DirectoriesClosed, SnapshotsHold, InLoop, TypeOK
<1>10. LoopInv'
  <2>1. SUFFICES ASSUME NEW q \in Runners, pc'[q] \in InLoop
                 PROVE  /\ pc[q] \in InLoop
                        /\ \A j \in 1..Len(list[q]) : j < i'[q] => list[q][j] \in Recorded'
                        /\ pc'[q] # "read" => i'[q] <= Len(list[q])
    BY <1>1 DEF LoopInv
  <2>2. CASE q = r
    <3>1. i'[q] = i[r] + 1 /\ pc'[q] = "read" /\ pc[q] \in InLoop
      BY <1>1, <2>2 DEF TypeOK, InLoop
    <3>2. ASSUME NEW j \in 1..Len(list[q]), j < i'[q] PROVE list[q][j] \in Recorded'
      <4>1. CASE j = i[r]
        BY <1>8, <2>2, <4>1
      <4>2. CASE j < i[r]
        BY <1>8, <2>2, <3>1, <4>2 DEF LoopInv
      <4>3. QED
        BY <1>2, <2>2, <3>1, <3>2, <4>1, <4>2
    <3>3. QED
      BY <3>1, <3>2
  <2>3. CASE q # r
    BY <1>1, <1>8, <2>1, <2>3 DEF LoopInv, TypeOK
  <2>4. QED
    BY <2>2, <2>3
<1>11. DownInv'
  <2>1. \A q \in Runners : pc[q] \notin InDown
    BY <1>1 DEF DownInv, InDown
  <2>2. \A q \in Runners : pc'[q] \notin InDown
    BY <1>1, <2>1 DEF InDown, TypeOK
  <2>3. QED
    BY <2>2 DEF DownInv
<1>12. QED
  BY <1>5, <1>7, <1>9, <1>10, <1>11

LEMMA BeginUpInv ==
  ASSUME PrefixInv, NEW r \in Runners, BeginUp(r), DownsAlone
  PROVE  PrefixInv'
<1> USE DEF PrefixInv
<1>1. /\ \A q \in Runners : pc[q] \notin InDown
      /\ pc' = [pc EXCEPT ![r] = "select"]
      /\ result' = [result EXCEPT ![r] = "none"]
      /\ UNCHANGED <<files, records, schema, applied, list, i, text, downs, faults>>
  BY DEF BeginUp, Goto, disk, base, own
<1>2. TypeOK'
  BY <1>1 DEF TypeOK, PC
<1>3. Recorded' = Recorded
  BY <1>1 DEF Recorded
<1>4. AppliedIsPrefix' /\ DirectoriesClosed' /\ SnapshotsHold'
  BY <1>1, <1>3 DEF AppliedIsPrefix, DirectoriesClosed, SnapshotsHold, InLoop, TypeOK
<1>5. LoopInv'
  <2>1. \A q \in Runners : pc'[q] \in InLoop => q # r /\ pc'[q] = pc[q]
    BY <1>1 DEF InLoop, TypeOK
  <2>2. QED
    BY <1>1, <1>3, <2>1 DEF LoopInv
<1>6. DownInv'
  <2>1. \A q \in Runners : pc'[q] \notin InDown
    BY <1>1 DEF InDown, TypeOK
  <2>2. QED
    BY <2>1 DEF DownInv
<1>7. QED
  BY <1>2, <1>4, <1>5, <1>6

LEMMA SelectAppliedInv ==
  ASSUME PrefixInv, NEW r \in Runners, SelectApplied(r)
  PROVE  PrefixInv'
<1> USE DEF PrefixInv
<1>1. /\ pc[r] = "select"
      /\ pc' = [pc EXCEPT ![r] = "list"]
      /\ applied' = [applied EXCEPT ![r] = Recorded]
      /\ UNCHANGED <<files, records, schema, list, i, text, result, downs, faults>>
  BY DEF SelectApplied, Goto, disk, base
<1>2. Recorded \subseteq Migrations
  BY DEF Recorded, TypeOK
<1>3. TypeOK'
  BY <1>1, <1>2 DEF TypeOK, PC
<1>4. Recorded' = Recorded /\ LastRecord' = LastRecord
  BY <1>1 DEF Recorded, LastRecord
<1>5. AppliedIsPrefix' /\ DirectoriesClosed'
  BY <1>1 DEF AppliedIsPrefix, DirectoriesClosed
<1>6. SnapshotsHold'
  BY <1>1, <1>4 DEF SnapshotsHold, InLoop, TypeOK
<1>7. LoopInv'
  <2>1. \A q \in Runners : pc'[q] \in InLoop => q # r /\ pc'[q] = pc[q]
    BY <1>1 DEF InLoop, TypeOK
  <2>2. QED
    BY <1>1, <1>4, <2>1 DEF LoopInv
<1>8. DownInv'
  BY <1>1, <1>4 DEF DownInv, InDown, TypeOK
<1>9. QED
  BY <1>3, <1>5, <1>6, <1>7, <1>8

(* `down` starts when every other runner is idle. *)
LEMMA BeginDownInv ==
  ASSUME PrefixInv, NEW r \in Runners, BeginDown(r), DownsAlone
  PROVE  PrefixInv'
<1> USE DEF PrefixInv
<1>1. /\ \A q \in Runners : pc[q] = "idle"
      /\ downs < MaxDowns /\ downs' = downs + 1
      /\ pc' = [pc EXCEPT ![r] = "last"]
      /\ result' = [result EXCEPT ![r] = "none"]
      /\ UNCHANGED <<files, records, schema, applied, list, i, text, faults>>
  BY DEF BeginDown, Goto, disk, base, own
<1>2. TypeOK'
  <2>1. downs' \in 0..MaxDowns
    BY <1>1, MigrateAssumption DEF TypeOK
  <2>2. QED
    BY <1>1, <2>1 DEF TypeOK, PC
<1>3. \A q \in Runners : pc'[q] = IF q = r THEN "last" ELSE "idle"
  BY <1>1 DEF TypeOK
<1>4. AppliedIsPrefix' /\ DirectoriesClosed'
  BY <1>1 DEF AppliedIsPrefix, DirectoriesClosed
<1>5. SnapshotsHold' /\ LoopInv'
  BY <1>3 DEF SnapshotsHold, LoopInv, InLoop
<1>6. DownInv'
  BY <1>3 DEF DownInv, InDown
<1>7. QED
  BY <1>2, <1>4, <1>5, <1>6

LEMMA SelectLastInv ==
  ASSUME PrefixInv, NEW r \in Runners, SelectLast(r)
  PROVE  PrefixInv'
<1> USE DEF PrefixInv
<1>1. pc[r] = "last" /\ UNCHANGED <<files, records, schema, downs, faults>>
  BY DEF SelectLast, disk, base
<1>2. \A q \in Runners : q # r => pc[q] = "idle"
  BY <1>1 DEF DownInv, InDown
<1>3. AppliedIsPrefix' /\ DirectoriesClosed'
  BY <1>1 DEF AppliedIsPrefix, DirectoriesClosed
<1>4. LastRecord' = LastRecord
  BY <1>1 DEF LastRecord
<1>5. CASE records = <<>>
  <2>1. Vanish(r) /\ result' = [result EXCEPT ![r] = "ok"]
    BY <1>5 DEF SelectLast, Exit
  <2>2. TypeOK'
    BY <1>1, <2>1, VanishTypes DEF TypeOK
  <2>3. \A q \in Runners : pc'[q] = "idle"
    BY <1>2, <2>1, VanishTypes
  <2>4. SnapshotsHold' /\ LoopInv' /\ DownInv'
    BY <2>3 DEF SnapshotsHold, LoopInv, DownInv, InLoop, InDown
  <2>5. QED
    BY <1>3, <2>2, <2>4
<1>6. CASE records # <<>>
  <2>1. /\ pc' = [pc EXCEPT ![r] = "readDown"]
        /\ list' = [list EXCEPT ![r] = <<LastRecord>>]
        /\ i' = [i EXCEPT ![r] = 1]
        /\ UNCHANGED <<applied, text, result>>
    BY <1>6 DEF SelectLast, Goto
  <2>2. LastRecord \in Migrations
    BY <1>6 DEF LastRecord, TypeOK
  <2>3. TypeOK'
    <3>1. /\ pc' \in [Runners -> PC]
          /\ list' \in [Runners -> Seq(Migrations)]
          /\ i' \in [Runners -> Nat]
      BY <2>1, <2>2 DEF TypeOK, PC
    <3>2. ASSUME NEW q \in Runners PROVE i'[q] \in 1..Len(list'[q]) + 1
      <4>1. CASE q = r
        <5>1. list'[q] = <<LastRecord>> /\ i'[q] = 1
          BY <2>1, <4>1 DEF TypeOK
        <5>2. Len(list'[q]) = 1
          BY <5>1
        <5>3. QED
          BY <5>1, <5>2
      <4>2. CASE q # r
        <5>1. list'[q] = list[q] /\ i'[q] = i[q]
          BY <2>1, <4>2 DEF TypeOK
        <5>2. QED
          BY <5>1 DEF TypeOK
      <4>3. QED
        BY <4>1, <4>2
    <3>3. QED
      BY <1>1, <2>1, <3>1, <3>2 DEF TypeOK
  <2>4. \A q \in Runners : pc'[q] = IF q = r THEN "readDown" ELSE "idle"
    BY <1>2, <2>1 DEF TypeOK
  <2>5. SnapshotsHold' /\ LoopInv'
    BY <2>4 DEF SnapshotsHold, LoopInv, InLoop
  <2>6. list'[r] = <<LastRecord>> /\ i'[r] = 1
    BY <2>1 DEF TypeOK
  <2>7. DownInv'
    BY <1>1, <1>4, <1>6, <2>4, <2>6 DEF DownInv, InDown
  <2>8. QED
    BY <1>3, <2>3, <2>5, <2>7
<1>7. QED
  BY <1>5, <1>6

(* What Without does to the last element of a table without duplicates. *)
LEMMA WithoutLast ==
  ASSUME NEW S, NEW s \in Seq(S), s # <<>>,
         \A j, k \in 1..Len(s) : s[j] = s[k] => j = k
  PROVE  /\ Without(s, s[Len(s)]) \in Seq(S)
         /\ Len(Without(s, s[Len(s)])) = Len(s) - 1
         /\ \A k \in 1..Len(s) - 1 : Without(s, s[Len(s)])[k] = s[k]
<1> DEFINE n == Len(s)
           w == SubSeq(s, 1, n - 1) \o SubSeq(s, n + 1, n)
<1>1. n \in Nat /\ n >= 1
  BY EmptySeq
<1>2. Without(s, s[n]) = w
  <2>1. \E k \in 1..n : s[k] = s[n]
    BY <1>1
  <2>2. (CHOOSE k \in 1..n : s[k] = s[n]) = n
    BY <1>1, <2>1
  <2>3. QED
    BY <2>1, <2>2 DEF Without
<1>3. /\ 1 \in Int /\ n - 1 \in Int /\ n + 1 \in Int /\ n \in Int
      /\ \A k \in 1..n - 1 : s[k] \in S
  BY <1>1
<1>4. PICK p : p = SubSeq(s, 1, n - 1)
  OBVIOUS
<1> HIDE DEF n
<1>5. /\ p \in Seq(S)
      /\ Len(p) = n - 1
      /\ \A k \in 1..n - 1 : p[k] = s[k]
  <2>1. /\ p \in Seq(S)
        /\ Len(p) = IF 1 <= n - 1 THEN (n - 1) - 1 + 1 ELSE 0
        /\ \A k \in 1..(n - 1) - 1 + 1 : p[k] = s[1 + k - 1]
    BY <1>3, <1>4, SubSeqProperties
  <2>2. Len(p) = n - 1
    BY <1>1, <2>1
  <2>3. ASSUME NEW k \in 1..n - 1 PROVE p[k] = s[k]
    <3>1. k \in 1..(n - 1) - 1 + 1 /\ 1 + k - 1 = k
      BY <1>1
    <3>2. p[k] = s[1 + k - 1]
      BY <2>1, <3>1
    <3>3. QED
      BY <3>1, <3>2
  <2>4. QED
    BY <2>1, <2>2, <2>3
<1>6. SubSeq(s, n + 1, n) = <<>>
  BY <1>1, <1>3, SubSeqEmpty
<1>7. w = p
  BY <1>4, <1>5, <1>6, ConcatEmptySeq
<1>8. QED
  BY <1>2, <1>5, <1>7 DEF n

LEMMA DeleteInv ==
  ASSUME PrefixInv, NEW r \in Runners, Delete(r)
  PROVE  PrefixInv'
<1> USE DEF PrefixInv
<1>1. /\ pc[r] = "delete"
      /\ records' = Without(records, list[r][i[r]])
      /\ Vanish(r)
      /\ result' = [result EXCEPT ![r] = "ok"]
      /\ UNCHANGED <<files, schema, downs, faults>>
  BY DEF Delete, Exit, Current, disk
<1>2. /\ \A q \in Runners : q # r => pc[q] = "idle"
      /\ records # <<>>
      /\ list[r][i[r]] = records[Len(records)]
  BY <1>1 DEF DownInv, InDown, LastRecord
<1>3. \A j, k \in 1..Len(records) : records[j] = records[k] => j = k
  BY DEF AppliedIsPrefix
<1>4. /\ records' \in Seq(Migrations)
      /\ Len(records') = Len(records) - 1
      /\ \A k \in 1..Len(records) - 1 : records'[k] = records[k]
  <2>1. records \in Seq(Migrations)
    BY DEF TypeOK
  <2>2. records' = Without(records, records[Len(records)])
    BY <1>1, <1>2
  <2>3. /\ Without(records, records[Len(records)]) \in Seq(Migrations)
        /\ Len(Without(records, records[Len(records)])) = Len(records) - 1
        /\ \A k \in 1..Len(records) - 1 :
             Without(records, records[Len(records)])[k] = records[k]
    <3> HIDE DEF PrefixInv
    <3>1. QED
      BY <1>2, <1>3, <2>1, WithoutLast
  <2>4. QED
    BY <2>2, <2>3
<1>5. TypeOK'
  BY <1>1, <1>4, VanishTypes DEF TypeOK
<1>6. AppliedIsPrefix'
  BY <1>4 DEF AppliedIsPrefix, TypeOK
<1>7. DirectoriesClosed'
  BY <1>1 DEF DirectoriesClosed
<1>8. \A q \in Runners : pc'[q] = "idle"
  BY <1>1, <1>2, VanishTypes
<1>9. SnapshotsHold' /\ LoopInv' /\ DownInv'
  BY <1>8 DEF SnapshotsHold, LoopInv, DownInv, InLoop, InDown
<1>10. QED
  BY <1>5, <1>6, <1>7, <1>9

LEMMA FilesInv ==
  ASSUME PrefixInv, NEW m \in Migrations, MakeDir(m) \/ WriteFile(m) \/ Edit(m)
  PROVE  PrefixInv'
<1> USE DEF PrefixInv
<1>1. UNCHANGED <<records, schema, pc, applied, list, i, text, result, downs, faults>>
  BY DEF MakeDir, WriteFile, Edit, base, own
<1>2. PICK content \in {"dir", "up", "template", "sql"} :
        files' = [files EXCEPT ![m] = content]
  BY DEF MakeDir, WriteFile, Edit, TypeOK
<1>3. \A k \in Migrations : k < m => files[k] # "none"
  BY DEF MakeDir, WriteFile, Edit, DirectoriesClosed
<1>4. TypeOK'
  BY <1>1, <1>2 DEF TypeOK
<1>5. DirectoriesClosed'
  <2>1. \A k \in Migrations : files'[k] = IF k = m THEN content ELSE files[k]
    BY <1>2 DEF TypeOK
  <2>2. QED
    BY <1>3, <2>1 DEF DirectoriesClosed, Migrations
<1>6. Recorded' = Recorded /\ LastRecord' = LastRecord
  BY <1>1 DEF Recorded, LastRecord
<1>7. AppliedIsPrefix' /\ SnapshotsHold' /\ LoopInv' /\ DownInv'
  BY <1>1, <1>6 DEF AppliedIsPrefix, SnapshotsHold, LoopInv, DownInv
<1>8. QED
  BY <1>4, <1>5, <1>7

-----------------------------------------------------------------------------
(* The quiescent steps *)

(* In the loop and in `down` the index points at a migration. *)
LEMMA CurrentIsMigration ==
  ASSUME PrefixInv, NEW r \in Runners,
         pc[r] \in {"execute", "record", "revert", "delete"}
  PROVE  Current(r) \in Migrations
<1> USE DEF PrefixInv
<1>1. i[r] \in Nat /\ 1 <= i[r] /\ list[r] \in Seq(Migrations) /\ Len(list[r]) \in Nat
  BY DEF TypeOK
<1>2. i[r] <= Len(list[r])
  <2>1. CASE pc[r] \in {"execute", "record"}
    BY <2>1 DEF LoopInv, InLoop
  <2>2. CASE pc[r] \in {"revert", "delete"}
    <3>1. list[r] = <<LastRecord>> /\ i[r] = 1
      BY <2>2 DEF DownInv, InDown
    <3>2. QED
      BY <3>1
  <2>3. QED
    BY <2>1, <2>2
<1>3. QED
  BY <1>1, <1>2 DEF Current

(* A runner that exits leaves all but the schema, its own state and the    *)
(* count of faults alone.                                                   *)
LEMMA ExitInv ==
  ASSUME PrefixInv, NEW r \in Runners, NEW code \in {"none", "ok", "failed"},
         Vanish(r),
         result' \in {[result EXCEPT ![r] = code], result},
         schema' \subseteq Migrations, faults' \in 0..MaxFaults,
         UNCHANGED <<files, records, downs>>
  PROVE  PrefixInv'
<1>1. TypeOK'
  BY VanishTypes DEF PrefixInv, TypeOK
<1>2. Quiescent(r)
  BY VanishTypes DEF PrefixInv, Quiescent
<1>3. QED
  BY <1>1, <1>2, QuiescentInv

LEMMA ExitsInv ==
  ASSUME PrefixInv, NEW r \in Runners,
         \/ ReadUpFails(r) \/ ExecuteFails(r) \/ RecordFails(r) \/ EndUp(r)
         \/ RevertFails(r) \/ QueryFails(r) \/ FileFails(r) \/ Crash(r)
  PROVE  PrefixInv'
<1>1. schema \subseteq Migrations /\ faults \in 0..MaxFaults
  BY DEF PrefixInv, TypeOK
<1>2. CASE ReadUpFails(r) \/ ExecuteFails(r) \/ RecordFails(r) \/ RevertFails(r)
  BY <1>1, <1>2, ExitInv
     DEF ReadUpFails, ExecuteFails, RecordFails, RevertFails, Exit, disk, base
<1>3. CASE EndUp(r)
  BY <1>1, <1>3, ExitInv DEF EndUp, Exit, disk, base
<1>4. ASSUME Fault PROVE faults' \in 0..MaxFaults
  BY <1>1, <1>4, MigrateAssumption DEF Fault
<1>5. CASE QueryFails(r)
  <2>1. schema' \subseteq Migrations /\ records' = records
    BY <1>1, <1>5, CurrentIsMigration DEF QueryFails, base
  <2>2. QED
    BY <1>4, <1>5, <2>1, ExitInv DEF QueryFails, Exit, disk
<1>6. CASE FileFails(r) \/ Crash(r)
  BY <1>1, <1>4, <1>6, ExitInv DEF FileFails, Crash, Exit, disk, base
<1>7. QED
  BY <1>2, <1>3, <1>5, <1>6

(* A file is read or a migration's SQL takes effect. *)
LEMMA WorkInv ==
  ASSUME PrefixInv, NEW r \in Runners,
         ReadUp(r) \/ Execute(r) \/ ReadDown(r) \/ Revert(r)
  PROVE  PrefixInv'
<1>1. TypeOK /\ LoopInv
  BY DEF PrefixInv
<1>2. /\ UNCHANGED <<files, records, applied, list, i, result, downs, faults>>
      /\ text' \in [Runners -> {"template", "sql"}]
      /\ \E l \in PC : pc' = [pc EXCEPT ![r] = l]
  BY <1>1 DEF ReadUp, Execute, ReadDown, Revert, Goto, TypeOK, PC, disk, base, own
<1>3. schema' \subseteq Migrations
  <2>1. CASE Execute(r) \/ Revert(r)
    BY <1>1, <2>1, CurrentIsMigration DEF Execute, Revert, TypeOK
  <2>2. CASE ReadUp(r) \/ ReadDown(r)
    BY <1>1, <2>2 DEF ReadUp, ReadDown, TypeOK, base
  <2>3. QED
    BY <2>1, <2>2
<1>4. TypeOK'
  BY <1>1, <1>2, <1>3 DEF TypeOK
<1>5. Quiescent(r)
  <2>1. \/ pc[r] = "read" /\ pc'[r] = "execute" /\ i[r] <= Len(list[r])
        \/ pc[r] = "execute" /\ pc'[r] = "record"
        \/ pc[r] = "readDown" /\ pc'[r] = "revert"
        \/ pc[r] = "revert" /\ pc'[r] = "delete"
    BY <1>1 DEF ReadUp, Execute, ReadDown, Revert, Pending, More, Goto, TypeOK
  <2>2. pc[r] = "execute" => i[r] <= Len(list[r])
    BY <1>1 DEF LoopInv, InLoop
  <2>3. \A q \in Runners : pc'[q] = IF q = r THEN pc'[r] ELSE pc[q]
    BY <1>1, <1>2 DEF TypeOK
  <2>4. QED
    BY <1>2, <2>1, <2>2, <2>3 DEF Quiescent, InLoop, InDown
<1>6. QED
  BY <1>4, <1>5, QuiescentInv

-----------------------------------------------------------------------------

LEMMA NextPrefix ==
  ASSUME PrefixInv, DownsAlone, [Next]_vars
  PROVE  PrefixInv'
<1>1. ASSUME NEW m \in Migrations, MakeDir(m) \/ WriteFile(m) \/ Edit(m)
      PROVE  PrefixInv'
  BY <1>1, FilesInv
<1>2. ASSUME NEW r \in Runners, Up(r) PROVE PrefixInv'
  BY <1>2, BeginUpInv, SelectAppliedInv, ListInv, SkipInv, WorkInv, RecordInv, ExitsInv
     DEF Up
<1>3. ASSUME NEW r \in Runners, Down(r) PROVE PrefixInv'
  BY <1>3, BeginDownInv, SelectLastInv, WorkInv, DeleteInv, ExitsInv DEF Down
<1>4. ASSUME NEW r \in Runners, QueryFails(r) \/ FileFails(r) \/ Crash(r) PROVE PrefixInv'
  BY <1>4, ExitsInv
<1>5. CASE UNCHANGED vars
  <2>1. TypeOK' /\ AppliedIsPrefix' /\ DirectoriesClosed'
    BY <1>5 DEF PrefixInv, vars, TypeOK, AppliedIsPrefix, DirectoriesClosed
  <2>2. Recorded' = Recorded /\ LastRecord' = LastRecord
    BY <1>5 DEF vars, Recorded, LastRecord
  <2>3. SnapshotsHold' /\ LoopInv' /\ DownInv'
    BY <1>5, <2>2 DEF PrefixInv, vars, SnapshotsHold, LoopInv, DownInv
  <2>4. QED
    BY <2>1, <2>3 DEF PrefixInv
<1>6. QED
  BY <1>1, <1>2, <1>3, <1>4, <1>5 DEF Next

(* If nobody migrates while `down` runs, then whatever the number of       *)
(* migrations, of concurrent `up`s and of faults, the table migrations     *)
(* names the first migrations in their order, none twice and none left     *)
(* out (migrateUp's sort, loop and early returns, migrateDown's DESC).     *)
THEOREM TableIsPrefix ==
  ASSUME DownsAlone
  PROVE  Spec => []AppliedIsPrefix
<1>1. Init => PrefixInv
  BY InitPrefix
<1>2. PrefixInv /\ [Next]_vars => PrefixInv'
  BY NextPrefix
<1>3. PrefixInv => AppliedIsPrefix
  BY DEF PrefixInv
<1>4. QED
  BY <1>1, <1>2, <1>3, PTL DEF Spec

(* Under the same condition the variables keep their types: in particular  *)
(* no runner's index leaves its array by more than one.                     *)
THEOREM MigrateTypeOK ==
  ASSUME DownsAlone
  PROVE  Spec => []TypeOK
<1>1. Init => PrefixInv
  BY InitPrefix
<1>2. PrefixInv /\ [Next]_vars => PrefixInv'
  BY NextPrefix
<1>3. PrefixInv => TypeOK
  BY DEF PrefixInv
<1>4. QED
  BY <1>1, <1>2, <1>3, PTL DEF Spec

(* Both together: what readMigrations and getAppliedMigrations work with.  *)
THEOREM TableIsSound ==
  ASSUME DownsAlone
  PROVE  Spec => []TableSound
BY MigrateTypeOK, TableIsPrefix, PTL DEF TableSound

THEOREM PrefixInvariant ==
  ASSUME DownsAlone
  PROVE  Spec => []PrefixInv
<1>1. PrefixInv /\ [Next]_vars => PrefixInv'
  BY NextPrefix
<1>2. QED
  BY <1>1, InitPrefix, PTL DEF Spec

-----------------------------------------------------------------------------
(* What an exit status of 0 means *)

(* Only the end of the loop makes `up` report success. *)
LEMMA OnlyEndUpSucceeds ==
  ASSUME TypeOK, [Next]_vars, NEW r \in Runners,
         pc[r] = "read", result'[r] = "ok", result[r] # "ok"
  PROVE  EndUp(r)
<1>1. ASSUME NEW m \in Migrations, MakeDir(m) \/ WriteFile(m) \/ Edit(m) PROVE FALSE
  BY <1>1 DEF MakeDir, WriteFile, Edit
<1>2. ASSUME NEW q \in Runners, Up(q) \/ Down(q) \/ QueryFails(q) \/ FileFails(q) \/ Crash(q), q # r
      PROVE  FALSE
  <2>1. result' = result \/ \E code : result' = [result EXCEPT ![q] = code]
    BY <1>2 DEF Up, Down, QueryFails, FileFails, Crash, Exit, Vanish, BeginUp, SelectApplied,
       ListDirectories, Skip, ReadUp, ReadUpFails, Execute, ExecuteFails, Record,
       RecordFails, EndUp, BeginDown, SelectLast, ReadDown, Revert, RevertFails,
       Delete
  <2>2. QED
    BY <1>2, <2>1 DEF TypeOK
<1>3. CASE Up(r)
  BY <1>3 DEF Up, Exit, BeginUp, SelectApplied, ListDirectories, Skip, ReadUp,
     ReadUpFails, Execute, ExecuteFails, Record, RecordFails, TypeOK
<1>4. CASE Down(r) \/ QueryFails(r) \/ FileFails(r) \/ Crash(r)
  BY <1>4 DEF Down, BeginDown, SelectLast, ReadDown, Revert, RevertFails, Delete,
     QueryFails, FileFails, Crash, Exit, TypeOK
<1>5. CASE UNCHANGED vars
  BY <1>5 DEF vars
<1>6. QED
  BY <1>1, <1>2, <1>3, <1>4, <1>5 DEF Next

(* `up` exits with 0 only when every migration it listed is recorded:      *)
(* skipped because it was, or recorded by this very run.                   *)
THEOREM SuccessMeansRecorded ==
  ASSUME DownsAlone
  PROVE  Spec => SuccessIsComplete
<1>1. PrefixInv /\ [Next]_vars =>
        [\A r \in Runners :
           pc[r] = "read" /\ result'[r] = "ok" /\ result[r] # "ok"
             => \A k \in 1..Len(list[r]) : list[r][k] \in Recorded]_vars
  <2>1. SUFFICES ASSUME PrefixInv, [Next]_vars, NEW r \in Runners,
                        pc[r] = "read", result'[r] = "ok", result[r] # "ok",
                        NEW k \in 1..Len(list[r])
                 PROVE  list[r][k] \in Recorded
    OBVIOUS
  <2>2. ~More(r)
    BY <2>1, OnlyEndUpSucceeds DEF PrefixInv, EndUp
  <2>3. k < i[r]
    BY <2>1, <2>2 DEF PrefixInv, TypeOK, More
  <2>4. QED
    BY <2>1, <2>3 DEF PrefixInv, LoopInv, InLoop
<1>2. QED
  BY <1>1, PrefixInvariant, PTL DEF Spec, SuccessIsComplete

-----------------------------------------------------------------------------
(* How far table and schema can drift apart *)

(* The migrations that a runner is working on between its two queries. *)
InFlight == {Current(r) : r \in {q \in Runners : Between(q)}}

(* The others on which table and schema disagree. *)
Damaged == Divergence \ InFlight

(* Between its two queries, a runner knows what the first one did: nobody  *)
(* undoes it, because `down` runs alone.                                   *)
SchemaInv ==
  \A r \in Runners :
    /\ pc[r] = "record" => Current(r) \in schema
    /\ pc[r] = "delete" => Current(r) \notin schema

DamageInv ==
  SchemaInv /\ IsFiniteSet(Damaged) /\ Cardinality(Damaged) <= faults

(* The step of one runner leaves the others where they are. *)
LEMMA OnlyOneMoves ==
  ASSUME TypeOK, NEW r \in Runners, Up(r) \/ Down(r) \/ QueryFails(r) \/ FileFails(r) \/ Crash(r)
  PROVE  \A q \in Runners \ {r} :
           /\ pc'[q] = pc[q] /\ Current(q)' = Current(q)
           /\ Between(q)' = Between(q)
<1>1. \A q \in Runners \ {r} : pc'[q] = pc[q]
  <2>1. pc' = pc \/ \E l : pc' = [pc EXCEPT ![r] = l]
    BY DEF Up, Down, QueryFails, FileFails, Crash, Exit, Vanish, Goto, BeginUp, SelectApplied,
       ListDirectories, Skip, ReadUp, ReadUpFails, Execute, ExecuteFails, Record,
       RecordFails, EndUp, BeginDown, SelectLast, ReadDown, Revert, RevertFails,
       Delete
  <2>2. QED
    BY <2>1 DEF TypeOK
<1>2. \A q \in Runners \ {r} : list'[q] = list[q]
  <2>1. list' = list \/ \E s : list' = [list EXCEPT ![r] = s]
    BY DEF Up, Down, QueryFails, FileFails, Crash, Exit, Vanish, BeginUp, SelectApplied,
       ListDirectories, Skip, ReadUp, ReadUpFails, Execute, ExecuteFails, Record,
       RecordFails, EndUp, BeginDown, SelectLast, ReadDown, Revert, RevertFails,
       Delete, own
  <2>2. QED
    BY <2>1 DEF TypeOK
<1>3. \A q \in Runners \ {r} : i'[q] = i[q]
  <2>1. i' = i \/ \E k : i' = [i EXCEPT ![r] = k]
    BY DEF Up, Down, QueryFails, FileFails, Crash, Exit, Vanish, BeginUp, SelectApplied,
       ListDirectories, Skip, ReadUp, ReadUpFails, Execute, ExecuteFails, Record,
       RecordFails, EndUp, BeginDown, SelectLast, ReadDown, Revert, RevertFails,
       Delete, own
  <2>2. QED
    BY <2>1 DEF TypeOK
<1>4. QED
  BY <1>1, <1>2, <1>3 DEF Current, Between

(* No damage is done without a fault. *)
LEMMA DamageStays ==
  ASSUME PrefixInv, DamageInv, TypeOK', SchemaInv',
         Damaged' \subseteq Damaged, faults' = faults
  PROVE  DamageInv'
<1>1. IsFiniteSet(Damaged') /\ Cardinality(Damaged') <= Cardinality(Damaged)
  BY FS_Subset DEF DamageInv
<1>2. Cardinality(Damaged') \in Nat /\ Cardinality(Damaged) \in Nat
  BY <1>1, FS_CardinalityType DEF DamageInv
<1>3. QED
  BY <1>1, <1>2 DEF DamageInv, PrefixInv, TypeOK

(* One fault damages one migration at most. *)
LEMMA DamageGrows ==
  ASSUME PrefixInv, DamageInv, SchemaInv', NEW m,
         Damaged' \subseteq Damaged \cup {m}, faults' = faults + 1
  PROVE  DamageInv'
<1>1. /\ IsFiniteSet(Damaged \cup {m})
      /\ Cardinality(Damaged \cup {m}) \in {Cardinality(Damaged), Cardinality(Damaged) + 1}
  BY FS_AddElement DEF DamageInv
<1>2. IsFiniteSet(Damaged') /\ Cardinality(Damaged') <= Cardinality(Damaged \cup {m})
  BY <1>1, FS_Subset
<1>3. /\ Cardinality(Damaged') \in Nat /\ Cardinality(Damaged) \in Nat
      /\ faults \in Nat
  BY <1>2, FS_CardinalityType DEF DamageInv, PrefixInv, TypeOK
<1>4. QED
  BY <1>1, <1>2, <1>3 DEF DamageInv

(* The steps that touch neither the table nor the schema, by a runner that *)
(* is not between its two queries and does not get there.                  *)
LEMMA ElsewhereKeeps ==
  ASSUME PrefixInv, DamageInv, PrefixInv', NEW r \in Runners,
         Up(r) \/ Down(r), ~Between(r), ~Between(r)',
         UNCHANGED <<records, schema, faults>>
  PROVE  DamageInv'
<1>1. \A q \in Runners \ {r} :
        pc'[q] = pc[q] /\ Current(q)' = Current(q) /\ Between(q)' = Between(q)
  BY OnlyOneMoves DEF PrefixInv
<1>2. SchemaInv'
  <2>1. SUFFICES ASSUME NEW q \in Runners
                 PROVE  /\ pc'[q] = "record" => Current(q)' \in schema'
                        /\ pc'[q] = "delete" => Current(q)' \notin schema'
    BY DEF SchemaInv
  <2>2. QED
    BY <1>1 DEF DamageInv, SchemaInv, Between
<1>3. InFlight' = InFlight
  BY <1>1 DEF InFlight
<1>4. Damaged' = Damaged
  BY <1>3 DEF Damaged, Divergence, Recorded
<1>5. QED
  BY <1>2, <1>4, DamageStays DEF PrefixInv

(* The first of the two queries. *)
LEMMA FirstQueryKeeps ==
  ASSUME PrefixInv, DamageInv, PrefixInv', NEW r \in Runners,
         Execute(r) \/ Revert(r)
  PROVE  DamageInv'
<1> DEFINE m == Current(r)
<1>1. \A q \in Runners \ {r} :
        pc'[q] = pc[q] /\ Current(q)' = Current(q) /\ Between(q)' = Between(q)
  BY OnlyOneMoves DEF PrefixInv, Up, Down
<1>2. UNCHANGED <<records, list, i, faults>> /\ Recorded' = Recorded /\ Current(r)' = m
  BY DEF Execute, Revert, own, Recorded, Current
<1>3. ~Between(r) /\ Between(r)'
  BY DEF Execute, Revert, Between, Goto, PrefixInv, TypeOK
<1>4. schema' \in {schema \cup {m}, schema \ {m}}
  BY DEF Execute, Revert
<1>5. SchemaInv'
  <2>1. SUFFICES ASSUME NEW q \in Runners
                 PROVE  /\ pc'[q] = "record" => Current(q)' \in schema'
                        /\ pc'[q] = "delete" => Current(q)' \notin schema'
    BY DEF SchemaInv
  <2>2. CASE Execute(r)
    <3>1. pc'[r] = "record" /\ schema' = schema \cup {m} /\ pc[r] = "execute"
      BY <2>2 DEF Execute, Goto, PrefixInv, TypeOK
    <3>2. \A p \in Runners \ {r} : pc[p] # "delete"
      BY <3>1 DEF PrefixInv, DownInv, InDown
    <3>3. QED
      BY <1>1, <1>2, <3>1, <3>2 DEF DamageInv, SchemaInv
  <2>3. CASE Revert(r)
    <3>1. pc'[r] = "delete" /\ schema' = schema \ {m} /\ pc[r] = "revert"
      BY <2>3 DEF Revert, Goto, PrefixInv, TypeOK
    <3>2. \A p \in Runners \ {r} : pc[p] = "idle"
      BY <3>1 DEF PrefixInv, DownInv, InDown
    <3>3. QED
      BY <1>1, <1>2, <3>1, <3>2 DEF DamageInv, SchemaInv
  <2>4. QED
    BY <2>2, <2>3
<1>6. InFlight \subseteq InFlight' /\ m \in InFlight'
  <2>1. m \in InFlight'
    BY <1>2, <1>3 DEF InFlight
  <2>2. ASSUME NEW k \in InFlight PROVE k \in InFlight'
    <3>1. PICK q \in Runners : Between(q) /\ k = Current(q)
      BY DEF InFlight
    <3>2. Between(q)' /\ k = Current(q)'
      BY <1>1, <1>3, <3>1
    <3>3. QED
      BY <3>2 DEF InFlight
  <2>3. QED
    BY <2>1, <2>2
<1>7. Divergence' \subseteq Divergence \cup {m}
  BY <1>2, <1>4 DEF Divergence
<1>8. Damaged' \subseteq Damaged
  BY <1>6, <1>7 DEF Damaged
<1>9. QED
  BY <1>2, <1>5, <1>8, DamageStays DEF PrefixInv

(* DELETE takes exactly the row it is asked to. *)
LEMMA DeleteRemoves ==
  ASSUME PrefixInv, PrefixInv', NEW r \in Runners, Delete(r)
  PROVE  Recorded' = Recorded \ {Current(r)}
<1>1. /\ pc[r] = "delete" /\ records' = Without(records, list[r][i[r]])
      /\ records # <<>> /\ list[r][i[r]] = records[Len(records)]
  BY DEF Delete, Current, PrefixInv, DownInv, InDown, LastRecord
<1>2. records \in Seq(Migrations) /\ Len(records) \in Nat /\ records[Len(records)] = Len(records)
  <2>1. records \in Seq(Migrations)
    BY DEF PrefixInv, TypeOK
  <2>2. Len(records) \in 1..Len(records)
    BY <1>1, <2>1, EmptySeq
  <2>3. QED
    BY <2>1, <2>2 DEF PrefixInv, AppliedIsPrefix
<1>3. \A j, k \in 1..Len(records) : records[j] = records[k] => j = k
  BY DEF PrefixInv, AppliedIsPrefix
<1>4. Len(records') = Len(records) - 1
  <2>1. Len(Without(records, records[Len(records)])) = Len(records) - 1
    BY <1>1, <1>2, <1>3, WithoutLast
  <2>2. QED
    BY <1>1, <2>1
<1>5. Recorded = 1..Len(records)
  BY RecordedIsPrefix DEF PrefixInv
<1>6. Recorded' = 1..Len(records')
  <2>1. \A k \in 1..Len(records') : records'[k] = k
    BY DEF PrefixInv, AppliedIsPrefix
  <2>2. QED
    BY <2>1 DEF Recorded
<1>7. Current(r) = Len(records)
  BY <1>1, <1>2 DEF Current
<1>8. QED
  BY <1>2, <1>4, <1>5, <1>6, <1>7

(* The second one: table and schema agree again on this migration. *)
LEMMA SecondQueryKeeps ==
  ASSUME PrefixInv, DamageInv, PrefixInv', NEW r \in Runners,
         Record(r) \/ RecordFails(r) \/ Delete(r)
  PROVE  DamageInv'
<1> DEFINE m == Current(r)
<1>1. \A q \in Runners \ {r} :
        pc'[q] = pc[q] /\ Current(q)' = Current(q) /\ Between(q)' = Between(q)
  BY OnlyOneMoves DEF PrefixInv, Up, Down
<1>2. UNCHANGED <<schema, faults>>
  BY DEF Record, RecordFails, Delete, base
<1>3. Between(r) /\ ~Between(r)'
  BY DEF Record, RecordFails, Delete, Between, Exit, Vanish, Goto, PrefixInv, TypeOK
<1>4. SchemaInv'
  <2>1. SUFFICES ASSUME NEW q \in Runners
                 PROVE  /\ pc'[q] = "record" => Current(q)' \in schema'
                        /\ pc'[q] = "delete" => Current(q)' \notin schema'
    BY DEF SchemaInv
  <2>2. QED
    BY <1>1, <1>2, <1>3 DEF DamageInv, SchemaInv, Between
<1>5. m \notin Divergence' /\ Divergence' \subseteq Divergence
  <2>1. CASE Record(r)
    <3>1. m \in schema
      BY <2>1 DEF Record, DamageInv, SchemaInv
    <3>2. Recorded' = Recorded \cup {m}
      <4>1. records' = Append(records, m) /\ records \in Seq(Migrations)
            /\ m \in Migrations
        BY <2>1, CurrentIsMigration DEF Record, PrefixInv, TypeOK
      <4>2. /\ Len(records') = Len(records) + 1 /\ Len(records) \in Nat
            /\ \A k \in 1..Len(records) : records'[k] = records[k]
            /\ records'[Len(records) + 1] = m
        BY <4>1
      <4>3. QED
        BY <4>2 DEF Recorded
    <3>3. QED
      BY <1>2, <3>1, <3>2 DEF Divergence
  <2>2. CASE RecordFails(r)
    <3>1. m \in schema /\ m \in Recorded \cup Unrecordable /\ records' = records
      BY <2>2 DEF RecordFails, DamageInv, SchemaInv, base
    <3>2. Recorded' = Recorded
      BY <3>1 DEF Recorded
    <3>3. QED
      BY <1>2, <3>1, <3>2 DEF Divergence
  <2>3. CASE Delete(r)
    <3>1. m \notin schema
      BY <2>3 DEF Delete, DamageInv, SchemaInv
    <3>2. Recorded' = Recorded \ {m}
      BY <2>3, DeleteRemoves
    <3>3. QED
      BY <1>2, <3>1, <3>2 DEF Divergence
  <2>4. QED
    BY <2>1, <2>2, <2>3
<1>6. InFlight \ {m} \subseteq InFlight'
  <2>1. ASSUME NEW k \in InFlight, k # m PROVE k \in InFlight'
    <3>1. PICK q \in Runners : Between(q) /\ k = Current(q)
      BY DEF InFlight
    <3>2. Between(q)' /\ k = Current(q)'
      BY <1>1, <2>1, <3>1
    <3>3. QED
      BY <3>2 DEF InFlight
  <2>2. QED
    BY <2>1
<1>7. Damaged' \subseteq Damaged
  BY <1>5, <1>6 DEF Damaged
<1>8. QED
  BY <1>2, <1>4, <1>7, DamageStays DEF PrefixInv

(* A killed runner, or a query that fails with or without an effect. *)
LEMMA FaultKeeps ==
  ASSUME PrefixInv, DamageInv, PrefixInv', NEW r \in Runners,
         QueryFails(r) \/ FileFails(r) \/ Crash(r)
  PROVE  DamageInv'
<1> DEFINE m == Current(r)
<1>1. \A q \in Runners \ {r} :
        pc'[q] = pc[q] /\ Current(q)' = Current(q) /\ Between(q)' = Between(q)
  BY OnlyOneMoves DEF PrefixInv
<1>2. faults' = faults + 1 /\ pc'[r] = "idle"
  BY DEF QueryFails, FileFails, Crash, Fault, Exit, Vanish, Goto, PrefixInv, TypeOK
<1>3. /\ records' = records
      /\ \/ schema' = schema
         \/ schema' = schema \cup {m} /\ pc[r] = "execute"
         \/ schema' = schema \ {m} /\ pc[r] = "revert"
  BY DEF QueryFails, FileFails, Crash, base
<1>4. SchemaInv'
  <2>1. SUFFICES ASSUME NEW q \in Runners
                 PROVE  /\ pc'[q] = "record" => Current(q)' \in schema'
                        /\ pc'[q] = "delete" => Current(q)' \notin schema'
    BY DEF SchemaInv
  <2>2. CASE schema' = schema
    BY <1>1, <1>2, <2>2 DEF DamageInv, SchemaInv
  <2>3. CASE schema' = schema \cup {m} /\ pc[r] = "execute"
    <3>1. \A p \in Runners \ {r} : pc[p] # "delete"
      BY <2>3 DEF PrefixInv, DownInv, InDown
    <3>2. QED
      BY <1>1, <1>2, <2>3, <3>1 DEF DamageInv, SchemaInv
  <2>4. CASE pc[r] = "revert"
    <3>1. \A p \in Runners \ {r} : pc[p] = "idle"
      BY <2>4 DEF PrefixInv, DownInv, InDown
    <3>2. QED
      BY <1>1, <1>2, <3>1
  <2>5. QED
    BY <1>3, <2>2, <2>3, <2>4
<1>5. Divergence' \subseteq Divergence \cup {m}
  BY <1>3 DEF Divergence, Recorded
<1>6. InFlight \ {m} \subseteq InFlight'
  <2>1. ASSUME NEW k \in InFlight, k # m PROVE k \in InFlight'
    <3>1. PICK q \in Runners : Between(q) /\ k = Current(q)
      BY DEF InFlight
    <3>2. Between(q)' /\ k = Current(q)'
      BY <1>1, <2>1, <3>1
    <3>3. QED
      BY <3>2 DEF InFlight
  <2>2. QED
    BY <2>1
<1>7. Damaged' \subseteq Damaged \cup {m}
  BY <1>5, <1>6 DEF Damaged
<1>8. QED
  BY <1>2, <1>4, <1>7, DamageGrows

LEMMA NextDamage ==
  ASSUME PrefixInv, DamageInv, DownsAlone, [Next]_vars
  PROVE  DamageInv'
<1>1. PrefixInv'
  BY NextPrefix
<1>2. ASSUME UNCHANGED <<records, schema, pc, list, i, faults>> PROVE DamageInv'
  <2>1. /\ SchemaInv' = SchemaInv /\ Damaged' = Damaged
    BY <1>2 DEF SchemaInv, Damaged, Divergence, Recorded, InFlight, Current, Between
  <2>2. QED
    BY <1>2, <2>1 DEF DamageInv
<1>3. ASSUME NEW m \in Migrations, MakeDir(m) \/ WriteFile(m) \/ Edit(m)
      PROVE  DamageInv'
  BY <1>2, <1>3 DEF MakeDir, WriteFile, Edit, base, own
<1>4. ASSUME NEW r \in Runners,
             \/ BeginUp(r) \/ SelectApplied(r) \/ ListDirectories(r) \/ Skip(r)
             \/ ReadUp(r) \/ ReadUpFails(r) \/ ExecuteFails(r) \/ EndUp(r)
             \/ BeginDown(r) \/ SelectLast(r) \/ ReadDown(r) \/ RevertFails(r)
      PROVE  DamageInv'
  <2>1. UNCHANGED <<records, schema, faults>>
    BY <1>4 DEF BeginUp, SelectApplied, ListDirectories, Skip, ReadUp, ReadUpFails,
       ExecuteFails, EndUp, BeginDown, SelectLast, ReadDown, RevertFails, base
  <2>2. ~Between(r)
    BY <1>4 DEF BeginUp, SelectApplied, ListDirectories, Skip, ReadUp, ReadUpFails,
       ExecuteFails, EndUp, BeginDown, SelectLast, ReadDown, RevertFails, Between,
       Pending
  <2>3. ~Between(r)'
    BY <1>4 DEF BeginUp, SelectApplied, ListDirectories, Skip, ReadUp, ReadUpFails,
       ExecuteFails, EndUp, BeginDown, SelectLast, ReadDown, RevertFails, Between,
       Exit, Vanish, Goto, PrefixInv, TypeOK
  <2>4. QED
    BY <1>1, <1>4, <2>1, <2>2, <2>3, ElsewhereKeeps DEF Up, Down
<1>5. ASSUME NEW r \in Runners, Up(r) \/ Down(r) \/ QueryFails(r) \/ FileFails(r) \/ Crash(r)
      PROVE  DamageInv'
  BY <1>1, <1>4, <1>5, FirstQueryKeeps, SecondQueryKeeps, FaultKeeps DEF Up, Down
<1>6. QED
  BY <1>2, <1>3, <1>5 DEF Next, vars

(* So many migrations are between two queries, at most, as runners are. *)
LEMMA InFlightBounded ==
  LET R == {r \in Runners : Between(r)}
  IN  /\ IsFiniteSet(InFlight) /\ IsFiniteSet(R)
      /\ Cardinality(InFlight) <= Cardinality(R)
<1> DEFINE R == {r \in Runners : Between(r)}
           f == [r \in R |-> Current(r)]
<1>1. IsFiniteSet(R)
  BY MigrateAssumption, FS_Subset
<1>2. f \in Surjection(R, InFlight)
  BY DEF InFlight, Surjection
<1> HIDE DEF R, f
<1>3. IsFiniteSet(InFlight) /\ Cardinality(InFlight) <= Cardinality(R)
  BY <1>1, <1>2, FS_Surjection
<1>4. QED
  BY <1>1, <1>3 DEF R

(* Table and schema disagree on the migrations that runners are working on *)
(* and on at most one more for each fault: a killed process or a lost      *)
(* answer damages one migration, and the damage does not spread.           *)
THEOREM DamageDoesNotSpread ==
  ASSUME DownsAlone
  PROVE  Spec => []DivergenceBounded
<1>1. Init => DamageInv
  <2>1. SUFFICES ASSUME Init PROVE DamageInv
    OBVIOUS
  <2>2. SchemaInv
    BY <2>1 DEF Init, SchemaInv
  <2>3. Damaged = {} /\ faults = 0
    BY <2>1 DEF Init, Damaged, Divergence, Recorded
  <2>4. QED
    BY <2>2, <2>3, FS_EmptySet DEF DamageInv
<1>2. PrefixInv /\ DamageInv /\ [Next]_vars => DamageInv'
  BY NextDamage
<1>3. PrefixInv /\ DamageInv => DivergenceBounded
  <2>1. SUFFICES ASSUME PrefixInv, DamageInv PROVE DivergenceBounded
    OBVIOUS
  <2> DEFINE R == {r \in Runners : Between(r)}
  <2>2. /\ IsFiniteSet(InFlight) /\ IsFiniteSet(R)
        /\ Cardinality(InFlight) <= Cardinality(R)
    BY InFlightBounded
  <2>3. IsFiniteSet(Damaged) /\ Cardinality(Damaged) <= faults
    BY <2>1 DEF DamageInv
  <2>4. Divergence \subseteq Damaged \cup InFlight
    BY DEF Damaged
  <2>5. /\ IsFiniteSet(Damaged \cup InFlight)
        /\ Cardinality(Damaged \cup InFlight) =
             Cardinality(Damaged) + Cardinality(InFlight) - Cardinality(Damaged \cap InFlight)
    BY <2>2, <2>3, FS_Union
  <2>6. /\ IsFiniteSet(Divergence)
        /\ Cardinality(Divergence) <= Cardinality(Damaged \cup InFlight)
    BY <2>4, <2>5, FS_Subset
  <2>7. IsFiniteSet(Damaged \cap InFlight)
    BY <2>2, FS_Subset
  <2> HIDE DEF R
  <2>8. /\ Cardinality(Divergence) \in Nat /\ Cardinality(Damaged) \in Nat
        /\ Cardinality(InFlight) \in Nat /\ Cardinality(Damaged \cap InFlight) \in Nat
        /\ Cardinality(R) \in Nat /\ faults \in Nat
        /\ Cardinality(Damaged \cup InFlight) \in Nat
    BY <2>1, <2>2, <2>3, <2>5, <2>6, <2>7, FS_CardinalityType DEF PrefixInv, TypeOK
  <2>9. Cardinality(Divergence) <= faults + Cardinality(R)
    BY <2>2, <2>3, <2>5, <2>6, <2>8
  <2>10. QED
    BY <2>9 DEF DivergenceBounded, R
<1>4. QED
  BY <1>1, <1>2, <1>3, PrefixInvariant, PTL DEF Spec
=============================================================================
