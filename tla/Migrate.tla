------------------------------ MODULE Migrate ------------------------------
(***************************************************************************)
(* `webdsl migrate create | up | down` of src/src/migration.c.  A runner   *)
(* is one process of the command; several may run at the same time, and    *)
(* each may be killed anywhere.  Migrations are numbered in the order of   *)
(* their directories' names, which start with the time of their creation.  *)
(*                                                                         *)
(* Each executeQuery is a transaction of its own: a migration's SQL is     *)
(* sent as one PQexec, so it takes effect entirely or not at all, and its  *)
(* row in the table migrations is written by another one.                  *)
(*                                                                         *)
(* pc of a runner: idle; for up: select, list, read, execute, record; for  *)
(* down: last, readDown, revert, delete.                                    *)
(***************************************************************************)
EXTENDS Integers, Sequences, FiniteSets

CONSTANTS
  Runners,
  MaxDowns,     \* bound on the commands `down`
  DownsAlone,   \* nobody runs another command while `down` runs
  N,            \* number of migrations
  Commented,    \* those whose SQL contains a comment
  Unrecordable, \* those whose name the INSERT into migrations does not take
  Rerunnable,   \* those whose SQL may be run again (IF NOT EXISTS, IF EXISTS)
  MaxFaults     \* bound on failing queries and files, killed processes

Migrations == 1..N

ASSUME MigrateAssumption ==
  /\ IsFiniteSet(Runners)
  /\ N \in Nat
  /\ MaxDowns \in Nat
  /\ DownsAlone \in BOOLEAN
  /\ Commented \subseteq Migrations
  /\ Unrecordable \subseteq Migrations
  /\ Rerunnable \subseteq Migrations
  /\ MaxFaults \in Nat

VARIABLES
  files,     \* what is in the directory of each migration
  records,   \* the table migrations: its names in the order of their ids
  schema,    \* the migrations that are in effect in the database
  pc,
  applied,   \* applied[r]: the array applied, as a set
  list,      \* list[r]: the sorted array migrations
  i,         \* i[r]: the loop's index into it
  text,      \* text[r]: what was read from up.sql or down.sql
  result,    \* exit status of the runner's latest command
  downs,     \* commands `down` so far
  faults     \* failed queries and files, killed processes so far

disk == <<files>>
base == <<records, schema>>
own  == <<applied, list, i, text>>
vars == <<files, records, schema, pc, applied, list, i, text, result, downs, faults>>

PC == {"idle", "select", "list", "read", "execute", "record",
       "last", "readDown", "revert", "delete"}

Recorded == {records[k] : k \in 1..Len(records)}
Current(r) == list[r][i[r]]

TypeOK ==
  /\ files \in [Migrations -> {"none", "dir", "up", "template", "sql"}]
  /\ records \in Seq(Migrations)
  /\ schema \subseteq Migrations
  /\ pc \in [Runners -> PC]
  /\ applied \in [Runners -> SUBSET Migrations]
  /\ list \in [Runners -> Seq(Migrations)]
  /\ i \in [Runners -> Nat]
  /\ \A r \in Runners : i[r] \in 1..Len(list[r]) + 1
  /\ text \in [Runners -> {"template", "sql"}]
  /\ result \in [Runners -> {"none", "ok", "failed"}]
  /\ downs \in 0..MaxDowns
  /\ faults \in 0..MaxFaults

Init ==
  /\ files = [m \in Migrations |-> "none"]
  /\ records = <<>>
  /\ schema = {}
  /\ pc = [r \in Runners |-> "idle"]
  /\ applied = [r \in Runners |-> {}]
  /\ list = [r \in Runners |-> <<>>]
  /\ i = [r \in Runners |-> 1]
  /\ text = [r \in Runners |-> "template"]
  /\ result = [r \in Runners |-> "none"]
  /\ downs = 0
  /\ faults = 0

Goto(r, l) == pc' = [pc EXCEPT ![r] = l]

(* The process is gone, and with it what it had read. *)
Vanish(r) ==
  /\ Goto(r, "idle")
  /\ applied' = [applied EXCEPT ![r] = {}]
  /\ list' = [list EXCEPT ![r] = <<>>]
  /\ i' = [i EXCEPT ![r] = 1]
  /\ text' = [text EXCEPT ![r] = "template"]

Exit(r, code) == Vanish(r) /\ result' = [result EXCEPT ![r] = code]

-----------------------------------------------------------------------------
(* migrate create, then the developer's editor *)

(* mkdir; the time in the name makes it the last one in the order. *)
MakeDir(m) ==
  /\ files[m] = "none"
  /\ \A k \in Migrations : k < m => files[k] # "none"
  /\ files' = [files EXCEPT ![m] = "dir"]
  /\ UNCHANGED <<base, pc, own, result, downs, faults>>

(* up.sql, then down.sql, with their templates: one comment each. *)
WriteFile(m) ==
  /\ files[m] \in {"dir", "up"}
  /\ files' = [files EXCEPT ![m] = IF @ = "dir" THEN "up" ELSE "template"]
  /\ UNCHANGED <<base, pc, own, result, downs, faults>>

Edit(m) ==
  /\ files[m] = "template"
  /\ files' = [files EXCEPT ![m] = "sql"]
  /\ UNCHANGED <<base, pc, own, result, downs, faults>>

-----------------------------------------------------------------------------
(* migrate up *)

InDown == {"last", "readDown", "revert", "delete"}

(* ensureMigrationsTable changes nothing the first time has not. *)
BeginUp(r) ==
  /\ pc[r] = "idle"
  /\ DownsAlone => \A q \in Runners : pc[q] \notin InDown
  /\ Goto(r, "select")
  /\ result' = [result EXCEPT ![r] = "none"]
  /\ UNCHANGED <<disk, base, own, downs, faults>>

SelectApplied(r) ==
  /\ pc[r] = "select"
  /\ applied' = [applied EXCEPT ![r] = Recorded]
  /\ Goto(r, "list")
  /\ UNCHANGED <<disk, base, list, i, text, result, downs, faults>>

Directories == {m \in Migrations : files[m] # "none"}

(* Mutant: the comparison of two names is turned round. *)
Ordered_Reversed(s) == \A j, k \in DOMAIN s : j < k => s[j] > s[k]

(* The array after the nested loops that sort it. *)
Ordered(s) == \A j, k \in DOMAIN s : j < k => s[j] < s[k]

ListDirectories(r) ==
  /\ pc[r] = "list"
  /\ \E s \in [1..Cardinality(Directories) -> Directories] :
       /\ {s[k] : k \in DOMAIN s} = Directories
       /\ Ordered(s)
       /\ list' = [list EXCEPT ![r] = s]
  /\ i' = [i EXCEPT ![r] = 1]
  /\ Goto(r, "read")
  /\ UNCHANGED <<disk, base, applied, text, result, downs, faults>>

(* The loop's condition. *)
More(r) == i[r] <= Len(list[r])

Skip(r) ==
  /\ pc[r] = "read"
  /\ More(r)
  /\ Current(r) \in applied[r]
  /\ i' = [i EXCEPT ![r] = @ + 1]
  /\ UNCHANGED <<disk, base, pc, applied, list, text, result, downs, faults>>

Pending(r) ==
  /\ pc[r] = "read"
  /\ More(r)
  /\ Current(r) \notin applied[r]

ReadUp(r) ==
  /\ Pending(r)
  /\ files[Current(r)] # "dir"
  /\ text' = [text EXCEPT ![r] = IF files[Current(r)] = "sql" THEN "sql" ELSE "template"]
  /\ Goto(r, "execute")
  /\ UNCHANGED <<disk, base, applied, list, i, result, downs, faults>>

(* up.sql cannot be opened *)
ReadUpFails(r) ==
  /\ Pending(r)
  /\ files[Current(r)] = "dir"
  /\ Exit(r, "failed")
  /\ UNCHANGED <<disk, base, downs, faults>>

(* executeQuery refuses a text with "--" or "/*": every template has one. *)
Sendable(r, m) == text[r] = "sql" /\ m \notin Commented

Accepted(r) ==
  /\ Sendable(r, Current(r))
  /\ Current(r) \notin schema \/ Current(r) \in Rerunnable

Execute(r) ==
  /\ pc[r] = "execute"
  /\ Accepted(r)
  /\ schema' = schema \cup {Current(r)}
  /\ Goto(r, "record")
  /\ UNCHANGED <<disk, records, own, result, downs, faults>>

(* Mutant: a failure is reported and the loop goes on. *)
ExecuteFails_GoesOn(r) ==
  /\ pc[r] = "execute"
  /\ ~Accepted(r)
  /\ i' = [i EXCEPT ![r] = @ + 1]
  /\ Goto(r, "read")
  /\ UNCHANGED <<disk, base, applied, list, text, result, downs, faults>>

(* Mutant: the result of the migration's SQL is not looked at. *)
ExecuteFails_Ignored(r) ==
  /\ pc[r] = "execute"
  /\ ~Accepted(r)
  /\ Goto(r, "record")
  /\ UNCHANGED <<disk, base, own, result, downs, faults>>

(* The text is refused here or by the server; no later migration is tried. *)
ExecuteFails(r) ==
  /\ pc[r] = "execute"
  /\ ~Accepted(r)
  /\ Exit(r, "failed")
  /\ UNCHANGED <<disk, base, downs, faults>>

Record(r) ==
  /\ pc[r] = "record"
  /\ Current(r) \notin Recorded \cup Unrecordable
  /\ records' = Append(records, Current(r))
  /\ i' = [i EXCEPT ![r] = @ + 1]
  /\ Goto(r, "read")
  /\ UNCHANGED <<disk, schema, applied, list, text, result, downs, faults>>

(* The INSERT violates UNIQUE: another runner was faster.  Or the name     *)
(* spoils the INSERT it is printed into: executeQuery refuses "--", and an *)
(* apostrophe ends the string.  `create' takes any name.                   *)
RecordFails(r) ==
  /\ pc[r] = "record"
  /\ Current(r) \in Recorded \cup Unrecordable
  /\ Exit(r, "failed")
  /\ UNCHANGED <<disk, base, downs, faults>>

EndUp(r) ==
  /\ pc[r] = "read"
  /\ ~More(r)
  /\ Exit(r, "ok")
  /\ UNCHANGED <<disk, base, downs, faults>>

-----------------------------------------------------------------------------
(* migrate down; the name it works on is list[r][1] *)

BeginDown(r) ==
  /\ pc[r] = "idle"
  /\ DownsAlone => \A q \in Runners : pc[q] = "idle"
  /\ downs < MaxDowns
  /\ downs' = downs + 1
  /\ Goto(r, "last")
  /\ result' = [result EXCEPT ![r] = "none"]
  /\ UNCHANGED <<disk, base, own, faults>>

(* Mutant: ORDER BY id without DESC. *)
LastRecord_First == records[1]

(* ORDER BY id DESC LIMIT 1 *)
LastRecord == records[Len(records)]

SelectLast(r) ==
  /\ pc[r] = "last"
  /\ IF records = <<>>
       THEN Exit(r, "ok")
       ELSE /\ list' = [list EXCEPT ![r] = <<LastRecord>>]
            /\ i' = [i EXCEPT ![r] = 1]
            /\ Goto(r, "readDown")
            /\ UNCHANGED <<applied, text, result>>
  /\ UNCHANGED <<disk, base, downs, faults>>

ReadDown(r) ==
  /\ pc[r] = "readDown"
  /\ files[Current(r)] = "sql"
  /\ text' = [text EXCEPT ![r] = "sql"]
  /\ Goto(r, "revert")
  /\ UNCHANGED <<disk, base, applied, list, i, result, downs, faults>>

Reverted(r) ==
  /\ Sendable(r, Current(r))
  /\ Current(r) \in schema \/ Current(r) \in Rerunnable

Revert(r) ==
  /\ pc[r] = "revert"
  /\ Reverted(r)
  /\ schema' = schema \ {Current(r)}
  /\ Goto(r, "delete")
  /\ UNCHANGED <<disk, records, own, result, downs, faults>>

RevertFails(r) ==
  /\ pc[r] = "revert"
  /\ ~Reverted(r)
  /\ Exit(r, "failed")
  /\ UNCHANGED <<disk, base, downs, faults>>

(* DELETE ... WHERE name = m: one row, as names are unique, or none. *)
Without(s, m) ==
  IF \E k \in 1..Len(s) : s[k] = m
    THEN LET k == CHOOSE k \in 1..Len(s) : s[k] = m
         IN  SubSeq(s, 1, k - 1) \o SubSeq(s, k + 1, Len(s))
    ELSE s

Delete(r) ==
  /\ pc[r] = "delete"
  /\ records' = Without(records, Current(r))
  /\ Exit(r, "ok")
  /\ UNCHANGED <<disk, schema, downs, faults>>

-----------------------------------------------------------------------------
(* Failures from outside *)

Fault == faults < MaxFaults /\ faults' = faults + 1

(* A query fails for a reason of the server's or the network's; a COMMIT   *)
(* whose answer is lost has happened all the same.                          *)
QueryFails(r) ==
  /\ pc[r] \in {"select", "execute", "record", "last", "revert", "delete"}
  /\ Fault
  /\ Exit(r, "failed")
  /\ \/ UNCHANGED base
     \/ /\ pc[r] = "execute" /\ Accepted(r)
        /\ schema' = schema \cup {Current(r)}
        /\ UNCHANGED records
     \/ /\ pc[r] = "revert" /\ Reverted(r)
        /\ schema' = schema \ {Current(r)}
        /\ UNCHANGED records
  /\ UNCHANGED <<disk, downs>>

(* The directory, up.sql or down.sql cannot be opened or read. *)
FileFails(r) ==
  /\ pc[r] \in {"list", "readDown"} \/ Pending(r)
  /\ Fault
  /\ Exit(r, "failed")
  /\ UNCHANGED <<disk, base, downs>>

(* The process is killed; SIGINT has no handler here. *)
Crash(r) ==
  /\ pc[r] # "idle"
  /\ Fault
  /\ Vanish(r)
  /\ UNCHANGED <<disk, base, result, downs>>

Up(r) ==
  \/ BeginUp(r) \/ SelectApplied(r) \/ ListDirectories(r) \/ Skip(r)
  \/ ReadUp(r) \/ ReadUpFails(r) \/ Execute(r) \/ ExecuteFails(r)
  \/ Record(r) \/ RecordFails(r) \/ EndUp(r)

Down(r) ==
  \/ BeginDown(r) \/ SelectLast(r) \/ ReadDown(r)
  \/ Revert(r) \/ RevertFails(r) \/ Delete(r)

Next ==
  \/ \E m \in Migrations : MakeDir(m) \/ WriteFile(m) \/ Edit(m)
  \/ \E r \in Runners : Up(r) \/ Down(r) \/ QueryFails(r) \/ FileFails(r) \/ Crash(r)

Spec == Init /\ [][Next]_vars

(* The developer finishes what create began, a command that runs goes on,  *)
(* and the operator runs `up` again and again: nothing but the operator    *)
(* retries a migration.                                                     *)
FairSpec ==
  /\ Spec
  /\ \A m \in Migrations : WF_vars(MakeDir(m) \/ WriteFile(m) \/ Edit(m))
  /\ \A r \in Runners : WF_vars(Up(r) \/ Down(r))

-----------------------------------------------------------------------------
(* Properties *)

(* The table is always the first migrations in their order, none twice,    *)
(* none left out: whatever fails or is killed, and with several `up` at    *)
(* the same time, no migration is recorded before an earlier one.          *)
AppliedIsPrefix == \A k \in 1..Len(records) : records[k] = k

(* The table _migrations is that prefix, and no runner's index leaves the  *)
(* arrays that it read from the disk and from the table.                   *)
TableSound == TypeOK /\ AppliedIsPrefix

(* Where table and schema disagree.  A migration that cannot be recorded   *)
(* is left out: it is in effect and not in the table without any fault.    *)
Divergence ==
  ((schema \ Recorded) \cup (Recorded \ schema)) \ Unrecordable

Between(r) == pc[r] \in {"record", "delete"}

(* Table and schema differ by no more migrations than there are runners    *)
(* between their two queries, plus one for every fault: each killed        *)
(* process or lost answer damages one migration and nothing spreads.  (Of  *)
(* the migrations whose names can be recorded: see Divergence.)            *)
DivergenceBounded ==
  Cardinality(Divergence) <= faults + Cardinality({r \in Runners : Between(r)})

(* `up` exits with 0 only when every directory it listed is recorded. *)
SuccessIsComplete ==
  [][\A r \in Runners :
       pc[r] = "read" /\ result'[r] = "ok" /\ result[r] # "ok"
         => \A k \in 1..Len(list[r]) : list[r][k] \in Recorded]_vars

(* Retrying `up` heals every interruption of `up`, up to the first         *)
(* migration that cannot be run again or recorded: all before it end up    *)
(* recorded and in effect.  An interrupted `down` is not healed: its       *)
(* migration stays recorded, so `up` skips it.                             *)
RetryingHeals ==
  <>[](\A m \in Migrations :
         1..m \subseteq Rerunnable \ (Commented \cup Unrecordable) =>
           /\ m \in Recorded
           /\ downs = 0 \/ faults = 0 => m \in schema)
=============================================================================
