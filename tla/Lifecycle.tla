----------------------------- MODULE Lifecycle -----------------------------
(***************************************************************************)
(* The main loop of `webdsl app.webdsl`: src/src/main.c polls the source   *)
(* files, src/src/website.c reloads them, src/src/server/server.c starts   *)
(* and stops the HTTP daemon.  One thread does all of it; files change     *)
(* under its feet, and the daemon's own threads use the arena it frees.    *)
(*                                                                         *)
(* The main file names the files it includes.  A file has a version, which *)
(* is what matters to us, and an mtime in whole seconds, which is all that *)
(* stat tells the program.                                                  *)
(*                                                                         *)
(* pc: check (top of the loop), stop, parse, start (inside reloadWebsite), *)
(* track (it returned a website), exited, crashed.                         *)
(***************************************************************************)
EXTENDS Naturals, FiniteSets

CONSTANTS
  Main,
  Includes,  \* the files that Main may include
  MaxTime,   \* bound on the seconds that pass
  MaxEdits,  \* bound on the edits
  Apart,     \* edits of a file happen in different seconds
  Quiet      \* the files that are edited between reloads only

Files == {Main} \cup Includes

ASSUME LifecycleAssumption ==
  /\ Main \notin Includes
  /\ MaxTime \in Nat \ {0}
  /\ MaxEdits \in Nat
  /\ Apart \in BOOLEAN
  /\ Quiet \subseteq Files

VARIABLES
  clock, edits,    \* seconds passed, edits made
  version, mtime,  \* of each file
  good,            \* whether each file's text parses
  includes,        \* the files Main's text includes
  pc,
  running,         \* keepRunning
  watched,         \* mod_tracker: file -> last_mod_time
  website,         \* whether main's pointer is not NULL
  arena,           \* parser.arena: "none", "live"
  context,         \* whether serverCtx is not NULL
  daemon,          \* serverCtx->daemon: "off", "on", "garbage"
  tried            \* the versions the latest parse depended on

disk    == <<clock, edits, version, mtime, good, includes>>
process == <<pc, running, watched, website, arena, context, daemon, tried>>
vars == <<clock, edits, version, mtime, good, includes,
          pc, running, watched, website, arena, context, daemon, tried>>

TypeOK ==
  /\ clock \in 1..MaxTime /\ edits \in 0..MaxEdits
  /\ version \in [Files -> Nat] /\ mtime \in [Files -> 1..MaxTime]
  /\ good \in [Files -> BOOLEAN] /\ includes \subseteq Includes
  /\ pc \in {"check", "stop", "parse", "start", "track", "exited", "crashed"}
  /\ running \in BOOLEAN /\ website \in BOOLEAN /\ context \in BOOLEAN
  /\ Main \in DOMAIN watched /\ DOMAIN watched \subseteq Files
  /\ \A f \in DOMAIN watched : watched[f] \in 0..clock
  /\ arena \in {"none", "live"}
  /\ daemon \in {"off", "on", "garbage"}
  /\ DOMAIN tried \subseteq Files

Init ==
  /\ clock = 1 /\ edits = 0
  /\ version = [f \in Files |-> 0]
  /\ mtime = [f \in Files |-> 1]
  /\ good \in [Files -> BOOLEAN]
  /\ includes \in SUBSET Includes
  /\ pc = "check" /\ running = TRUE
  /\ watched = [f \in {Main} |-> 0]
  /\ website = FALSE /\ arena = "none" /\ context = FALSE /\ daemon = "off"
  /\ tried = [f \in {} |-> 0]

-----------------------------------------------------------------------------
(* Outside: time, and people who edit the files *)

Tick ==
  /\ clock < MaxTime
  /\ clock' = clock + 1
  /\ UNCHANGED <<edits, version, mtime, good, includes, process>>

Edit(f) ==
  /\ edits < MaxEdits
  /\ f \in Quiet => pc = "check"
  /\ Apart => clock > mtime[f]
  /\ edits' = edits + 1
  /\ version' = [version EXCEPT ![f] = @ + 1]
  /\ mtime' = [mtime EXCEPT ![f] = clock]
  /\ \E b \in BOOLEAN : good' = [good EXCEPT ![f] = b]
  /\ IF f = Main THEN includes' \in SUBSET Includes ELSE UNCHANGED includes
  /\ UNCHANGED <<clock, process>>

(* intHandler *)
Interrupt ==
  /\ running
  /\ running' = FALSE
  /\ UNCHANGED <<disk, pc, watched, website, arena, context, daemon, tried>>

-----------------------------------------------------------------------------
(* The main loop *)

Modified(f) == mtime[f] > watched[f]

(* checkModifications *)
Check ==
  /\ pc = "check"
  /\ running
  /\ \E f \in DOMAIN watched : Modified(f)
  /\ watched' = [f \in DOMAIN watched |->
                   IF Modified(f) THEN mtime[f] ELSE watched[f]]
  /\ pc' = "stop"
  /\ UNCHANGED <<disk, running, website, arena, context, daemon, tried>>

(* stopServer returns at once without a context; a daemon field that was   *)
(* never written holds whatever the arena's memory held.                   *)
StopServer ==
  /\ context' = FALSE
  /\ daemon' = "off"

(* reloadWebsite, first half *)
Stop ==
  /\ pc = "stop"
  /\ ~(website /\ daemon = "garbage")
  /\ IF website THEN StopServer ELSE UNCHANGED <<context, daemon>>
  /\ website' = FALSE
  /\ pc' = "parse"
  /\ UNCHANGED <<disk, running, watched, arena, tried>>

(* MHD_stop_daemon on a pointer that is none *)
StopCrashes ==
  /\ \/ pc = "stop" /\ website
     \/ pc = "check" /\ ~running
  /\ context
  /\ daemon = "garbage"
  /\ pc' = "crashed"
  /\ UNCHANGED <<disk, running, watched, website, arena, context, daemon, tried>>

Text == {Main} \cup (IF good[Main] THEN includes ELSE {})

(* parseWebsite: the old arena is freed, the files are read and parsed. *)
Parse ==
  /\ pc = "parse"
  /\ \A f \in Text : good[f]
  /\ arena' = "live"
  /\ tried' = [f \in Text |-> version[f]]
  /\ pc' = "start"
  /\ UNCHANGED <<disk, running, watched, website, context, daemon>>

(* A file that does not parse; or one that cannot be opened, and then, if  *)
(* it is the main file, no arena is made.                                   *)
ParseFails ==
  /\ pc = "parse"
  /\ \E f \in Text : ~good[f]
  /\ arena' \in IF good[Main] THEN {"live"} ELSE {"live", "none"}
  /\ tried' = [f \in Text |-> version[f]]
  /\ pc' = "check"
  /\ UNCHANGED <<disk, running, watched, website, context, daemon>>

(* startServer succeeds. *)
Start ==
  /\ pc = "start"
  /\ context' = TRUE
  /\ daemon' = "on"
  /\ website' = TRUE
  /\ pc' = "track"
  /\ UNCHANGED <<disk, running, watched, arena, tried>>

(* The database cannot be initialised: startServer returns NULL with       *)
(* serverCtx set and its daemon field unwritten.  reloadWebsite does not   *)
(* look at the result.                                                      *)
StartFails ==
  /\ pc = "start"
  /\ context' = TRUE
  /\ daemon' \in {"off", "garbage"}
  /\ website' = TRUE
  /\ pc' = "track"
  /\ UNCHANGED <<disk, running, watched, arena, tried>>

(* exit(74) when the main file cannot be read to its end; exit(1) for an   *)
(* unresolved URL or port, for Lua, and when MHD_start_daemon fails.        *)
Exits ==
  /\ pc \in {"parse", "start"}
  /\ pc' = "exited"
  /\ UNCHANGED <<disk, running, watched, website, arena, context, daemon, tried>>

(* Mutant: the main file is asked for its time again, too. *)
Track_RestatsMain ==
  /\ pc = "track"
  /\ watched' = [f \in DOMAIN tried |-> mtime[f]]
  /\ pc' = "check"
  /\ UNCHANGED <<disk, running, website, arena, context, daemon, tried>>

(* updateModTrackerFromWebsite: the includes that were parsed, as stat     *)
(* reports them now.                                                        *)
Track ==
  /\ pc = "track"
  /\ watched' = [f \in DOMAIN tried |-> IF f = Main THEN watched[f] ELSE mtime[f]]
  /\ pc' = "check"
  /\ UNCHANGED <<disk, running, website, arena, context, daemon, tried>>

(* The end of main. *)
Shutdown ==
  /\ pc = "check"
  /\ ~running
  /\ ~(context /\ daemon = "garbage")
  /\ StopServer
  /\ arena' = "none"
  /\ pc' = "exited"
  /\ UNCHANGED <<disk, running, watched, website, tried>>

Over == pc \in {"exited", "crashed"}

Loop ==
  \/ Check \/ Stop \/ StopCrashes \/ Parse \/ ParseFails
  \/ Start \/ StartFails \/ Exits \/ Track \/ Shutdown

Next ==
  \/ Loop \/ Tick \/ Interrupt
  \/ \E f \in Files : Edit(f)
  \/ Over /\ UNCHANGED vars

Spec == Init /\ [][Next]_vars

(* The process runs; nobody has to edit anything, and no second has to pass. *)
FairSpec == Spec /\ WF_vars(Loop)

-----------------------------------------------------------------------------
(* Properties *)

(* The daemon's threads never run on a configuration that was freed, never *)
(* on one that did not parse, and no second daemon is started beside them. *)
ServingIsSound ==
  daemon = "on" => arena = "live" /\ context /\ pc \notin {"parse", "start"}

(* Sooner or later the site that is served is the one in the files:        *)
(* - the main file's latest version gets its attempt, at whatever moment   *)
(*   of a reload it was edited (edits within one second cannot be told     *)
(*   apart by stat: Apart);                                                 *)
(* - so does an include that is edited between reloads, as long as it is   *)
(*   watched (its time is taken when it has been parsed, so an edit during *)
(*   the reload is lost: Quiet);                                            *)
(* - a text that did not parse stops the server, but not for good: it is   *)
(*   started again as soon as the files parse, whichever was repaired, as  *)
(*   long as the tracker knows all of them.                                 *)
EditsAreServed ==
  <>[](Over \/ ~running \/
       /\ Main \in DOMAIN tried /\ tried[Main] = version[Main]
       /\ \A f \in DOMAIN watched \cap DOMAIN tried \cap Quiet : tried[f] = version[f]
       /\ (Text \subseteq DOMAIN watched /\ \A f \in Text : good[f]) => website)
=============================================================================
