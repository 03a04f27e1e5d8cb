------------------------------- MODULE Server -------------------------------
(***************************************************************************)
(* The main loop of module Lifecycle, together with the threads of the     *)
(* HTTP daemon that it starts and stops, and with what outlives a request: *)
(* the tables of routes (server/routing.c), each thread's table of         *)
(* compiled jq programs, the table of compiled Lua scripts (server/lua.c), *)
(* and the pointers to the server's context in db.c, css.c, mustache.c and *)
(* lua.c.  All of it points into the arena of the configuration, which a   *)
(* reload frees.                                                            *)
(***************************************************************************)
EXTENDS Lifecycle

CONSTANTS
  Workers,   \* threads of the daemon
  Filters,   \* jq programs of the site
  Faulty,    \* those that do not compile
  Scripts,   \* Lua programs of its pipelines
  Embedded   \* the library that is part of the program

ASSUME ServerAssumption ==
  /\ Faulty \subseteq Filters
  /\ Embedded \notin Scripts

VARIABLES
  phase,      \* of each thread: "none" if there is no such thread
  closing,    \* MHD_stop_daemon has been called
  generation, \* number of arenas made so far; the latest is the one in use
  routes,     \* generation that the tables of routes point into
  pointers,   \* and the pointers to the context
  chunks,     \* chunkTable: script -> generation that its entry points into
  jqTable,    \* of each thread: generation it was made in, or 0
  compiled    \* <<thread, program>>: programs of jq that were not torn down

threads == <<phase, closing>>
caches == <<generation, routes, pointers, chunks, jqTable, compiled>>
serverVars == <<vars, threads, caches>>

Phases == {"none", "idle", "busy"}

ServerTypeOK ==
  /\ TypeOK
  /\ phase \in [Workers -> Phases] /\ closing \in BOOLEAN
  /\ generation \in Nat
  /\ routes \in 0..generation /\ pointers \in 0..generation
  /\ DOMAIN chunks \subseteq Scripts \cup {Embedded}
  /\ \A s \in DOMAIN chunks : chunks[s] \in 1..generation
  /\ jqTable \in [Workers -> 0..generation]
  /\ compiled \subseteq Workers \X (Filters \ Faulty)

NoChunks == [s \in {} |-> 0]

ServerInit ==
  /\ Init
  /\ phase = [w \in Workers |-> "none"] /\ closing = FALSE
  /\ generation = 0 /\ routes = 0 /\ pointers = 0
  /\ chunks = NoChunks
  /\ jqTable = [w \in Workers |-> 0] /\ compiled = {}

-----------------------------------------------------------------------------
(* The main thread *)

Stopping == (pc = "stop" /\ website) \/ (pc = "check" /\ ~running)
MustClose == Stopping /\ context /\ daemon = "on"
NoThreads == \A w \in Workers : phase[w] = "none"

\* Mutant: it waits for a moment without requests first.
CloseDaemon_WhenIdle ==
  /\ MustClose /\ ~closing
  /\ \A w \in Workers : phase[w] # "busy"
  /\ closing' = TRUE
  /\ UNCHANGED <<vars, phase, caches>>

\* MHD_stop_daemon: it asks the threads to end, and waits for them.
CloseDaemon ==
  /\ MustClose /\ ~closing
  /\ closing' = TRUE
  /\ UNCHANGED <<vars, phase, caches>>

\* The rest of stopServer: cleanupJQCache does nothing, because the variable
\* that it looks at is never set; cleanupLua empties the table.
Cleanup ==
  /\ closing' = FALSE
  /\ chunks' = IF context THEN NoChunks ELSE chunks
  /\ UNCHANGED <<phase, generation, routes, pointers, jqTable, compiled>>

\* Mutant: the compiled scripts are kept for the next configuration.
StopDone_KeepsScripts ==
  /\ MustClose => closing /\ NoThreads
  /\ Stop \/ Shutdown
  /\ closing' = FALSE
  /\ UNCHANGED <<phase, caches>>

StopDone ==
  /\ MustClose => closing /\ NoThreads
  /\ Stop \/ Shutdown
  /\ IF pc = "stop" /\ ~website THEN UNCHANGED <<threads, caches>> ELSE Cleanup

\* The arena is freed and another is made, unless the file cannot be read.
ParseText ==
  /\ Parse \/ ParseFails
  /\ generation' = IF arena' = "live" THEN generation + 1 ELSE generation
  /\ UNCHANGED <<threads, routes, pointers, chunks, jqTable, compiled>>

\* The table of compiled scripts.  The text of an entry is in the arena; a
\* script whose text is already in the table is not compiled again.
compileAndCacheLuaCode(table, scripts) ==
  [s \in DOMAIN table \cup scripts |->
     IF s \in DOMAIN table THEN table[s] ELSE generation]

loadEmbeddedScripts(table) == compileAndCacheLuaCode(table, {Embedded})

compilePipelineSteps(table) == compileAndCacheLuaCode(table, Scripts)

\* startServer; MHD makes the threads.
StartThreads ==
  /\ Start
  /\ routes' = generation /\ pointers' = generation
  /\ chunks' = compilePipelineSteps(loadEmbeddedScripts(chunks))
  /\ phase' = [w \in Workers |-> "idle"]
  /\ UNCHANGED <<closing, generation, jqTable, compiled>>

StartStopsShort ==
  /\ StartFails
  /\ routes' = generation
  /\ UNCHANGED <<threads, generation, pointers, chunks, jqTable, compiled>>

OtherSteps ==
  /\ Check \/ StopCrashes \/ Exits \/ Track
  /\ UNCHANGED <<threads, caches>>

MainSteps ==
  \/ CloseDaemon \/ StopDone \/ ParseText \/ StartThreads \/ StartStopsShort \/ OtherSteps

-----------------------------------------------------------------------------
(* The threads *)

Goto(w, p) == phase' = [phase EXCEPT ![w] = p]
InProcess == pc \notin {"exited", "crashed"}

\* A request: handleRequest, which finds its route in the tables.
Call(w) ==
  /\ InProcess /\ phase[w] = "idle" /\ ~closing
  /\ Goto(w, "busy")
  /\ UNCHANGED <<vars, closing, caches>>

\* findOrCreateJQ: the thread's table and its entries are in the server's
\* arena; a program that does not compile gets no entry.
UseJQ(w, f) ==
  /\ InProcess /\ phase[w] = "busy"
  /\ jqTable' = [jqTable EXCEPT ![w] = IF @ = 0 THEN generation ELSE @]
  /\ compiled' = IF f \in Faulty THEN compiled ELSE compiled \cup {<<w, f>>}
  /\ UNCHANGED <<vars, threads, generation, routes, pointers, chunks>>

\* executeLuaStep: each state of Lua loads the library, which would be
\* compiled if it were not in the table; the step's own script would not.
RunLua(w, s) ==
  /\ InProcess /\ phase[w] = "busy"
  /\ chunks' = loadEmbeddedScripts(chunks)
  /\ UNCHANGED <<vars, threads, generation, routes, pointers, jqTable, compiled>>

Answer(w) ==
  /\ InProcess /\ phase[w] = "busy"
  /\ Goto(w, "idle")
  /\ UNCHANGED <<vars, closing, caches>>

\* Mutant: the key has no destructor.
EndThread_NoDestructor(w) ==
  /\ InProcess /\ phase[w] = "idle" /\ closing
  /\ Goto(w, "none")
  /\ jqTable' = [jqTable EXCEPT ![w] = 0]
  /\ UNCHANGED <<vars, closing, generation, routes, pointers, chunks, compiled>>

\* The thread ends, and jq_thread_cleanup tears its programs down.
EndThread(w) ==
  /\ InProcess /\ phase[w] = "idle" /\ closing
  /\ Goto(w, "none")
  /\ jqTable' = [jqTable EXCEPT ![w] = 0]
  /\ compiled' = {c \in compiled : c[1] # w}
  /\ UNCHANGED <<vars, closing, generation, routes, pointers, chunks>>

Handle(w) ==
  \/ Answer(w) \/ EndThread(w)
  \/ \E s \in Scripts : RunLua(w, s)

Work(w) == Call(w) \/ Handle(w) \/ \E f \in Filters : UseJQ(w, f)

Outside == Tick \/ Interrupt \/ \E f \in Files : Edit(f)

ServerNext ==
  \/ MainSteps
  \/ (Outside /\ UNCHANGED <<threads, caches>>)
  \/ \E w \in Workers : Work(w)
  \/ (Over /\ UNCHANGED serverVars)

ServerSpec == ServerInit /\ [][ServerNext]_serverVars

\* The main thread goes on; so does a handler, as long as the site's own
\* programs end, and a thread that is asked to end.
ServerFairSpec ==
  /\ ServerSpec
  /\ WF_serverVars(MainSteps)
  /\ \A w \in Workers : WF_serverVars(Handle(w))

-----------------------------------------------------------------------------
(* Properties *)

\* Whatever a thread can reach is in memory that is still there: routes,
\* context, the compiled scripts with whose texts it compares, and its own
\* table of jq programs.  chunkTable has no lock: every script is in it
\* before a thread may look, so that none has to be added.
NothingDangles ==
  \A w \in Workers :
    phase[w] # "none" /\ InProcess =>
      /\ arena = "live"
      /\ routes = generation /\ pointers = generation
      /\ chunks = [s \in Scripts \cup {Embedded} |-> generation]
      /\ jqTable[w] \in {0, generation}

\* While the daemon runs, what it serves is there: the arena, the context,
\* and all that the threads reach from them.  (reloadWebsite, stopServer)
ServerSound == ServerTypeOK /\ ServingIsSound /\ NothingDangles

\* Each compiled jq program is torn down with the thread that compiled it:
\* reloads do not leave any behind.
ProgramsAreReleased ==
  \A c \in compiled : phase[c[1]] # "none" /\ jqTable[c[1]] = generation

\* The threads only delay the main loop: what Lifecycle says of it holds,
\* also that it goes on, so that every stop comes to its end.
ImplementsLifecycle == FairSpec
=============================================================================
