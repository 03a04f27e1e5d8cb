---------------------------- MODULE ServerProofs ----------------------------
(***************************************************************************)
(* Proofs about module Server, for any number of threads, files, edits,    *)
(* jq programs and scripts: whatever is edited, and whenever it fails,     *)
(* stops or is interrupted, the daemon runs on memory that is there, and   *)
(* nothing of an earlier configuration is reached or left behind.          *)
(***************************************************************************)
EXTENDS Server, TLAPS

-----------------------------------------------------------------------------
(* The main loop *)

(* No file was written in the future.                                      *)
TimesPast == \A f \in Files : mtime[f] <= clock

(* What startServer and the tracker find after a parse.                    *)
ParsedHolds ==
  /\ pc \in {"start", "track"} => Main \in DOMAIN tried
  /\ pc = "start" => arena = "live"

(* A daemon that runs is known to main, and has all that it needs.         *)
DaemonHolds ==
  daemon = "on" =>
    arena = "live" /\ context /\ website /\ pc \in {"check", "stop", "track"}

LoopInv == TypeOK /\ TimesPast /\ ParsedHolds /\ DaemonHolds

LEMMA LoopInit == Init => LoopInv
<1> SUFFICES ASSUME Init PROVE LoopInv
  OBVIOUS
<1>1. /\ clock \in 1..MaxTime /\ edits \in 0..MaxEdits
      /\ 1 \in 1..MaxTime /\ 0 \in 0..clock
  BY LifecycleAssumption DEF Init
<1>2. TypeOK
  BY <1>1 DEF Init, TypeOK, Files
<1> QED
  BY <1>1, <1>2 DEF Init, LoopInv, TimesPast, ParsedHolds, DaemonHolds

(* One lemma per kind of step: what people and time do leaves the process  *)
(* alone, the main loop leaves the files alone.                            *)
LEMMA OutsideKeeps ==
  ASSUME LoopInv, Tick \/ Interrupt \/ \E f \in Files : Edit(f)
  PROVE  LoopInv'
<1> USE LifecycleAssumption DEF LoopInv
<1>1. CASE Tick
  <2>1. clock' = clock + 1 /\ clock' \in 1..MaxTime
    BY <1>1 DEF Tick, TypeOK
  <2>2. \A n \in 0..clock : n \in 0..clock'
    BY <2>1 DEF TypeOK
  <2>3. TypeOK'
    BY <1>1, <2>1, <2>2 DEF Tick, TypeOK, process
  <2>4. TimesPast'
    BY <1>1, <2>1 DEF Tick, TypeOK, TimesPast
  <2> QED
    BY <1>1, <2>3, <2>4 DEF Tick, process, ParsedHolds, DaemonHolds
<1>2. CASE Interrupt
  BY <1>2 DEF Interrupt, disk, TypeOK, TimesPast, ParsedHolds, DaemonHolds
<1>3. ASSUME NEW f \in Files, Edit(f) PROVE LoopInv'
  <2>1. clock \in Nat /\ clock \in 1..MaxTime
    BY DEF TypeOK
  <2>2. edits' \in 0..MaxEdits
    BY <1>3 DEF Edit, TypeOK
  <2>3. version' \in [Files -> Nat] /\ mtime' \in [Files -> 1..MaxTime]
    BY <1>3, <2>1 DEF Edit, TypeOK
  <2>4. good' \in [Files -> BOOLEAN]
    BY <1>3 DEF Edit, TypeOK
  <2>5. includes' \subseteq Includes
    BY <1>3 DEF Edit, TypeOK
  <2>6. TypeOK'
    BY <1>3, <2>2, <2>3, <2>4, <2>5 DEF Edit, TypeOK, process
  <2>7. TimesPast'
    BY <1>3, <2>1 DEF Edit, TypeOK, TimesPast
  <2> QED
    BY <1>3, <2>6, <2>7 DEF Edit, process, ParsedHolds, DaemonHolds
<1> QED
  BY <1>1, <1>2, <1>3

LEMMA MainKeeps ==
  ASSUME LoopInv, Loop
  PROVE  LoopInv'
<1> USE LifecycleAssumption DEF LoopInv
<1>1. UNCHANGED disk
  BY DEF Loop, Check, Stop, StopCrashes, Parse, ParseFails, Start, StartFails,
         Exits, Track, Shutdown
<1>2. TimesPast'
  BY <1>1 DEF TimesPast, disk
<1>3. Main \in Text /\ Text \subseteq Files
  BY DEF Text, TypeOK, Files
<1>4. \A f \in Files : mtime[f] \in 0..clock
  BY DEF TypeOK, TimesPast
<1>5. CASE Check
  <2>1. DOMAIN watched' = DOMAIN watched
    BY <1>5 DEF Check
  <2>2. \A f \in DOMAIN watched' : watched'[f] \in 0..clock'
    BY <1>1, <1>4, <1>5 DEF Check, TypeOK, disk
  <2>3. TypeOK'
    BY <1>1, <1>5, <2>1, <2>2 DEF Check, TypeOK, disk
  <2> QED
    BY <1>2, <1>5, <2>3 DEF Check, ParsedHolds, DaemonHolds
<1>6. CASE Stop
  BY <1>1, <1>2, <1>6 DEF Stop, StopServer, disk, TypeOK, ParsedHolds, DaemonHolds
<1>7. CASE StopCrashes
  BY <1>1, <1>2, <1>7 DEF StopCrashes, disk, TypeOK, ParsedHolds, DaemonHolds
<1>8. CASE Parse \/ ParseFails
  <2>1. tried' = [f \in Text |-> version[f]]
    BY <1>8 DEF Parse, ParseFails
  <2>2. DOMAIN tried' \subseteq Files /\ Main \in DOMAIN tried'
    BY <1>3, <2>1
  <2>3. TypeOK'
    BY <1>1, <1>8, <2>2 DEF Parse, ParseFails, TypeOK, disk
  <2> QED
    BY <1>2, <1>8, <2>2, <2>3 DEF Parse, ParseFails, ParsedHolds, DaemonHolds
<1>9. CASE Start \/ StartFails
  BY <1>1, <1>2, <1>9 DEF Start, StartFails, disk, TypeOK, ParsedHolds, DaemonHolds
<1>10. CASE Exits
  BY <1>1, <1>2, <1>10 DEF Exits, disk, TypeOK, ParsedHolds, DaemonHolds
<1>11. CASE Track
  <2>1. Main \in DOMAIN tried /\ DOMAIN tried \subseteq Files
    BY <1>11 DEF Track, ParsedHolds, TypeOK
  <2>2. /\ DOMAIN watched' = DOMAIN tried
        /\ \A f \in DOMAIN watched' : watched'[f] \in 0..clock'
    BY <1>1, <1>4, <1>11, <2>1 DEF Track, TypeOK, disk
  <2>3. TypeOK'
    BY <1>1, <1>11, <2>1, <2>2 DEF Track, TypeOK, disk
  <2> QED
    BY <1>2, <1>11, <2>3 DEF Track, ParsedHolds, DaemonHolds
<1>12. CASE Shutdown
  BY <1>1, <1>2, <1>12 DEF Shutdown, StopServer, disk, TypeOK, ParsedHolds, DaemonHolds
<1> QED
  BY <1>5, <1>6, <1>7, <1>8, <1>9, <1>10, <1>11, <1>12 DEF Loop

LEMMA LoopStutters ==
  ASSUME LoopInv, UNCHANGED vars
  PROVE  LoopInv'
BY DEF LoopInv, vars, TypeOK, TimesPast, ParsedHolds, DaemonHolds

-----------------------------------------------------------------------------
(* The threads, and what outlives a request *)

AllScripts == Scripts \cup {Embedded}
Full == [s \in AllScripts |-> generation]

(* A thread lives only as long as its daemon, and its table of jq programs *)
(* as long as the thread.                                                   *)
ThreadsHold ==
  \A w \in Workers :
    /\ phase[w] # "none" => daemon = "on"
    /\ phase[w] = "none" => jqTable[w] = 0
    /\ jqTable[w] \in {0, generation}

(* While there is a daemon all pointers are into the present arena; while  *)
(* there is none, the table of scripts is empty.                            *)
PointersHold ==
  /\ arena = "live" => generation # 0
  /\ daemon = "on" => routes = generation /\ pointers = generation /\ chunks = Full
  /\ daemon # "on" => chunks = NoChunks

ServerInv ==
  /\ LoopInv
  /\ ServerTypeOK
  /\ ThreadsHold
  /\ PointersHold
  /\ ProgramsAreReleased

LEMMA ServerInvImplies ==
  ASSUME ServerInv
  PROVE  ServerSound
<1>1. ServingIsSound
  BY DEF ServerInv, LoopInv, DaemonHolds, ServingIsSound
<1>2. NothingDangles
  BY DEF ServerInv, LoopInv, DaemonHolds, ThreadsHold, PointersHold, Full, AllScripts,
         NothingDangles
<1> QED
  BY <1>1, <1>2 DEF ServerInv, ServerSound

LEMMA ServerInitHolds == ServerInit => ServerInv
<1> SUFFICES ASSUME ServerInit PROVE ServerInv
  OBVIOUS
<1>1. LoopInv
  BY LoopInit DEF ServerInit
<1>2. daemon = "off" /\ arena = "none"
  BY DEF ServerInit, Init
<1>3. DOMAIN NoChunks = {}
  BY DEF NoChunks
<1>4. ServerTypeOK
  <2>1. TypeOK
    BY <1>1 DEF LoopInv
  <2>2. 0 \in Nat /\ 0 \in 0..0
    OBVIOUS
  <2> QED
    BY <2>1, <2>2, <1>3 DEF ServerInit, ServerTypeOK, Phases
<1>5. ThreadsHold /\ PointersHold /\ ProgramsAreReleased
  BY <1>2 DEF ServerInit, ThreadsHold, PointersHold, ProgramsAreReleased
<1> QED
  BY <1>1, <1>4, <1>5 DEF ServerInv

(* The steps of the main loop that neither start nor stop a daemon nor     *)
(* make an arena leave the threads and all pointers as they are.            *)
LEMMA QuietStepsKeep ==
  ASSUME ServerInv, LoopInv', UNCHANGED caches, UNCHANGED phase,
         closing' \in BOOLEAN,
         (daemon' = "on") <=> (daemon = "on"), arena' = "live" => arena = "live"
  PROVE  ServerInv'
<1>1. ServerTypeOK'
  BY DEF ServerInv, LoopInv, ServerTypeOK, caches
<1>2. ThreadsHold' /\ PointersHold' /\ ProgramsAreReleased'
  BY DEF ServerInv, ThreadsHold, PointersHold, ProgramsAreReleased, Full, caches
<1> QED
  BY <1>1, <1>2 DEF ServerInv

(* stopServer: it returns when the threads are gone, so nothing of theirs  *)
(* is left.                                                                  *)
LEMMA StopKeeps ==
  ASSUME ServerInv, StopDone
  PROVE  ServerInv'
<1>1. LoopInv'
  BY MainKeeps DEF ServerInv, StopDone, Loop
<1>2. daemon' # "on" /\ UNCHANGED <<phase, generation, routes, pointers, jqTable, compiled>>
  BY DEF StopDone, Stop, Shutdown, StopServer, Cleanup, threads, caches, ServerInv,
         LoopInv, DaemonHolds
<1>3. \A w \in Workers : phase[w] = "none"
  <2>1. CASE daemon = "on"
    BY <2>1 DEF ServerInv, LoopInv, DaemonHolds, StopDone, Stop, Shutdown, MustClose,
                Stopping, NoThreads
  <2>2. CASE daemon # "on"
    BY <2>2 DEF ServerInv, ThreadsHold
  <2> QED
    BY <2>1, <2>2
<1>4. chunks' = NoChunks /\ closing' \in BOOLEAN
  BY DEF ServerInv, ServerTypeOK, LoopInv, DaemonHolds, PointersHold, StopDone, Cleanup,
         threads, caches
<1>5. arena' = "live" => arena = "live"
  BY DEF StopDone, Stop, Shutdown
<1>6. ServerTypeOK'
  <2>1. DOMAIN NoChunks = {}
    BY DEF NoChunks
  <2> QED
    BY <1>1, <1>2, <1>4, <2>1 DEF ServerInv, LoopInv, ServerTypeOK
<1>7. ThreadsHold' /\ PointersHold' /\ ProgramsAreReleased'
  BY <1>2, <1>3, <1>4, <1>5 DEF ServerInv, ThreadsHold, PointersHold, ProgramsAreReleased
<1> QED
  BY <1>1, <1>6, <1>7 DEF ServerInv

(* parseWebsite: another generation, which nobody uses yet.                *)
LEMMA ParseKeeps ==
  ASSUME ServerInv, ParseText
  PROVE  ServerInv'
<1>1. LoopInv'
  BY MainKeeps DEF ServerInv, ParseText, Loop
<1>2. daemon # "on" /\ daemon' = daemon
  BY DEF ServerInv, LoopInv, DaemonHolds, ParseText, Parse, ParseFails
<1>3. /\ generation \in Nat /\ generation' \in Nat
      /\ \A n \in 0..generation : n \in 0..generation'
      /\ arena' = "live" => generation' # 0
  BY DEF ServerInv, ServerTypeOK, ParseText
<1>4. chunks' = NoChunks /\ DOMAIN NoChunks = {}
  BY <1>2 DEF ServerInv, PointersHold, ParseText, NoChunks
<1>5. ServerTypeOK'
  BY <1>1, <1>3, <1>4 DEF ServerInv, LoopInv, ServerTypeOK, ParseText, threads
<1>6. ThreadsHold' /\ PointersHold' /\ ProgramsAreReleased'
  BY <1>2, <1>3, <1>4 DEF ServerInv, ThreadsHold, PointersHold, ProgramsAreReleased,
                          ParseText, threads, ServerTypeOK
<1> QED
  BY <1>1, <1>5, <1>6 DEF ServerInv

(* startServer fills the table of scripts before it makes the threads.     *)
LEMMA StartKeeps ==
  ASSUME ServerInv, StartThreads \/ StartStopsShort
  PROVE  ServerInv'
<1>1. LoopInv'
  BY MainKeeps DEF ServerInv, StartThreads, StartStopsShort, Loop
<1>2. /\ daemon # "on" /\ chunks = NoChunks /\ generation \in Nat \ {0}
      /\ \A w \in Workers : phase[w] = "none" /\ jqTable[w] = 0
      /\ compiled = {}
  BY DEF ServerInv, LoopInv, DaemonHolds, ParsedHolds, PointersHold, ThreadsHold,
         ProgramsAreReleased, ServerTypeOK, StartThreads, StartStopsShort, Start, StartFails
<1>3. CASE StartThreads
  <2>1. daemon' = "on"
    BY <1>3 DEF StartThreads, Start
  <2>2. compilePipelineSteps(loadEmbeddedScripts(NoChunks)) = Full
    BY DEF compilePipelineSteps, loadEmbeddedScripts, compileAndCacheLuaCode, NoChunks,
           Full, AllScripts
  <2>3. chunks' = Full' /\ DOMAIN Full' = AllScripts /\ generation' = generation
    BY <1>2, <1>3, <2>2 DEF StartThreads, Full
  <2>4. ServerTypeOK'
    BY <1>1, <1>2, <1>3, <2>3
    DEF ServerInv, LoopInv, ServerTypeOK, StartThreads, Phases, AllScripts, Full
  <2>5. ThreadsHold' /\ PointersHold' /\ ProgramsAreReleased'
    BY <1>2, <1>3, <2>1, <2>3
    DEF ThreadsHold, PointersHold, ProgramsAreReleased, StartThreads, ServerInv, ServerTypeOK
  <2> QED
    BY <1>1, <2>4, <2>5 DEF ServerInv
<1>4. CASE StartStopsShort
  <2>1. daemon' # "on"
    BY <1>4 DEF StartStopsShort, StartFails
  <2>2. ServerTypeOK'
    BY <1>1, <1>2, <1>4 DEF ServerInv, LoopInv, ServerTypeOK, StartStopsShort, threads
  <2>3. ThreadsHold' /\ PointersHold' /\ ProgramsAreReleased'
    BY <1>2, <1>4, <2>1
    DEF ThreadsHold, PointersHold, ProgramsAreReleased, StartStopsShort, threads
  <2> QED
    BY <1>1, <2>2, <2>3 DEF ServerInv
<1> QED
  BY <1>3, <1>4

(* A thread works only while its daemon runs, and only with what is there. *)
LEMMA ThreadKeeps ==
  ASSUME ServerInv, NEW w \in Workers, Work(w)
  PROVE  ServerInv'
<1>1. LoopInv' /\ UNCHANGED vars
  BY LoopStutters DEF ServerInv, Work, Handle, Call, Answer, EndThread, RunLua, UseJQ
<1>2. UNCHANGED <<daemon, arena>>
  BY <1>1 DEF vars
<1>3. TypeOK'
  BY <1>1 DEF LoopInv
<1>4. CASE Call(w) \/ Answer(w)
  <2>1. phase[w] # "none" /\ phase' = [phase EXCEPT ![w] = phase'[w]] /\ phase'[w] \in Phases \ {"none"}
    BY <1>4 DEF Call, Answer, Goto, Phases, ServerInv, ServerTypeOK
  <2>2. UNCHANGED caches /\ UNCHANGED closing
    BY <1>4 DEF Call, Answer
  <2>3. phase' \in [Workers -> Phases]
    BY <2>1 DEF ServerInv, ServerTypeOK
  <2>4. ServerTypeOK'
    BY <1>3, <2>2, <2>3 DEF ServerInv, ServerTypeOK, caches
  <2>5. \A v \in Workers : (phase'[v] = "none") <=> (phase[v] = "none")
    BY <2>1 DEF ServerInv, ServerTypeOK
  <2>6. \A c \in compiled : c[1] \in Workers
    BY DEF ServerInv, ServerTypeOK
  <2>7. ThreadsHold' /\ PointersHold' /\ ProgramsAreReleased'
    BY <1>2, <2>2, <2>5, <2>6
    DEF ServerInv, ThreadsHold, PointersHold, ProgramsAreReleased, caches, Full
  <2> QED
    BY <1>1, <2>4, <2>7 DEF ServerInv
<1>5. ASSUME NEW f \in Filters, UseJQ(w, f) PROVE ServerInv'
  <2>1. /\ phase[w] # "none" /\ daemon = "on" /\ generation \in Nat
        /\ jqTable' = [jqTable EXCEPT ![w] = generation]
    BY <1>5 DEF UseJQ, ServerInv, ServerTypeOK, ThreadsHold
  <2>2. compiled' \subseteq Workers \X (Filters \ Faulty)
    BY <1>5 DEF UseJQ, ServerInv, ServerTypeOK
  <2>3. jqTable' \in [Workers -> 0..generation]
    BY <2>1 DEF ServerInv, ServerTypeOK
  <2>4. ServerTypeOK'
    BY <1>3, <1>5, <2>2, <2>3 DEF UseJQ, ServerInv, ServerTypeOK, threads
  <2>5. ThreadsHold' /\ PointersHold'
    BY <1>2, <1>5, <2>1 DEF UseJQ, ServerInv, ServerTypeOK, ThreadsHold, PointersHold, Full, threads
  <2>6. ProgramsAreReleased'
    BY <1>5, <2>1 DEF UseJQ, ServerInv, ServerTypeOK, ProgramsAreReleased, threads
  <2> QED
    BY <1>1, <2>4, <2>5, <2>6 DEF ServerInv
<1>6. ASSUME NEW s \in Scripts, RunLua(w, s) PROVE ServerInv'
  <2>1. daemon = "on"
    BY <1>6 DEF RunLua, ServerInv, ThreadsHold
  <2>2. loadEmbeddedScripts(Full) = Full
    BY DEF loadEmbeddedScripts, compileAndCacheLuaCode, Full, AllScripts
  <2>3. UNCHANGED caches /\ UNCHANGED threads
    BY <1>6, <2>1, <2>2 DEF RunLua, ServerInv, PointersHold, caches
  <2> QED
    BY <1>1, <1>2, <2>3, QuietStepsKeep DEF threads, ServerInv, ServerTypeOK
<1>7. CASE EndThread(w)
  <2>1. compiled' = {c \in compiled : c[1] # w} /\ generation \in Nat
    BY <1>7 DEF EndThread, ServerInv, ServerTypeOK
  <2>2. ServerTypeOK'
    BY <1>3, <1>7, <2>1 DEF EndThread, Goto, Phases, ServerInv, ServerTypeOK
  <2>3. ThreadsHold' /\ PointersHold'
    BY <1>2, <1>7 DEF EndThread, Goto, ServerInv, ServerTypeOK, ThreadsHold, PointersHold, Full
  <2>4. ProgramsAreReleased'
    BY <1>7, <2>1 DEF EndThread, Goto, ServerInv, ServerTypeOK, ProgramsAreReleased
  <2> QED
    BY <1>1, <2>2, <2>3, <2>4 DEF ServerInv
<1> QED
  BY <1>4, <1>5, <1>6, <1>7 DEF Work, Handle

LEMMA ServerNextKeeps == ServerInv /\ [ServerNext]_serverVars => ServerInv'
<1> SUFFICES ASSUME ServerInv, [ServerNext]_serverVars PROVE ServerInv'
  OBVIOUS
<1>1. CASE CloseDaemon
  <2>1. LoopInv' /\ UNCHANGED <<daemon, arena>>
    BY <1>1, LoopStutters DEF CloseDaemon, ServerInv, vars
  <2> QED
    BY <1>1, <2>1, QuietStepsKeep DEF CloseDaemon
<1>2. CASE OtherSteps
  <2>1. LoopInv'
    BY <1>2, MainKeeps DEF OtherSteps, ServerInv, Loop
  <2>2. UNCHANGED <<daemon, arena>>
    BY <1>2 DEF OtherSteps, Check, StopCrashes, Exits, Track
  <2> QED
    BY <1>2, <2>1, <2>2, QuietStepsKeep DEF OtherSteps, threads, ServerInv, ServerTypeOK
<1>3. CASE Outside /\ UNCHANGED <<threads, caches>>
  <2>1. LoopInv'
    BY <1>3, OutsideKeeps DEF Outside, ServerInv
  <2>2. UNCHANGED <<daemon, arena>>
    BY <1>3 DEF Outside, Tick, Interrupt, Edit, process
  <2> QED
    BY <1>3, <2>1, <2>2, QuietStepsKeep DEF threads, ServerInv, ServerTypeOK
<1>4. CASE UNCHANGED serverVars
  <2>1. LoopInv' /\ UNCHANGED <<daemon, arena>>
    BY <1>4, LoopStutters DEF serverVars, ServerInv, vars
  <2> QED
    BY <1>4, <2>1, QuietStepsKeep DEF serverVars, threads, ServerInv, ServerTypeOK
<1> QED
  BY <1>1, <1>2, <1>3, <1>4, StopKeeps, ParseKeeps, StartKeeps, ThreadKeeps
  DEF ServerNext, MainSteps

THEOREM ServerInvariant == ServerSpec => []ServerInv
  BY ServerInitHolds, ServerNextKeeps, PTL DEF ServerSpec

(* While the daemon runs, the arena it was started with is there and       *)
(* parsed, and its threads reach nothing of an earlier one: reloadWebsite  *)
(* stops it, and waits for its threads, before anything is freed.           *)
THEOREM ServerIsSound == ServerSpec => []ServerSound
<1>1. ServerInv => ServerSound
  BY ServerInvImplies
<1> QED
  BY <1>1, ServerInvariant, PTL

(* jq_thread_cleanup releases every compiled program with its thread,      *)
(* although cleanupJQCache does nothing.                                    *)
THEOREM ReloadsLeaveNoPrograms == ServerSpec => []ProgramsAreReleased
  BY ServerInvariant, PTL DEF ServerInv

(* With the threads hidden the server is the main loop of module           *)
(* Lifecycle: they add no step of the loop and change none of its files.   *)
THEOREM ServerRefinesLoop == ServerSpec => Spec
<1>1. ServerInit => Init
  BY DEF ServerInit
<1>2. [ServerNext]_serverVars => [Next]_vars
  <2> SUFFICES ASSUME [ServerNext]_serverVars PROVE [Next]_vars
    OBVIOUS
  <2>1. CASE MainSteps
    BY <2>1 DEF MainSteps, CloseDaemon, StopDone, ParseText, StartThreads, StartStopsShort,
                OtherSteps, Next, Loop
  <2>2. CASE Outside
    BY <2>2 DEF Outside, Next
  <2>3. ASSUME NEW w \in Workers, Work(w) PROVE UNCHANGED vars
    BY <2>3 DEF Work, Handle, Call, Answer, EndThread, RunLua, UseJQ
  <2>4. CASE UNCHANGED serverVars
    BY <2>4 DEF serverVars
  <2> QED
    BY <2>1, <2>2, <2>3, <2>4 DEF ServerNext
<1> QED
  BY <1>1, <1>2, PTL DEF ServerSpec, Spec
=============================================================================
