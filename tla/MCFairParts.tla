---------------------------- MODULE MCFairParts ----------------------------
(***************************************************************************)
(* Instances, for TLC, of the parts whose liveness is checked.  They share *)
(* no state in the models: "part" says which of them moves, the others     *)
(* stay as they began, and fairness is asked of the one that moves.        *)
(***************************************************************************)
EXTENDS Naturals, Sequences

CONSTANTS None, f1, f2

\* None is the number of no engine process.
ASSUME NoneAssumption == None \notin 1..4

VARIABLES
    part,
    svc, proc, out, pc, holds, asked, nth, answer,                               \* EngineProcess
    fake, up, socket, inbox, seq, adapterLock, call, claimed, robot, carried,    \* TMflowLink
    queued, manager, source, thread, poster,                                     \* VisionSource
    loops, current, ready, loopLock, request, connected, flow, tag, calls,       \* TechmanLink
    store, events, analysis, arm, beat, wire, late, http, page, view             \* PlayerPage

engineVars == <<svc, proc, out, pc, holds, asked, nth, answer>>
linkVars == <<fake, up, socket, inbox, seq, adapterLock, call, claimed, robot, carried>>
sourceVars == <<queued, manager, source, thread, poster>>
techmanVars == <<loops, current, ready, loopLock, request, connected, flow, tag, calls>>
pageVars == <<store, events, analysis, arm, beat, wire, late, http, page, view>>
vars == <<part, engineVars, linkVars, sourceVars, techmanVars, pageVars>>

LinkCaller == <<"c1", "c2">>
Thread == {1, 2}

Engine == INSTANCE EngineProcess WITH Fen <- {f1, f2}, Candidates <- 1, QueueSize <- 1, MaxCommands <- 2
Link == INSTANCE TMflowLink WITH
    Caller <- {"c1", "c2"}, MaxCommands <- 2, MaxSockets <- 2, RequireHello <- TRUE,
    connected <- up, lock <- adapterLock
Source == INSTANCE VisionSource WITH Size <- 1, Sources <- {1, 2}, Threads <- Thread, Switches <- 2
Techman == INSTANCE TechmanLink WITH
    Caller <- {"c1", "c2"}, MaxCalls <- 3, lock <- loopLock, call <- request
Page == INSTANCE PlayerPage WITH MaxPos <- 1, MaxQueue <- 1, MaxWire <- 1, engine <- analysis

-----------------------------------------------------------------------------

Init ==
    /\ part \in {"engine", "link", "source", "techman", "page"}
    /\ Engine!Init /\ (part # "engine" => pc["probe"] = "off")
    /\ Link!Init /\ (part # "link" => fake)
    /\ Source!Init /\ (part # "source" => source[1].kind = "opencv" /\ ~manager.running)
    /\ Techman!Init
    /\ Page!Init

Next ==
    \/ part = "engine"  /\ Engine!Next  /\ UNCHANGED <<part, linkVars, sourceVars, techmanVars, pageVars>>
    \/ part = "link"    /\ Link!Next    /\ UNCHANGED <<part, engineVars, sourceVars, techmanVars, pageVars>>
    \/ part = "source"  /\ Source!Next  /\ UNCHANGED <<part, engineVars, linkVars, techmanVars, pageVars>>
    \/ part = "techman" /\ Techman!Next /\ UNCHANGED <<part, engineVars, linkVars, sourceVars, pageVars>>
    \/ part = "page"    /\ Page!Next    /\ UNCHANGED <<part, engineVars, linkVars, sourceVars, techmanVars>>

\* TaskFairness of EngineProcess and Fair of the other modules, for the part that moves.
EngineFair ==
    /\ \A t \in {"worker", "probe"} : WF_engineVars(part = "engine" /\ Engine!OpenFails(t))
    /\ WF_engineVars(part = "engine" /\ Engine!ProbeNext)
    /\ WF_engineVars(part = "engine" /\ Engine!ProbeClosed)
    /\ WF_engineVars(part = "engine" /\ Engine!WorkerClosed)
    /\ WF_engineVars(part = "engine" /\ Engine!WorkerStart)
    /\ WF_engineVars(part = "engine" /\ Engine!WorkerProbed)
    /\ WF_engineVars(part = "engine" /\ Engine!AskGoesOn)
    /\ WF_engineVars(part = "engine" /\ Engine!SearchGivesUp)
    /\ WF_engineVars(part = "engine" /\ Engine!HookRequestsShutdown)
    /\ WF_engineVars(part = "engine" /\ Engine!HookAwaitsProbe)
    /\ WF_engineVars(part = "engine" /\ Engine!HookClosed)
LinkFair ==
    \A c \in {"c1", "c2"} :
        /\ WF_linkVars(part = "link" /\ Link!Goes(c))
        /\ WF_linkVars(part = "link" /\ Link!AckTimeout(c))
        /\ WF_linkVars(part = "link" /\ Link!DoneTimeout(c))
SourceFair == \A t \in Thread : WF_sourceVars(part = "source" /\ Source!ThreadStep(t))
TechmanFair == \A c \in {"c1", "c2"} : WF_techmanVars(part = "techman" /\ Techman!CallStep(c))
PageFair ==
    /\ WF_pageVars(part = "page" /\ Page!Reduce)
    /\ WF_pageVars(part = "page" /\ Page!BeatReads)
    /\ WF_pageVars(part = "page" /\ Page!BeatPublishes)
    /\ WF_pageVars(part = "page" /\ Page!Receive)
    /\ WF_pageVars(part = "page" /\ (Page!LateArrives \/ Page!LateLost))
    /\ WF_pageVars(part = "page" /\ (Page!RequestTimesOut \/ Page!Answered))
    /\ WF_pageVars(part = "page" /\ Page!ReleaseTimeout)

Spec == Init /\ [][Next]_vars
FairSpec == Spec /\ EngineFair /\ LinkFair /\ SourceFair /\ TechmanFair /\ PageFair

-----------------------------------------------------------------------------

\* A result is the answer to what was asked for: a best move to its own position or to one the
\* engine still owed an answer for (engine_service.py), a finished motion to its own command
\* (tmflow_json_client.py), a Vision cycle to a run of the Vision node, unless a probe failed
\* (techmanpy_adapter.py).
AnswersFit ==
    /\ Engine!TypeOK /\ Engine!AnswerFitsQuestion /\ Engine!CandidatesAreNotAsked
    /\ Link!TypeOK /\ Link!SuccessMeansDone
    /\ Techman!TypeOK /\ Techman!VisionHasRun

\* What is shown as running has something that runs it, and what has ended leaves nothing
\* behind: a stream source has its reader (vision_source_manager.py), a service that was shut down
\* has no engine process if its worker took the cancellation (engine_service.py).
RunnersMatch ==
    /\ Source!TypeOK /\ Source!StreamReaderSurvives
    /\ Page!TypeOK
    /\ Engine!NothingLeftRunning

\* Every call comes back, whatever the engine, the robot, the controller or the camera does:
\* ComputeReturns and ShutdownEnds of EngineProcess, CallsReturn of TMflowLink, CallsEnd of
\* TechmanLink, and SourcesEnd of VisionSource: a source that was stopped is rid of its
\* threads.  One part moves in a behaviour, so that one formula serves them all.
Busy(n) ==
    \/ part = "engine" /\ IF n = 1 THEN pc["worker"] \notin {"idle", "cancelled"}
                                   ELSE pc["hook"] \notin {"off", "done"}
    \/ part = "link" /\ call[LinkCaller[n]].at # "idle"
    \/ part = "techman" /\ request[LinkCaller[n]].pc # "idle"
    \/ part = "source" /\ ~source[n].running /\ Source!ThreadsOf(n) # {}
CallsReturn == [](\A n \in 1..2 : Busy(n) => <>~Busy(n))

\* The button that sends the AI's move does not stay locked (beginRobotPlayRequest in app.js).
ArmLockEnds == Page!ArmLockEnds

\* Once the connection holds and the arm is done the page shows what the store holds, in
\* whatever order old snapshots and new events came (state_manager.js, state_routes.py).
PageSettles == Page!PageSettles

-----------------------------------------------------------------------------
(* What the program says of itself and does not keep. *)

\* A best move is published for the position it was asked for: "Periodically triggers analysis
\* for the latest SSOT FEN" (engine_worker.py:15).
AnswerIsOfItsQuestion == part = "engine" => Engine!AnswerIsOfItsQuestion

\* "Cancel startup probes and close any active engine subprocess." (EngineService.shutdown)
ShutdownClosesEngine == part = "engine" => Engine!ShutdownClosesEngine

\* "Leave Listen once, let TMflow run its Vision node, then wait for Listen."
\* (TechmanPyAdapter.trigger_vision)
TriggeredMeansVision == part = "techman" => Techman!TriggeredMeansVision
=============================================================================
