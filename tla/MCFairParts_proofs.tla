------------------------- MODULE MCFairParts_proofs -------------------------
(***************************************************************************)
(* What is proved of a part for every value of its constants holds of the  *)
(* part in MCFairParts.  The parts share no state and those that do not    *)
(* move stay as they began, so the inductive invariant of each holds in    *)
(* every behaviour.                                                        *)
(***************************************************************************)
EXTENDS MCFairParts, TLAPS

Proved == INSTANCE FairParts_proofs WITH
    Fen <- {f1, f2}, Candidates <- 1, QueueSize <- 1, MaxCommands <- 2,
    Caller <- {"c1", "c2"}, MaxSockets <- 2, RequireHello <- TRUE, MaxCalls <- 3,
    Size <- 1, Sources <- {1, 2}, Threads <- Thread, Switches <- 2,
    MaxPos <- 1, MaxQueue <- 1, MaxWire <- 1

\* The values that MCFairParts gives to the constants are sound, and the two instances of each
\* part are one.

LEMMA EngineSound == Proved!EngineSound
  BY NoneAssumption DEF Proved!EngineSound

LEMMA EngineSame ==
    /\ Engine!Init <=> Proved!Engine!Init
    /\ Engine!Next <=> Proved!Engine!Next
    /\ Engine!TypeOK <=> Proved!Engine!TypeOK
    /\ Engine!AnswerFitsQuestion <=> Proved!Engine!AnswerFitsQuestion
    /\ Engine!CandidatesAreNotAsked <=> Proved!Engine!CandidatesAreNotAsked
    /\ Engine!NothingLeftRunning <=> Proved!Engine!NothingLeftRunning
<1>1. Engine!Init <=> Proved!Engine!Init
  BY Zenon DEF Engine!Init, Proved!Engine!Init, Engine!Gone, Proved!Engine!Gone, Engine!Task, Proved!Engine!Task,
       Engine!NoQuestion, Proved!Engine!NoQuestion, Engine!NoAnswer, Proved!Engine!NoAnswer
<1>2. Engine!Next <=> Proved!Engine!Next
  BY Zenon DEF Engine!Next, Proved!Engine!Next, Engine!EngineReads, Proved!Engine!EngineReads, Engine!EngineSearches,
       Proved!Engine!EngineSearches, Engine!EngineDies, Proved!Engine!EngineDies, Engine!EngineComplains,
       Proved!Engine!EngineComplains, Engine!SkipLine, Proved!Engine!SkipLine, Engine!OpenUci, Proved!Engine!OpenUci,
       Engine!OpenReady, Proved!Engine!OpenReady, Engine!OpenFails, Proved!Engine!OpenFails, Engine!ProbeNext,
       Proved!Engine!ProbeNext, Engine!ProbeAccepts, Proved!Engine!ProbeAccepts, Engine!ProbeClosed,
       Proved!Engine!ProbeClosed, Engine!Compute, Proved!Engine!Compute, Engine!WorkerClosed,
       Proved!Engine!WorkerClosed, Engine!WorkerStart, Proved!Engine!WorkerStart, Engine!WorkerProbed,
       Proved!Engine!WorkerProbed, Engine!WorkerOpened, Proved!Engine!WorkerOpened, Engine!AskGoesOn,
       Proved!Engine!AskGoesOn, Engine!SearchLine, Proved!Engine!SearchLine, Engine!SearchStop,
       Proved!Engine!SearchStop, Engine!SearchGivesUp, Proved!Engine!SearchGivesUp, Engine!HookStopsWorker,
       Proved!Engine!HookStopsWorker, Engine!HookRequestsShutdown, Proved!Engine!HookRequestsShutdown,
       Engine!HookAwaitsProbe, Proved!Engine!HookAwaitsProbe, Engine!HookClosed, Proved!Engine!HookClosed,
       Engine!Over, Proved!Engine!Over, Engine!Alive, Proved!Engine!Alive, Engine!Enqueued, Proved!Engine!Enqueued,
       Engine!Said, Proved!Engine!Said, Engine!Opening, Proved!Engine!Opening, Engine!Awaited, Proved!Engine!Awaited,
       Engine!GotLine, Proved!Engine!GotLine, Engine!Send, Proved!Engine!Send, Engine!Goto, Proved!Engine!Goto,
       Engine!CloseBegins, Proved!Engine!CloseBegins, Engine!ProbeReturns, Proved!Engine!ProbeReturns, Engine!Spawn,
       Proved!Engine!Spawn, Engine!CloseEnds, Proved!Engine!CloseEnds, Engine!Ask, Proved!Engine!Ask, Engine!NoAnswer,
       Proved!Engine!NoAnswer, Engine!FinishClose, Proved!Engine!FinishClose, Engine!Started, Proved!Engine!Started,
       Engine!Publish, Proved!Engine!Publish, Engine!ProbeCut, Proved!Engine!ProbeCut, Engine!CloseCut,
       Proved!Engine!CloseCut, Engine!vars, Proved!Engine!vars, Engine!FreshGen, Proved!Engine!FreshGen, Engine!Gone,
       Proved!Engine!Gone, Engine!Outstanding, Proved!Engine!Outstanding, Engine!NoQuestion, Proved!Engine!NoQuestion,
       Engine!Task, Proved!Engine!Task, Engine!Spawned, Proved!Engine!Spawned, Engine!Opened, Proved!Engine!Opened,
       Engine!Swallows, Proved!Engine!Swallows
<1>3. Engine!TypeOK <=> Proved!Engine!TypeOK
  BY Zenon DEF Engine!TypeOK, Proved!Engine!TypeOK, Engine!Task, Proved!Engine!Task, Engine!Command, Proved!Engine!Command,
       Engine!Question, Proved!Engine!Question, Engine!Line, Proved!Engine!Line, Engine!Opening, Proved!Engine!Opening,
       Engine!Opened, Proved!Engine!Opened
<1>4. Engine!AnswerFitsQuestion <=> Proved!Engine!AnswerFitsQuestion
  BY Zenon DEF Engine!AnswerFitsQuestion, Proved!Engine!AnswerFitsQuestion
<1>5. Engine!CandidatesAreNotAsked <=> Proved!Engine!CandidatesAreNotAsked
  BY Zenon DEF Engine!CandidatesAreNotAsked, Proved!Engine!CandidatesAreNotAsked, Engine!Alive, Proved!Engine!Alive
<1>6. Engine!NothingLeftRunning <=> Proved!Engine!NothingLeftRunning
  BY Zenon DEF Engine!NothingLeftRunning, Proved!Engine!NothingLeftRunning
<1> QED BY <1>1, <1>2, <1>3, <1>4, <1>5, <1>6

LEMMA LinkSound == Proved!LinkSound
  BY DEF Proved!LinkSound, Proved!Link!NoOne

LEMMA LinkSame ==
    /\ Link!Init <=> Proved!Link!Init
    /\ Link!Next <=> Proved!Link!Next
    /\ Link!TypeOK <=> Proved!Link!TypeOK
    /\ Link!SuccessMeansDone <=> Proved!Link!SuccessMeansDone
<1>1. Link!Init <=> Proved!Link!Init
  BY Zenon DEF Link!Init, Proved!Link!Init, Link!NoOne, Proved!Link!NoOne, Link!Idle, Proved!Link!Idle, Link!NoTask,
       Proved!Link!NoTask
<1>2. Link!Next <=> Proved!Link!Next
  BY Zenon DEF Link!Next, Proved!Link!Next, Link!Begins, Proved!Link!Begins, Link!Goes, Proved!Link!Goes, Link!GivesUp,
       Proved!Link!GivesUp, Link!RobotTakes, Proved!Link!RobotTakes, Link!RobotEnds, Proved!Link!RobotEnds,
       Link!RobotDrops, Proved!Link!RobotDrops, Link!MotionBegins, Proved!Link!MotionBegins, Link!ConnectBegins,
       Proved!Link!ConnectBegins, Link!HaltBegins, Proved!Link!HaltBegins, Link!PingBegins, Proved!Link!PingBegins,
       Link!Disconnect, Proved!Link!Disconnect, Link!Open, Proved!Link!Open, Link!Acquire, Proved!Link!Acquire,
       Link!Send, Proved!Link!Send, Link!Hear, Proved!Link!Hear, Link!AckTimeout, Proved!Link!AckTimeout,
       Link!DoneTimeout, Proved!Link!DoneTimeout, Link!PeerGone, Proved!Link!PeerGone, Link!NoTask,
       Proved!Link!NoTask, Link!Posted, Proved!Link!Posted, Link!Robot, Proved!Link!Robot, Link!Enter,
       Proved!Link!Enter, Link!Greeting, Proved!Link!Greeting, Link!Link, Proved!Link!Link, Link!NoOne,
       Proved!Link!NoOne, Link!Return, Proved!Link!Return, Link!Fails, Proved!Link!Fails, Link!Matches,
       Proved!Link!Matches, Link!Answered, Proved!Link!Answered, Link!Idle, Proved!Link!Idle, Link!Refusals,
       Proved!Link!Refusals
<1>3. Link!TypeOK <=> Proved!Link!TypeOK
  BY Zenon DEF Link!TypeOK, Proved!Link!TypeOK, Link!Final, Proved!Link!Final, Link!NoOne, Proved!Link!NoOne, Link!Refusals,
       Proved!Link!Refusals
<1>4. Link!SuccessMeansDone <=> Proved!Link!SuccessMeansDone
  BY Zenon DEF Link!SuccessMeansDone, Proved!Link!SuccessMeansDone
<1> QED BY <1>1, <1>2, <1>3, <1>4

LEMMA TechmanSound == Proved!TechmanSound
  BY DEF Proved!TechmanSound

LEMMA TechmanSame ==
    /\ Techman!Init <=> Proved!Techman!Init
    /\ Techman!Next <=> Proved!Techman!Next
    /\ Techman!TypeOK <=> Proved!Techman!TypeOK
    /\ Techman!VisionHasRun <=> Proved!Techman!VisionHasRun
<1>1. Techman!Init <=> Proved!Techman!Init
  BY Zenon DEF Techman!Init, Proved!Techman!Init, Techman!NoCall, Proved!Techman!NoCall
<1>2. Techman!Next <=> Proved!Techman!Next
  BY Zenon DEF Techman!Next, Proved!Techman!Next, Techman!Begin, Proved!Techman!Begin, Techman!CallStep,
       Proved!Techman!CallStep, Techman!Coroutine, Proved!Techman!Coroutine, Techman!LoopStep,
       Proved!Techman!LoopStep, Techman!Disconnect, Proved!Techman!Disconnect, Techman!Controller,
       Proved!Techman!Controller, Techman!At, Proved!Techman!At, Techman!Kinds, Proved!Techman!Kinds, Techman!NoCall,
       Proved!Techman!NoCall, Techman!adapter, Proved!Techman!adapter, Techman!EnsureLoop, Proved!Techman!EnsureLoop,
       Techman!LoopIsReady, Proved!Techman!LoopIsReady, Techman!Submit, Proved!Techman!Submit,
       Techman!OperationTimesOut, Proved!Techman!OperationTimesOut, Techman!Return, Proved!Techman!Return,
       Techman!CheckListen, Proved!Techman!CheckListen, Techman!SendScript, Proved!Techman!SendScript,
       Techman!Arrived, Proved!Techman!Arrived, Techman!SendCommand, Proved!Techman!SendCommand, Techman!ExitListen,
       Proved!Techman!ExitListen, Techman!Probe, Proved!Techman!Probe, Techman!LoopPublished,
       Proved!Techman!LoopPublished, Techman!LoopRuns, Proved!Techman!LoopRuns, Techman!LoopCloses,
       Proved!Techman!LoopCloses, Techman!IsRunning, Proved!Techman!IsRunning, Techman!Leaves, Proved!Techman!Leaves,
       Techman!RunsVision, Proved!Techman!RunsVision, Techman!Returns, Proved!Techman!Returns, Techman!Moves,
       Proved!Techman!Moves, Techman!Goto, Proved!Techman!Goto, Techman!Ends, Proved!Techman!Ends, Techman!Runs,
       Proved!Techman!Runs, Techman!Raises, Proved!Techman!Raises, Techman!CoKeeps, Proved!Techman!CoKeeps
<1>3. Techman!TypeOK <=> Proved!Techman!TypeOK
  BY Zenon DEF Techman!TypeOK, Proved!Techman!TypeOK, Techman!Kinds, Proved!Techman!Kinds, Techman!At, Proved!Techman!At
<1>4. Techman!VisionHasRun <=> Proved!Techman!VisionHasRun
  BY Zenon DEF Techman!VisionHasRun, Proved!Techman!VisionHasRun, Techman!At, Proved!Techman!At, Techman!Triggered,
       Proved!Techman!Triggered
<1> QED BY <1>1, <1>2, <1>3, <1>4

LEMMA SourceSound == Proved!SourceSound
  BY DEF Proved!SourceSound, Thread

LEMMA SourceSame ==
    /\ Source!Init <=> Proved!Source!Init
    /\ Source!Next <=> Proved!Source!Next
    /\ Source!TypeOK <=> Proved!Source!TypeOK
    /\ Source!StreamReaderSurvives <=> Proved!Source!StreamReaderSurvives
<1>1. Source!Init <=> Proved!Source!Init
  BY Zenon DEF Source!Init, Proved!Source!Init, Source!Kind, Proved!Source!Kind, Source!NoThread, Proved!Source!NoThread
<1>2. Source!Next <=> Proved!Source!Next
  BY Zenon DEF Source!Next, Proved!Source!Next, Source!Post, Proved!Source!Post, Source!PostStep, Proved!Source!PostStep,
       Source!Take, Proved!Source!Take, Source!ThreadStep, Proved!Source!ThreadStep, Source!Kind, Proved!Source!Kind,
       Source!SetSource, Proved!Source!SetSource, Source!SetCameraIndex, Proved!Source!SetCameraIndex,
       Source!Switched, Proved!Source!Switched, Source!PutNext, Proved!Source!PutNext, Source!Writing,
       Proved!Source!Writing, Source!PutStep, Proved!Source!PutStep, Source!CameraTop, Proved!Source!CameraTop,
       Source!CameraReopens, Proved!Source!CameraReopens, Source!CameraWakes, Proved!Source!CameraWakes,
       Source!CameraReads, Proved!Source!CameraReads, Source!StreamTop, Proved!Source!StreamTop,
       Source!StreamConnects, Proved!Source!StreamConnects, Source!StreamReads, Proved!Source!StreamReads,
       Source!StreamWakes, Proved!Source!StreamWakes, Source!ThreadPuts, Proved!Source!ThreadPuts, Source!CanSwitch,
       Proved!Source!CanSwitch, Source!Stopping, Proved!Source!Stopping, Source!FreeSource, Proved!Source!FreeSource,
       Source!ASource, Proved!Source!ASource, Source!JoinReturns, Proved!Source!JoinReturns, Source!Startable,
       Proved!Source!Startable, Source!Started, Proved!Source!Started, Source!Is, Proved!Source!Is, Source!Mine,
       Proved!Source!Mine, Source!NoThread, Proved!Source!NoThread, Source!Quiet, Proved!Source!Quiet,
       Source!Released, Proved!Source!Released, Source!Goto, Proved!Source!Goto, Source!Stored, Proved!Source!Stored,
       Source!AfterRaise, Proved!Source!AfterRaise, Source!ThreadsOf, Proved!Source!ThreadsOf, Source!Blocked,
       Proved!Source!Blocked, Source!FreeThread, Proved!Source!FreeThread, Source!Closed, Proved!Source!Closed,
       Source!AThread, Proved!Source!AThread
<1>3. Source!TypeOK <=> Proved!Source!TypeOK
  BY Zenon DEF Source!TypeOK, Proved!Source!TypeOK, Source!Kind, Proved!Source!Kind, Source!Blocked, Proved!Source!Blocked,
       Source!Writing, Proved!Source!Writing
<1>4. Source!StreamReaderSurvives <=> Proved!Source!StreamReaderSurvives
  BY Zenon DEF Source!StreamReaderSurvives, Proved!Source!StreamReaderSurvives, Source!ThreadsOf, Proved!Source!ThreadsOf
<1> QED BY <1>1, <1>2, <1>3, <1>4

LEMMA PageSound == Proved!PageSound
  BY DEF Proved!PageSound

LEMMA PageSame ==
    /\ Page!Init <=> Proved!Page!Init
    /\ Page!Next <=> Proved!Page!Next
    /\ Page!TypeOK <=> Proved!Page!TypeOK
<1>1. Page!Init <=> Proved!Page!Init
  BY Zenon DEF Page!Init, Proved!Page!Init, Page!Fresh, Proved!Page!Fresh, Page!Unlocked, Proved!Page!Unlocked, Page!Seen,
       Proved!Page!Seen
<1>2. Page!Next <=> Proved!Page!Next
  BY Zenon DEF Page!Next, Proved!Page!Next, Page!Reduce, Proved!Page!Reduce, Page!PlayerMoves, Proved!Page!PlayerMoves,
       Page!EnginePolls, Proved!Page!EnginePolls, Page!Arm, Proved!Page!Arm, Page!BeatReads, Proved!Page!BeatReads,
       Page!BeatPublishes, Proved!Page!BeatPublishes, Page!ExecuteReadyMove, Proved!Page!ExecuteReadyMove,
       Page!LateLost, Proved!Page!LateLost, Page!Reconnect, Proved!Page!Reconnect, Page!Receive, Proved!Page!Receive,
       Page!LateArrives, Proved!Page!LateArrives, Page!StartPlayerGame, Proved!Page!StartPlayerGame,
       Page!EndPlayerGame, Proved!Page!EndPlayerGame, Page!StartRobotArmFlow, Proved!Page!StartRobotArmFlow,
       Page!Answered, Proved!Page!Answered, Page!RequestTimesOut, Proved!Page!RequestTimesOut, Page!GraceElapses,
       Proved!Page!GraceElapses, Page!ReleaseTimeout, Proved!Page!ReleaseTimeout, Page!Reduced, Proved!Page!Reduced,
       Page!Broadcasts, Proved!Page!Broadcasts, Page!Seen, Proved!Page!Seen, Page!Publish, Proved!Page!Publish,
       Page!Outside, Proved!Page!Outside, Page!ArmStarts, Proved!Page!ArmStarts, Page!ArmCompletes,
       Proved!Page!ArmCompletes, Page!Verified, Proved!Page!Verified, Page!VerificationFails,
       Proved!Page!VerificationFails, Page!Accepts, Proved!Page!Accepts, Page!net, Proved!Page!net, Page!server,
       Proved!Page!server, Page!Answers, Proved!Page!Answers, Page!Shows, Proved!Page!Shows, Page!Synced,
       Proved!Page!Synced, Page!Startable, Proved!Page!Startable, Page!Unlocked, Proved!Page!Unlocked, Page!Locked,
       Proved!Page!Locked, Page!Released, Proved!Page!Released
<1>3. Page!TypeOK <=> Proved!Page!TypeOK
  BY Zenon DEF Page!TypeOK, Proved!Page!TypeOK, Page!States, Proved!Page!States, Page!Views, Proved!Page!Views
<1> QED BY <1>1, <1>2, <1>3

-----------------------------------------------------------------------------

LEMMA EngineMoves == ASSUME [Next]_vars PROVE [Proved!Engine!Next]_(Proved!Engine!vars)
<1>1. Engine!Next \/ UNCHANGED engineVars
  BY Zenon DEF Next, vars
<1> QED BY <1>1, EngineSame DEF engineVars, Proved!Engine!vars

LEMMA LinkMoves == ASSUME [Next]_vars PROVE [Proved!Link!Next]_(Proved!Link!vars)
<1>1. Link!Next \/ UNCHANGED linkVars
  BY Zenon DEF Next, vars
<1> QED BY <1>1, LinkSame DEF linkVars, Proved!Link!vars

LEMMA TechmanMoves == ASSUME [Next]_vars PROVE [Proved!Techman!Next]_(Proved!Techman!vars)
<1>1. Techman!Next \/ UNCHANGED techmanVars
  BY Zenon DEF Next, vars
<1> QED BY <1>1, TechmanSame DEF techmanVars, Proved!Techman!vars

LEMMA SourceMoves == ASSUME [Next]_vars PROVE [Proved!Source!Next]_(Proved!Source!vars)
<1>1. Source!Next \/ UNCHANGED sourceVars
  BY Zenon DEF Next, vars
<1> QED BY <1>1, SourceSame DEF sourceVars, Proved!Source!vars

LEMMA PageMoves == ASSUME [Next]_vars PROVE [Proved!Page!Next]_(Proved!Page!vars)
<1>1. Page!Next \/ UNCHANGED pageVars
  BY Zenon DEF Next, vars
<1> QED BY <1>1, PageSame DEF pageVars, Proved!Page!vars

LEMMA InitStarts ==
    ASSUME Init
    PROVE  Engine!Init /\ Link!Init /\ Techman!Init /\ Source!Init /\ Page!Init
  BY Zenon DEF Init

AnswersInv == Proved!EngineInv /\ Proved!LinkInv /\ Proved!TechmanInv

\* A best move answers its own position or a question that was still overdue when it was asked (a
\* search that outlives its time limit is not stopped), and a candidate is asked only while it is on
\* trial or the service is shutting down; a motion that was reported finished has been carried out
\* under its own id; a Vision job that succeeded has run since it was triggered, unless a probe that
\* failed was taken for the flow being outside Listen (engine_service.py, tmflow_json_client.py,
\* techmanpy_adapter.py).
THEOREM AnswersAlwaysFit == Spec => []AnswersFit
<1>1. Init => AnswersInv
  BY InitStarts, EngineSound, EngineSame, LinkSound, LinkSame, TechmanSound, TechmanSame,
     Proved!EngineInit, Proved!LinkInit, Proved!TechmanInit DEF AnswersInv
<1>2. AnswersInv /\ [Next]_vars => AnswersInv'
  <2> SUFFICES ASSUME AnswersInv, [Next]_vars PROVE AnswersInv'
    OBVIOUS
  <2>1. Proved!EngineInv'
    BY EngineMoves, EngineSound, Proved!EngineStep DEF AnswersInv
  <2>2. Proved!LinkInv'
    BY LinkMoves, LinkSound, Proved!LinkStep DEF AnswersInv
  <2>3. Proved!TechmanInv'
    BY TechmanMoves, TechmanSound, Proved!TechmanStep DEF AnswersInv
  <2> QED BY <2>1, <2>2, <2>3 DEF AnswersInv
<1>3. AnswersInv => AnswersFit
  BY EngineSound, EngineSame, LinkSame, TechmanSame, Proved!EngineHolds
     DEF AnswersInv, Proved!LinkInv, Proved!LinkTypes, Proved!TechmanInv, AnswersFit
<1> QED BY <1>1, <1>2, <1>3, PTL DEF Spec

RunnersInv == Proved!SourceInv /\ Proved!PageInv /\ Proved!EngineInv

\* A stream source that is shown as running has the thread that reads it, whatever a switch, a
\* restart or a thread that outlives its stop does meanwhile; the page's button has a timer only
\* while it is locked; and once the engine was shut down no process is left, if the worker took its
\* cancellation (vision_source_manager.py, app.js, engine_service.py).
THEOREM RunnersAlwaysMatch == Spec => []RunnersMatch
<1>1. Init => RunnersInv
  BY InitStarts, EngineSound, EngineSame, SourceSound, SourceSame, PageSound, PageSame,
     Proved!EngineInit, Proved!SourceInit, Proved!PageInit DEF RunnersInv
<1>2. RunnersInv /\ [Next]_vars => RunnersInv'
  <2> SUFFICES ASSUME RunnersInv, [Next]_vars PROVE RunnersInv'
    OBVIOUS
  <2>1. Proved!SourceInv'
    BY SourceMoves, SourceSound, Proved!SourceStep DEF RunnersInv
  <2>2. Proved!PageInv'
    BY PageMoves, PageSound, Proved!PageStep DEF RunnersInv
  <2>3. Proved!EngineInv'
    BY EngineMoves, EngineSound, Proved!EngineStep DEF RunnersInv
  <2> QED BY <2>1, <2>2, <2>3 DEF RunnersInv
<1>3. RunnersInv => RunnersMatch
  BY SourceSame, PageSame, EngineSound, EngineSame, Proved!EngineHolds
     DEF RunnersInv, Proved!SourceInv, Proved!PageInv, RunnersMatch
<1> QED BY <1>1, <1>2, <1>3, PTL DEF Spec
=============================================================================
