--------------------------- MODULE MCParts_proofs ---------------------------
(***************************************************************************)
(* What is proved of a part for every value of its constants holds of the  *)
(* part in MCParts.  The parts share no state, so the inductive invariant  *)
(* of each is one of the behaviours that are its own.                      *)
(***************************************************************************)
EXTENDS MCParts, FiniteSetTheorems, TLAPS

Proved == INSTANCE Parts_proofs WITH
    Token <- {"t1", "t2"}, Socket <- {"s1"}, Life <- 2, TokenTime <- 4,
    now <- s1, exp <- s2, revoked <- s3, stored <- s4, reachable <- s5, claims <- s6, accepted <- s7, out <- s8,
    Thread <- {"r1", "r2"}, Key <- {"k1"}, Ttl <- 2, AnswerTime <- 5,
    records <- s2, serving <- s3, last <- s4,
    Request <- {"h1", "h2"}, Corners <- {"c1", "c2"}, Sizes <- {"1000", "800"}, MaxStarts <- 3,
    corrector <- s1, published <- s2, shown <- s3, file <- s4, size <- s5, req <- s6, frame <- s7, starts <- s8, mixed <- s9,
    Order <- <<"camera", "robot_status", "robot_watchdog">>, Camera <- "camera", Watchdog <- "robot_watchdog",
    StatusWorker <- "robot_status", FakeRobot <- FALSE, Timeout <- 1,
    boot <- s1, flags <- s2, results <- s3, hook <- s4, hooked <- s5, loop <- s6, work <- s7, link <- s8,
    silence <- s9, judged <- s10, healthy <- s11,
    Publisher <- {"p1"}, Console <- {"c1"}, QueueSize <- 2, CriticalSize <- 1, BatchSize <- 2, PageSize <- 1,
    MaxEvents <- 2, MaxSessions <- 1,
    ctl <- s1, thread <- s2, console <- s3, queue <- s4, critical <- s5, worker <- s6, orphan <- s7, table <- s8,
    hist <- s9,
    SheetMoves <- 4, SheetEvents <- 9, log <- s1, played <- s2, arm <- s3,
    LimitKey <- {"k1", "k2"}, Limit <- 2, Window <- 3, MaxBuckets <- 1, LimiterTime <- 7,
    buckets <- s2, lastPrune <- s3, passed <- s4, evicted <- s5,
    AccessRole <- {"viewer", "operator", "admin"}, Ending <- {"status"},
    request <- s1, answer <- s2, said <- s3,
    DashEvents <- Happenings, DashKept <- 3, MaxErrors <- 2, MaxTraces <- 2, MaxTraceEvents <- 2, MaxRecorded <- 5,
    events <- s1, errors <- s2, traces <- s3, active <- s4, nodes <- s5, edges <- s6, count <- s7,
    Client <- {"c1"}, Scripts <- IngestScripts, IngestStarts <- 2, MaxAge <- 1,
    policy <- s1, server <- s2, booted <- s3, peers <- s4, client <- s5, snapshot <- s6, heard <- s7, failures <- s8

LEMMA PartStays == ASSUME [Next]_vars PROVE part' = part
  BY Zenon DEF Next, vars

-----------------------------------------------------------------------------
(* Tokens.                                                                 *)

LEMMA TokensSound == Proved!TokensSound
  BY NoneAssumption DEF Proved!TokensSound

\* The two instances of TokenStore are one.
LEMMA TokensSame ==
    /\ Tokens!Init <=> Proved!Tokens!Init
    /\ Tokens!Next <=> Proved!Tokens!Next
    /\ Tokens!LoggedOutStaysOut <=> Proved!Tokens!LoggedOutStaysOut
<1>1. Tokens!Init <=> Proved!Tokens!Init
  BY Zenon DEF Tokens!Init, Proved!Tokens!Init
<1>2. Tokens!Next <=> Proved!Tokens!Next
  BY Zenon DEF Tokens!Next, Proved!Tokens!Next, Tokens!Login, Proved!Tokens!Login, Tokens!Logout, Proved!Tokens!Logout,
       Tokens!Authenticate, Proved!Tokens!Authenticate, Tokens!Connect, Proved!Tokens!Connect,
       Tokens!Disconnect, Proved!Tokens!Disconnect, Tokens!Tick, Proved!Tokens!Tick,
       Tokens!DatabaseChanges, Proved!Tokens!DatabaseChanges, Tokens!Restart, Proved!Tokens!Restart,
       Tokens!Decodes, Proved!Tokens!Decodes, Tokens!Unexpired, Proved!Tokens!Unexpired,
       Tokens!Purge, Proved!Tokens!Purge, Tokens!Revoked, Proved!Tokens!Revoked
<1>3. Tokens!LoggedOutStaysOut <=> Proved!Tokens!LoggedOutStaysOut
  BY Zenon DEF Tokens!LoggedOutStaysOut, Proved!Tokens!LoggedOutStaysOut
<1> QED BY <1>1, <1>2, <1>3

TokensInv == part = "tokens" => Proved!TokensInv

LEMMA TokensStep == ASSUME TokensInv, [Next]_vars PROVE TokensInv'
<1> SUFFICES ASSUME part = "tokens" PROVE Proved!TokensInv'
  BY PartStays DEF TokensInv
<1>1. Proved!TokensInv
  BY DEF TokensInv
<1>2. [Proved!Tokens!Next]_(Proved!Tokens!vars)
  <2>1. Tokens!Next \/ UNCHANGED slots
    BY Zenon DEF Next, vars
  <2> QED BY <2>1, TokensSame DEF slots, Proved!Tokens!vars
<1> QED BY <1>1, <1>2, TokensSound, Proved!TokensStep

\* A token that was logged out is not let in again, as long as SQLite answers or the revocation is
\* still in memory (utils/auth.py).
THEOREM TokensStayOut == Spec => []LoggedOutStaysOut
<1>1. Init => TokensInv
  <2>1. Init /\ part = "tokens" => Tokens!Init
    BY Zenon DEF Init
  <2> QED BY <2>1, TokensSound, TokensSame, Proved!TokensInit DEF TokensInv
<1>2. TokensInv /\ [Next]_vars => TokensInv'
  BY TokensStep
<1>3. TokensInv => LoggedOutStaysOut
  BY TokensSame DEF TokensInv, LoggedOutStaysOut, Proved!TokensInv
<1> QED BY <1>1, <1>2, <1>3, PTL DEF Spec

-----------------------------------------------------------------------------
(* Answers that were given.                                                *)

LEMMA AnswersSound == Proved!AnswersSound
  BY NoneAssumption DEF Proved!AnswersSound

LEMMA AnswersSame ==
    /\ Answers!Init <=> Proved!Answers!Init
    /\ Answers!Next <=> Proved!Answers!Next
    /\ Answers!RetryIsAnswered <=> Proved!Answers!RetryIsAnswered
<1>1. Answers!Init <=> Proved!Answers!Init
  BY Zenon DEF Answers!Init, Proved!Answers!Init, Answers!AtRest, Proved!Answers!AtRest
<1>2. Answers!Next <=> Proved!Answers!Next
  BY Zenon DEF Answers!Next, Proved!Answers!Next, Answers!Arrive, Proved!Answers!Arrive,
       Answers!LookUp, Proved!Answers!LookUp, Answers!Remember, Proved!Answers!Remember, Answers!Fail, Proved!Answers!Fail,
       Answers!Tick, Proved!Answers!Tick, Answers!Unexpired, Proved!Answers!Unexpired,
       Answers!AtRest, Proved!Answers!AtRest
<1>3. Answers!RetryIsAnswered <=> Proved!Answers!RetryIsAnswered
  BY Zenon DEF Answers!RetryIsAnswered, Proved!Answers!RetryIsAnswered
<1> QED BY <1>1, <1>2, <1>3

AnswersInv == part = "answers" => Proved!AnswersInv

LEMMA AnswersMove == ASSUME part = "answers", [Next]_vars PROVE [Proved!Answers!Next]_(Proved!Answers!vars)
<1>1. Answers!Next \/ UNCHANGED slots
  BY Zenon DEF Next, vars
<1> QED BY <1>1, AnswersSame DEF slots, Proved!Answers!vars

\* A retry that starts after its request was answered gets that answer and carries nothing out a
\* second time while the answer is kept (utils/idempotency.py).
THEOREM RetriesGetTheirAnswer == Spec => RetriesAreAnswered
<1>1. Init => AnswersInv
  <2>1. Init /\ part = "answers" => Answers!Init
    BY Zenon DEF Init
  <2> QED BY <2>1, AnswersSound, AnswersSame, Proved!AnswersInit DEF AnswersInv
<1>2. AnswersInv /\ [Next]_vars => AnswersInv'
  BY PartStays, AnswersMove, AnswersSound, Proved!AnswersStep DEF AnswersInv
<1>3. AnswersInv /\ [Next]_vars => [part = "answers" => Answers!RetryIsAnswered]_vars
  BY AnswersMove, AnswersSound, AnswersSame, Proved!StepAnswers DEF AnswersInv
<1> QED BY <1>1, <1>2, <1>3, PTL DEF Spec, RetriesAreAnswered

-----------------------------------------------------------------------------
(* The picture's calibration.                                              *)

LEMMA CalibrationSound == Proved!CalibrationSound
  BY NoneAssumption DEF Proved!CalibrationSound, Proved!Of, Proved!Calibration!Warp

LEMMA CalibrationSame ==
    /\ Calibration!Init <=> Proved!Calibration!Init
    /\ Calibration!Next <=> Proved!Calibration!Next
    /\ Calibration!WarpFitsBoard <=> Proved!Calibration!WarpFitsBoard
    /\ Calibration!FrameTellsItsBoard <=> Proved!Calibration!FrameTellsItsBoard
<1>1. Calibration!Init <=> Proved!Calibration!Init
  BY Zenon DEF Calibration!Init, Proved!Calibration!Init, Calibration!Uncalibrated,
       Proved!Calibration!Uncalibrated, Calibration!NoRequest, Proved!Calibration!NoRequest,
       Calibration!NoFrame, Proved!Calibration!NoFrame
<1>2. Calibration!Next <=> Proved!Calibration!Next
  BY Zenon DEF Calibration!Next, Proved!Calibration!Next, Calibration!UpdateCorners,
       Proved!Calibration!UpdateCorners, Calibration!Show, Proved!Calibration!Show,
       Calibration!Save, Proved!Calibration!Save,
       Calibration!Truncate, Proved!Calibration!Truncate, Calibration!Written,
       Proved!Calibration!Written, Calibration!SaveFails, Proved!Calibration!SaveFails,
       Calibration!WarpFrame, Proved!Calibration!WarpFrame, Calibration!MapBack,
       Proved!Calibration!MapBack, Calibration!Report, Proved!Calibration!Report,
       Calibration!Restart, Proved!Calibration!Restart, Calibration!StartsWith,
       Proved!Calibration!StartsWith, Calibration!Loaded, Proved!Calibration!Loaded,
       Calibration!WithMatrix, Proved!Calibration!WithMatrix, Calibration!WithCorners,
       Proved!Calibration!WithCorners, Calibration!Warp, Proved!Calibration!Warp,
       Calibration!Uncalibrated, Proved!Calibration!Uncalibrated, Calibration!NoRequest,
       Proved!Calibration!NoRequest, Calibration!NoFrame, Proved!Calibration!NoFrame
<1>3. Calibration!WarpFitsBoard <=> Proved!Calibration!WarpFitsBoard
  BY Zenon DEF Calibration!WarpFitsBoard, Proved!Calibration!WarpFitsBoard, Calibration!Warp,
       Proved!Calibration!Warp
<1>4. Calibration!FrameTellsItsBoard <=> Proved!Calibration!FrameTellsItsBoard
  BY Zenon DEF Calibration!FrameTellsItsBoard, Proved!Calibration!FrameTellsItsBoard
<1> QED BY <1>1, <1>2, <1>3, <1>4

CalibrationInv == part = "calibration" => Proved!CalibrationInv

\* Warp, inverse, corners and size of the picture are of one calibration, also in the frame in
\* work and after a restart; only the corners may be another request's, once one saved its matrix
\* with those shown for the other (board_calibrator.py, vision_system.py).
THEOREM WarpsAreOfOneBoard == Spec => []WarpIsOfOneBoard
<1>1. Init => CalibrationInv
  <2>1. Init /\ part = "calibration" => Calibration!Init
    BY Zenon DEF Init
  <2> QED BY <2>1, CalibrationSame, Proved!CalibrationInit DEF CalibrationInv
<1>2. CalibrationInv /\ [Next]_vars => CalibrationInv'
  <2> SUFFICES ASSUME CalibrationInv, [Next]_vars, part = "calibration" PROVE Proved!CalibrationInv'
    BY PartStays DEF CalibrationInv
  <2>1. Calibration!Next \/ UNCHANGED slots
    BY Zenon DEF Next, vars
  <2>2. [Proved!Calibration!Next]_(Proved!Calibration!vars)
    BY <2>1, CalibrationSame DEF slots, Proved!Calibration!vars
  <2> QED BY <2>2, CalibrationSound, Proved!CalibrationStep DEF CalibrationInv
<1>3. CalibrationInv => WarpIsOfOneBoard
  BY CalibrationSound, CalibrationSame, Proved!CalibrationHolds DEF CalibrationInv, WarpIsOfOneBoard
<1> QED BY <1>1, <1>2, <1>3, PTL DEF Spec

-----------------------------------------------------------------------------
(* The workers.                                                            *)

LEMMA WorkersSound == Proved!WorkersSound
<1> DEFINE order == <<"camera", "robot_status", "robot_watchdog">>
<1>1. Proved!Workers!Worker = {"camera", "robot_status", "robot_watchdog"}
  BY DEF Proved!Workers!Worker, Proved!Workers!ToSet
<1>2. order \in Seq({"camera", "robot_status", "robot_watchdog"}) /\ Len(order) = 3
  OBVIOUS
<1>3. \A i, j \in 1..3 : order[i] = order[j] => i = j
  OBVIOUS
<1> QED BY <1>1, <1>2, <1>3, NoneAssumption DEF Proved!WorkersSound

LEMMA WorkersSame ==
    /\ Workers!Init <=> Proved!Workers!Init
    /\ Workers!Next <=> Proved!Workers!Next
    /\ Workers!RunningMeansAlive <=> Proved!Workers!RunningMeansAlive
<1>1. Workers!Init <=> Proved!Workers!Init
  BY Zenon DEF Workers!Init, Proved!Workers!Init, Workers!At, Proved!Workers!At, Workers!Worker,
       Proved!Workers!Worker, Workers!ToSet, Proved!Workers!ToSet
<1>2. Workers!Next <=> Proved!Workers!Next
  BY Zenon DEF Workers!Next, Proved!Workers!Next, Workers!StartRuntime, Proved!Workers!StartRuntime,
       Workers!ConnectRobot, Proved!Workers!ConnectRobot, Workers!RegisterHook,
       Proved!Workers!RegisterHook, Workers!StartVision, Proved!Workers!StartVision,
       Workers!StartWorker, Proved!Workers!StartWorker, Workers!AfterStart,
       Proved!Workers!AfterStart, Workers!WorkerStarted, Proved!Workers!WorkerStarted,
       Workers!HookStops, Proved!Workers!HookStops, Workers!StartWorkflow,
       Proved!Workers!StartWorkflow, Workers!StartPersistence, Proved!Workers!StartPersistence,
       Workers!BootEnds, Proved!Workers!BootEnds, Workers!StartRuns, Proved!Workers!StartRuns,
       Workers!Begin, Proved!Workers!Begin, Workers!Round, Proved!Workers!Round, Workers!Wakes,
       Proved!Workers!Wakes, Workers!Verdict, Proved!Workers!Verdict, Workers!StatusRound,
       Proved!Workers!StatusRound, Workers!StatusWakes, Proved!Workers!StatusWakes,
       Workers!LinkChanges, Proved!Workers!LinkChanges, Workers!HookBegins,
       Proved!Workers!HookBegins, Workers!HookStopsServices, Proved!Workers!HookStopsServices,
       Workers!HookCancels, Proved!Workers!HookCancels, Workers!HookStopsLoop,
       Proved!Workers!HookStopsLoop, Workers!Quiet, Proved!Workers!Quiet, Workers!Rest,
       Proved!Workers!Rest, Workers!At, Proved!Workers!At, Workers!Failed,
       Proved!Workers!Failed, Workers!SnapshotRunning, Proved!Workers!SnapshotRunning,
       Workers!Started, Proved!Workers!Started, Workers!Critical, Proved!Workers!Critical,
       Workers!ReadyNow, Proved!Workers!ReadyNow, Workers!Returned, Proved!Workers!Returned,
       Workers!Cancelled, Proved!Workers!Cancelled, Workers!Raised, Proved!Workers!Raised,
       Workers!Worker, Proved!Workers!Worker, Workers!LoopWorker, Proved!Workers!LoopWorker,
       Workers!Alive, Proved!Workers!Alive, Workers!ToSet, Proved!Workers!ToSet
<1>3. Workers!RunningMeansAlive <=> Proved!Workers!RunningMeansAlive
  BY Zenon DEF Workers!RunningMeansAlive, Proved!Workers!RunningMeansAlive, Workers!SnapshotRunning,
       Proved!Workers!SnapshotRunning, Workers!Worker, Proved!Workers!Worker, Workers!ToSet,
       Proved!Workers!ToSet, Workers!Alive, Proved!Workers!Alive
<1> QED BY <1>1, <1>2, <1>3

WorkersInv == part = "workers" => Proved!WorkersInv

\* A worker that was reported started and shown as running is alive (worker_manager.py).
THEOREM RunningWorkersAlive == Spec => []RunningMeansAlive
<1>1. Init => WorkersInv
  <2>1. Init /\ part = "workers" => Workers!Init
    BY Zenon DEF Init
  <2> QED BY <2>1, WorkersSound, WorkersSame, Proved!WorkersInit DEF WorkersInv
<1>2. WorkersInv /\ [Next]_vars => WorkersInv'
  <2> SUFFICES ASSUME WorkersInv, [Next]_vars, part = "workers" PROVE Proved!WorkersInv'
    BY PartStays DEF WorkersInv
  <2>1. Workers!Next \/ UNCHANGED slots
    BY Zenon DEF Next, vars
  <2>2. [Proved!Workers!Next]_(Proved!Workers!vars)
    BY <2>1, WorkersSame DEF slots, Proved!Workers!vars
  <2> QED BY <2>2, WorkersSound, Proved!WorkersStep DEF WorkersInv
<1>3. WorkersInv => RunningMeansAlive
  BY WorkersSound, WorkersSame, Proved!WorkersHolds DEF WorkersInv, RunningMeansAlive
<1> QED BY <1>1, <1>2, <1>3, PTL DEF Spec

-----------------------------------------------------------------------------
(* The record of the events.                                               *)

LEMMA RecordSound == Proved!RecordSound
  BY NoneAssumption DEF Proved!RecordSound, Proved!Record!Session

LEMMA RecordSame ==
    /\ Record!Init <=> Proved!Record!Init
    /\ Record!Next <=> Proved!Record!Next
    /\ Record!CleanStopKeepsAll <=> Proved!Record!CleanStopKeepsAll
    /\ Record!StoredInOrder <=> Proved!Record!StoredInOrder
    /\ Record!FiledUnderItsSession <=> Proved!Record!FiledUnderItsSession
    /\ Record!PageStays <=> Proved!Record!PageStays
<1>1. Record!Init <=> Proved!Record!Init
  BY Zenon DEF Record!Init, Proved!Record!Init, Record!NoEvent, Proved!Record!NoEvent, Record!Session, Proved!Record!Session,
       Record!Note, Proved!Record!Note
<1>2. Record!Next <=> Proved!Record!Next
  BY Zenon DEF Record!Next, Proved!Record!Next, Record!Publish, Proved!Record!Publish, Record!Tag, Proved!Record!Tag,
       Record!Put, Proved!Record!Put, Record!PublishDropDiagnostics, Proved!Record!PublishDropDiagnostics,
       Record!WorkerStart, Proved!Record!WorkerStart, Record!LoopEnds, Proved!Record!LoopEnds, Record!CollectFirst,
       Proved!Record!CollectFirst, Record!CollectRest, Proved!Record!CollectRest, Record!SaveBatch,
       Proved!Record!SaveBatch, Record!FinalFlush, Proved!Record!FinalFlush, Record!StopRequested,
       Proved!Record!StopRequested, Record!StopCancels, Proved!Record!StopCancels, Record!OrphanSaves,
       Proved!Record!OrphanSaves, Record!RouteStart, Proved!Record!RouteStart, Record!RouteEnd,
       Proved!Record!RouteEnd, Record!StartSession, Proved!Record!StartSession, Record!EndSession,
       Proved!Record!EndSession, Record!PublishSnapshot, Proved!Record!PublishSnapshot, Record!ExportSessionRecord,
       Proved!Record!ExportSessionRecord, Record!Crash, Proved!Record!Crash, Record!ActiveSession,
       Proved!Record!ActiveSession, Record!PutCritical, Proved!Record!PutCritical, Record!NoEvent,
       Proved!Record!NoEvent, Record!Noted, Proved!Record!Noted, Record!Fill, Proved!Record!Fill, Record!SaveEvents,
       Proved!Record!SaveEvents, Record!Events, Proved!Record!Events, Record!Game, Proved!Record!Game,
       Record!EndedNow, Proved!Record!EndedNow, Record!RolledBack, Proved!Record!RolledBack, Record!Note,
       Proved!Record!Note, Record!AtMost, Proved!Record!AtMost, Record!Beyond, Proved!Record!Beyond, Record!Committed,
       Proved!Record!Committed, Record!Only, Proved!Record!Only, Record!Kept, Proved!Record!Kept
<1>3. Record!CleanStopKeepsAll <=> Proved!Record!CleanStopKeepsAll
  BY Zenon DEF Record!CleanStopKeepsAll, Proved!Record!CleanStopKeepsAll, Record!Events, Proved!Record!Events, Record!Game,
       Proved!Record!Game, Record!Only, Proved!Record!Only, Record!Kept, Proved!Record!Kept
<1>4. Record!StoredInOrder <=> Proved!Record!StoredInOrder
  BY Zenon DEF Record!StoredInOrder, Proved!Record!StoredInOrder
<1>5. Record!FiledUnderItsSession <=> Proved!Record!FiledUnderItsSession
  BY Zenon DEF Record!FiledUnderItsSession, Proved!Record!FiledUnderItsSession
<1>6. Record!PageStays <=> Proved!Record!PageStays
  BY Zenon DEF Record!PageStays, Proved!Record!PageStays, Record!Rows, Proved!Record!Rows, Record!Page, Proved!Record!Page,
       Record!AtMost, Proved!Record!AtMost, Record!Only, Proved!Record!Only, Record!Beyond, Proved!Record!Beyond,
       Record!Kept, Proved!Record!Kept
<1> QED BY <1>1, <1>2, <1>3, <1>4, <1>5, <1>6

RecordInv == part = "record" => Proved!RecordInv

LEMMA RecordMoves == ASSUME part = "record", [Next]_vars PROVE [Proved!Record!Next]_(Proved!Record!vars)
<1>1. Record!Next \/ UNCHANGED slots
  BY Zenon DEF Next, vars
<1> QED BY <1>1, RecordSame DEF slots, Proved!Record!vars

LEMMA RecordInvHolds == (Init => RecordInv) /\ (RecordInv /\ [Next]_vars => RecordInv')
<1>1. Init => RecordInv
  <2>1. Init /\ part = "record" => Record!Init
    BY Zenon DEF Init
  <2> QED BY <2>1, RecordSound, RecordSame, Proved!RecordInit DEF RecordInv
<1>2. RecordInv /\ [Next]_vars => RecordInv'
  BY PartStays, RecordMoves, RecordSound, Proved!RecordStep DEF RecordInv
<1> QED BY <1>1, <1>2

\* What a stop of the worker found queued is stored unless SQLite refused it; the table is in the
\* order of publication; an event is filed under a session that was open when it was published
\* (persistence_worker.py, runtime_control.py).
THEOREM RecordsAreTrue == Spec => []RecordIsTrue
<1>1. RecordInv => RecordIsTrue
  BY RecordSame, Proved!RecordHolds DEF RecordInv, RecordIsTrue
<1> QED BY <1>1, RecordInvHolds, PTL DEF Spec

\* A page of the steps that a reader was shown only ever grows at its end, whatever is stored
\* meanwhile (event_store.py).
THEOREM PagesAlwaysStay == Spec => PagesStay
<1>1. RecordInv /\ [Next]_vars => [part = "record" => Record!PageStays]_vars
  BY RecordMoves, RecordSound, RecordSame, Proved!StepPageStays DEF RecordInv
<1> QED BY <1>1, RecordInvHolds, PTL DEF Spec, PagesStay

-----------------------------------------------------------------------------
(* The gates: the limiter, the paths and the doors of a command.           *)

LEMMA LimiterSound == Proved!LimiterSound
<1>1. IsFiniteSet({"k1", "k2"})
  <2>1. IsFiniteSet({"k1"}) /\ IsFiniteSet({"k2"}) /\ {"k1", "k2"} = {"k1"} \cup {"k2"}
    BY FS_Singleton
  <2> QED BY <2>1, FS_Union
<1>2. None \notin {"k1", "k2"} /\ None \notin [start : 0..7, count : 0..2]
  BY NoneAssumption, Zenon
<1> QED BY <1>1, <1>2 DEF Proved!LimiterSound, IsFiniteSet, Proved!IsFiniteSet

LEMMA LimiterSame ==
    /\ Limiter!Init <=> Proved!Limiter!Init
    /\ Limiter!Next <=> Proved!Limiter!Next
    /\ Limiter!AtMostTwiceTheLimit <=> Proved!Limiter!AtMostTwiceTheLimit
<1>1. Limiter!Init <=> Proved!Limiter!Init
  BY Zenon DEF Limiter!Init, Proved!Limiter!Init, Limiter!Nobody, Proved!Limiter!Nobody, Limiter!Age,
       Proved!Limiter!Age
<1>2. Limiter!Next <=> Proved!Limiter!Next
  BY Zenon DEF Limiter!Next, Proved!Limiter!Next, Limiter!Pass, Proved!Limiter!Pass, Limiter!Refuse,
       Proved!Limiter!Refuse, Limiter!Tick, Proved!Limiter!Tick, Limiter!Current, Proved!Limiter!Current,
       Limiter!Kept, Proved!Limiter!Kept, Limiter!Due, Proved!Limiter!Due, Limiter!Pruned, Proved!Limiter!Pruned,
       Limiter!Victims, Proved!Limiter!Victims, Limiter!Cardinality, Proved!Limiter!Cardinality, Limiter!Nobody,
       Proved!Limiter!Nobody, Limiter!Age, Proved!Limiter!Age
<1>3. Limiter!AtMostTwiceTheLimit <=> Proved!Limiter!AtMostTwiceTheLimit
  BY Zenon DEF Limiter!AtMostTwiceTheLimit, Proved!Limiter!AtMostTwiceTheLimit, Limiter!Lately,
       Proved!Limiter!Lately
<1> QED BY <1>1, <1>2, <1>3

LEMMA AccessSame ==
    /\ Access!Init <=> Proved!Access!Init
    /\ Access!Guard <=> Proved!Access!Guard
    /\ Access!StrictestRuleDecides <=> Proved!Access!StrictestRuleDecides
<1>0. Access!Rules = Proved!Access!Rules /\ Access!PublicControl = Proved!Access!PublicControl
  BY Zenon DEF Access!Rules, Proved!Access!Rules, Access!PublicControl, Proved!Access!PublicControl, Access!Rule,
       Proved!Access!Rule, Access!All, Proved!Access!All
<1>1. Access!Init <=> Proved!Access!Init
  <2>1. Access!Stems = Proved!Access!Stems
    BY <1>0, Zenon DEF Access!Stems, Proved!Access!Stems, Access!Logins, Proved!Access!Logins
  <2>2. Access!Paths = Proved!Access!Paths
    BY <2>1 DEF Access!Paths, Proved!Access!Paths
  <2>3. Access!Request = Proved!Access!Request
    BY <2>2, Zenon DEF Access!Request, Proved!Access!Request, Access!All, Proved!Access!All
  <2> QED BY <2>3, Zenon DEF Access!Init, Proved!Access!Init
<1>2. Access!Guard <=> Proved!Access!Guard
  <2>1. \A rule, r : Access!Matches(rule, r) <=> Proved!Access!Matches(rule, r)
    BY Zenon DEF Access!Matches, Proved!Access!Matches, Access!All, Proved!Access!All, Access!IsPrefix,
         Proved!Access!IsPrefix
  <2>2. \A r : Access!RequiredRole(r) = Proved!Access!RequiredRole(r)
    BY Zenon DEF Access!Min, Proved!Access!Min, Access!RequiredRole, Proved!Access!RequiredRole, Access!SelectInSeq, Proved!Access!SelectInSeq,
       Access!Matches, Proved!Access!Matches, Access!Rules, Proved!Access!Rules, Access!Rule, Proved!Access!Rule,
       Access!All, Proved!Access!All, Access!IsPrefix, Proved!Access!IsPrefix
  <2>3. \A r : Access!Counted(r) <=> Proved!Access!Counted(r)
    BY <1>0, <2>1, <2>2, Zenon DEF Access!Counted, Proved!Access!Counted, Access!All, Proved!Access!All
  <2>4. \A r : Access!Claims(r) = Proved!Access!Claims(r)
    BY Zenon DEF Access!Claims, Proved!Access!Claims, Access!Streams, Proved!Access!Streams, Access!All,
         Proved!Access!All, Access!IsPrefix, Proved!Access!IsPrefix
  <2>5. \A a, b : Access!HasRole(a, b) <=> Proved!Access!HasRole(a, b)
    BY Zenon DEF Access!HasRole, Proved!Access!HasRole, Access!Level, Proved!Access!Level
  <2>6. Access!Answer(s1) = Proved!Access!Answer(s1)
    BY <2>2, <2>3, <2>4, <2>5, Zenon DEF Access!Answer, Proved!Access!Answer, Access!Logins, Proved!Access!Logins,
         Access!All, Proved!Access!All
  <2> QED BY <2>6, Zenon DEF Access!Guard, Proved!Access!Guard
<1>3. Access!StrictestRuleDecides <=> Proved!Access!StrictestRuleDecides
  BY Zenon DEF Access!StrictestRuleDecides, Proved!Access!StrictestRuleDecides, Access!Claims,
       Proved!Access!Claims, Access!HasRole, Proved!Access!HasRole, Access!Level, Proved!Access!Level,
       Access!Matches, Proved!Access!Matches, Access!Streams, Proved!Access!Streams, Access!Logins,
       Proved!Access!Logins, Access!Rules, Proved!Access!Rules, Access!Rule, Proved!Access!Rule, Access!All,
       Proved!Access!All, Access!IsPrefix, Proved!Access!IsPrefix
<1> QED BY <1>1, <1>2, <1>3

LEMMA EntrySame ==
    /\ Entry!Init <=> Proved!Doors!Init
    /\ Entry!Handle <=> Proved!Doors!Handle
    /\ Entry!SameWordSameEvents <=> Proved!Doors!SameWordSameEvents
<1>1. Entry!Init <=> Proved!Doors!Init
  BY Zenon DEF Entry!Init, Proved!Doors!Init, Entry!Request, Proved!Doors!Request, Entry!Spoken,
       Proved!Doors!Spoken, Entry!Meaning, Proved!Doors!Meaning, Entry!Unsaid, Proved!Doors!Unsaid
<1>2. Entry!Handle <=> Proved!Doors!Handle
  BY Zenon DEF Entry!Handle, Proved!Doors!Handle, Entry!Answer, Proved!Doors!Answer, Entry!Published,
       Proved!Doors!Published, Entry!SocketAnswer, Proved!Doors!SocketAnswer, Entry!RouteAnswer,
       Proved!Doors!RouteAnswer, Entry!RoutePublished, Proved!Doors!RoutePublished, Entry!Known,
       Proved!Doors!Known, Entry!SocketDispatched, Proved!Doors!SocketDispatched, Entry!Dispatched,
       Proved!Doors!Dispatched, Entry!Toast, Proved!Doors!Toast, Entry!Reset, Proved!Doors!Reset, Entry!Analysis,
       Proved!Doors!Analysis, Entry!Event, Proved!Doors!Event, Entry!Meaning, Proved!Doors!Meaning, Entry!Unsaid,
       Proved!Doors!Unsaid
<1>3. Entry!SameWordSameEvents <=> Proved!Doors!SameWordSameEvents
  BY Zenon DEF Entry!SameWordSameEvents, Proved!Doors!SameWordSameEvents, Entry!Dispatched,
       Proved!Doors!Dispatched, Entry!Toast, Proved!Doors!Toast, Entry!Reset, Proved!Doors!Reset, Entry!Analysis,
       Proved!Doors!Analysis, Entry!Event, Proved!Doors!Event, Entry!Meaning, Proved!Doors!Meaning, Entry!Unsaid,
       Proved!Doors!Unsaid
<1> QED BY <1>1, <1>2, <1>3

GatesInv ==
    /\ part = "limiter" => Proved!LimiterInv
    /\ part = "access" => Proved!AccessInv
    /\ part = "entry" => Proved!EntryInv

LEMMA GatesInit == ASSUME Init PROVE GatesInv
<1>1. /\ part = "limiter" => Limiter!Init
      /\ part = "access" => Access!Init
      /\ part = "entry" => Entry!Init
  BY Zenon DEF Init
<1> QED BY <1>1, LimiterSound, LimiterSame, AccessSame, EntrySame, Proved!LimiterInit, Proved!AccessInvHolds,
           Proved!EntryInvHolds DEF GatesInv

LEMMA GatesStep == ASSUME GatesInv, [Next]_vars PROVE GatesInv'
<1>1. CASE part = "limiter"
  <2>1. Limiter!Next \/ UNCHANGED slots
    BY <1>1, Zenon DEF Next, vars
  <2>2. [Proved!Limiter!Next]_(Proved!Limiter!vars)
    BY <2>1, LimiterSame DEF slots, Proved!Limiter!vars
  <2> QED BY <1>1, <2>2, PartStays, LimiterSound, Proved!LimiterStep DEF GatesInv
<1>2. CASE part = "access"
  <2>1. Access!Guard \/ UNCHANGED slots
    BY <1>2, Zenon DEF Next, vars
  <2>2. [Proved!Access!Guard]_(Proved!Access!vars)
    BY <2>1, AccessSame DEF slots, Proved!Access!vars
  <2> QED BY <1>2, <2>2, PartStays, Proved!AccessInvHolds DEF GatesInv
<1>3. CASE part = "entry"
  <2>1. Entry!Handle \/ UNCHANGED slots
    BY <1>3, Zenon DEF Next, vars
  <2>2. [Proved!Doors!Handle]_(Proved!Doors!vars)
    BY <2>1, EntrySame DEF slots, Proved!Doors!vars
  <2> QED BY <1>3, <2>2, PartStays, Proved!EntryInvHolds DEF GatesInv
<1>4. CASE part \notin {"limiter", "access", "entry"}
  BY <1>4, PartStays DEF GatesInv
<1> QED BY <1>1, <1>2, <1>3, <1>4

\* Who may do what does not depend on the way in (utils/rate_limit.py, api/auth_guard.py,
\* control_routes.py, socket_handler.py).
THEOREM GatesAlwaysHold == Spec => []GatesHold
<1>1. GatesInv /\ [Next]_vars => GatesInv'
  BY GatesStep
<1>2. GatesInv => GatesHold
  BY LimiterSound, LimiterSame, AccessSame, EntrySame, Proved!LimiterHolds, Proved!AccessHolds, Proved!EntryHolds
     DEF GatesInv, GatesHold
<1> QED BY GatesInit, <1>1, <1>2, PTL DEF Spec

-----------------------------------------------------------------------------
(* The sheet of moves.                                                     *)

LEMMA SheetSound == Proved!SheetSound
  BY DEF Proved!SheetSound

LEMMA SheetSame ==
    /\ Sheet!Init <=> Proved!Sheet!Init
    /\ Sheet!Next <=> Proved!Sheet!Next
    /\ Sheet!RowsTellTheRound <=> Proved!Sheet!RowsTellTheRound
<1>1. Sheet!Init <=> Proved!Sheet!Init
  BY Zenon DEF Sheet!Init, Proved!Sheet!Init
<1>2. Sheet!Next <=> Proved!Sheet!Next
  BY Zenon DEF Sheet!Next, Proved!Sheet!Next, Sheet!RedPlays, Proved!Sheet!RedPlays, Sheet!Analysed,
       Proved!Sheet!Analysed, Sheet!Started, Proved!Sheet!Started, Sheet!Completed, Proved!Sheet!Completed,
       Sheet!Recognised, Proved!Sheet!Recognised, Sheet!Store, Proved!Sheet!Store
<1>3. Sheet!RowsTellTheRound <=> Proved!Sheet!RowsTellTheRound
  BY Zenon DEF Sheet!RowsTellTheRound, Proved!Sheet!RowsTellTheRound, Sheet!Rows, Proved!Sheet!Rows, Sheet!Written,
       Proved!Sheet!Written, Sheet!AddRow, Proved!Sheet!AddRow, Sheet!Enters, Proved!Sheet!Enters, Sheet!After,
       Proved!Sheet!After, Sheet!Before, Proved!Sheet!Before, Sheet!Side, Proved!Sheet!Side, Sheet!Owner,
       Proved!Sheet!Owner, Sheet!Actor, Proved!Sheet!Actor, Sheet!IsMove, Proved!Sheet!IsMove
<1> QED BY <1>1, <1>2, <1>3

SheetInv == part = "sheet" => Proved!SheetInv

\* Every row of the sheet of moves tells the side that played the move and its round
\* (excel_exporter.py).
THEOREM RowsAlwaysTell == Spec => []RowsTellTheRound
<1>1. Init => SheetInv
  <2>1. Init /\ part = "sheet" => Sheet!Init
    BY Zenon DEF Init
  <2> QED BY <2>1, SheetSound, SheetSame, Proved!SheetInit DEF SheetInv
<1>2. SheetInv /\ [Next]_vars => SheetInv'
  <2> SUFFICES ASSUME SheetInv, [Next]_vars, part = "sheet" PROVE Proved!SheetInv'
    BY PartStays DEF SheetInv
  <2>1. Sheet!Next \/ UNCHANGED slots
    BY Zenon DEF Next, vars
  <2>2. [Proved!Sheet!Next]_(Proved!Sheet!vars)
    BY <2>1, SheetSame DEF slots, Proved!Sheet!vars
  <2> QED BY <2>2, SheetSound, Proved!SheetStep DEF SheetInv
<1>3. SheetInv => RowsTellTheRound
  BY SheetSame, Proved!SheetHolds DEF SheetInv, RowsTellTheRound
<1> QED BY <1>1, <1>2, <1>3, PTL DEF Spec

-----------------------------------------------------------------------------
(* The dashboard.                                                          *)

LEMMA HappeningIs ==
    \A prefix, words, source, module, status, severity, trace :
        words # {} => Happening(prefix, words, source, module, status, severity, trace).words # {}
  BY DEF Happening

LEMMA HappeningsWorded == \A e \in Happenings : e.words # {}
<1> DEFINE Worded(e) == e.words # {}
<1>1. \A prefix, words, source, module, status, severity, trace :
        words # {} => Worded(Happening(prefix, words, source, module, status, severity, trace))
  BY HappeningIs
<1> HIDE DEF Worded
<1>2. /\ Worded(Happening("ROBOT", {"ROBOT", "ERROR"}, {"robot"}, "", "", "", "t1"))
      /\ Worded(Happening("ROBOT", {"ROBOT", "DISCONNECTED", "CONNECTED"}, {"worker"}, "", "disconnected", "", "t1"))
  <2>1. {"ROBOT", "ERROR"} # {} /\ {"ROBOT", "DISCONNECTED", "CONNECTED"} # {}
    OBVIOUS
  <2> QED BY <1>1, <2>1
<1>3. /\ Worded(Happening("DIAGNOSTICS", {"DIAGNOSTICS", "UPDATED"}, {"monitor"}, "metrics", "", "", "t2"))
      /\ Worded(Happening("STATE", {"STATE", "UPDATED"}, {"reducer"}, "", "", "", "t3"))
  <2>1. {"DIAGNOSTICS", "UPDATED"} # {} /\ {"STATE", "UPDATED"} # {}
    OBVIOUS
  <2> QED BY <1>1, <2>1
<1>4. Worded(Happening("SYSTEM", {"SYSTEM", "WARNING"}, {"workflow"}, "ai", "blocked_preflight", "critical", ""))
  <2>1. {"SYSTEM", "WARNING"} # {}
    OBVIOUS
  <2> QED BY <1>1, <2>1
<1>5. \A e \in Happenings : Worded(e)
  BY <1>2, <1>3, <1>4, Zenon DEF Happenings
<1> QED BY <1>5 DEF Worded

LEMMA DashSound == Proved!DashSound
<1>1. None \notin Proved!Told
  BY NoEventAssumption, Zenon DEF Proved!Told, Dashboard!Modules, Proved!Dashboard!Modules, Dashboard!Statuses,
       Proved!Dashboard!Statuses
<1> QED BY <1>1, HappeningsWorded DEF Proved!DashSound

LEMMA DashSame ==
    /\ Dashboard!Init <=> Proved!Dashboard!Init
    /\ Dashboard!Next <=> Proved!Dashboard!Next
    /\ Dashboard!ListsAgree <=> Proved!Dashboard!ListsAgree
    /\ Dashboard!PictureIsLatest <=> Proved!Dashboard!PictureIsLatest
<1>1. Dashboard!Init <=> Proved!Dashboard!Init
  BY Zenon DEF Dashboard!Init, Proved!Dashboard!Init, Dashboard!Modules, Proved!Dashboard!Modules, Dashboard!Edges,
       Proved!Dashboard!Edges
<1>2. Dashboard!Next <=> Proved!Dashboard!Next
  BY Zenon DEF Dashboard!Next, Proved!Dashboard!Next, Dashboard!Record, Proved!Dashboard!Record, Dashboard!First,
       Proved!Dashboard!First, Dashboard!ModuleAlias, Proved!Dashboard!ModuleAlias, Dashboard!KnownModule,
       Proved!Dashboard!KnownModule, Dashboard!ModuleRules, Proved!Dashboard!ModuleRules, Dashboard!ModuleOf,
       Proved!Dashboard!ModuleOf, Dashboard!StatusAlias, Proved!Dashboard!StatusAlias, Dashboard!NormalStatus,
       Proved!Dashboard!NormalStatus, Dashboard!StatusRules, Proved!Dashboard!StatusRules, Dashboard!StatusOf,
       Proved!Dashboard!StatusOf, Dashboard!SeverityOf, Proved!Dashboard!SeverityOf, Dashboard!Normalized,
       Proved!Dashboard!Normalized, Dashboard!Warns, Proved!Dashboard!Warns, Dashboard!Statuses,
       Proved!Dashboard!Statuses, Dashboard!Modules, Proved!Dashboard!Modules, Dashboard!Latest,
       Proved!Dashboard!Latest, Dashboard!Pushed, Proved!Dashboard!Pushed, Dashboard!Used, Proved!Dashboard!Used,
       Dashboard!Traced, Proved!Dashboard!Traced, Dashboard!RemoveAt, Proved!Dashboard!RemoveAt, Dashboard!EdgesOf,
       Proved!Dashboard!EdgesOf, Dashboard!Edges, Proved!Dashboard!Edges
<1>3. Dashboard!ListsAgree <=> Proved!Dashboard!ListsAgree
  BY Zenon DEF Dashboard!ListsAgree, Proved!Dashboard!ListsAgree, Dashboard!Warns, Proved!Dashboard!Warns,
       Dashboard!Used, Proved!Dashboard!Used
<1>4. Dashboard!PictureIsLatest <=> Proved!Dashboard!PictureIsLatest
  BY Zenon DEF Dashboard!PictureIsLatest, Proved!Dashboard!PictureIsLatest, Dashboard!PipelineStatus,
       Proved!Dashboard!PipelineStatus, Dashboard!Timeline, Proved!Dashboard!Timeline, Dashboard!Used,
       Proved!Dashboard!Used, Dashboard!NodeStatus, Proved!Dashboard!NodeStatus, Dashboard!ShownEdge,
       Proved!Dashboard!ShownEdge, Dashboard!EdgeStatus, Proved!Dashboard!EdgeStatus, Dashboard!EdgesOf,
       Proved!Dashboard!EdgesOf
<1> QED BY <1>1, <1>2, <1>3, <1>4

DashInv == part = "dashboard" => Proved!DashInv

\* The lists of events agree with one another, and the picture shows the latest event of
\* everything it shows (observability/telemetry.py).
THEOREM DashboardAlwaysLatest == Spec => []DashboardIsLatest
<1>1. Init => DashInv
  <2>1. Init /\ part = "dashboard" => Dashboard!Init
    BY Zenon DEF Init
  <2> QED BY <2>1, DashSound, DashSame, Proved!DashInit DEF DashInv
<1>2. DashInv /\ [Next]_vars => DashInv'
  <2> SUFFICES ASSUME DashInv, [Next]_vars, part = "dashboard" PROVE Proved!DashInv'
    BY PartStays DEF DashInv
  <2>1. Dashboard!Next \/ UNCHANGED slots
    BY Zenon DEF Next, vars
  <2>2. [Proved!Dashboard!Next]_(Proved!Dashboard!vars)
    BY <2>1, DashSame DEF slots, Proved!Dashboard!vars
  <2> QED BY <2>2, DashSound, Proved!DashStep DEF DashInv
<1>3. DashInv => DashboardIsLatest
  BY DashSound, DashSame, Proved!ListsHold, Proved!PictureHolds DEF DashInv, DashboardIsLatest
<1> QED BY <1>1, <1>2, <1>3, PTL DEF Spec

-----------------------------------------------------------------------------
(* The registers.                                                          *)

\* A written coordinate is off by half a register unit at most.
LEMMA RoundingIsClose ==
    ASSUME NEW x \in Int
    PROVE  /\ ScaledInt(x) \in Int
           /\ 2 * ((ScaledInt(x) * Parts) - x) <= Parts
           /\ 2 * (x - (ScaledInt(x) * Parts)) <= Parts
<1> DEFINE q == x \div Parts
           m == x % Parts
<1>1. q \in Int /\ m \in 0..(Parts - 1) /\ x = (Parts * q) + m
  BY PartsAssumption, SMT
<1>2. (q + 1) * Parts = (Parts * q) + Parts /\ q * Parts = Parts * q
  BY <1>1, PartsAssumption, SMT
<1>3. ScaledInt(x) = q \/ ScaledInt(x) = q + 1
  BY DEF ScaledInt
<1>4. CASE ScaledInt(x) = q
  <2>1. 2 * m <= Parts \/ Parts = 0
    BY <1>1, <1>4, PartsAssumption, SMT DEF ScaledInt
  <2> QED BY <2>1, <1>1, <1>2, <1>4, PartsAssumption, SMT
<1>5. CASE ScaledInt(x) = q + 1
  <2>1. 2 * m >= Parts
    BY <1>1, <1>5, PartsAssumption, SMT DEF ScaledInt
  <2> QED BY <2>1, <1>1, <1>2, <1>5, PartsAssumption, SMT
<1> QED BY <1>3, <1>4, <1>5

\* One register holds every signed value that fits, and gives it back.
LEMMA RegisterReadsBack ==
    ASSUME NEW size \in Nat, NEW h \in Nat \ {0}, size = 2 * h,
           NEW v \in Int, Fits(v, size)
    PROVE  /\ ToRegister(v, size) \in 0..(size - 1)
           /\ FromRegister(ToRegister(v, size), size) = v
<1>1. size \div 2 = h
  BY SMT
<1>2. -h <= v /\ v < h
  BY <1>1 DEF Fits
<1>3. ToRegister(v, size) \in 0..(size - 1)
  BY <1>2, SMT DEF ToRegister
<1>4. ToRegister(v, size) % size = ToRegister(v, size)
  BY <1>3, SMT
<1>5. FromRegister(ToRegister(v, size), size) = v
  BY <1>1, <1>2, <1>4, SMT DEF FromRegister, ToRegister
<1> QED BY <1>3, <1>5

\* A pair of registers holds every 32-bit value and gives it back (read_telemetry
\* after write_pose_registers), each half within its register.
THEOREM PairReadsBack ==
    ASSUME NEW v \in Int, Fits(v, Word * Word)
    PROVE  /\ ToPair(v)[1] \in 0..(Word - 1) /\ ToPair(v)[2] \in 0..(Word - 1)
           /\ FromPair(ToPair(v)) = v
<1>1. PICK h \in Nat \ {0} : Word = 2 * h
  <2>1. Word \div 2 \in Nat \ {0} /\ Word = 2 * (Word \div 2)
    BY WordAssumption, SMT
  <2> QED BY <2>1
<1> DEFINE size == Word * Word
           u == ToRegister(v, size)
           high == u \div Word
           low == u % Word
<1>2. Word \in Nat \ {0} /\ size \in Nat /\ h * Word \in Nat \ {0} /\ size = 2 * (h * Word)
  BY <1>1, SMT
<1>3. u \in 0..(size - 1) /\ FromRegister(u, size) = v
  BY <1>2, RegisterReadsBack
<1> HIDE DEF u
<1>4. high \in Int /\ low \in 0..(Word - 1) /\ u = (Word * high) + low
  BY <1>2, <1>3, SMT
<1>5. high >= 0
  BY <1>2, <1>3, <1>4, SMT
<1>6. high < Word
  <2> HIDE DEF high, low
  <2>1. SUFFICES ASSUME high >= Word PROVE FALSE
    BY <1>2, <1>4
  <2>2. PICK k \in Nat : high = Word + k
    <3>1. high - Word \in Nat /\ high = Word + (high - Word)
      BY <2>1, <1>2, <1>4, SMT
    <3> QED BY <3>1
  <2>3. Word * high = size + (Word * k) /\ Word * k >= 0
    BY <2>2, <1>2, SMT
  <2> QED BY <2>3, <1>2, <1>3, <1>4, SMT
<1>7. high % Word = high /\ low % Word = low
  <2> HIDE DEF high, low
  <2> QED BY <1>2, <1>4, <1>5, <1>6, SMT
<1>8. ToPair(v) = << high, low >>
  BY DEF ToPair, u
<1>9. ((high % Word) * Word) + (low % Word) = u
  <2> HIDE DEF high, low
  <2> QED BY <1>2, <1>4, <1>7, SMT
<1>10. FromPair(ToPair(v)) = v
  BY <1>3, <1>8, <1>9 DEF FromPair
<1>11. high \in 0..(Word - 1) /\ low \in 0..(Word - 1)
  <2> HIDE DEF high, low
  <2> QED BY <1>2, <1>4, <1>5, <1>6, SMT
<1>12. ToPair(v)[1] = high /\ ToPair(v)[2] = low
  <2> HIDE DEF high, low
  <2> QED BY <1>8
<1> QED BY <1>10, <1>11, <1>12
-----------------------------------------------------------------------------
(* The pieces.                                                             *)

Robot == INSTANCE RobotParts_proofs WITH
    Caller <- {"ca", "cb"}, Place <- Squares, DeadZone <- "dead", Safe <- Squares,
    Moves <- {[from |-> "a", to |-> "b", capture |-> TRUE], [from |-> "c", to |-> "d", capture |-> FALSE]},
    Piece <- {"p1", "p2", "p3"}, Board <- [p1 |-> "a", p2 |-> "b", p3 |-> "c"],
    reg <- s1, tm <- s2, arm <- s3, closed <- s4, at <- s5, lastId <- s6, lock <- s7, call <- s8, used <- s9,
    SetupThread <- {"h1", "h2"}, SettingsRequests <- SettingsAsked, CalRequests <- CalibrationsAsked,
    ScriptInputs <- ScriptFiles, Tests <- TestsAsked, Env <- EnvironmentLimits, Default <- DefaultSettings,
    Production <- TRUE, Keyed <- FALSE, Word <- SettingWords, MaxRequests <- 2, MaxRestarts <- 1,
    live <- s1, conf <- s2, calFile <- s3, setFile <- s4, temp <- s5, report <- s6, job <- s7, script <- s8, up <- s9,
    requests <- s10, restarts <- s11, disturbed <- s12,
    BoardCols <- 3, BoardRows <- 3, Unit <- 10, Anchor <- <<5, 5>>, Boxes <- BoxesSeen, Labels <- LabelsSeen,
    Confidences <- {40, 80}, MaxDetections <- 3, detected <- s1, occupied <- s2, best <- s3,
    Positions <- {Endgame, Horses}, Ghosts <- {<<<<5, 5>>, Black("p")>>}, Dim <- {<<2, 1>>}, Fusing <- 3, MaxPly <- 1,
    truth <- s1, position <- s2, history <- s3, verdict <- s4, ply <- s5

LEMMA PickingSound == Robot!Sound
  BY NoneAssumption DEF Robot!Sound, Squares

LEMMA PickingSame ==
    /\ Picking!Init <=> Robot!Init
    /\ Picking!Next <=> Robot!Next
    /\ Picking!SuccessMeansPlaced <=> Robot!SuccessMeansPlaced
    /\ Picking!NothingIsDropped <=> Robot!NothingIsDropped
<1>1. Picking!Init <=> Robot!Init
  BY Zenon DEF Picking!Init, Robot!Init, Picking!NoPose, Robot!NoPose, Picking!Between,
       Robot!Between, Picking!NoCall, Robot!NoCall
<1>2. Picking!Next <=> Robot!Next
  BY Zenon DEF Picking!Next, Robot!Next, Picking!Service, Robot!Service, Picking!Sender,
       Robot!Sender, Picking!Restart, Robot!Restart, Picking!TMflow, Robot!TMflow,
       Picking!MovePiece, Robot!MovePiece, Picking!Motion, Robot!Motion, Picking!MotionEnds,
       Robot!MotionEnds, Picking!SetGripper, Robot!SetGripper, Picking!Return, Robot!Return,
       Picking!MotionTimeout, Robot!MotionTimeout, Picking!HaltAndFail, Robot!HaltAndFail,
       Picking!Join, Robot!Join, Picking!WriteId, Robot!WriteId, Picking!WritePose,
       Robot!WritePose, Picking!SetTrigger, Robot!SetTrigger, Picking!Acked, Robot!Acked,
       Picking!Started, Robot!Started, Picking!ReadStatus, Robot!ReadStatus, Picking!ReadAck,
       Robot!ReadAck, Picking!GivesUp, Robot!GivesUp, Picking!Cleanup, Robot!Cleanup,
       Picking!TmAccept, Robot!TmAccept, Picking!TmAcks, Robot!TmAcks, Picking!TmMoves,
       Robot!TmMoves, Picking!TmArrives, Robot!TmArrives, Picking!TmStops, Robot!TmStops,
       Picking!TmIdleHalt, Robot!TmIdleHalt, Picking!TmRearms, Robot!TmRearms, Picking!TmKeeps,
       Robot!TmKeeps, Picking!SenderReads, Robot!SenderReads, Picking!SenderKeeps,
       Robot!SenderKeeps, Picking!Goal, Robot!Goal, Picking!Write, Robot!Write, Picking!To,
       Robot!To, Picking!Ends, Robot!Ends, Picking!Placed, Robot!Placed, Picking!Gripped,
       Robot!Gripped, Picking!Fails, Robot!Fails, Picking!Step, Robot!Step, Picking!Running,
       Robot!Running, Picking!Fit, Robot!Fit, Picking!On, Robot!On, Picking!Targets,
       Robot!Targets, Picking!Plan, Robot!Plan, Picking!PickAndPlace, Robot!PickAndPlace,
       Picking!Go, Robot!Go, Picking!Grip, Robot!Grip, Picking!plant, Robot!plant,
       Picking!NoCall, Robot!NoCall, Picking!Between, Robot!Between, Picking!NoPose,
       Robot!NoPose
<1>3. Picking!SuccessMeansPlaced <=> Robot!SuccessMeansPlaced
  BY Zenon DEF Picking!SuccessMeansPlaced, Robot!SuccessMeansPlaced, Picking!Placed, Robot!Placed,
       Picking!On, Robot!On
<1>4. Picking!NothingIsDropped <=> Robot!NothingIsDropped
  BY Zenon DEF Picking!NothingIsDropped, Robot!NothingIsDropped, Picking!On, Robot!On
<1> QED BY <1>1, <1>2, <1>3, <1>4

PickingInv == part = "picking" => Robot!IInv

\* A move reported done has put the piece on its square, the captured one into the dead zone and
\* opened the gripper; nothing is ever let go in the air (robot_service.py, modbus_adapter.py).
THEOREM PiecesArrive == Spec => []PiecesGoWhereSent
<1>1. Init => PickingInv
  <2>1. Init /\ part = "picking" => Picking!Init
    BY Zenon DEF Init
  <2> QED BY <2>1, PickingSound, PickingSame, Robot!InitIInv DEF PickingInv
<1>2. PickingInv /\ [Next]_vars => PickingInv'
  <2> SUFFICES ASSUME PickingInv, [Next]_vars, part = "picking" PROVE Robot!IInv'
    BY PartStays DEF PickingInv
  <2>1. Picking!Next \/ UNCHANGED slots
    BY Zenon DEF Next, vars
  <2>2. [Robot!Next]_(Robot!vars)
    BY <2>1, PickingSame DEF slots, Robot!vars
  <2> QED BY <2>2, PickingSound, Robot!StepIInv DEF PickingInv
<1>3. PickingInv => PiecesGoWhereSent
  BY PickingSound, PickingSame, Robot!InvMeansPlaced DEF PickingInv, PiecesGoWhereSent, Robot!IInv
<1> QED BY <1>1, <1>2, <1>3, PTL DEF Spec

-----------------------------------------------------------------------------
(* The settings and the calibration.                                       *)
(*                                                                         *)
(* Both instances of SetupSettings define the same operators: one lemma    *)
(* each, from the helpers up to the next-state relation.                   *)

LEMMA SameOver == \A f, g : Settings!Over(f, g) = Robot!Setup!Over(f, g)
  BY Zenon DEF Settings!Over, Robot!Setup!Over

LEMMA SameLoadSection == \A F, file, env, default, production :
    Settings!LoadSection(F, file, env, default, production) = Robot!Setup!LoadSection(F, file, env, default, production)
  BY Zenon DEF Settings!LoadSection, Robot!Setup!LoadSection, Settings!Setting, Robot!Setup!Setting

LEMMA SameSections ==
    /\ Settings!VisionFields = Robot!Setup!VisionFields
    /\ Settings!CaptureFields = Robot!Setup!CaptureFields
    /\ Settings!RuntimeFields = Robot!Setup!RuntimeFields
    /\ Settings!LinkFields = Robot!Setup!LinkFields
    /\ Settings!JsonFields = Robot!Setup!JsonFields
    /\ Settings!MotionFields = Robot!Setup!MotionFields
  BY Zenon DEF Settings!VisionFields, Robot!Setup!VisionFields, Settings!CaptureFields, Robot!Setup!CaptureFields,
       Settings!RuntimeFields, Robot!Setup!RuntimeFields, Settings!LinkFields, Robot!Setup!LinkFields,
       Settings!JsonFields, Robot!Setup!JsonFields, Settings!MotionFields, Robot!Setup!MotionFields

LEMMA SameSourceAlias == \A w : Settings!SourceAlias(w) = Robot!Setup!SourceAlias(w)
  BY Zenon DEF Settings!SourceAlias, Robot!Setup!SourceAlias

LEMMA SameWords == Settings!Words = Robot!Setup!Words
  BY Zenon DEF Settings!Words, Robot!Setup!Words

LEMMA SameVisionLoaded == \A file, env, default, production :
    Settings!VisionLoaded(file, env, default, production) = Robot!Setup!VisionLoaded(file, env, default, production)
  BY SameLoadSection, SameSections, SameSourceAlias, SameWords, SMT DEF Settings!VisionLoaded,
       Robot!Setup!VisionLoaded

LEMMA SameMarks ==
    /\ Settings!Registers = Robot!Setup!Registers
    /\ Settings!Codes = Robot!Setup!Codes
  BY Zenon DEF Settings!Registers, Robot!Setup!Registers, Settings!Codes, Robot!Setup!Codes

LEMMA SameBounds == Settings!Bounds = Robot!Setup!Bounds
  BY SMT DEF Settings!Bounds, Robot!Setup!Bounds

LEMMA SameKinds ==
    /\ Settings!Texts = Robot!Setup!Texts
    /\ Settings!Flags = Robot!Setup!Flags
    /\ Settings!Finite = Robot!Setup!Finite
    /\ Settings!Unstored = Robot!Setup!Unstored
  BY Zenon DEF Settings!Texts, Robot!Setup!Texts, Settings!Flags, Robot!Setup!Flags, Settings!Finite,
       Robot!Setup!Finite, Settings!Positive, Robot!Setup!Positive, Settings!Unstored, Robot!Setup!Unstored

LEMMA SameFieldSets ==
    /\ Settings!SquareFields = Robot!Setup!SquareFields
    /\ Settings!Bounded = Robot!Setup!Bounded
    /\ Settings!ModbusFields = Robot!Setup!ModbusFields
    /\ Settings!Fields = Robot!Setup!Fields
  BY SameMarks, SameBounds, SameWords, SameKinds, Zenon DEF Settings!SquareFields, Robot!Setup!SquareFields,
       Settings!Bounded, Robot!Setup!Bounded, Settings!ModbusFields, Robot!Setup!ModbusFields, Settings!Fields,
       Robot!Setup!Fields

LEMMA SameLoaders ==
    \A file, env, default, production :
        /\ Settings!CaptureLoaded(file, env, default, production)
           = Robot!Setup!CaptureLoaded(file, env, default, production)
        /\ Settings!RuntimeLoaded(file, env, default, production)
           = Robot!Setup!RuntimeLoaded(file, env, default, production)
        /\ Settings!JsonLoaded(file, env, default, production)
           = Robot!Setup!JsonLoaded(file, env, default, production)
        /\ Settings!MotionLoaded(file, env, default, production)
           = Robot!Setup!MotionLoaded(file, env, default, production)
        /\ Settings!SquareLoaded(file, env, default, production)
           = Robot!Setup!SquareLoaded(file, env, default, production)
        /\ Settings!ModbusLoaded(file, env, default, production)
           = Robot!Setup!ModbusLoaded(file, env, default, production)
  BY SameLoadSection, SameSections, SameFieldSets, SMT DEF Settings!CaptureLoaded, Robot!Setup!CaptureLoaded,
       Settings!RuntimeLoaded, Robot!Setup!RuntimeLoaded, Settings!JsonLoaded, Robot!Setup!JsonLoaded,
       Settings!MotionLoaded, Robot!Setup!MotionLoaded, Settings!SquareLoaded, Robot!Setup!SquareLoaded,
       Settings!ModbusLoaded, Robot!Setup!ModbusLoaded

LEMMA SameLinkLoaded == \A file, env, default, production :
    Settings!LinkLoaded(file, env, default, production) = Robot!Setup!LinkLoaded(file, env, default, production)
  BY SameOver, SameLoadSection, SameSections, SameWords, SMT DEF Settings!LinkLoaded, Robot!Setup!LinkLoaded

LEMMA SameLoaded == \A file, env, default, production :
    Settings!Loaded(file, env, default, production) = Robot!Setup!Loaded(file, env, default, production)
  BY SameOver, SameVisionLoaded, SameLoaders, SameLinkLoaded, SMT DEF Settings!Loaded, Robot!Setup!Loaded

LEMMA SamePoints ==
    /\ \A c : Settings!Axes(c) = Robot!Setup!Axes(c)
    /\ \A m : Settings!Det(m) = Robot!Setup!Det(m)
    /\ \A c : Settings!DefaultDead(c) = Robot!Setup!DefaultDead(c)
    /\ \A c, f, r : Settings!GridToRobot(c, f, r) = Robot!Setup!GridToRobot(c, f, r)
    /\ \A s : Settings!Limits(s) = Robot!Setup!Limits(s)
    /\ \A z, lim : Settings!AreaTolerated(z, lim) <=> Robot!Setup!AreaTolerated(z, lim)
    /\ \A c, slot : Settings!DeadSlot(c, slot) = Robot!Setup!DeadSlot(c, slot)
    /\ \A corners, name, px, py : Settings!Corner(corners, name, px, py) = Robot!Setup!Corner(corners, name, px, py)
    /\ \A q, lo, hi : Settings!Outside(q, lo, hi) = Robot!Setup!Outside(q, lo, hi)
    /\ \A m, p : Settings!InverseAt(m, p) = Robot!Setup!InverseAt(m, p)
  BY Zenon DEF Settings!Axes, Robot!Setup!Axes, Settings!Det, Robot!Setup!Det, Settings!DefaultDead,
       Robot!Setup!DefaultDead, Settings!GridToRobot, Robot!Setup!GridToRobot, Settings!FileIds,
       Robot!Setup!FileIds, Settings!RankIds, Robot!Setup!RankIds, Settings!At, Robot!Setup!At,
       Settings!OnLowerHalf, Robot!Setup!OnLowerHalf, Settings!Limits, Robot!Setup!Limits, Settings!AreaTolerated,
       Robot!Setup!AreaTolerated, Settings!Tolerated, Robot!Setup!Tolerated, Settings!DeadSlot,
       Robot!Setup!DeadSlot, Settings!Min, Robot!Setup!Min, Settings!Max, Robot!Setup!Max, Settings!Corner,
       Robot!Setup!Corner, Settings!Outside, Robot!Setup!Outside, Settings!InverseAt, Robot!Setup!InverseAt

LEMMA SameBoards ==
    /\ \A s : Settings!DefaultCal(s) = Robot!Setup!DefaultCal(s)
    /\ \A file, s : Settings!CalLoaded(file, s) = Robot!Setup!CalLoaded(file, s)
    /\ \A c, lim : Settings!BoardTolerated(c, lim) <=> Robot!Setup!BoardTolerated(c, lim)
    /\ \A c, lim : Settings!BoardSafe(c, lim) <=> Robot!Setup!BoardSafe(c, lim)
    /\ \A k : Settings!LowerSamples(k) = Robot!Setup!LowerSamples(k)
    /\ \A k : Settings!UpperSamples(k) = Robot!Setup!UpperSamples(k)
  BY SamePoints, Zenon DEF Settings!DefaultCal, Robot!Setup!DefaultCal, Settings!CalLoaded, Robot!Setup!CalLoaded,
       Settings!BoardTolerated, Robot!Setup!BoardTolerated, Settings!Squares, Robot!Setup!Squares,
       Settings!Tolerated, Robot!Setup!Tolerated, Settings!FileIds, Robot!Setup!FileIds, Settings!RankIds,
       Robot!Setup!RankIds, Settings!BoardSafe, Robot!Setup!BoardSafe, Settings!Safe, Robot!Setup!Safe,
       Settings!LowerSamples, Robot!Setup!LowerSamples, Settings!HalfSamples, Robot!Setup!HalfSamples,
       Settings!UpperSamples, Robot!Setup!UpperSamples

LEMMA SameInit == Settings!Init <=> Robot!Setup!Init
  BY SameLoaded, SameBoards, Zenon DEF Settings!Init, Robot!Setup!Init

LEMMA SameMerged == \A current, delta : Settings!Merged(current, delta) = Robot!Setup!Merged(current, delta)
  BY SameOver, SameSourceAlias, Zenon DEF Settings!Merged, Robot!Setup!Merged

LEMMA SameCalUpdate == \A r : Settings!CalUpdate(r) = Robot!Setup!CalUpdate(r)
  BY SameOver, Zenon DEF Settings!CalUpdate, Robot!Setup!CalUpdate

LEMMA SameUpdated == \A c, u : Settings!Updated(c, u) = Robot!Setup!Updated(c, u)
  BY SMT DEF Settings!Updated, Robot!Setup!Updated, Settings!Given, Robot!Setup!Given, Settings!DefaultDead,
       Robot!Setup!DefaultDead, Settings!Axes, Robot!Setup!Axes, Settings!DeadOk, Robot!Setup!DeadOk, Settings!Det,
       Robot!Setup!Det

LEMMA SameBoundOf == \A f : Settings!BoundOf(f) = Robot!Setup!BoundOf(f)
  BY SameMarks, SameBounds, SMT DEF Settings!BoundOf, Robot!Setup!BoundOf

LEMMA SameConvertsOk == \A s : Settings!ConvertsOk(s) <=> Robot!Setup!ConvertsOk(s)
  BY SameFieldSets, SameBoundOf, SameWords, SameKinds, Zenon DEF Settings!ConvertsOk, Robot!Setup!ConvertsOk

LEMMA SameRegistersOk == \A s : Settings!RegistersOk(s) <=> Robot!Setup!RegistersOk(s)
  BY SMT DEF Settings!RegistersOk, Robot!Setup!RegistersOk, Settings!Ranged, Robot!Setup!Ranged, Settings!Last,
       Robot!Setup!Last, Settings!Width, Robot!Setup!Width, Settings!ValueWidth, Robot!Setup!ValueWidth

LEMMA SameSettingsOk == \A s : Settings!SettingsOk(s) <=> Robot!Setup!SettingsOk(s)
  BY SMT DEF Settings!SettingsOk, Robot!Setup!SettingsOk, Settings!ConvertsOk, Robot!Setup!ConvertsOk,
       Settings!VisionOk, Robot!Setup!VisionOk, Settings!PortOk, Robot!Setup!PortOk, Settings!HeightsOk,
       Robot!Setup!HeightsOk, Settings!SpeedsOk, Robot!Setup!SpeedsOk, Settings!LimitsOk, Robot!Setup!LimitsOk,
       Settings!RegistersOk, Robot!Setup!RegistersOk, Settings!Ranged, Robot!Setup!Ranged, Settings!Last,
       Robot!Setup!Last, Settings!Width, Robot!Setup!Width, Settings!ValueWidth, Robot!Setup!ValueWidth,
       Settings!Bounded, Robot!Setup!Bounded, Settings!BoundOf, Robot!Setup!BoundOf, Settings!Words,
       Robot!Setup!Words, Settings!Texts, Robot!Setup!Texts, Settings!Registers, Robot!Setup!Registers,
       Settings!Codes, Robot!Setup!Codes, Settings!Bounds, Robot!Setup!Bounds

LEMMA SameAccepted == \A s, u, junk : Settings!Accepted(s, u, junk) <=> Robot!Setup!Accepted(s, u, junk)
  BY SameUpdated, SameBoards, SameSettingsOk, SamePoints, Zenon DEF Settings!Accepted, Robot!Setup!Accepted

LEMMA SameSettingsPosted == \A t, r : Settings!SettingsPosted(t, r) <=> Robot!Setup!SettingsPosted(t, r)
  BY SameMerged, SameCalUpdate, SameAccepted, Zenon DEF Settings!SettingsPosted, Robot!Setup!SettingsPosted,
       Settings!Serving, Robot!Setup!Serving, Settings!Overlaps, Robot!Setup!Overlaps, Settings!memory,
       Robot!Setup!memory, Settings!files, Robot!Setup!files, Settings!others, Robot!Setup!others

LEMMA SameSums ==
    /\ \A v : Settings!Total(v) = Robot!Setup!Total(v)
    /\ \A n, PQ, P, Q : Settings!Centred(n, PQ, P, Q) = Robot!Setup!Centred(n, PQ, P, Q)
    /\ \A n, I, W, s : Settings!Line(n, I, W, s) = Robot!Setup!Line(n, I, W, s)
    /\ \A S : Settings!Cardinality(S) = Robot!Setup!Cardinality(S)
    /\ \A a, b : Settings!Length(a, b) = Robot!Setup!Length(a, b)
    /\ \A S : Settings!NonCollinear(S) <=> Robot!Setup!NonCollinear(S)
  BY Zenon DEF Settings!Total, Robot!Setup!Total, Settings!Centred, Robot!Setup!Centred, Settings!Line,
       Robot!Setup!Line, Settings!Cardinality, Robot!Setup!Cardinality, Settings!Length, Robot!Setup!Length,
       Settings!Magnitude, Robot!Setup!Magnitude, Settings!Max, Robot!Setup!Max, Settings!NonCollinear,
       Robot!Setup!NonCollinear, Settings!Area, Robot!Setup!Area

LEMMA SameRow == \A n, F, R, W, ff, rr, fr, wf, wr :
    Settings!Row(n, F, R, W, ff, rr, fr, wf, wr) = Robot!Setup!Row(n, F, R, W, ff, rr, fr, wf, wr)
  BY SMT DEF Settings!Row, Robot!Setup!Row

LEMMA SameFit == \A S, v : Settings!Fit(S, v) = Robot!Setup!Fit(S, v)
<1> TAKE S, v
<1> DEFINE n == Settings!Cardinality(S)
           F == Settings!Total([q \in S |-> q.f])
           R == Settings!Total([q \in S |-> q.r])
           W == Settings!Total([q \in S |-> q[v]])
           FF == Settings!Total([q \in S |-> q.f * q.f])
           RR == Settings!Total([q \in S |-> q.r * q.r])
           FR == Settings!Total([q \in S |-> q.f * q.r])
           WF == Settings!Total([q \in S |-> q[v] * q.f])
           WR == Settings!Total([q \in S |-> q[v] * q.r])
<1>1. /\ n = Robot!Setup!Cardinality(S)
      /\ F = Robot!Setup!Total([q \in S |-> q.f])
      /\ R = Robot!Setup!Total([q \in S |-> q.r])
      /\ W = Robot!Setup!Total([q \in S |-> q[v]])
      /\ FF = Robot!Setup!Total([q \in S |-> q.f * q.f])
      /\ RR = Robot!Setup!Total([q \in S |-> q.r * q.r])
      /\ FR = Robot!Setup!Total([q \in S |-> q.f * q.r])
      /\ WF = Robot!Setup!Total([q \in S |-> q[v] * q.f])
      /\ WR = Robot!Setup!Total([q \in S |-> q[v] * q.r])
  BY SameSums, Zenon
<1>2. Settings!Fit(S, v)
      = Settings!Row(n, F, R, W, Settings!Centred(n, FF, F, F), Settings!Centred(n, RR, R, R),
                     Settings!Centred(n, FR, F, R), Settings!Centred(n, WF, W, F), Settings!Centred(n, WR, W, R))
  BY Zenon DEF Settings!Fit
<1>3. Robot!Setup!Fit(S, v)
      = Robot!Setup!Row(n, F, R, W, Robot!Setup!Centred(n, FF, F, F), Robot!Setup!Centred(n, RR, R, R),
                     Robot!Setup!Centred(n, FR, F, R), Robot!Setup!Centred(n, WF, W, F), Robot!Setup!Centred(n, WR, W, R))
  <2> HIDE DEF n, F, R, W, FF, RR, FR, WF, WR
  <2> QED BY <1>1, Zenon DEF Robot!Setup!Fit
<1> HIDE DEF n, F, R, W, FF, RR, FR, WF, WR
<1> QED BY <1>2, <1>3, SameRow, SameSums, Zenon

LEMMA SameFitAffine == \A S : Settings!FitAffine(S) = Robot!Setup!FitAffine(S)
  BY SameFit, Zenon DEF Settings!FitAffine, Robot!Setup!FitAffine

LEMMA SameFitAxis == \A P, step : Settings!FitAxis(P, step) = Robot!Setup!FitAxis(P, step)
<1> TAKE P, step
<1> DEFINE n == Settings!Cardinality(P)
           k == Settings!Cardinality({q[1] : q \in P})
           I == Settings!Total([q \in P |-> q[1]])
           W == Settings!Total([q \in P |-> q[2]])
           II == Settings!Total([q \in P |-> q[1] * q[1]])
           IW == Settings!Total([q \in P |-> q[1] * q[2]])
<1>1. /\ n = Robot!Setup!Cardinality(P)
      /\ k = Robot!Setup!Cardinality({q[1] : q \in P})
      /\ I = Robot!Setup!Total([q \in P |-> q[1]])
      /\ W = Robot!Setup!Total([q \in P |-> q[2]])
      /\ II = Robot!Setup!Total([q \in P |-> q[1] * q[1]])
      /\ IW = Robot!Setup!Total([q \in P |-> q[1] * q[2]])
  BY SameSums, Zenon
<1>2. Settings!FitAxis(P, step)
      = Settings!Line(n, I, W, IF k < 2 THEN step
                               ELSE Settings!Centred(n, IW, I, W) \div Settings!Centred(n, II, I, I))
  BY Zenon DEF Settings!FitAxis
<1>3. Robot!Setup!FitAxis(P, step)
      = Robot!Setup!Line(n, I, W, IF k < 2 THEN step
                                  ELSE Robot!Setup!Centred(n, IW, I, W) \div Robot!Setup!Centred(n, II, I, I))
  <2> HIDE DEF n, k, I, W, II, IW
  <2> QED BY <1>1, Zenon DEF Robot!Setup!FitAxis
<1> HIDE DEF n, k, I, W, II, IW
<1> QED BY <1>2, <1>3, SameSums, Zenon

LEMMA SameMeasured == \A c, S : Settings!Measured(c, S) = Robot!Setup!Measured(c, S)
<1> TAKE c, S
<1> DEFINE n == Settings!Cardinality(S)
           m == Settings!FitAffine(S)
           fx == Settings!FitAxis({<<q.f, q.x>> : q \in S}, c.sx)
           fy == Settings!FitAxis({<<q.r, q.y>> : q \in S}, c.sy)
           free == [c EXCEPT !.affine = m, !.ox = m[1][3], !.oy = m[2][3],
                             !.sx = Settings!Length(m[1][1], m[2][1]), !.sy = Settings!Length(m[1][2], m[2][2])]
           axial == [c EXCEPT !.ox = fx.origin, !.sx = fx.step, !.oy = fy.origin, !.sy = fy.step]
           line == [axial EXCEPT !.affine = Settings!Axes(axial)]
           gone == [cal |-> c, ok |-> FALSE]
           half == [cal |-> [c EXCEPT !.ox = fx.origin, !.sx = fx.step], ok |-> FALSE]
           D(d) == [cal |-> [d EXCEPT !.dead = Settings!DefaultDead(d)], ok |-> TRUE]
           done == IF n < 2 THEN gone
                   ELSE IF Settings!NonCollinear(S) THEN IF Settings!Det(m) = 0 THEN gone ELSE D(free)
                   ELSE IF fx.step <= 0 THEN gone
                   ELSE IF fy.step <= 0 THEN half
                   ELSE D(line)
<1>1. /\ n = Robot!Setup!Cardinality(S)
      /\ m = Robot!Setup!FitAffine(S)
      /\ fx = Robot!Setup!FitAxis({<<q.f, q.x>> : q \in S}, c.sx)
      /\ fy = Robot!Setup!FitAxis({<<q.r, q.y>> : q \in S}, c.sy)
  BY SameSums, SameFitAffine, SameFitAxis, Zenon
<1>4. /\ Settings!Length(m[1][1], m[2][1]) = Robot!Setup!Length(m[1][1], m[2][1])
      /\ Settings!Length(m[1][2], m[2][2]) = Robot!Setup!Length(m[1][2], m[2][2])
      /\ Settings!Axes(axial) = Robot!Setup!Axes(axial)
      /\ Settings!DefaultDead(free) = Robot!Setup!DefaultDead(free)
      /\ Settings!DefaultDead(line) = Robot!Setup!DefaultDead(line)
      /\ Settings!NonCollinear(S) <=> Robot!Setup!NonCollinear(S)
      /\ Settings!Det(m) = Robot!Setup!Det(m)
  BY SameSums, SamePoints, Zenon
<1>2. Settings!Measured(c, S)
      = done
  BY Zenon DEF Settings!Measured
<1>3. Robot!Setup!Measured(c, S)
      = done
  <2> HIDE DEF n, m, fx, fy
  <2>1. Robot!Setup!Measured(c, S)
        = LET free2 == [c EXCEPT !.affine = m, !.ox = m[1][3], !.oy = m[2][3],
                                 !.sx = Robot!Setup!Length(m[1][1], m[2][1]), !.sy = Robot!Setup!Length(m[1][2], m[2][2])]
              line2 == [axial EXCEPT !.affine = Robot!Setup!Axes(axial)]
              D2(d) == [cal |-> [d EXCEPT !.dead = Robot!Setup!DefaultDead(d)], ok |-> TRUE]
          IN  IF n < 2 THEN gone
              ELSE IF Robot!Setup!NonCollinear(S) THEN IF Robot!Setup!Det(m) = 0 THEN gone ELSE D2(free2)
              ELSE IF fx.step <= 0 THEN gone
              ELSE IF fy.step <= 0 THEN half
              ELSE D2(line2)
    BY <1>1, Zenon DEF Robot!Setup!Measured
  <2>2. CASE Settings!NonCollinear(S)
    BY <2>1, <2>2, <1>4, Zenon
  <2>3. CASE ~Settings!NonCollinear(S)
    BY <2>1, <2>3, <1>4, Zenon
  <2> QED BY <2>2, <2>3
<1> HIDE DEF done
<1> QED BY <1>2, <1>3, Zenon

LEMMA SameImageMapped == \A c, points, space : Settings!ImageMapped(c, points, space) = Robot!Setup!ImageMapped(c, points, space)
<1> TAKE c, points, space
<1> DEFINE a == Settings!Cardinality({q[1] : q \in points})
           b == Settings!Cardinality({q[2] : q \in points})
<1>1. a = Robot!Setup!Cardinality({q[1] : q \in points}) /\ b = Robot!Setup!Cardinality({q[2] : q \in points})
  BY SameSums, Zenon
<1> DEFINE done == IF a >= 4 /\ b >= 4 /\ space \in {"rectified_board", "camera_frame"}
                   THEN [cal |-> [c EXCEPT !.image = [space |-> space, points |-> points]], ok |-> TRUE]
                   ELSE [cal |-> c, ok |-> FALSE]
<1>2. Settings!ImageMapped(c, points, space) = done
  BY Zenon DEF Settings!ImageMapped
<1>3. Robot!Setup!ImageMapped(c, points, space) = done
  <2> HIDE DEF a, b
  <2> QED BY <1>1, Zenon DEF Robot!Setup!ImageMapped
<1> HIDE DEF done
<1> QED BY <1>2, <1>3, Zenon

LEMMA SameChanged == \A c, r : Settings!Changed(c, r) = Robot!Setup!Changed(c, r)
  BY SameUpdated, SameMeasured, SameImageMapped, Zenon DEF Settings!Changed, Robot!Setup!Changed

LEMMA SameCalibrationPosted == \A t, r : Settings!CalibrationPosted(t, r) <=> Robot!Setup!CalibrationPosted(t, r)
  BY SameChanged, Zenon DEF Settings!CalibrationPosted, Robot!Setup!CalibrationPosted, Settings!Serving,
       Robot!Setup!Serving, Settings!Overlaps, Robot!Setup!Overlaps, Settings!files, Robot!Setup!files,
       Settings!others, Robot!Setup!others

LEMMA SameTested ==
    /\ Settings!TestPoint = Robot!Setup!TestPoint
    /\ Settings!RobotStates = Robot!Setup!RobotStates
    /\ \A action : Settings!TestHeight(action) = Robot!Setup!TestHeight(action)
    /\ \A s : Settings!ProfileSafe(s) <=> Robot!Setup!ProfileSafe(s)
  BY Zenon DEF Settings!TestPoint, Robot!Setup!TestPoint, Settings!RobotStates, Robot!Setup!RobotStates,
       Settings!TestHeight, Robot!Setup!TestHeight, Settings!ProfileSafe, Robot!Setup!ProfileSafe,
       Settings!HeightsOk, Robot!Setup!HeightsOk, Settings!SpeedsOk, Robot!Setup!SpeedsOk

LEMMA SameConfirmed == Settings!Confirmed = Robot!Setup!Confirmed
  BY SameTested, Zenon DEF Settings!Confirmed, Robot!Setup!Confirmed

LEMMA SameRefused == \A q : Settings!Refused(q) <=> Robot!Setup!Refused(q)
  BY SameConfirmed, Zenon DEF Settings!Refused, Robot!Setup!Refused

LEMMA SameTargeted == Settings!Targeted = Robot!Setup!Targeted
  BY SameTested, Zenon DEF Settings!Targeted, Robot!Setup!Targeted

LEMMA SameTestTarget == \A action : Settings!TestTarget(action) = Robot!Setup!TestTarget(action)
  BY SamePoints, SameTested, Zenon DEF Settings!TestTarget, Robot!Setup!TestTarget

LEMMA SameTestPasses == \A q, works : Settings!TestPasses(q, works) <=> Robot!Setup!TestPasses(q, works)
  BY SameTargeted, SamePoints, SameTestTarget, SameTested, Zenon DEF Settings!TestPasses, Robot!Setup!TestPasses,
       Settings!Safe, Robot!Setup!Safe

LEMMA SameHardwareTested == \A t, q : Settings!HardwareTested(t, q) <=> Robot!Setup!HardwareTested(t, q)
  BY SameRefused, SameTestPasses, Zenon DEF Settings!HardwareTested, Robot!Setup!HardwareTested, Settings!Serving,
       Robot!Setup!Serving, Settings!Overlaps, Robot!Setup!Overlaps, Settings!memory, Robot!Setup!memory,
       Settings!files, Robot!Setup!files, Settings!others, Robot!Setup!others

LEMMA SameRenewed == \A t : Settings!Renewed(t) <=> Robot!Setup!Renewed(t)
  BY SameUpdated, Zenon DEF Settings!Renewed, Robot!Setup!Renewed, Settings!Doing, Robot!Setup!Doing, Settings!Go,
       Robot!Setup!Go, Settings!End, Robot!Setup!End, Settings!files, Robot!Setup!files, Settings!others,
       Robot!Setup!others

LEMMA SameFiles ==
    /\ Settings!StoredSettings = Robot!Setup!StoredSettings
    /\ \A t : Settings!FileOpened(t) <=> Robot!Setup!FileOpened(t)
    /\ \A t : Settings!FileWritten(t) <=> Robot!Setup!FileWritten(t)
    /\ \A t : Settings!Replaced(t) <=> Robot!Setup!Replaced(t)
    /\ \A t : Settings!Applied(t) <=> Robot!Setup!Applied(t)
    /\ \A t : Settings!Marked(t) <=> Robot!Setup!Marked(t)
    /\ Settings!ScriptCalibrates <=> Robot!Setup!ScriptCalibrates
    /\ Settings!ScriptOpensSettings <=> Robot!Setup!ScriptOpensSettings
    /\ Settings!ScriptWritesSettings <=> Robot!Setup!ScriptWritesSettings
  BY SameOver, Zenon DEF Settings!StoredSettings, Robot!Setup!StoredSettings, Settings!FileOpened,
       Robot!Setup!FileOpened, Settings!Doing, Robot!Setup!Doing, Settings!memory, Robot!Setup!memory,
       Settings!others, Robot!Setup!others, Settings!FileWritten, Robot!Setup!FileWritten, Settings!Go,
       Robot!Setup!Go, Settings!End, Robot!Setup!End, Settings!Replaced, Robot!Setup!Replaced, Settings!Applied,
       Robot!Setup!Applied, Settings!files, Robot!Setup!files, Settings!Marked, Robot!Setup!Marked,
       Settings!ScriptCalibrates, Robot!Setup!ScriptCalibrates, Settings!ScriptOpensSettings,
       Robot!Setup!ScriptOpensSettings, Settings!ScriptWritesSettings, Robot!Setup!ScriptWritesSettings

LEMMA SamePersisted == \A s : Settings!Persisted(s) = Robot!Setup!Persisted(s)
  BY SameFieldSets, SameKinds, Zenon DEF Settings!Persisted, Robot!Setup!Persisted, Settings!Restrict,
       Robot!Setup!Restrict

LEMMA SameStaged == \A t : Settings!Staged(t) <=> Robot!Setup!Staged(t)
  BY SameOver, SamePersisted, SameFiles, Zenon DEF Settings!Staged, Robot!Setup!Staged, Settings!Doing,
       Robot!Setup!Doing, Settings!Go, Robot!Setup!Go, Settings!memory, Robot!Setup!memory, Settings!others,
       Robot!Setup!others

LEMMA SameValidated == \A t : Settings!Validated(t) <=> Robot!Setup!Validated(t)
  BY SameAccepted, Zenon DEF Settings!Validated, Robot!Setup!Validated, Settings!Doing, Robot!Setup!Doing,
       Settings!Go, Robot!Setup!Go, Settings!End, Robot!Setup!End, Settings!memory, Robot!Setup!memory,
       Settings!files, Robot!Setup!files, Settings!others, Robot!Setup!others

LEMMA SameRestoredTo == \A c, old : Settings!RestoredTo(c, old) = Robot!Setup!RestoredTo(c, old)
  BY SameUpdated, Zenon DEF Settings!RestoredTo, Robot!Setup!RestoredTo

LEMMA SameRestored == \A t : Settings!Restored(t) <=> Robot!Setup!Restored(t)
  BY SameRestoredTo, Zenon DEF Settings!Restored, Robot!Setup!Restored, Settings!Doing, Robot!Setup!Doing,
       Settings!End, Robot!Setup!End, Settings!files, Robot!Setup!files, Settings!others, Robot!Setup!others

LEMMA SamePreflightOk == \A robot, seen : Settings!PreflightOk(robot, seen) <=> Robot!Setup!PreflightOk(robot, seen)
  BY SameTested, SameBoards, SamePoints, Zenon DEF Settings!PreflightOk, Robot!Setup!PreflightOk, Settings!ModeOk,
       Robot!Setup!ModeOk, Settings!CommunicationOk, Robot!Setup!CommunicationOk, Settings!PolledByTMflow,
       Robot!Setup!PolledByTMflow

LEMMA SamePreflight == \A t : Settings!Preflight(t) <=> Robot!Setup!Preflight(t)
  BY SameTested, SamePreflightOk, Zenon DEF Settings!Preflight, Robot!Setup!Preflight, Settings!Serving,
       Robot!Setup!Serving, Settings!Overlaps, Robot!Setup!Overlaps, Settings!memory, Robot!Setup!memory,
       Settings!files, Robot!Setup!files, Settings!others, Robot!Setup!others

LEMMA SameSplitHalves == \A c, corners, dead :
    Settings!SplitHalves(c, corners, dead) = Robot!Setup!SplitHalves(c, corners, dead)
  BY SameFitAffine, SameBoards, SamePoints, SameSums, Zenon DEF Settings!SplitHalves, Robot!Setup!SplitHalves

LEMMA SameConfLoaded == Settings!ConfLoaded = Robot!Setup!ConfLoaded
  BY SameLoaded, SameFiles, Zenon DEF Settings!ConfLoaded, Robot!Setup!ConfLoaded

LEMMA SameScriptStarts == \A i : Settings!ScriptStarts(i) <=> Robot!Setup!ScriptStarts(i)
  BY SameSplitHalves, SameBoards, SameConfLoaded, Zenon DEF Settings!ScriptStarts, Robot!Setup!ScriptStarts,
       Settings!memory, Robot!Setup!memory, Settings!others, Robot!Setup!others

LEMMA SameBoots == \A s, keyed, production :
    Settings!Boots(s, keyed, production) <=> Robot!Setup!Boots(s, keyed, production)
  BY Zenon DEF Settings!Boots, Robot!Setup!Boots

LEMMA SameRestart == Settings!Restart <=> Robot!Setup!Restart
  BY SameBoots, SameConfLoaded, SameBoards, Zenon DEF Settings!Restart, Robot!Setup!Restart, Settings!files,
       Robot!Setup!files

LEMMA SameNext == Settings!Next <=> Robot!Setup!Next
  BY SameSettingsPosted, SameCalibrationPosted, SameHardwareTested, SameRenewed, SameFiles, SameStaged,
       SameValidated, SameRestored, SamePreflight, SameScriptStarts, SameRestart, Zenon DEF Settings!Next,
       Robot!Setup!Next

LEMMA SameCalibrations ==
    /\ Settings!Matrix = Robot!Setup!Matrix
    /\ Settings!CapturedArea = Robot!Setup!CapturedArea
    /\ Settings!Picture = Robot!Setup!Picture
    /\ Settings!Halves = Robot!Setup!Halves
    /\ Settings!Cal = Robot!Setup!Cal
    /\ Settings!FullUpdate = Robot!Setup!FullUpdate
  BY Zenon DEF Settings!Matrix, Robot!Setup!Matrix, Settings!CapturedArea, Robot!Setup!CapturedArea,
       Settings!Picture, Robot!Setup!Picture, Settings!Halves, Robot!Setup!Halves, Settings!Cal, Robot!Setup!Cal,
       Settings!FullUpdate, Robot!Setup!FullUpdate

LEMMA SameKindOf == \A f : Settings!KindOf(f) = Robot!Setup!KindOf(f)
  BY SameKinds, SameWords, Zenon DEF Settings!KindOf, Robot!Setup!KindOf

LEMMA SameSomeSettings == \A s : Settings!SomeSettings(s) <=> Robot!Setup!SomeSettings(s)
  BY SameFieldSets, SameKindOf, Zenon DEF Settings!SomeSettings, Robot!Setup!SomeSettings

LEMMA SameStorable == \A s : Settings!Storable(s) <=> Robot!Setup!Storable(s)
  BY SameSomeSettings, SameFieldSets, SameKinds, Zenon DEF Settings!Storable, Robot!Setup!Storable

LEMMA SameTypeOK == Settings!TypeOK <=> Robot!Setup!TypeOK
  BY SameCalibrations, SameSomeSettings, SameFieldSets, SameStorable, Zenon DEF Settings!TypeOK, Robot!Setup!TypeOK

LEMMA SameLocated == \A c, p : Settings!Located(c, p) = Robot!Setup!Located(c, p)
  BY SamePoints, SMT DEF Settings!Located, Robot!Setup!Located

LEMMA SameRobotToGrid == \A c, p : Settings!RobotToGrid(c, p) = Robot!Setup!RobotToGrid(c, p)
  BY SameLocated, SMT DEF Settings!RobotToGrid, Robot!Setup!RobotToGrid, Settings!Nearest, Robot!Setup!Nearest,
       Settings!FileIds, Robot!Setup!FileIds, Settings!RankIds, Robot!Setup!RankIds

LEMMA SameRoundTrips == \A c : Settings!RoundTrips(c) <=> Robot!Setup!RoundTrips(c)
  BY SameRobotToGrid, SamePoints, Zenon DEF Settings!RoundTrips, Robot!Setup!RoundTrips, Settings!Squares,
       Robot!Setup!Squares, Settings!FileIds, Robot!Setup!FileIds, Settings!RankIds, Robot!Setup!RankIds

LEMMA SameMappingStaysInvertible == Settings!MappingStaysInvertible <=> Robot!Setup!MappingStaysInvertible
  BY SameRoundTrips, Zenon DEF Settings!MappingStaysInvertible, Robot!Setup!MappingStaysInvertible

LEMMA SameSavedPairFits == Settings!SavedPairFits <=> Robot!Setup!SavedPairFits
  BY SameBoards, SameConfLoaded, SamePoints, Zenon DEF Settings!SavedPairFits, Robot!Setup!SavedPairFits

LEMMA SameOverruled == Settings!Overruled(Settings!StoredSettings) <=> Robot!Setup!Overruled(Robot!Setup!StoredSettings)
<1>1. Settings!StoredSettings = Robot!Setup!StoredSettings
  BY SameFiles
<1>2. Settings!LimitFields = Robot!Setup!LimitFields
  BY Zenon DEF Settings!LimitFields, Robot!Setup!LimitFields
<1>3. Settings!Overruled(Robot!Setup!StoredSettings) <=> Robot!Setup!Overruled(Robot!Setup!StoredSettings)
  BY <1>2, Zenon DEF Settings!Overruled, Robot!Setup!Overruled
<1> QED BY <1>1, <1>3, Zenon

LEMMA SameSavedPairStaysTogether == Settings!SavedPairStaysTogether <=> Robot!Setup!SavedPairStaysTogether
  BY SameSavedPairFits, SameOverruled, Zenon DEF Settings!SavedPairStaysTogether, Robot!Setup!SavedPairStaysTogether

LEMMA SameRefusalUndone == Settings!RefusalUndone <=> Robot!Setup!RefusalUndone
  BY Zenon DEF Settings!RefusalUndone, Robot!Setup!RefusalUndone

LEMMA SameMeasuredPointsHold == Settings!MeasuredPointsHold <=> Robot!Setup!MeasuredPointsHold
  BY SameSums, SameChanged, SamePoints, Zenon DEF Settings!MeasuredPointsHold, Robot!Setup!MeasuredPointsHold

LEMMA SameFieldsSound == Settings!FieldsSound <=> Robot!Setup!FieldsSound
  BY SameSomeSettings, SameFieldSets, SameStorable, SameWords, Zenon DEF Settings!FieldsSound,
       Robot!Setup!FieldsSound

LEMMA SameSomeUpdate == \A u : Settings!SomeUpdate(u) <=> Robot!Setup!SomeUpdate(u)
  BY SameCalibrations, Zenon DEF Settings!SomeUpdate, Robot!Setup!SomeUpdate

LEMMA SameAxisWhole == \A P : Settings!AxisWhole(P) <=> Robot!Setup!AxisWhole(P)
<1> TAKE P
<1> DEFINE n == Settings!Cardinality(P)
           k == Settings!Cardinality({q[1] : q \in P})
           I == Settings!Total([q \in P |-> q[1]])
           W == Settings!Total([q \in P |-> q[2]])
           A == Settings!FitAxis(P, 0)
<1>1. /\ n = Robot!Setup!Cardinality(P)
      /\ k = Robot!Setup!Cardinality({q[1] : q \in P})
      /\ I = Robot!Setup!Total([q \in P |-> q[1]])
      /\ W = Robot!Setup!Total([q \in P |-> q[2]])
      /\ A = Robot!Setup!FitAxis(P, 0)
  BY SameSums, SameFitAxis, Zenon
<1>2. Settings!AxisWhole(P)
      <=> n \in Nat \ {0} /\ k \in Nat /\ I \in Int /\ W \in Int /\ (k >= 2 => A.step \in Int)
  BY Zenon DEF Settings!AxisWhole
<1>3. Robot!Setup!AxisWhole(P)
      <=> n \in Nat \ {0} /\ k \in Nat /\ I \in Int /\ W \in Int /\ (k >= 2 => A.step \in Int)
  <2> HIDE DEF n, k, I, W, A
  <2> QED BY <1>1, Zenon DEF Robot!Setup!AxisWhole
<1> QED BY <1>2, <1>3, Zenon

LEMMA SameFitsWhole == \A S : Settings!FitsWhole(S) <=> Robot!Setup!FitsWhole(S)
<1> TAKE S
<1> DEFINE n == Settings!Cardinality(S)
           X == {<<q.f, q.x>> : q \in S}
           Y == {<<q.r, q.y>> : q \in S}
<1>1. n = Robot!Setup!Cardinality(S)
  BY SameSums, Zenon
<1>2. Settings!FitsWhole(S)
      <=> n \in Nat /\ (n >= 2 => IF Settings!NonCollinear(S) THEN Settings!FitAffine(S) \in Settings!Matrix
                                   ELSE Settings!AxisWhole(X) /\ Settings!AxisWhole(Y))
  BY Zenon DEF Settings!FitsWhole
<1>3. Robot!Setup!FitsWhole(S)
      <=> n \in Nat /\ (n >= 2 => IF Robot!Setup!NonCollinear(S) THEN Robot!Setup!FitAffine(S) \in Robot!Setup!Matrix
                                   ELSE Robot!Setup!AxisWhole(X) /\ Robot!Setup!AxisWhole(Y))
  <2> HIDE DEF n
  <2> QED BY <1>1, Zenon DEF Robot!Setup!FitsWhole
<1> HIDE DEF n, X, Y
<1> QED BY <1>2, <1>3, SameSums, SameFitAffine, SameCalibrations, SameAxisWhole, Zenon

LEMMA SameHalvesFit == \A h : Settings!HalvesFit(h) <=> Robot!Setup!HalvesFit(h)
  BY SameCalibrations, SamePoints, Zenon DEF Settings!HalvesFit, Robot!Setup!HalvesFit, Settings!At, Robot!Setup!At

LEMMA SameRequestsSound == Settings!RequestsSound <=> Robot!Setup!RequestsSound
  BY SameSomeUpdate, SameFitsWhole, SameCalibrations, SameSplitHalves, SameBoards, SameHalvesFit, Zenon DEF
       Settings!RequestsSound, Robot!Setup!RequestsSound

LEMMA SameJobs == Settings!Jobs = Robot!Setup!Jobs
  BY SameFieldSets, SameCalibrations, Zenon DEF Settings!Jobs, Robot!Setup!Jobs

LEMMA SameNothingIsAValue == Settings!NothingIsAValue <=> Robot!Setup!NothingIsAValue
  BY SameCalibrations, SameFieldSets, SameKinds, SameJobs, Zenon DEF Settings!NothingIsAValue,
       Robot!Setup!NothingIsAValue

LEMMA SameDefaultsFit == Settings!DefaultsFit <=> Robot!Setup!DefaultsFit
  BY SameLoaded, SameBoards, SamePoints, Zenon DEF Settings!DefaultsFit, Robot!Setup!DefaultsFit

LEMMA SettingsSound == Robot!SetupSound
  BY SettingsAssumption, SameFieldsSound, SameRequestsSound, SameNothingIsAValue, SameDefaultsFit, Zenon
     DEF Robot!SetupSound

SettingsInv == part = "settings" => Robot!SetupInv

LEMMA SettingsInit == ASSUME Init PROVE SettingsInv
<1>1. part = "settings" => Settings!Init
  BY Zenon DEF Init
<1> QED BY <1>1, SettingsSound, SameInit, Robot!SetupInvInit, Zenon DEF SettingsInv

LEMMA SettingsMove == ASSUME part = "settings", [Next]_vars PROVE [Robot!Setup!Next]_(Robot!Setup!vars)
<1>1. Settings!Next \/ UNCHANGED slots
  BY Zenon DEF Next, vars
<1>2. UNCHANGED slots => UNCHANGED Robot!Setup!vars
  BY DEF slots, Robot!Setup!vars
<1> QED BY <1>1, <1>2, SameNext, Zenon

LEMMA SettingsStep == ASSUME SettingsInv, [Next]_vars PROVE SettingsInv'
<1> SUFFICES ASSUME part = "settings" PROVE Robot!SetupInv'
  BY PartStays, Zenon DEF SettingsInv
<1>1. Robot!SetupInv
  BY Zenon DEF SettingsInv
<1> QED BY <1>1, SettingsMove, SettingsSound, Robot!SetupInvStep, Zenon

\* The mapping in force can be inverted on every board point, and the files a server starts from fit
\* each other, unless requests overlapped or were cut short, the script wrote them or the environment
\* overrules a saved limit (kinematics.py, setup_settings_logic.py, config.py).
THEOREM SettingsAlwaysFit == Spec => []SettingsFitTogether
<1>1. SettingsInv => SettingsFitTogether
  <2> SUFFICES ASSUME part = "settings", Robot!SetupInv
               PROVE  Settings!MappingStaysInvertible /\ Settings!SavedPairStaysTogether
    BY Zenon DEF SettingsInv, SettingsFitTogether
  <2>1. Robot!SetupTypes
    BY Zenon DEF Robot!SetupInv
  <2>2. Robot!Setup!MappingStaysInvertible
    BY <2>1, Robot!SetupTypesHold, Zenon
  <2>3. Robot!Setup!SavedPairStaysTogether
    BY SettingsSound, Robot!SetupHolds, Zenon
  <2> QED BY <2>2, <2>3, SameMappingStaysInvertible, SameSavedPairStaysTogether, Zenon
<1> QED BY <1>1, SettingsInit, SettingsStep, PTL DEF Spec

\* The points of MCSettings that are not in line lie on a map of whole numbers.
LEMMA AskedPointsFit == Robot!PointsFit
<1> DEFINE a == [f |-> 0, r |-> 0, x |-> 10, y |-> 100]
           b == [f |-> 8, r |-> 0, x |-> 330, y |-> 108]
           c == [f |-> 0, r |-> 9, x |-> 1, y |-> 460]
           m == << << 40, -1, 10 >>, << 1, 40, 100 >> >>
           Known(S) == S = {a, b, c} \/ S = {a}
<1>1. ASSUME NEW r \in CalibrationsAsked, r.kind = "points" PROVE Known(r.samples)
  BY <1>1 DEF CalibrationsAsked
<1>2. ~Robot!Setup!NonCollinear({a})
  BY DEF Robot!Setup!NonCollinear, Robot!Setup!Area
<1>3. Robot!ThreeFit({a, b, c})
  <2>1. a \in Robot!Sample /\ b \in Robot!Sample /\ c \in Robot!Sample
    BY DEF Robot!Sample, Robot!Setup!FileIds, Robot!Setup!RankIds
  <2>2. Robot!Setup!Area(a, b, c) # 0
    BY DEF Robot!Setup!Area
  <2>3. m \in Robot!Setup!Matrix /\ Robot!Setup!Det(m) # 0
    BY DEF Robot!Setup!Matrix, Robot!Setup!Det
  <2>4. \A q \in {a, b, c} : Robot!Setup!At(m, q.f, q.r) = [x |-> q.x, y |-> q.y]
    BY DEF Robot!Setup!At
  <2> HIDE DEF a, b, c, m
  <2> QED BY <2>1, <2>2, <2>3, <2>4, Zenon DEF Robot!ThreeFit
<1> SUFFICES ASSUME NEW r \in CalibrationsAsked, r.kind = "points", Robot!Setup!NonCollinear(r.samples)
             PROVE  Robot!ThreeFit(r.samples)
  BY Zenon DEF Robot!PointsFit
<1>4. Known(r.samples)
  BY <1>1
<1> HIDE DEF a, b, c
<1> QED BY <1>2, <1>3, <1>4

\* A refused calibration leaves no trace in memory (robot_routes.py), and one that is taken
\* from measured points maps each of them to where it was measured (kinematics.py).
THEOREM CalibrationsAreWhole == Spec => CalibrationAllOrNothing
<1>1. SettingsInv /\ [Next]_vars => [part = "settings" => Settings!RefusalUndone /\ Settings!MeasuredPointsHold]_vars
  <2> SUFFICES ASSUME part = "settings", Robot!SetupInv, [Next]_vars
               PROVE  Settings!RefusalUndone /\ Settings!MeasuredPointsHold
    BY Zenon DEF SettingsInv
  <2>1. Robot!Setup!RefusalUndone
    BY SettingsMove, SettingsSound, Robot!StepRefusal, Zenon
  <2>2. Robot!SetupTypes
    BY Zenon DEF Robot!SetupInv
  <2>3. Robot!Setup!MeasuredPointsHold
    BY <2>2, SettingsMove, AskedPointsFit, Robot!StepMeasured, Zenon
  <2> QED BY <2>1, <2>3, SameRefusalUndone, SameMeasuredPointsHold, Zenon
<1> QED BY <1>1, SettingsInit, SettingsStep, PTL DEF Spec, CalibrationAllOrNothing
=============================================================================
