------------------------------ MODULE MCParts ------------------------------
(***************************************************************************)
(* Instances, for TLC, of the parts that share no state with one another:  *)
(* "part" says which of them a behaviour is one of, and s1 to s12 are its  *)
(* variables, in the order of its module.  TLC explores the state graphs   *)
(* of all parts side by side.                                              *)
(***************************************************************************)
EXTENDS RegisterCodec, FiniteSets, MCSettings

CONSTANTS None, Idle, Torn, Missing, NoTemp, NoSplit, NoPoint, NoMap

\* None is no value of a variable that may hold it.
ASSUME NoneAssumption ==
    /\ None \notin Nat /\ None \notin BOOLEAN
    /\ None \notin {"t1", "t2", "k1", "k2", "ca", "cb"}
    /\ None \notin [start : 0..7, count : 0..2]
    /\ None \notin {"called", "queued", "awake", "asleep", "backoff", "done", "services", "tasks", "loop", "end", "stop"}
    /\ None \notin {"c1", "c2"}
    /\ \A of, corners \in {"c1", "c2"}, size \in {"1000", "800"} :
           LET warp == [of |-> of, size |-> size]
           IN None # warp /\ None # [matrix |-> warp, corners |-> corners, size |-> size]

VARIABLES part, s1, s2, s3, s4, s5, s6, s7, s8, s9, s10, s11, s12
slots == <<s1, s2, s3, s4, s5, s6, s7, s8, s9, s10, s11, s12>>
vars == <<part, slots>>

-----------------------------------------------------------------------------
(* The HTTP and socket boundary. *)

Limiter == INSTANCE RateLimiter WITH
    Key <- {"k1", "k2"}, Limit <- 2, Window <- 3, MaxBuckets <- 1, MaxTime <- 7,
    now <- s1, buckets <- s2, lastPrune <- s3, passed <- s4, evicted <- s5

Tokens == INSTANCE TokenStore WITH
    Token <- {"t1", "t2"}, Socket <- {"s1"}, Life <- 2, MaxTime <- 4,
    now <- s1, exp <- s2, revoked <- s3, stored <- s4, reachable <- s5, claims <- s6, accepted <- s7, out <- s8

Answers == INSTANCE AnswerStore WITH
    Thread <- {"r1", "r2"}, Key <- {"k1"}, Ttl <- 2, MaxTime <- 5,
    now <- s1, records <- s2, req <- s3, last <- s4

Access == INSTANCE AccessGuard WITH
    Role <- {"viewer", "operator", "admin"}, Ending <- {"status"}, request <- s1, answer <- s2

Entry == INSTANCE CommandEntry WITH request <- s1, answer <- s2, published <- s3

(* The program's workers and what is stored of a game. *)

Workers == INSTANCE WorkerLifecycle WITH
    Order <- <<"camera", "robot_status", "robot_watchdog">>, Camera <- "camera", Watchdog <- "robot_watchdog",
    StatusWorker <- "robot_status", FakeRobot <- FALSE, Timeout <- 1,
    boot <- s1, flags <- s2, results <- s3, hook <- s4, hooked <- s5, loop <- s6, work <- s7, link <- s8,
    silence <- s9, judged <- s10, healthy <- s11

Record == INSTANCE EventRecord WITH
    Publisher <- {"p1"}, Console <- {"c1"}, QueueSize <- 2, CriticalSize <- 1, BatchSize <- 2, PageSize <- 1,
    MaxEvents <- 2, MaxSessions <- 1,
    ctl <- s1, thread <- s2, console <- s3, queue <- s4, critical <- s5, worker <- s6, orphan <- s7, table <- s8,
    hist <- s9

Sheet == INSTANCE MoveSheet WITH MaxMoves <- 4, MaxEvents <- 9, log <- s1, played <- s2, arm <- s3

(* Settings and calibration. *)

Settings == INSTANCE SetupSettings WITH
    Thread <- {"h1", "h2"}, SettingsRequests <- SettingsAsked, CalRequests <- CalibrationsAsked,
    ScriptInputs <- ScriptFiles, Tests <- TestsAsked, Env <- EnvironmentLimits, Default <- DefaultSettings,
    Production <- TRUE, Keyed <- FALSE, Word <- SettingWords, MaxRequests <- 2, MaxRestarts <- 1,
    live <- s1, conf <- s2, calFile <- s3, setFile <- s4, temp <- s5, report <- s6, job <- s7, script <- s8, up <- s9,
    requests <- s10, restarts <- s11, disturbed <- s12

\* The values of MCSettings are of the kinds their fields are of, and fit each other.
ASSUME SettingsAssumption ==
    Settings!FieldsSound /\ Settings!RequestsSound /\ Settings!NothingIsAValue /\ Settings!DefaultsFit

Calibration == INSTANCE VisionCalibration WITH
    Request <- {"h1", "h2"}, Corners <- {"c1", "c2"}, Sizes <- {"1000", "800"}, MaxStarts <- 3,
    corrector <- s1, published <- s2, shown <- s3, file <- s4, size <- s5, req <- s6, frame <- s7, starts <- s8,
    mixed <- s9

(* What the dashboard is told. *)

Happening(prefix, words, source, module, status, severity, trace) ==
    [prefix |-> prefix, words |-> words, source |-> source, module |-> module, status |-> status,
     severity |-> severity, trace |-> trace]
Happenings ==
    {Happening("ROBOT", {"ROBOT", "ERROR"}, {"robot"}, "", "", "", "t1"),
     Happening("ROBOT", {"ROBOT", "DISCONNECTED", "CONNECTED"}, {"worker"}, "", "disconnected", "", "t1"),
     Happening("DIAGNOSTICS", {"DIAGNOSTICS", "UPDATED"}, {"monitor"}, "metrics", "", "", "t2"),
     Happening("STATE", {"STATE", "UPDATED"}, {"reducer"}, "", "", "", "t3"),
     Happening("SYSTEM", {"SYSTEM", "WARNING"}, {"workflow"}, "ai", "blocked_preflight", "critical", "")}
Dashboard == INSTANCE Telemetry WITH
    Events <- Happenings, MaxEvents <- 3, MaxErrors <- 2, MaxTraces <- 2, MaxTraceEvents <- 2, MaxRecorded <- 5,
    events <- s1, errors <- s2, traces <- s3, active <- s4, nodes <- s5, edges <- s6, count <- s7

\* None is no event either.
ASSUME NoEventAssumption ==
    None \notin [n : 1..5, trace : {e.trace : e \in Happenings}, module : Dashboard!Modules,
                 status : Dashboard!Statuses, severity : {"debug", "info", "warning", "error"}]

(* What the camera sees and the rules say of it. *)

BoxAt(x, y) == [x1 |-> x - 3, y1 |-> y - 3, x2 |-> x + 3, y2 |-> y + 3]
BoxesSeen == {BoxAt(0, 0), BoxAt(6, 1), BoxAt(10, -6), BoxAt(14, 14)}
LabelsSeen == {[colour |-> "black", kind |-> "r"], [colour |-> "unknown", kind |-> "k"],
               [colour |-> "red", kind |-> "unknown"]}
Sight == INSTANCE BoardSight WITH
    Cols <- 3, Rows <- 3, Unit <- 10, Anchor <- <<5, 5>>,
    Boxes <- BoxesSeen, Labels <- LabelsSeen, Confidences <- {40, 80}, MaxDetections <- 3, frame <- s1, board <- s2, best <- s3

White(k) == <<"w", k>>
Black(k) == <<"b", k>>
Endgame ==   \* two rooks against a horse and a pawn
    [turn |-> "w",
     board |-> (<<9, 4>> :> White("k")) @@ (<<0, 4>> :> Black("k")) @@ (<<7, 4>> :> White("r"))
               @@ (<<2, 1>> :> White("r")) @@ (<<2, 6>> :> Black("n")) @@ (<<3, 4>> :> Black("p"))
               @@ (<<9, 2>> :> White("b"))]
Horses ==    \* pinned, blocked and attacking horses, a cannon without a screen
    [turn |-> "b",
     board |-> (<<9, 3>> :> White("k")) @@ (<<0, 5>> :> Black("k")) @@ (<<4, 4>> :> White("n"))
               @@ (<<4, 6>> :> White("n")) @@ (<<2, 5>> :> Black("c")) @@ (<<8, 4>> :> White("a"))
               @@ (<<7, 4>> :> Black("n")) @@ (<<4, 8>> :> White("p"))]
Xiangqi == INSTANCE XiangqiPlay WITH
    Starts <- {Endgame, Horses}, Ghosts <- {<<<<5, 5>>, Black("p")>>}, Dim <- {<<2, 1>>}, Window <- 3, MaxPly <- 1,
    truth <- s1, known <- s2, history <- s3, method <- s4, ply <- s5

(* The robot: poses, and what TMflow reports of itself. *)

Squares == {"a", "b", "c", "d", "dead"}
Picking == INSTANCE PickAndPlace WITH
    Caller <- {"ca", "cb"}, Place <- Squares, DeadZone <- "dead", Safe <- Squares,
    Moves <- {[from |-> "a", to |-> "b", capture |-> TRUE], [from |-> "c", to |-> "d", capture |-> FALSE]},
    Piece <- {"p1", "p2", "p3"}, Board <- [p1 |-> "a", p2 |-> "b", p3 |-> "c"],
    reg <- s1, tm <- s2, arm <- s3, closed <- s4, at <- s5, lastId <- s6, lock <- s7, call <- s8, used <- s9

PoseLine(id) == <<<<"lead", id>>, <<"body", id>>>>
Newline == <<"nl", 0>>
Literal == <<"lit", 0>>
Done == <<<<"DONE", 0>>, <<"digit", 4>>, <<"digit", 2>>>>
IngestScripts ==
    {PoseLine("a") \o <<Newline>> \o PoseLine("b") \o <<Newline>>, Done \o Done,
     PoseLine("a") \o <<Literal>> \o PoseLine("b") \o <<Literal>>,
     PoseLine("json") \o <<Newline>> \o Done \o <<Newline>> \o PoseLine("a")}
Ingest == INSTANCE TMflowIngest WITH
    Client <- {"c1"}, MaxStarts <- 2, MaxAge <- 1,
    Scripts <- IngestScripts,
    policy <- s1, server <- s2, starts <- s3, active <- s4, client <- s5, snapshot <- s6, published <- s7,
    failures <- s8

-----------------------------------------------------------------------------

\* A part leaves the slots it does not need alone.
FreeFrom12 == s12 = None
FreeFrom11 == s11 = None /\ FreeFrom12
FreeFrom10 == s10 = None /\ FreeFrom11
FreeFrom9 == s9 = None /\ FreeFrom10
FreeFrom8 == s8 = None /\ FreeFrom9
FreeFrom7 == s7 = None /\ FreeFrom8
FreeFrom6 == s6 = None /\ FreeFrom7
FreeFrom5 == s5 = None /\ FreeFrom6
FreeFrom4 == s4 = None /\ FreeFrom5
FreeFrom3 == s3 = None /\ FreeFrom4

Init ==
    \/ part = "limiter"     /\ Limiter!Init     /\ FreeFrom6
    \/ part = "tokens"      /\ Tokens!Init      /\ FreeFrom9
    \/ part = "answers"     /\ Answers!Init     /\ FreeFrom5
    \/ part = "access"      /\ Access!Init      /\ FreeFrom3
    \/ part = "entry"       /\ Entry!Init       /\ FreeFrom4
    \/ part = "workers"     /\ Workers!Init     /\ FreeFrom12
    \/ part = "record"      /\ Record!Init      /\ FreeFrom10
    \/ part = "sheet"       /\ Sheet!Init       /\ FreeFrom4
    \/ part = "settings"    /\ Settings!Init
    \/ part = "calibration" /\ Calibration!Init /\ FreeFrom10
    \/ part = "dashboard"   /\ Dashboard!Init   /\ FreeFrom8
    \/ part = "sight"       /\ Sight!Init       /\ FreeFrom4
    \/ part = "xiangqi"     /\ Xiangqi!Init     /\ FreeFrom6
    \/ part = "picking"     /\ Picking!Init     /\ FreeFrom10
    \/ part = "ingest"      /\ Ingest!Init      /\ FreeFrom9

Next ==
    \/ part = "limiter"     /\ Limiter!Next     /\ UNCHANGED <<part, s6, s7, s8, s9, s10, s11, s12>>
    \/ part = "tokens"      /\ Tokens!Next      /\ UNCHANGED <<part, s9, s10, s11, s12>>
    \/ part = "answers"     /\ Answers!Next     /\ UNCHANGED <<part, s5, s6, s7, s8, s9, s10, s11, s12>>
    \/ part = "access"      /\ Access!Guard     /\ UNCHANGED <<part, s3, s4, s5, s6, s7, s8, s9, s10, s11, s12>>
    \/ part = "entry"       /\ Entry!Handle     /\ UNCHANGED <<part, s4, s5, s6, s7, s8, s9, s10, s11, s12>>
    \/ part = "workers"     /\ Workers!Next     /\ UNCHANGED <<part, s12>>
    \/ part = "record"      /\ Record!Next      /\ UNCHANGED <<part, s10, s11, s12>>
    \/ part = "sheet"       /\ Sheet!Next       /\ UNCHANGED <<part, s4, s5, s6, s7, s8, s9, s10, s11, s12>>
    \/ part = "settings"    /\ Settings!Next    /\ UNCHANGED part
    \/ part = "calibration" /\ Calibration!Next /\ UNCHANGED <<part, s10, s11, s12>>
    \/ part = "dashboard"   /\ Dashboard!Next   /\ UNCHANGED <<part, s8, s9, s10, s11, s12>>
    \/ part = "sight"       /\ Sight!Next       /\ UNCHANGED <<part, s4, s5, s6, s7, s8, s9, s10, s11, s12>>
    \/ part = "xiangqi"     /\ Xiangqi!Next     /\ UNCHANGED <<part, s6, s7, s8, s9, s10, s11, s12>>
    \/ part = "picking"     /\ Picking!Next     /\ UNCHANGED <<part, s10, s11, s12>>
    \/ part = "ingest"      /\ Ingest!Next      /\ UNCHANGED <<part, s9, s10, s11, s12>>

Spec == Init /\ [][Next]_vars

-----------------------------------------------------------------------------

\* The types of every part's variables.
TypeOK ==
    CASE part = "limiter" -> Limiter!TypeOK
      [] part = "tokens" -> Tokens!TypeOK
      [] part = "answers" -> Answers!TypeOK
      [] part = "access" -> TRUE
      [] part = "entry" -> TRUE
      [] part = "workers" -> Workers!TypeOK
      [] part = "record" -> Record!TypeOK
      [] part = "sheet" -> Sheet!TypeOK
      [] part = "settings" -> Settings!TypeOK
      [] part = "calibration" -> Calibration!TypeOK
      [] part = "dashboard" -> Dashboard!TypeOK
      [] part = "sight" -> Sight!TypeOK
      [] part = "xiangqi" -> Xiangqi!TypeOK
      [] part = "picking" -> Picking!TypeOK
      [] part = "ingest" -> Ingest!TypeOK

\* Who may do what does not depend on the way in: no more than twice the limit passes in the
\* length of a window (utils/rate_limit.py), the most specific rule of a path decides
\* (api/auth_guard.py), and a command word has the same events through the control route, its
\* shortcut and the socket (control_routes.py, socket_handler.py).
GatesHold ==
    /\ part = "limiter" => Limiter!AtMostTwiceTheLimit
    /\ part = "access" => Access!StrictestRuleDecides
    /\ part = "entry" => Entry!SameWordSameEvents

\* A token that was logged out is not let in again, as long as SQLite answers or the
\* revocation is still in memory (utils/auth.py).
LoggedOutStaysOut == part = "tokens" => Tokens!LoggedOutStaysOut

\* A retry that starts after its request was answered gets that answer and carries nothing
\* out a second time while the answer is kept (utils/idempotency.py).
RetriesAreAnswered == [][part = "answers" => Answers!RetryIsAnswered]_vars

\* A worker that was reported started and shown as running is alive (worker_manager.py).
RunningMeansAlive == part = "workers" => Workers!RunningMeansAlive

\* A stop without a cancelled task loses no event, what is stored keeps the order of its
\* thread and names a session that was open (persistence_worker.py, runtime_control.py).
RecordIsTrue ==
    part = "record" => Record!CleanStopKeepsAll /\ Record!StoredInOrder /\ Record!FiledUnderItsSession

\* Paging through a replay meets every event once while others are stored (replay_routes.py).
PagesStay == [][part = "record" => Record!PageStays]_vars

\* The sheet of moves gives every move its side and its round (excel_exporter.py).
RowsTellTheRound == part = "sheet" => Sheet!RowsTellTheRound

\* The mapping in force can be inverted on every board point, and the files a server starts
\* from fit each other, unless the environment overrules what was saved (kinematics.py,
\* setup_settings_logic.py, config.py).
SettingsFitTogether ==
    part = "settings" => Settings!MappingStaysInvertible /\ Settings!SavedPairStaysTogether

\* A refused calibration leaves no trace in memory (robot_routes.py), and one that is taken
\* from measured points maps each of them to where it was measured (kinematics.py).
CalibrationAllOrNothing ==
    [][part = "settings" => Settings!RefusalUndone /\ Settings!MeasuredPointsHold]_vars

\* Warp, inverse, corners and size of the picture are of one calibration, also in the frame
\* in work and after a restart, but for the corners once two requests were saved together
\* (board_calibrator.py, vision_system.py).
WarpIsOfOneBoard ==
    part = "calibration" => Calibration!WarpFitsBoard /\ Calibration!FrameTellsItsBoard

\* The bounded lists of events agree with one another, and a failure stays in the dashboard's
\* picture until something newer is heard of what failed (observability/telemetry.py).
DashboardIsLatest == part = "dashboard" => Dashboard!ListsAgree /\ Dashboard!PictureIsLatest

\* Of the detections on one intersection the most confident, then the nearest, wins in
\* whatever order they come (board_mapper.py); the rules see check from the pieces as from
\* the general and treat both sides alike (rule_engine.py).
RulesAgree ==
    /\ part = "sight" => Sight!BestDetectionWins
    /\ part = "xiangqi" => Xiangqi!RulesAgree

\* A legal move is not taken for another one over a faulty frame (temporal_validator.py).
RepairFindsTheMove == [][part = "xiangqi" => Xiangqi!MoveFound]_vars

\* A move reported done has put the piece on its square, the captured one into the dead zone
\* and opened the gripper; nothing is ever let go in the air (robot_service.py, modbus_adapter.py).
PiecesGoWhereSent == part = "picking" => Picking!SuccessMeansPlaced /\ Picking!NothingIsDropped

\* What is published of TMflow's messages is what it sent, however TCP cuts the stream, but for
\* a number cut short and a line cut after a literal \n (tmflow_socket_ingest_server.py), and a
\* position survives its FEN and its counts (fen/parser.py).
TextsAreWhole ==
    /\ part = "ingest" => Ingest!PublishedIsWhole
    /\ part = "xiangqi" => Xiangqi!PositionsReadBack

-----------------------------------------------------------------------------
(* What the program says of itself and does not keep. *)

\* A status comes with all of its number, "HB,1 or DONE,42" (tmflow_socket_ingest_server.py:42).
NumbersAreWhole == part = "ingest" => Ingest!NumbersAreWhole

\* A pose comes with all of its line, "x,y,z,rx,ry,rz" (tmflow_socket_ingest_server.py:41).
LinesAreWhole == part = "ingest" => Ingest!LinesAreWhole

\* The limits that were saved are the ones the next start uses: "Read setup JSON before
\* env/YAML when setup settings are enabled." (config.py:84).
SavedPairIsUsed == part = "settings" => Settings!SavedPairIsUsed
=============================================================================
