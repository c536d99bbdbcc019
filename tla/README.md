# Verification of the S.M.A.R.T. chess robot

This directory holds a TLA+ verification project for the Xiangqi robot in this
repository: a Flask/asyncio backend (`src/backend`) that watches a physical board
with a camera, asks an engine for a reply and lets a TM robot arm play it, and
the page the player sees. The modules model the parts where threads, timeouts,
restarts and queues meet, and the pure rules the game rests on; TLC checks them
on small instances and TLAPS proves the central invariants for every value of
the constants. Paths below are relative to `src/backend` unless they start with
`docs/`, `tests/`, `scripts/` or `frontend/`.

## 1. The system

### Parts, state, operations

| Part | State it keeps | Operations that change it | Module |
|---|---|---|---|
| Workflow coordinator `application/use_cases/coordinate_workflow.py` | `verify_pending` per trace, `_active_robot_trace_id`, the one-worker executor and its future, `_robot_lock` | `player_done`, `on_vision_move`, `on_engine_complete`, `start_robot_move`, `on_robot_complete`, `_handle_robot_verification`, `end_game` | `RobotWorkflow` |
| Vision capture session `infrastructure/vision/capture_session.py` | active or not, trace, deadline | `start`, `stop`, `tick`, `mark_*` | `RobotWorkflow` |
| Vision thread `infrastructure/vision/inference_worker.py`, `application/services/vision_service.py` | where it is in a frame | `_run`, `on_board_detected`, manual sync | `RobotWorkflow`, `GameRecord` |
| Validator, reconciler `infrastructure/vision/validation/*` | window of frames, `last_stable_state` | `validate`, `_fuse_history`, `reconcile`, `reset` | `GameRecord`, `XiangqiPlay` |
| Robot service and facade `application/services/robot_service.py`, `robot_facade.py` | `_move_lock`, adapter in use | `move_piece`, `configure_adapter`, `halt`, pick and place | `RobotWorkflow`, `SquareCommand`, `PickAndPlace` |
| Modbus adapter `infrastructure/robot/modbus_adapter.py` | the registers, `_command_id` | `send_chess_move`, `send_motion`, `set_gripper`, waits, `halt` | `SquareCommand`, `PickAndPlace`, `RegisterCodec` |
| TMflow JSON adapter `infrastructure/robot/tmflow_json_*.py` | socket, receive buffer, ids, request lock | `connect`, motions, `halt`, ping, `disconnect` | `TMflowLink` |
| techmanpy adapter `infrastructure/robot/techmanpy_adapter.py` | its event loop, lock, queue tag | calls, Vision job, `connect`, `disconnect` | `TechmanLink` |
| TMflow ingest `infrastructure/robot/tmflow_socket_ingest_server.py` | connections, last message, failures | accept, read, authorise, publish, stop | `TMflowIngest` |
| Engine process `application/services/engine_service.py`, `engine_runtime_helpers.py` | UCI process, output queue, status | `probe_compatible_pair`, `start`, `compute`, `close`, `shutdown` | `EngineProcess` |
| Engine worker `runtime/workers/engine_worker.py` | enabled, computing, last FEN | analysis requested/stopped, `_run_async` | `RobotWorkflow`, `PlayerPage` |
| State store `state/store/manager/state_manager.py`, `state/reducers/*` | current state, bounded history | `dispatch`, undo | `GameRecord`, `PlayerPage` |
| Camera sources `infrastructure/vision/camera/*`, `source/*` | source, threads, frame queue | start, stop, switch, read, post a picture | `VisionSource` |
| Picture calibration `infrastructure/vision/board/board_calibrator.py`, `vision_system.py` | corners, warp, inverse, file | `update_corners`, start, warp a frame | `VisionCalibration` |
| Board sight `infrastructure/vision/board/board_mapper.py`, `coordinate_system.py` | none | `map_detections` | `BoardSight` |
| Rules, FEN, notation `domain/game/rule_engine.py`, `core/*`, `utils/fen/parser.py` | none | legality, results, texts | `XiangqiRules` |
| Kinematics, calibration script `utils/kinematics.py`, `scripts/calculate_system_calibration.py` | affine matrices, split, dead zone | mapping, calibration from points | `BoardGeometry` |
| Settings, preflight, commissioning `interfaces/api/setup_*`, `utils/config.py`, `application/services/system_preflight.py` | settings in memory and in files, report | save, calibrate, test, restart | `SettingsRules`, `SetupSettings` |
| Persistence, sessions, replay `runtime/workers/persistence_worker.py`, `infrastructure/database/*`, `runtime_control.py` | queues, batch, table, session | publish, store, stop, page | `EventRecord` |
| Workers, bootstrap `runtime/workers/*`, `runtime/lifecycle`, `application/bootstrap.py` | status per worker, loop, flags | start, stop, watch, teardown | `WorkerLifecycle` |
| Doors `interfaces/api/control_routes.py`, `interfaces/websocket/socket_handler.py` | none of their own | one command word, five ways in | `CommandEntry` |
| Boundary `utils/auth.py`, `rate_limit.py`, `idempotency.py`, `api/auth_guard.py` | revocations, windows, answers | logout, check, replay, remember | `TokenStore`, `RateLimiter`, `AnswerStore`, `AccessGuard` |
| Player's page `frontend/static/js/modules/core/app.js`, `state/*` | copy of the state, button lock | events, snapshots, click, timers | `PlayerPage` |
| Telemetry `observability/telemetry.py` | bounded lists, traces, topology | `record_event`, snapshot | `Telemetry` |
| Export `utils/serialization/excel_exporter.py` | none | sheet of moves | `MoveSheet` |

### How they interact

* `bus.publish` runs synchronous subscribers on the publisher's thread, in order,
  and then hands the event to the asynchronous ones through
  `loop.call_soon_threadsafe`. `StateManager.dispatch` is asynchronous: every
  state change is applied **later**, in order of publication, on the event loop;
  what a synchronous handler publishes itself is queued **before** the event it
  handles.
* A round is: player moves, "player done" starts a capture session, the vision
  thread finds a stable board and publishes it; `on_vision_move` (on that
  thread) validates the move and enables the engine; the engine worker (event
  loop) publishes a best move; `on_engine_complete` submits a job to the single
  actuation worker; `RobotService.move_piece` moves the arm and publishes
  `ROBOT_MOVE_COMPLETED`; `on_robot_complete` (worker thread) sets
  `verify_pending` and starts a capture session of its own; the next stable
  board with that trace verifies the move.
* The arm is driven through registers a TMflow project polls (Modbus), through
  JSON messages on a socket, or through External Script (techmanpy).
* HTTP handlers run on their own threads and may poke any of this at any time.
* The page applies pushed and requested snapshots in the order they arrive.

### Hard behaviours, and what must hold

| Part | Hard behaviour | What makes it correct |
|---|---|---|
| Coordinator | operator, engine and camera race to start or free a command; a handler reads the active trace and uses it after unlocking | never two commands, never a command during a verification, one verification, booked on its own command; every command ends |
| Capture session | timeouts, restarts, two users of one session | a session cannot hang; a timed-out verification can be recovered |
| Robot service, registers | a timed-out sender goes on as an orphan; registers are written one by one; ids wrap and restart; a step of a pick fails | success means carried out; squares and id belong together; nothing twice; the trigger is released; a piece is never let go in the air |
| Links to the arm | late answers, lost links, a halt behind a motion, a loop stopped under a call | an answer fits its question; every call returns |
| Validator and store | two copies of the position on two threads, a queue in between, faulty frames | copies do not drift apart; a legal move is not taken for another |
| State store | bounded history shared by moves and diagnostics | undo takes back exactly the last position; turn and move list agree |
| Engine process | late and stolen lines, deaths, shutdown during a start | a best move belongs to its position; no process survives the shutdown |
| Camera sources, calibration | producers collide on a full queue; corners, warp and size replaced one by one | a shown stream has a reader; a frame is mapped by one calibration |
| Settings | two files, overrides from the environment, crashes, overlapping handlers | what is loaded fits together; a refused change leaves no trace |
| Persistence | stop races the batch in work; SQLite fails; readers page meanwhile | nothing lost on a clean stop; order and session kept; pages do not overlap |
| Boundary | windows, evictions, restarts, a locked database, retries | limits, logouts and retries hold |
| Page | old snapshots after new events, lost answers | the page settles on the store; the button is not locked for ever |

`PROJECT.json` lists every hazard at its source line with the properties that
cover it, or why none does.

## 2. Modules

| Module | Role |
|---|---|
| `CommandGate` | abstract: what the coordinator promises about commands (free, running, verifying) |
| `RobotWorkflow` | coordinator, actuation worker, move lock, capture session, vision thread, engine worker, handlers, game status: the composition of the parts that play a round |
| `SquareCommand` | one chess move through the register bank: callers, orphaned senders, adapter, TMflow |
| `UndoLine` | abstract: what undo promises |
| `GameRecord` | recorded game, undo history, event-loop queue, validator baseline, judgement of moves, operator requests |
| `PickAndPlace`, `RegisterCodec` | a move as poses and gripper commands; numbers in 16-bit registers |
| `EngineProcess`, `TMflowLink`, `TechmanLink`, `VisionSource`, `PlayerPage` | parts with liveness, run by `MCFairParts` |
| `RateLimiter`, `TokenStore`, `AnswerStore`, `AccessGuard`, `CommandEntry`, `WorkerLifecycle`, `EventRecord`, `MoveSheet`, `SetupSettings` (over `SettingsRules` and `BoardGeometry`), `VisionCalibration`, `Telemetry`, `BoardSight`, `XiangqiPlay` (over `XiangqiRules`), `TMflowIngest` | parts with safety, run by `MCParts` |
| `MC*` | instances for TLC; `MCGameRecord` also holds a refinement mapping, `MCSettings` the settings and requests of the instance |
| `*_proofs` | theorems and their proofs; `Parts_proofs`, `RobotParts_proofs` and `FairParts_proofs` take several components as instances of their modules, `MCParts_proofs` and `MCFairParts_proofs` bring the results to the compositions that are checked (and hold the theorem of `RegisterCodec`) |

### RobotWorkflow

`pending` is the set of traces with `verify_pending`, `active` is
`_active_robot_trace_id`, `mover["job"]` is the actuation worker (its `pc` is not
"idle" exactly while the future is not done), `mover["test"]` a one-move test of
the setup page, `lock` the move lock, `session` the capture session, `vision` the
vision thread, `engine` the worker's switch (on/off, busy/draining while it
computes), `game` the status the coordinator reads, `loopq` the reducers' queue.
`ended` is a history variable.

* A mover's path follows `move_piece` and, inside it, `on_robot_complete`: take
  the lock (`JobBegin`, `TestBegin`), `MotionEnds`, `ReadActive` (under the
  robot lock), `JudgeSkip`/`JudgeVerify`, `LookSession`, `OpenSession`,
  `Finish`, then for the job the vision cycle of TMflow (`TriggerDone`,
  `TriggerFailed`) and `Unwind`. Every access to shared state is a step of its
  own, so any other thread may come in between.
* The vision thread: `CaptureFrame`, `SessionExpires`, `NoStableBoard`,
  `StableBoard` (attributed to the session active *now*), then the coordinator:
  `VisionIgnored`, `VerifyBegins` / `VerifyReleases` (the two halves of
  `_handle_robot_verification`), `PlayerMoveSeen`, and `CloseRound`, which stops
  whatever session is active.
* The engine worker and `Reduce` share the event loop; an engine result runs
  `on_engine_complete` and submits the move in one step.
* Handlers: `PlayerDone`, `CaptureStart/Stop`, `ExecuteReady`, `EndGame`,
  `Reset`, `Undo`, `StartEngine`, `StopEngine`, `HandlerFails` (a raised error
  becomes SYSTEM_ERROR).

Abstractions: traces are ids that may be reused once nothing refers to them; the
preflight and freshness gates may pass or fail in every state; `is_game_over`
uses the status only, its second half (a terminal recorded FEN) being covered by
`DecisivePosition`, which ends the game at any moment; `ENGINE_AUTO_ANALYZE` may
be on or off; the real `RobotService` is modelled (the simulated robot
publishes no completion events); the page never sends a trace with "player
done", so the handler always creates one; a failed motion releases the lock and
ends the job in one step, the wait for its orphaned sender being the subject of
`SquareCommand`; the exception branch of the job is merged with
`TriggerFailed`/`Unwind`, which clear the same state.

### SquareCommand

The lab profile (`docs/REAL_ROBOT_READINESS.md`, `.env.example`): Modbus, server
role, `square_command` payload, completed id required. In the server role
register writes are local. `bank` holds the registers, `call[c]` a caller's place
in `move_piece` (`svc`) and its sender's in `send_chess_move` (`io`). The sender
clears the trigger, writes squares, id and trigger one by one, then polls;
status and completed id are read in separate steps. `MotionTimeout`,
`HaltAndFail` and `Join` are `asyncio.wait_for`, the halt, and `asyncio.run`
waiting for the abandoned thread. `Reconfigure` replaces the adapter under a
running sender, `Restart` the process; both make a new bank and restart the ids.
TMflow is external, modelled from what the adapter expects of it: it accepts a
set trigger, reads the registers in one go, reports moving, then writes id and
status in either order, may stop on an error or a halt, and needs the trigger
low before it accepts again. Each command is used once and `IdWrap` is at least
the number of commands, as 32767 is in practice. The history variable `leftover`
marks a bank made while TMflow was busy with a command of the one before: ids
restart at 1, so an old answer can answer a new command; `SuccessMeansCarriedOut`
excepts that case and says so.

### PickAndPlace and RegisterCodec

The other Modbus profile: payload `pose`, role client, where Python knows the
poses. `Plan` is the list of motions and gripper commands `move_piece` makes of
a move (a captured piece goes to the dead zone first); each step is sent by
`send_motion` register by register, acknowledged by the echoed id, and completed
by an idle status with the matching acknowledgement. The registers live in the
robot's device: they survive the program and a write may fail after it was
carried out. Pieces, gripper, arm and TMflow are external.
`SuccessMeansPlaced` and `NothingIsDropped` hold under what is assumed of the
environment, which the comments in the module state: a halt is over before the
next command is accepted; the service's timeout only strikes while the sender
waits for completion; a sender left behind meddles at most with the first motion
of the next move. `SuccessMeansPlaced` speaks of moves that were fit to begin
(`Fit`: the gripper open and empty, no two pieces on one square), which nothing in the
code looks at. The program may be restarted at any moment, also while the controller is
busy. `RegisterCodec` is the arithmetic of `_signed_to_register_pair` and its inverse.

### GameRecord

A board is the number of moves made with each side's pieces: enough to tell
positions apart, to know whose piece a move moves, and to say when a general is
gone (`MaxPly` moves, `Ended`). `store` has the FEN (`board`, `side`),
`current_turn`, the length of the move list and GAME_OVER; `history` and `loopq`
are the state manager's; `baseline` is the validator's last stable board.

* Vision thread: `ReadTurn` (`_turn_from_payload`), `Validate` (the first stable
  board is taken as it is; a later one must be one legal move of the side that
  was read away from the baseline), `Judge` (`on_vision_move`, with what it
  publishes queued first), `Publish` (the vision event, FEN with the side read).
* Manual synchronisation, on an HTTP thread: `SyncReset`, `SyncFails`,
  `SyncCommit`, `SyncPublish`.
* `ManualMove` computes the next FEN from the record while earlier moves may
  still wait in the queue; `Undo`, `Reset`; `Background` is any event that
  changes the status (`status`) or only trace and diagnostics (`note`) — each
  takes a place in the undo history.
* `Dispatch` and `DispatchUndo` are `StateManager.dispatch` with the reducers.

Abstractions: a position without legal moves but with both generals is not
distinguished; every FEN passes the validator; scores and frame fusion are the
subject of `XiangqiPlay`; one synchronisation at a time; the trace of a result
decides between verification and judgement, here a free choice. When the
coordinator judges a move against another position than the validator's, legal
and illegal are both possible.

### XiangqiRules, XiangqiPlay, BoardSight

`XiangqiRules` translates the move generator, check, game result, FEN reading
and writing, piece counts and Chinese notation as operators on functions from
cells to pieces, and the reconciler's scores in integers. `XiangqiPlay` plays
moves before a camera that misses the same pieces in every frame or takes one
for another in one frame of the window; the validator fuses the last frames and
repairs them. Three references are stated independently of the code: check seen
from the general outwards (`Attacked`), the board turned with its colours
(`RulesAgree`), and reading back what was written (`PositionsReadBack`).
`MoveFound` says that a legal move is never taken for another. `BoardSight` is
the step before: boxes to intersections; `BestDetectionWins` compares the loop
of `map_detections` with a definition that has no order.

### EngineProcess

`EngineService` runs on one event loop, so a step ends where the code awaits.
Tasks are the engine worker (`compute`), the probe that looks for a network the
engine accepts, and the teardown hook; `proc` is the subprocess with its unread
commands, `out` the bounded queue its reader fills. The subprocess is external:
it answers in order, may die, complain or stay silent. Opening a process is two
steps, because the code awaits the operating system in between (`Spawn`,
`Spawned`); a task that is cancelled while `close()` waits for the reader goes on,
the cancellation being suppressed there (`Swallows`). `overdue` is what the
engine still owed when a question was asked. `AnswerFitsQuestion` says that no
other answer than to these or to the question itself is published: that is the
drain and the wait for "readyok". An owed answer **is** taken for the next
position's (`AnswerIsOfItsQuestion`, violated: `engine_late_answer`).
`NothingLeftRunning` is the shutdown during a start when the worker takes its
cancellation; when it does not, a process survives (`ShutdownClosesEngine`,
violated as section 3 says). `CandidatesAreNotAsked` likewise covers every
moment but the trial itself and a shutdown.

### TMflowLink, TechmanLink

`TMflowLink` is the JSON adapter over its socket: the re-entrant lock, the id of
a command, acknowledgement and final answer with their timeouts, `halt` behind a
running motion, ping beside it, the hello, and a robot that holds commands in
order. A sequence number with the second of its making is taken as fresh.
`TechmanLink` is the techmanpy adapter: coroutines handed to an event loop in a
thread of its own (started on demand, stopped by `disconnect`), the Vision job by
leaving the Listen node, the queue tag. The library and the controller are
external. A probe of the Listen node may fail at any time, and the adapter takes
that for the flow being outside. `blind` remembers such a probe of a call while
the flow was in Listen: `VisionHasRun` excepts it, and `TriggeredMeansVision`
(violated, see section 3) shows that the exception is needed.

### VisionSource

The capture thread, the TMflow frame reader and the passive TMvision source,
`VisionSourceManager` which switches between them, the routes that post
pictures, and the shared queue. Every call on the queue is a step, so that two
`put_raw` interleave; `StreamReaderSurvives` is about the reader of a TMflow stream,
which catches what the queue raises (a camera's capture thread does not). Pictures
are only counted.

### PlayerPage

Positions are numbered, black (the engine) is to move in the odd ones. `events`
is the event loop's queue (`MaxQueue` events, and one of the status worker besides
them), `wire` the socket, `late` and `http` requests whose answers are on their
way, `view` what the page shows, `page` the button. The page applies every
snapshot without looking at its age. `AUTO_EXECUTE_ROBOT` is off, so only the
button sends a move. Camera and arm are external.

### EventRecord, WorkerLifecycle

`EventRecord`: publishers and consoles run the persistence worker's handler in
their own threads; the worker moves batches from two bounded queues into SQLite,
retries, and is stopped with a time limit after which its task is cancelled;
`orphan` is what such a task still does. A client pages through the table
meanwhile. The three properties say which of this a **clean** stop guarantees: after
a cancelled task events may be lost, and a critical event that met a full queue
is stored at once and so before older ones (`clean`, `cut` and `direct` of `hist`).
The client sees the state updates among the rows (`Only`, a recursive function).
`WorkerLifecycle`: `bootstrap_system`, the runtime's loop, loop and thread workers,
the teardown hook which may come at any moment, the watchdog fed by the status
worker.

### The boundary

`RateLimiter` (fixed windows, pruning, eviction), `TokenStore` (revocation in memory
and SQLite, restarts, sockets with the claims of their connection),
`AnswerStore` (two requests with one key), `AccessGuard` (the table of rules,
searched from the top, against "the longest prefix, the strictest role"),
`CommandEntry` (the doors of one command; a mode in the payload of a socket's RESUME is
excepted by the property).

### Settings and calibration

`SettingsRules` translates the validation of the setup page, the aliases and what
`config.py` takes from the environment and what from the file; one dictionary laid over
another is `Over`. `BoardGeometry`
has the affine mapping with its split at the river, dead zone, calibration from
corners or from points, in integers: one unit is the drift of 1e-6 mm the
validator tolerates. `SetupSettings` composes them: handlers on several threads,
cut where they read or write a file (calibration, settings, temporary file), the
calibration script beside the program, crashes between any two steps (which may
leave a file torn) and restarts. `disturbed` marks what some properties except:
handlers that overlap on files nothing locks, one cut short by a crash, and the
script's writing behind the program's back. The last section of the module names what
the theorems ask of requests, defaults and script files (`FieldsSound`, `RequestsSound`,
`NothingIsAValue`, `DefaultsFit`). The instance runs in production with a limit set in
the environment, as `.env.example` does, which goes before a saved one:
`SavedPairStaysTogether` holds unless that happened to a limit that is stored with another
value (`Overruled`), and `SavedPairIsUsed` without the exception (violated, see section 3).

`VisionCalibration` is the same question for the picture: a warp is the corners
and the size it was computed from; a request replaces corner set, warp, inverse
and published corners in the order and under the locks of the code. Requests
overlap: one reads back the corners another has set, and saves its own matrix with
them (`Save`), which a restart then loads. `mixed` remembers such a save; from then
on the properties no longer say that the corners are the warp's.

### Telemetry, MoveSheet, TMflowIngest

`Telemetry` classifies an event by the words of its type and source, and keeps
the bounded lists, the traces in order of use and the topology. `MoveSheet` turns stored
events into rows: rejected, repeated and robot events are among them.
`TMflowIngest` cuts a TCP stream into messages: a script of tokens arrives in any pieces,
a status tag may come without a newline, what is left is cut again when nothing comes for a
while (`Recut`), and the server may be stopped and started. Numbers have two digits and
separators are newlines or the two characters `\n`, so that a cut can fall into each.
`PublishedIsWhole` excepts the two texts that are not whole messages of the peer and no more: a
status cut inside its number (`NumbersAreWhole`, violated: `ingest_numbers`) and a line that
lost its first two characters after a literal `\n` (`LinesAreWhole`, violated, see section 3).

## 3. Runs

| Run | Instance | Shows | States |
|---|---|---|---|
| workflow_safety | the game: 4 traces (symmetric), queue 2, no setup tests; beside it, with variables of its own: 4 traces, queue 1, setup tests | `TypeOK`, `CommandExclusion`, `OneVerification`, `VerificationNamesActive`, refinement of `CommandGate`; with setup tests `TestsTakeTurns` | 1.6 M |
| workflow_liveness | 2 traces, queue 1 | `CommandEnds`, `VerificationSessionResolves` under fairness | 88 k |
| workflow_restart | 2 traces, queue 1 | *violation* of `RestartRecovers` | |
| workflow_command_after_end | 2 traces, queue 2 | *violation* of `NoCommandAfterEnd` | |
| square | 2 callers, 2 moves, ids wrap at 2 | `SuccessMeansCarriedOut`, `SquaresMatchId`, `NeverRepeated`; under fairness `TriggerReleased`, `CallReturns` | 167 k |
| record | hand moves, undo, reset: 2 plies, 2 moves, history 2, queue 2; beside it, with variables of its own: sync, 2 plies, 1 move, no history, queue 2 | `BoardFollowsVision`, `TurnCountsMoves`, refinement of `UndoLine`, `UndoTakesBack` | 1.9 M |
| record_sides | camera moves only, 3 plies | *violation* of `RecognisedMoveAccepted` | |
| parts | fifteen parts side by side, see below | one property per question, each naming the modules' own | 1.3 M |
| fair_parts | five parts side by side, see below | `AnswersFit`, `RunnersMatch`; under fairness `CallsReturn`, `ArmLockEnds`, `PageSettles` | 297 k |
| ingest_numbers | as `parts` | *violation* of `NumbersAreWhole` | |
| engine_late_answer | as `fair_parts` | *violation* of `AnswerIsOfItsQuestion` | |
| stale_ready_move | 1 position after the first, queue 2, wire 1 | *violation* of `ReadyMoveIsForThisBoard` | |

**Several parts in one run.** `MCParts` and `MCFairParts` instantiate parts that
share no state: the variable `part` says which one a behaviour is a behaviour
of, and the others' variables stay as they began. The states of the parts add
up instead of multiplying, and nothing about one part depends on another.
Where parts do share state they are composed in one module (`RobotWorkflow`,
`GameRecord`, `SetupSettings`, `PlayerPage`). A property of these runs is an
implication or a conjunction that names the parts' own properties, which are
stated and explained in their modules.

| In `parts` | Bounds | Why they suffice |
|---|---|---|
| limiter | 2 keys, limit 2, window 3, 1 bucket | a bucket must be evicted for another; two windows meet |
| tokens | 2 tokens, 1 socket, life 2 | one expires while the other is revoked; both tables are purged |
| answers | 2 threads, 1 key, life 2 | two requests with one key, before, during and after the answer is kept |
| access, entry | every rule's paths with one ending, every word at every door | the inputs are all there is |
| workers | camera, status worker, watchdog | one that fails, one thread, one that depends on it |
| record | queue 2, critical 1, batch 2, page 1, 2 events, 1 session | both queues overflow, a batch fails halfway, a page boundary moves |
| sheet | 4 moves, 9 events | two rounds, with failed and repeated rows in between |
| settings | 2 threads, 2 requests, 1 restart, script, production with one limit from the environment | two handlers overlap, or one meets the script or a crash; a saved limit is overruled |
| calibration | 2 requests, 2 corner sets, 2 sizes, 3 starts | a frame meets a change; requests overlap; a file of another size is loaded |
| dashboard | 5 events, lists of 3, 2 and 2, 2 traces | every list overflows; a trace is used again |
| sight | 3×3 board, 4 boxes, up to 3 detections | ties, neighbours, boxes off the board |
| xiangqi | 2 positions, window 3, 1 move | pins, blocked horses, screens, check; a fault in one frame and one in all |
| picking | 2 callers, 2 moves (one captures), 3 pieces | a sender is left behind and meets the next move; the program restarts under a busy controller |
| ingest | 4 scripts, 1 connection, 2 starts | every way a message ends, cut anywhere, also inside a number and after a literal `\n` |

In `fair_parts`: the engine with 2 positions, 1 network, an output queue of 1
and at most 2 unread commands (a late answer meets the next question, and the
queue overflows); the link with 2 callers, 2 commands and 2 sockets (one waits
for the lock the other holds, one reconnection); the sources with 2 objects, 2
threads, a queue of 1 and 2 switches (an old thread survives its source); techmanpy
with 2 callers and 3 calls (one disconnects under the other); the page with one
move made, a queue of 1 besides the status worker's event, and a wire of 1 (an
old snapshot after a new one).

**The other bounds.** At most four traces are in use at once in the coordinator
(pending, active, session, vision), and a handler that needs a fresh one waits
for it, so with four nothing is lost; liveness needs two because the
verification and one intruder suffice for every race. A queue of two lets an
event be overtaken by what is published after it is read but before it is
applied. Two callers are a sender and an orphan, two moves let the ids of two
generations meet; the theorems cover the rest. In the record, two plies allow a
move that can be judged and one that ends the game; a history of two is the smallest that must forget
*and* can go back over a repetition; `StoreFollowsVision` does not look at the
history, which is therefore empty where the camera synchronises; `BoardFollowsVision` asks for it in
both games of the run. At most one background event waits
at a time. Moves recorded and on their way are at most `MaxMoves`.

Deadlock is checked in the runs of `RobotWorkflow`, `SquareCommand` and
`GameRecord`. It is switched off for `parts`, `fair_parts` and
`stale_ready_move` and in the violation runs over the same instances, whose parts may really stop: a request that was answered, a
program that was shut down, a bound that was reached.

**Fairness.** `RobotWorkflow`: the worker, the test, the vision thread and the
event loop keep running (every wait in them has a timeout); strong fairness of
the movers stands for getting a turn at the bounded queue and for a fresh id,
which the code always has; strong fairness of `SessionExpires` because a session
that is not replaced reaches its deadline although frames keep arriving in
between. `workflow_restart` adds a player who restarts recognition and a camera
that sees a stable board again and again: even then the verification is not
answered. `SquareCommand`: caller and sender threads run, and a polling sender
meets its own timeout again and again (`GivesUp`); nothing is assumed of TMflow.
`MCFairParts` asks weak fairness of the program's own threads and timeouts only:
the engine service's tasks and the time limit of a search; a caller's own steps and
the two timeouts of a JSON request; the steps of camera threads; the steps of
a techmanpy call, which ends at its timeout if nothing else; on the page's side the event loop, the
status worker, the socket, a request that ends by answer or timeout, a late
answer that arrives or is lost, and the button's timer. Nothing is assumed of engine,
robot, controller or camera. The other modules have safety properties only.

**What the violations show.** Each is described with its quotation under
"findings" in `PROJECT.json`. A ready move can be executed after the game ended. It
can also be the answer to an earlier position: the route that executes it looks
neither at the position nor at whose turn it is. A verification that timed out
cannot be recovered by starting recognition again, as the page tells the
player to. And the recorded FEN names the side that has just moved, so that the
next legal move is rejected as illegal and the engine analyses the position for
the wrong side.

Two more stand beside a property of a passing run and show that what it excepts
happens. The engine's answer to a search that outlived its time limit is
published for the next position (`engine_late_answer`), and a status number cut by
TCP is published with its first digits (`ingest_numbers`).

Four further exceptions happen as well. Each has its strict property, which TLC finds
violated when it takes the place of the invariant in one of these two configurations:

| In | Invariant | What happens |
|---|---|---|
| `Engine_late_answer.cfg` | `ShutdownClosesEngine` | a worker that is cancelled while it closes an engine (`engine_service.py:429`) starts the next one behind the shutdown |
| `Engine_late_answer.cfg` | `TriggeredMeansVision` | a failed probe of the Listen node (`techmanpy_adapter.py:262`) is taken for the flow being outside, and Vision is reported done without having run |
| `Ingest_numbers.cfg` | `LinesAreWhole` | a line after a literal `\n` loses its first two characters (`tmflow_socket_ingest_server.py:466`) |
| `Ingest_numbers.cfg` | `SavedPairIsUsed` | in production a limit from the environment goes before the one saved with its calibration (`config.py:89`), although the setup file is said to be read first |

Each property of a passing run has a mutant: an operator with a `Mutant:`
comment beside the definition it replaces (a dropped check under the lock, an id
not compared, a trigger left set, a history that drops the wrong end, a loser
of two detections kept), which TLC finds.

## 4. Proofs

`RobotWorkflow_proofs` — for any set of traces, queue bound and setting of
`HardwareTests`:

* `TypeCorrect` from `TypeInv == TypeOK /\ JudgedTrace`: the trace a mover has read
  and is about to mark pending must be a trace, which the type of its record
  alone does not say.
* `MovesExclude`, `CommandsExclude`, `VerificationUnique`, `VerificationNamed`
  from `RobotInv`. The properties are not inductive one by one: that a new
  verification is the only one needs that none was pending while the command
  ran (`CommandExclusion`); that the active trace is not another command's needs
  what the mover read under the lock and has not used yet (`JudgedNamesActive`);
  and a mover's step needs that it holds the lock (`OneMoveAtATime`). With the
  setup tests disabled no test ever moves (`NoTest`); with them enabled only
  `OneMoveAtATime` remains, which `workflow_safety` shows as `TestsTakeTurns`.
* `ImplementsGate`: every step maps to a step of `CommandGate` or leaves `GatePhase`
  alone.

`GameRecord_proofs` — for every bound and every set of requests:

* `RecordTypeCorrect` and `TurnAlwaysCountsMoves` from `FitInv`, the conjunction of
  the two: the reducer computes the turn from the game it meets, so the queue
  plays no part (`ReducedFits`), and an undo restores an entry that fits too,
  which is why the history is part of the invariant.
* `RecordFollowsCamera`: `StoreFollowsVision` speaks of a moment when nothing is on
  its way, so the invariant must say what holds while something is. `FollowInv`
  adds, as long as no two writers have overlapped: the vision thread and a
  synchronisation are never both at work (`OneWriter`), a result in their hands is
  the baseline (`Latest`), and the newest vision event in the queue carries the
  baseline or, when none waits, the record has it already (`Settled`). Appending
  to the queue and taking from its front each keep this.
* `ImplementsUndoLine` and `UndoAlwaysTakesBack`, with `FitInv` as the invariant: `Line`
  lists, of history and present, the positions at which the position changes. It is found
  by rank (`Nth` of `Changes`) and not by recursion, so that it can be reasoned about. A
  dispatch appends one game and may drop the oldest (`PositionsWithoutOldest`: the line loses
  a position unless the next game shows it too); an undo goes back over everything that
  shows the present position and takes back one.

`SquareCommand_proofs` — for any callers and any commands:

* `TypeCorrect`, `SquaresAndId`, `CarriedOutOnce` from `IInv`: a sender that still
  writes has a waiting caller with the lock (`LockHeld`), so there is one; what it has
  written follows from its place (`Written`); hence a set trigger stands for one
  whole command that was not carried out yet (`Whole`).
* `SuccessIsTrue`, under `EnoughIds` (finitely many commands, at most
  `IdWrap`): `SInv` adds that the ids of a bank go up to `lastId` and none is given
  twice (`Given`), and that an id under a set trigger, with the controller or in the
  completed register names one command (`Named`). Without the hypothesis ids wrap and an old answer can serve
  a new command, which is why it is one.

`RobotParts_proofs` — the robot's parts that `parts` runs. Of `PickAndPlace`, for any callers,
moves, pieces and places, under `Sound` (a move
leads from one square to another, neither of them in the dead zone; pieces begin on places):

* `MovesArePlaced`, `NothingDropped` and `TypesHold` from `IInv`. Steps are counted from the
  end of the plan (`Ahead`), so that a step does not depend on whether the move captures.
  A run caller's motion is described by its sender's place (`Motioned`, `Later`): from the
  second motion on, a sender that saw "moving" after it had set the trigger and the end after
  that leaves the trigger cleared and the controller at rest (`Quiet`), hence the controller
  takes one command per trigger, with the pose that was written before. The first motion
  may be answered by an older program's registers, but no gripper command follows it
  directly; where the gripper acts, the arm is at the pose of the step before. `Carried`
  says of a move that was fit where its pieces are with so many steps left.

Of `SetupSettings` as an instance, for any threads, requests, defaults, environment and files, under
`SetupSound` (the named assumptions at the end of that module: fields hold what they are for, the least
squares of measured points are whole numbers, the halves the script measures can be inverted and lie apart,
and the defaults with the environment fit each other):

* `MappingInvertible`, from `SetupTypes`: a calibration is `Invertible` when its matrix is, or its
  two halves are and no point of the upper one falls into the lower one's ranks. Every way a
  calibration comes into memory or a file keeps this: an update that raises half-way changes the
  matrix only to one that can be inverted (`ChangeOf`), threads write what was in memory, and a start
  reads what was written, or the defaults. That a point maps back exactly is shown on the inverse as
  fractions.
* `SavedPair` and `RefusalLeavesNoTrace`, from `SetupInv`: while nothing overlaps there is one
  request, and `SoFar` says for each of its steps what memory, the two files and the temporary file
  hold, and which limits they fit (`Together`, `Alone`). A restart in the middle sets `disturbed`. The limits
  a start reads are those that were stored unless the environment overrules one of them, which
  the property excepts (`SavedPairIsUsed`, section 3).
* `MeasuredPoints`, under `PointsFit` besides: the points of a request are three, not in line, and
  a map of whole numbers that can be inverted takes each to where it was measured. The sums of
  least squares run over a set of three and are taken apart (`TotalOfThree`); their determinant is
  three times the square of the one the points span, so the divisions leave no remainder and the
  solution is the map that was measured (`ExactRow`, `FitIsExact`). For the requests of
  `MCSettings` this is the lemma `AskedPointsFit`.

`Parts_proofs` — components as instances of their modules:

* `LoggedOut` and `Retries`, for any tokens, sockets, keys, threads and lifetimes, under
  `TokensSound` and `AnswersSound`: the constant `None` is not one of them and times are
  natural numbers.
* `WarpFits`, under `CalibrationSound` (`None` is no corner set and no calibration made of
  them): any corner sets, sizes and requests, which may overlap. `CalibrationInv` adds what a
  request carries between its steps and what the file holds, because a restart loads it; matrix
  and corners may be of two requests there, but only once `mixed` is set.
* `WorkersAlive`, under `WorkersSound`: any workers registered once each. `WorkersInv`
  relates a worker to the places of the boot and of the teardown hook: one that was
  reported is past its start, and does not run on once it is cancelled or the hook has
  passed it.
* `RecordIsKept` and `PagesNeverChange`, under `RecordSound`: sizes and bounds are natural
  numbers, a batch holds at least one event, and `None` is no session. `RecordInv` says that
  every event anywhere was published before its session's end (`Filed` in `RecordTypes`;
  `Sessions` keeps the end of an open session ahead), that what a thread is publishing is
  newer than all there is of it (`Behind`), that table, batch and queues follow one another in
  the order of publication unless a task was cancelled (`InLine`), and that what `stop()` found
  is stored or on its way (`NothingLost`). What `Only` selects is shown by a least counterexample
  (`LeastNatural`): the recursion of a function is an equation, and the first prefix for which
  a claim fails contradicts it. Growing the table at its end then grows the rows and
  the pages at theirs (`TableGrows`, `PageGrows`).
* `SheetIsTrue`, under `SheetSound` (the bounds are natural numbers): any games. `SheetInv`
  says that the account `Sofar` the sheet keeps fits what was played and entered so far. The
  account is a fold over the game's log; it is written as a recursive function of the length
  (`Written`), whose equation `RecursionSolved` gives, so that a move adds one line to it.
* `TwiceTheLimitAtMost`, under `LimiterSound`: limit and window are at least 1, there are
  finitely many keys, and `None` is neither a key nor a window. `LimiterInv` says of the sums of what got through
  in the last ticks (`Lately`) that up to the start of the present window they make its count, and that
  what lies before it is less than the limit (`Steady`): a stretch of a window's length meets two windows at most.
* `StrictestRule` and `SameWord`, without assumptions: for each of the routes and roles the
  first rule of the table that fits is the strictest (the table is taken apart by its order,
  `RuleOrder`, `FirstRule`), and a command that comes in by another door has the same events.
* `DashboardTellsTheLatest`, under `DashSound`: bounds are positive, events have words and `None` is
  no event. `DashInv`: events are numbered as they came (`Numbered`), the status is that of the last one
  that tells it (`LatestOf`), errors and traces are the last so many of theirs (`ErrorsFit`, `TracesFit`).

`FairParts_proofs` — the same for the components whose liveness is checked:

* `EngineAnswers`, for any positions, candidates and queue size. While a question is open, every
  search and best move with the engine, unread or in the queue, is its own or was owed when it was
  asked (`OnlyItsOwn`); a candidate on trial is in the probe's hands until the service shuts
  down (`ProbeHoldsItsCandidate`), and the hook ends the tasks before it closes what
  is left (`HookComesLast`), unless a cancellation was suppressed. The theorem excepts the same
  as the properties: see EngineProcess.
* `LinkAnswers`, for any callers and sockets. While a motion waits, the robot holds nothing
  but that motion under its id, and a DONE under it that is on its way tells the truth (`Waits`,
  `Tells`); ids only grow, so an answer that comes late matches no later call.
* `TechmanAnswers`, for any callers. Once a call has seen the flow out of Listen, the flow is still
  out or has run Vision, unless the call was misled by a failed probe (`VisionOnItsWay`); that nobody triggers again meanwhile needs that
  two calls under way are never of one kind.
* `StreamsAreRead`, for any sources and threads. `SourceInv` adds that a source that runs was
  not told to stop, that a thread works for a source, and that only a camera is started again
  while a join waits; the new object of a switch is the least that is free.
* `PageHolds`. While a request is out the lock is its own and was not accepted (`PageInv`), so no
  timer that was set for an older request can end it.

`MCParts_proofs` — the properties `parts` checks, for the composition: `TokensStayOut`,
`RetriesGetTheirAnswer`, `WarpsAreOfOneBoard`, `RunningWorkersAlive`, `PiecesArrive`,
`RecordsAreTrue`, `PagesAlwaysStay`, `GatesAlwaysHold`, `RowsAlwaysTell`,
`DashboardAlwaysLatest`, `SettingsAlwaysFit`, `CalibrationsAreWhole`. Each
takes the invariant of the component's proof as an instance: the assumptions follow from
`NoneAssumption`, `NoEventAssumption`, `SettingsAssumption` (which TLC evaluates for the settings and
requests of `MCSettings`) and the constants of the instance, the two instances of a module have the
same steps, and the slots a part does not use do not matter. The bounds of the instance
(times, starts, moves) thus play no part in why the property holds. `PairReadsBack`, for every word size and
scale: a number that fits two registers of `RegisterCodec` is read back as what was rounded,
signed and in either order of the words.

`MCFairParts_proofs` — `AnswersAlwaysFit` and `RunnersAlwaysMatch`, the invariants of
`fair_parts`, in the same way. A part that does not move stays as it began, so each invariant
holds in every behaviour and needs no condition on `part`.

The other assumptions are the named ones on the constants (`NoneAssumption`,
`BoundsAssumption`, `IdWrapAssumption`, `WordAssumption`, ...), which TLC evaluates in
the runs. Only model-checked: liveness and the absence of deadlock, which with ENABLED are
out of the prover's reach; and of `parts` `TypeOK`, `RulesAgree`,
`TextsAreWhole` and `RepairFindsTheMove`. Of these, `RulesAgree` and
`TextsAreWhole` say what folds over a game or over a stream compute, for which the
library's induction theorems cannot be used here; `RepairFindsTheMove` rests
on a search through the legal moves; `TypeOK` has not been proved for every part yet.

## 5. Not modelled, and why

Whole parts: the monitoring worker and the diagnostics routes (they read what
others keep); the robot worker and its command queue (nothing puts a command
into it); the database helpers and the game service (bootstrap does not create
them); the simulated robot (a stand-in for tests without completion events).

Inside the parts that are modelled "partly" the following is left out, besides
formats, wording and layout:

* Robot: square commands in the client role (they differ in where the registers
  are); the setup page's single-axis and gripper tests
  (`interfaces/api/setup_routes.py:291`), which move the arm without the move lock;
  motion profiles; TMflow's gripper scripts; reports of progress.
* Vision: the network and every image operation, camera discovery, codecs,
  confidence weights, and the second inference worker
  (`runtime/workers/vision_inference_worker.py`), which does the same round
  through another pipeline.
* Coordinator: the pruning of old workflows and the contents of the freshness and
  preflight gates (either outcome is allowed).
* Boundary: signatures, password checks, cookies.
* Storage: SQL, migrations, the asynchronous writer of the exporter (it is not
  started), statistics and layout of the workbook.
* Runtime control: search depth and modes, which only change a parameter.
* Settings that no rule looks at; rounding in the kinematics.

## 6. Observations

What came up while reading the code for the models and is not one of the
violations above. Most are outside the properties, which name them where they
matter.

*Robot.* The first motion of a new program can be acknowledged by an old id while the
controller is still busy, and so be taken for done when it was not
(`infrastructure/robot/modbus_adapter.py:818`): the arm then comes down on its
first square from wherever it was. Later motions are answered for themselves
(`RobotParts_proofs`). A
failed write of the trigger leaves it set. A captured piece always goes to slot
1 of the dead zone (`application/services/robot_service.py:283`). The JSON halt
waits behind the motion it should stop and returns silently when the link is
down (`infrastructure/robot/tmflow_json_adapter.py:189`). The techmanpy adapter
publishes its loop before `run_forever`, and a call that times out returns
False without a halt. A completion can be booked on a fresh trace when it meets
the end of the previous verification
(`application/use_cases/coordinate_workflow.py:431`), and the pruning at `:497`
walks a dictionary other threads change.

*Settings and calibration.* Measured halves take precedence over a posted affine
calibration, so the POST does not change the mapping (`utils/kinematics.py:490`), and a
POST without `affine_matrix` resets a measured one
(`interfaces/api/setup_settings_logic.py:532`). The live calibration changes before it is
validated (`interfaces/api/robot_routes.py:55`), and settings saved during a motion
change the registers under a running command. Register maps may overlap the
halt register (`setup_settings_logic.py:606`). `save_calibration` is not atomic
(`docs/SOFTWARE_PROJECT_AUDIT_2026-10-06.md:86-97`, AUD-002), and two threads
share the temporary file of `save_settings`. A TMflow vision source accepted
without a key makes `utils/config.py:592` raise at the next start. A hardware step
counts as passed when any of its actions passed, and saving does not reset the
steps. Two calibration requests at once can mix matrix and corners
(`infrastructure/vision/vision_system.py:334`).

*Camera and vision.* Two producers on a full queue can end the capture thread with
`queue.Full` (`infrastructure/vision/camera/frame_buffer.py:36`). With two
consumers `get_latest_raw` gives none the latest; frames of an old source stay
queued; a failed start leaves `manager.running` False. One missed
piece of the opponent passes the count check as a capture, and a window of two
breaks the repair of frames; the validator's baseline survives a reset and an undo.

*Game.* The engine worker also analyses the player's positions. `/api/reset`
publishes only SYSTEM_RESET. MOVE_APPLIED and ROBOT_MOVE_REQUESTED have readers
and no publisher. Notation is ambiguous with two pairs of tandem pawns. The letters for the turn
differ between `_turn_from_fen` and `normalize_turn`.

*Page.* A commit never applies ROBOT.STATUS_UPDATED, a robot completion after the end
of the game resets the status, and the button can be unlocked by an idle status
from before the move.

*Runtime and storage.* A cancelled persistence task can lose or invert a batch; on
overflow critical events pass the queue. `start_all` waits two seconds at most,
`request_stop` drops its task, and the engine's health check is never called. Two
concurrent requests with one key both execute; eviction by the limiter resets
counts; a socket keeps the claims it connected with. The ingest server's
`update` and `snapshot` are read separately and `stop` zeroes the connection
count. The monitor's diagnostics, one a second, evict a game's trace from the
telemetry, where unknown statuses read "idle".
