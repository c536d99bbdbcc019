--------------------------- MODULE RobotWorkflow ---------------------------
(***************************************************************************)
(* The round protocol of the chess robot: the workflow coordinator         *)
(* (application/use_cases/coordinate_workflow.py), the actuation worker it *)
(* submits commands to, the capture session the robot and the player share *)
(* (infrastructure/vision/capture_session.py), the vision thread that      *)
(* serves it, the engine worker, the HTTP handlers that poke them, and the *)
(* game status the coordinator reads back from the state store.            *)
(*                                                                         *)
(* Threads and what is atomic.  The actuation worker and the setup page's  *)
(* one-move test are "movers": each runs RobotService.move_piece, whose    *)
(* ROBOT_MOVE_COMPLETED is handled on the mover's own thread by            *)
(* on_robot_complete, one action per access to shared state.  The vision   *)
(* thread runs on_board_detected and, inside it, on_vision_move.  The      *)
(* engine worker and the state reducers share the event-loop thread, so    *)
(* an engine result is handled in one step, but events reach the reducers  *)
(* through the loop's FIFO queue and are applied later (loopq).  An HTTP   *)
(* handler is one step.                                                    *)
(*                                                                         *)
(* A trace is an opaque id.  A trace that nothing refers to any more is    *)
(* indistinguishable from a newly generated one, so finitely many are      *)
(* enough and none is ever exhausted by counting.                          *)
(***************************************************************************)
EXTENDS Naturals, Sequences

CONSTANTS
    Trace,          \* workflow trace ids
    None,           \* no trace
    HardwareTests,  \* may the setup page move the arm while the system is up?
    MaxQueue        \* bound: events waiting for the reducers

ASSUME NoneAssumption == None \notin Trace \cup {"job", "test"}
ASSUME HardwareTestsAssumption == HardwareTests \in BOOLEAN
ASSUME MaxQueueAssumption == MaxQueue \in Nat \ {0}

VARIABLES
    pending,  \* traces whose active_workflows entry has verify_pending = True
    active,   \* _active_robot_trace_id
    mover,    \* the actuation worker ("job") and the setup page's test ("test")
    lock,     \* RobotService._move_lock: the mover that holds it, or None
    session,  \* vision_capture_session: is it active, and for which trace
    vision,   \* the vision thread: where it is, and the trace of its result
    engine,   \* EnginePollingWorker: enabled or not, computing or not
    game,     \* game_status in the state store: "over" for GAME_OVER
    loopq,    \* events on their way to StateManager.dispatch
    ended     \* history: GAME_OVER was reduced; no reset or undo has been since

vars == <<pending, active, mover, lock, session, vision, engine, game, loopq, ended>>
robotVars == <<pending, active, mover, lock>>
gameVars == <<game, ended>>

Mover == {"job", "test"}
MoverPc == {"idle", "queued", "moving", "complete", "judge", "look", "open",
            "finish", "trigger", "unwind"}
Idle == [pc |-> "idle", cmd |-> None, seen |-> None, ok |-> FALSE]
Off == [on |-> FALSE, trace |-> None]
Watching == [pc |-> "idle", trace |-> None]
MaybeTrace == Trace \cup {None}

TypeOK ==
    /\ pending \subseteq Trace
    /\ active \in MaybeTrace
    /\ mover \in [Mover -> [pc : MoverPc, cmd : MaybeTrace, seen : MaybeTrace, ok : BOOLEAN]]
    /\ lock \in Mover \cup {None}
    /\ session \in [on : BOOLEAN, trace : MaybeTrace]
    /\ vision \in [pc : {"idle", "infer", "handle", "release", "close"}, trace : MaybeTrace]
    /\ engine \in {"off", "on", "busy", "draining"}
    /\ game \in {"playing", "over"}
    /\ loopq \in Seq({"over", "playing", "reset"})
    /\ ended \in BOOLEAN

Init ==
    /\ pending = {}
    /\ active = None
    /\ mover = [m \in Mover |-> Idle]
    /\ lock = None
    /\ session = Off
    /\ vision = Watching
    /\ engine \in {"off", "on"}      \* ENGINE_AUTO_ANALYZE
    /\ game = "playing"
    /\ loopq = <<>>
    /\ ended = FALSE

-----------------------------------------------------------------------------
(* Helpers *)

InUse == pending \cup {active, session.trace, vision.trace}
            \cup {mover[m].cmd : m \in Mover} \cup {mover[m].seen : m \in Mover}

\* BaseEvent.create without a trace_id, or a capture session's own id.
Fresh == Trace \ InUse

Goto(m, pc) == mover' = [mover EXCEPT ![m].pc = pc]
\* Mutant: the worker forgets the shape of its slot.
RetireBlank(m) == mover' = [mover EXCEPT ![m] = None]
Retire(m) == mover' = [mover EXCEPT ![m] = Idle]

\* An event whose reducer will set game_status, published to the loop.
Enqueue(e) == Len(loopq) < MaxQueue /\ loopq' = Append(loopq, e)

Enabled(e) == IF e \in {"off", "on"} THEN "on" ELSE "busy"
Disabled(e) == IF e \in {"off", "on"} THEN "off" ELSE "draining"

\* The other disjunct of is_game_over, a stored position without a legal
\* reply, is abstracted: the positions here are those that go on.
IsGameOver == game = "over"

\* GAME_OVER: the engine worker stops at once, the state store hears of it later.
PublishGameOver == Enqueue("over") /\ engine' = Disabled(engine)

Close(s) == IF s.on THEN Off ELSE s

-----------------------------------------------------------------------------
(* The coordinator: starting a command *)

\* Mutant: only the future counts, as before verifications existed.
CommandActiveFutureOnly == mover["job"].pc # "idle"

\* Mutant: the active trace stands for a verification that waits.
CommandActiveByTrace == mover["job"].pc # "idle" \/ active # None

\* _robot_command_active_locked: the future is not done, or some workflow waits.
CommandActive == mover["job"].pc # "idle" \/ pending # {}

\* start_robot_move, the part under _robot_lock.  When a command is active it
\* only reports robot_command_already_active.
SubmitMove(t) ==
    /\ ~CommandActive
    /\ active' = t
    /\ mover' = [mover EXCEPT !["job"] = [Idle EXCEPT !.pc = "queued", !.cmd = t]]

\* POST /robot/execute-ready-move: the operator starts the last engine move.
\* The handler asks whether the robot is moving, not whether the game is over.
ExecuteReady(t) ==
    /\ \A m \in Mover : mover[m].pc # "moving"
    /\ SubmitMove(t)
    /\ UNCHANGED <<pending, lock, session, vision, engine, loopq, gameVars>>

-----------------------------------------------------------------------------
(* The movers *)

\* The worker calls RobotService.move_piece: the lock is tried, not awaited.
JobBegin ==
    /\ mover["job"].pc = "queued" /\ lock = None
    /\ lock' = "job"
    /\ Goto("job", "moving")
    /\ Enqueue("playing")                          \* ROBOT_MOVE_STARTED
    /\ UNCHANGED <<pending, active, session, vision, engine, gameVars>>

\* Another move holds the lock, or the arm is not connected: move_piece returns
\* False, the job reports robot_command_failed and leaves the active trace.
JobRefused ==
    /\ mover["job"].pc = "queued"
    /\ Retire("job")
    /\ UNCHANGED <<pending, active, lock, session, vision, engine, loopq, gameVars>>

\* Mutant: the test does not take the move lock.
TestBeginUnlocked ==
    /\ HardwareTests
    /\ mover["test"].pc = "idle"
    /\ lock' = "test"
    /\ Goto("test", "moving")
    /\ Enqueue("playing")
    /\ UNCHANGED <<pending, active, session, vision, engine, gameVars>>

\* The setup page's one_move test, straight to the robot service.
TestBegin ==
    /\ HardwareTests
    /\ mover["test"].pc = "idle" /\ lock = None
    /\ lock' = "test"
    /\ Goto("test", "moving")
    /\ Enqueue("playing")
    /\ UNCHANGED <<pending, active, session, vision, engine, gameVars>>

\* The arm stops: at its target, or with an error or a motion timeout.
MotionEnds(m, ok) ==
    /\ mover[m].pc = "moving"
    /\ mover' = [mover EXCEPT ![m] = [@ EXCEPT !.pc = "complete", !.ok = ok]]
    /\ UNCHANGED <<pending, active, lock, session, vision, engine, loopq, gameVars>>

\* Mutant: trace_id = event.trace_id
ReadActiveEventTrace(m) ==
    /\ mover[m].pc = "complete"
    /\ \E t \in Fresh :
           mover' = [mover EXCEPT ![m] = [@ EXCEPT !.pc = "judge", !.seen = t]]
    /\ UNCHANGED <<pending, active, lock, session, vision, engine, loopq, gameVars>>

\* on_robot_complete: trace_id = self._active_robot_trace_id or event.trace_id
ReadActive(m) ==
    /\ mover[m].pc = "complete"
    /\ \E t \in IF active # None THEN {active} ELSE Fresh :
           mover' = [mover EXCEPT ![m] = [@ EXCEPT !.pc = "judge", !.seen = t]]
    /\ UNCHANGED <<pending, active, lock, session, vision, engine, loopq, gameVars>>

\* The game is over, or the motion failed: nothing to verify.
JudgeSkip(m) ==
    /\ mover[m].pc = "judge"
    /\ IsGameOver \/ ~mover[m].ok
    /\ active' = None
    /\ Goto(m, "finish")
    /\ UNCHANGED <<pending, lock, session, vision, engine, loopq, gameVars>>

JudgeVerify(m) ==
    /\ mover[m].pc = "judge"
    /\ ~IsGameOver /\ mover[m].ok
    /\ pending' = pending \cup {mover[m].seen}
    /\ Goto(m, "look")
    /\ UNCHANGED <<active, lock, session, vision, engine, loopq, gameVars>>

\* if not vision_capture_session.is_active(): start one for the verification.
LookSession(m) ==
    /\ mover[m].pc = "look"
    /\ Goto(m, IF session.on THEN "finish" ELSE "open")
    /\ UNCHANGED <<pending, active, lock, session, vision, engine, loopq, gameVars>>

OpenSession(m) ==
    /\ mover[m].pc = "open"
    /\ session' = [on |-> TRUE, trace |-> mover[m].seen]
    /\ Goto(m, "finish")
    /\ UNCHANGED <<pending, active, lock, vision, engine, loopq, gameVars>>

\* The event goes on to the reducers, the lock is released and move_piece
\* returns; only the actuation worker then runs the TMflow vision cycle.
Finish(m) ==
    /\ mover[m].pc = "finish"
    /\ Enqueue("playing")                          \* ROBOT_MOVE_COMPLETED
    /\ lock' = None
    /\ IF m = "job" /\ mover[m].ok THEN Goto(m, "trigger") ELSE Retire(m)
    /\ UNCHANGED <<pending, active, session, vision, engine, gameVars>>

\* trigger_vision returned True, or None because none is configured.
TriggerDone ==
    /\ mover["job"].pc = "trigger"
    /\ Retire("job")
    /\ UNCHANGED <<pending, active, lock, session, vision, engine, loopq, gameVars>>

\* trigger_vision returned False: the verification is given up.
TriggerFailed ==
    /\ mover["job"].pc = "trigger"
    /\ pending' = pending \ {mover["job"].cmd}
    /\ active' = None
    /\ Goto("job", "unwind")
    /\ UNCHANGED <<lock, session, vision, engine, loopq, gameVars>>

\* Mutant: the worker waits for a session it can stop.
UnwindIfActive ==
    /\ mover["job"].pc = "unwind" /\ session.on
    /\ session' = Off
    /\ Retire("job")
    /\ UNCHANGED <<pending, active, lock, vision, engine, loopq, gameVars>>

\* ... together with whatever capture session is active by now.
Unwind ==
    /\ mover["job"].pc = "unwind"
    /\ session' = Close(session)
    /\ Retire("job")
    /\ UNCHANGED <<pending, active, lock, vision, engine, loopq, gameVars>>

MoverStep(m) ==
    \/ \E ok \in BOOLEAN : MotionEnds(m, ok)
    \/ ReadActive(m) \/ JudgeSkip(m) \/ JudgeVerify(m)
    \/ LookSession(m) \/ OpenSession(m) \/ Finish(m)

JobStep == MoverStep("job") \/ JobBegin \/ JobRefused
              \/ TriggerDone \/ TriggerFailed \/ Unwind

-----------------------------------------------------------------------------
(* The vision thread *)

\* tick() returned "capture" and a frame was there.
CaptureFrame ==
    /\ vision.pc = "idle" /\ session.on
    /\ vision' = [vision EXCEPT !.pc = "infer"]
    /\ UNCHANGED <<robotVars, session, engine, loopq, gameVars>>

\* Mutant: tick() reports the timeout and forgets _complete_locked.
SessionExpiresOpen ==
    /\ vision.pc = "idle" /\ session.on
    /\ UNCHANGED vars

\* tick() returned "expired": the session's timeout has passed.
SessionExpires ==
    /\ vision.pc = "idle" /\ session.on
    /\ session' = Off
    /\ UNCHANGED <<robotVars, vision, engine, loopq, gameVars>>

\* Inference failed, or the board is not stable yet.
NoStableBoard ==
    /\ vision.pc = "infer"
    /\ vision' = Watching
    /\ UNCHANGED <<robotVars, session, engine, loopq, gameVars>>

\* on_board_detected: a stable board is attributed to the session that is active
\* now, not to the one the frame was captured for.  Without a session the
\* result gets a trace of its own, on which no workflow waits.
StableBoard ==
    /\ vision.pc = "infer"
    /\ vision' = [pc |-> "handle", trace |-> session.trace]
    /\ UNCHANGED <<robotVars, session, engine, loopq, gameVars>>

\* on_vision_move when the game has ended: the result is ignored.
VisionIgnored ==
    /\ vision.pc = "handle" /\ IsGameOver
    /\ vision' = [vision EXCEPT !.pc = "close"]
    /\ UNCHANGED <<robotVars, session, engine, loopq, gameVars>>

\* _handle_robot_verification, first the flag ...
VerifyBegins ==
    /\ vision.pc = "handle" /\ ~IsGameOver
    /\ vision.trace \in pending
    /\ pending' = pending \ {vision.trace}
    /\ vision' = [vision EXCEPT !.pc = "release"]
    /\ UNCHANGED <<active, mover, lock, session, engine, loopq, gameVars>>

\* ... then, under the lock, the active trace; the position may have ended the game.
VerifyReleases ==
    /\ vision.pc = "release"
    /\ active' = None
    /\ vision' = [vision EXCEPT !.pc = "close"]
    /\ PublishGameOver \/ UNCHANGED <<engine, loopq>>
    /\ UNCHANGED <<pending, mover, lock, session, gameVars>>

\* No workflow waits on the trace: a player's move, or none that is legal.
PlayerMoveSeen ==
    /\ vision.pc = "handle" /\ ~IsGameOver
    /\ vision.trace \notin pending
    /\ vision' = [vision EXCEPT !.pc = "close"]
    /\ \/ UNCHANGED <<engine, loopq>>                      \* no legal move
       \/ engine' = Enabled(engine) /\ UNCHANGED loopq     \* ask the engine
       \/ PublishGameOver                                  \* it ended the game
       \/ Enqueue("over") /\ UNCHANGED engine    \* MoveReducer finds it decided
    /\ UNCHANGED <<robotVars, session, gameVars>>

\* on_board_detected ends by stopping whatever session is active by now.
CloseRound ==
    /\ vision.pc = "close"
    /\ session' = Close(session)
    /\ vision' = Watching
    /\ UNCHANGED <<robotVars, engine, loopq, gameVars>>

VisionStep == CaptureFrame \/ SessionExpires \/ NoStableBoard \/ StableBoard
                 \/ VisionIgnored \/ VerifyBegins \/ VerifyReleases
                 \/ PlayerMoveSeen \/ CloseRound

-----------------------------------------------------------------------------
(* The event loop: engine worker and reducers *)

\* _run_async reads the state store; a game that is over disables the worker.
EngineReads ==
    /\ engine = "on"
    /\ engine' = IF IsGameOver THEN "off" ELSE "busy"
    /\ UNCHANGED <<robotVars, session, vision, loopq, gameVars>>

\* The engine failed or returned nothing.
EngineFails ==
    /\ engine \in {"busy", "draining"}
    /\ engine' = IF engine = "busy" THEN "on" ELSE "off"
    /\ UNCHANGED <<robotVars, session, vision, loopq, gameVars>>

\* on_engine_complete: ignored when the game is over; otherwise the move waits
\* for the operator (or is blocked by preflight or a stale image), or the
\* command is started.  The trace is whatever the store held when the worker
\* read it.  Whatever the coordinator did, EngineReducer hears of the result.
EngineCompletes(t) ==
    /\ engine \in {"busy", "draining"}
    /\ engine' = IF engine = "busy" THEN "on" ELSE "off"
    /\ Enqueue("playing")                          \* game_status = DECIDED
    /\ \/ UNCHANGED <<active, mover>>
       \/ ~IsGameOver /\ SubmitMove(t)
    /\ UNCHANGED <<pending, lock, session, vision, gameVars>>

\* No legal move is left: the coordinator ends the game, and the result that
\* said so is reduced after it.
EngineFindsNoMove ==
    /\ engine \in {"busy", "draining"} /\ ~IsGameOver
    /\ Len(loopq) + 2 <= MaxQueue
    /\ loopq' = loopq \o <<"over", "playing">>
    /\ engine' = "off"
    /\ UNCHANGED <<robotVars, session, vision, gameVars>>

\* StateManager.dispatch of the event at the head of the loop.
Reduce ==
    /\ loopq # <<>>
    /\ loopq' = Tail(loopq)
    /\ game' = IF Head(loopq) = "over" THEN "over" ELSE "playing"
    /\ ended' = CASE Head(loopq) = "over" -> TRUE
                  [] Head(loopq) = "reset" -> FALSE
                  [] OTHER -> ended
    /\ UNCHANGED <<robotVars, session, vision, engine>>

-----------------------------------------------------------------------------
(* The HTTP handlers *)

\* POST /player-done: a session of its own unless one is running.
PlayerDone ==
    /\ ~IsGameOver /\ ~session.on
    /\ \E t \in Fresh : session' = [on |-> TRUE, trace |-> t]
    /\ UNCHANGED <<robotVars, vision, engine, loopq, gameVars>>

\* POST /vision/capture/start and /player/vision-capture: always a new session.
CaptureStart ==
    /\ \E t \in Fresh : session' = [on |-> TRUE, trace |-> t]
    /\ UNCHANGED <<robotVars, vision, engine, loopq, gameVars>>

CaptureStop ==
    /\ session.on
    /\ session' = Off
    /\ UNCHANGED <<robotVars, vision, engine, loopq, gameVars>>

\* POST /player/end-game.
EndGame ==
    /\ pending' = {}
    /\ session' = Close(session)
    /\ PublishGameOver
    /\ UNCHANGED <<active, mover, lock, vision, gameVars>>

\* POST /reset; the control endpoint's reset also re-enables the engine.
Reset ==
    /\ Enqueue("reset")
    /\ engine' \in {engine, Enabled(engine)}
    /\ UNCHANGED <<robotVars, session, vision, gameVars>>

\* POST /control undo, when the history holds an earlier position: its game
\* status comes back with it.
Undo ==
    /\ Enqueue("reset")
    /\ UNCHANGED <<robotVars, session, vision, engine, gameVars>>

\* POST /move or a vision sync: MoveReducer finds the position decided.
DecisivePosition ==
    /\ ~IsGameOver
    /\ Enqueue("over")
    /\ UNCHANGED <<robotVars, session, vision, engine, gameVars>>

\* A bus handler raised: SYSTEM_ERROR writes the game status ERROR.
HandlerFails ==
    /\ Enqueue("playing")
    /\ UNCHANGED <<robotVars, session, vision, engine, gameVars>>

\* player/start, start_engine, resume.
StartEngine ==
    /\ engine \in {"off", "draining"}
    /\ engine' = Enabled(engine)
    /\ UNCHANGED <<robotVars, session, vision, loopq, gameVars>>

\* stop, pause, stop_engine.
StopEngine ==
    /\ engine \in {"on", "busy"}
    /\ engine' = Disabled(engine)
    /\ UNCHANGED <<robotVars, session, vision, loopq, gameVars>>

-----------------------------------------------------------------------------

Next ==
    \/ \E t \in Trace : ExecuteReady(t) \/ EngineCompletes(t)
    \/ JobStep \/ TestBegin \/ MoverStep("test")
    \/ VisionStep
    \/ EngineReads \/ EngineFails \/ EngineFindsNoMove \/ Reduce
    \/ PlayerDone \/ CaptureStart \/ CaptureStop
    \/ EndGame \/ Reset \/ Undo \/ DecisivePosition \/ HandlerFails
    \/ StartEngine \/ StopEngine

Spec == Init /\ [][Next]_vars

\* Every thread of the process keeps running: the worker (each motion and the
\* vision cycle have a timeout), the vision thread, the event loop.  A mover
\* that waits for the bounded queue or for an unused trace id gets its turn,
\* and a session that is served again and again does reach its timeout.
Fairness ==
    /\ SF_vars(JobStep) /\ SF_vars(MoverStep("test"))
    /\ WF_vars(VisionStep) /\ SF_vars(SessionExpires)
    /\ WF_vars(Reduce)

FairSpec == Spec /\ Fairness

\* A player who answers a timeout as the page asks, by starting recognition
\* again, in front of a camera that does see a stable board again and again.
PatientPlayer == WF_vars(PlayerDone) /\ SF_vars(CaptureFrame) /\ SF_vars(StableBoard)

PatientSpec == FairSpec /\ PatientPlayer

-----------------------------------------------------------------------------
(* Properties *)

HoldsLock == {"moving", "complete", "judge", "look", "open", "finish"}

\* Two moves never drive the arm at once, whoever asked for them: a mover is
\* inside RobotService.move_piece exactly while it holds the move lock.
OneMoveAtATime == \A m \in Mover : mover[m].pc \in HoldsLock <=> lock = m

\* The arm is not sent on a new command while an earlier one still waits for
\* its verification: what start_robot_move checks under the lock stays true
\* until the command itself asks for a verification.
CommandExclusion ==
    ~HardwareTests /\ mover["job"].pc \in {"queued", "moving", "complete", "judge"}
        => pending = {}

\* At most one command at a time waits for its verification, so one answer
\* from the camera is enough to free the robot.
OneVerification ==
    ~HardwareTests => \A s, t \in pending : s = t

\* While a verification waits, the active trace is that command's or was
\* released, never another command's: the completion of the next one cannot
\* be booked on it.
VerificationNamesActive ==
    ~HardwareTests /\ pending # {} /\ active # None => active \in pending

\* The coordinator implements the gate: no command starts between the end of
\* the previous one and the answer to its verification.
GatePhase == IF mover["job"].pc # "idle" THEN "running"
             ELSE IF pending # {} THEN "verifying"
             ELSE "free"

Gate == INSTANCE CommandGate WITH phase <- GatePhase
GateSpec == Gate!Spec

\* Every command submitted to the actuation worker ends, so the worker's
\* future cannot block the robot for ever.
CommandEnds == mover["job"].pc # "idle" ~> mover["job"].pc = "idle"

\* A verification that has a capture session is answered or loses the session
\* (timeout, operator, another thread): the session cannot hang.
VerificationSessionResolves ==
    \A t \in Trace :
        (t \in pending /\ session = [on |-> TRUE, trace |-> t])
            ~> (t \notin pending \/ session # [on |-> TRUE, trace |-> t])

\* After a timeout the page says: check the pieces and start recognition again
\* (inference_worker.py).  A player who does so, in front of a working camera,
\* would get the verification answered and the robot freed, unless the game
\* ends.
RestartRecovers ==
    pending # {} /\ ~IsGameOver ~> pending = {} \/ IsGameOver

\* Once the game has ended no command is sent to the arm until a reset
\* (docs/REAL_ROBOT_READINESS.md).
NoCommandAfterEnd ==
    [][ended => ~(mover["job"].pc = "idle" /\ mover'["job"].pc = "queued")]_vars

=============================================================================
