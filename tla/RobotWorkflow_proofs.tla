----------------------- MODULE RobotWorkflow_proofs -----------------------
(***************************************************************************)
(* What holds of RobotWorkflow for every set of traces, with and without   *)
(* the setup page's hardware tests, and whatever the queue's bound.        *)
(***************************************************************************)
EXTENDS RobotWorkflow, TLAPS

MoverRecord == [pc : MoverPc, cmd : MaybeTrace, seen : MaybeTrace, ok : BOOLEAN]

MoverStates == {"idle", "queued", "moving", "complete", "judge", "look", "open",
                "finish", "trigger", "unwind"}

LEMMA MoverStatesPc == MoverPc = MoverStates /\ Mover = {"job", "test"}
  BY DEF MoverPc, MoverStates, Mover

\* Goto moves one mover and leaves the rest of its record and the other mover.
LEMMA GotoRecord ==
    ASSUME TypeOK, NEW m \in Mover, NEW pc \in MoverStates, Goto(m, pc)
    PROVE  /\ mover' \in [Mover -> MoverRecord]
           /\ mover'[m].pc = pc
           /\ mover'[m].seen = mover[m].seen
           /\ \A n \in Mover : n # m => mover'[n] = mover[n]
  BY MoverStatesPc DEF TypeOK, MoverRecord, Goto

LEMMA RetireRecord ==
    ASSUME TypeOK, NEW m \in Mover, Retire(m)
    PROVE  /\ mover' \in [Mover -> MoverRecord]
           /\ mover'[m].pc = "idle"
           /\ \A n \in Mover : n # m => mover'[n] = mover[n]
  BY DEF TypeOK, MoverRecord, Retire, Idle, MoverPc, MaybeTrace

LEMMA SubmitRecord ==
    ASSUME TypeOK, NEW t \in Trace, SubmitMove(t)
    PROVE  /\ mover' \in [Mover -> MoverRecord]
           /\ mover'["job"].pc = "queued"
           /\ mover'["test"] = mover["test"]
           /\ active' \in MaybeTrace
           /\ mover["job"].pc = "idle" /\ pending = {}
<1>1. [[Idle EXCEPT !.pc = "queued"] EXCEPT !.cmd = t] \in MoverRecord
  BY DEF Idle, MoverRecord, MoverPc, MaybeTrace
<1>2. [[Idle EXCEPT !.pc = "queued"] EXCEPT !.cmd = t].pc = "queued"
  BY DEF Idle
<1> QED
  BY <1>1, <1>2 DEF TypeOK, MoverRecord, SubmitMove, CommandActive, Mover, MaybeTrace

LEMMA EnqueueType ==
    ASSUME TypeOK, NEW e \in {"over", "playing", "reset"}, Enqueue(e)
    PROVE  loopq' \in Seq({"over", "playing", "reset"})
  BY DEF TypeOK, Enqueue

LEMMA CloseType ==
    ASSUME TypeOK PROVE Close(session) \in [on : BOOLEAN, trace : MaybeTrace]
  BY DEF TypeOK, Close, Off, MaybeTrace

LEMMA EngineType ==
    /\ \A e : Enabled(e) \in {"off", "on", "busy", "draining"}
    /\ \A e : Disabled(e) \in {"off", "on", "busy", "draining"}
  BY DEF Enabled, Disabled

LEMMA GameOverType ==
    ASSUME TypeOK, PublishGameOver
    PROVE  /\ loopq' \in Seq({"over", "playing", "reset"})
           /\ engine' \in {"off", "on", "busy", "draining"}
  BY EnqueueType, EngineType DEF PublishGameOver

-----------------------------------------------------------------------------
(* Type correctness *)

\* What TypeOK asks of the variables no mover step or event enqueues.
LEMMA TypeParts ==
    ASSUME TypeOK,
           pending' \subseteq Trace, active' \in MaybeTrace,
           mover' \in [Mover -> MoverRecord], lock' \in Mover \cup {None},
           session' \in [on : BOOLEAN, trace : MaybeTrace],
           vision' \in [pc : {"idle", "infer", "handle", "release", "close"}, trace : MaybeTrace],
           engine' \in {"off", "on", "busy", "draining"}, game' \in {"playing", "over"},
           loopq' \in Seq({"over", "playing", "reset"}), ended' \in BOOLEAN
    PROVE  TypeOK'
  BY DEF TypeOK, MoverRecord

\* on_robot_complete marks a workflow it has a trace for.
JudgedTrace == \A m \in Mover : mover[m].pc = "judge" => mover[m].seen \in Trace

TypeInv == TypeOK /\ JudgedTrace

LEMMA InitType == Init => TypeInv
<1> SUFFICES ASSUME Init PROVE TypeInv
  OBVIOUS
<1>1. Idle \in MoverRecord /\ Off \in [on : BOOLEAN, trace : MaybeTrace]
      /\ Watching.pc = "idle" /\ Watching.trace = None /\ None \in MaybeTrace
  BY DEF Idle, Off, Watching, MoverRecord, MoverPc, MaybeTrace
<1>2. Watching \in [pc : {"idle", "infer", "handle", "release", "close"}, trace : MaybeTrace]
  BY DEF Watching, MaybeTrace
<1>3. mover \in [Mover -> MoverRecord]
  BY <1>1 DEF Init
<1>4. <<>> \in Seq({"over", "playing", "reset"})
  OBVIOUS
<1>5. JudgedTrace
  BY DEF Init, JudgedTrace, Idle
<1> QED
  BY <1>1, <1>2, <1>3, <1>4, <1>5 DEF Init, TypeInv, TypeOK, MoverRecord, MaybeTrace

\* A mover's step keeps its record in shape, and has a trace when it judges.
LEMMA MoverStepRecord ==
    ASSUME TypeOK, NEW m \in Mover, MoverStep(m)
    PROVE  /\ mover' \in [Mover -> MoverRecord]
           /\ mover'[m].pc = "judge" => mover'[m].seen \in Trace
           /\ \A n \in Mover : n # m => mover'[n] = mover[n]
<1>pc. /\ {"complete", "judge", "look", "open", "finish", "trigger"} \subseteq MoverStates
       /\ MoverPc = MoverStates
       /\ mover \in [Mover -> MoverRecord]
  BY MoverStatesPc DEF MoverStates, TypeOK, MoverRecord
<1>goto. ASSUME NEW pc \in MoverStates \ {"judge"}, Goto(m, pc)
         PROVE  /\ mover' \in [Mover -> MoverRecord]
                /\ mover'[m].pc # "judge"
                /\ \A n \in Mover : n # m => mover'[n] = mover[n]
  BY <1>goto, GotoRecord
<1>1. ASSUME NEW ok \in BOOLEAN, MotionEnds(m, ok)
      PROVE  /\ mover' \in [Mover -> MoverRecord]
             /\ mover'[m].pc # "judge"
             /\ \A n \in Mover : n # m => mover'[n] = mover[n]
  BY <1>1, <1>pc DEF MotionEnds, MoverRecord
<1>2. CASE ReadActive(m)
  <2>1. PICK t \in Trace :
            mover' = [mover EXCEPT ![m] = [@ EXCEPT !.pc = "judge", !.seen = t]]
    BY <1>2 DEF ReadActive, Fresh, TypeOK, MaybeTrace
  <2> QED
    BY <2>1, <1>pc DEF MoverRecord, MaybeTrace
<1>3. CASE JudgeSkip(m)
  BY <1>3, <1>pc, <1>goto DEF JudgeSkip
<1>4. CASE JudgeVerify(m)
  BY <1>4, <1>pc, <1>goto DEF JudgeVerify
<1>5. CASE LookSession(m)
  BY <1>5, <1>pc, <1>goto DEF LookSession
<1>6. CASE OpenSession(m)
  BY <1>6, <1>pc, <1>goto DEF OpenSession
<1>7. CASE Finish(m)
  <2>1. CASE Goto(m, "trigger")
    BY <2>1, <1>pc, <1>goto
  <2>2. CASE Retire(m)
    BY <2>2, RetireRecord
  <2> QED
    BY <1>7, <2>1, <2>2 DEF Finish
<1> QED
  BY <1>1, <1>2, <1>3, <1>4, <1>5, <1>6, <1>7 DEF MoverStep

LEMMA MoverStepType == \A m \in Mover : TypeInv /\ MoverStep(m) => TypeInv'
<1> SUFFICES ASSUME TypeInv, NEW m \in Mover, MoverStep(m) PROVE TypeInv'
  OBVIOUS
<1> USE DEF TypeInv, gameVars
<1>rec. /\ mover' \in [Mover -> MoverRecord]
        /\ JudgedTrace'
  BY MoverStepRecord DEF JudgedTrace
<1>1. ASSUME NEW ok \in BOOLEAN, MotionEnds(m, ok) PROVE TypeOK'
  BY <1>1, <1>rec, TypeParts DEF MotionEnds, TypeOK
<1>2. CASE ReadActive(m)
  BY <1>2, <1>rec, TypeParts DEF ReadActive, TypeOK
<1>3. CASE JudgeSkip(m)
  BY <1>3, <1>rec, TypeParts DEF JudgeSkip, TypeOK, MaybeTrace
<1>4. CASE JudgeVerify(m)
  <2>1. mover[m].seen \in Trace
    BY <1>4 DEF JudgeVerify, JudgedTrace
  <2> QED
    BY <1>4, <2>1, <1>rec, TypeParts DEF JudgeVerify, TypeOK
<1>5. CASE LookSession(m)
  BY <1>5, <1>rec, TypeParts DEF LookSession, TypeOK
<1>6. CASE OpenSession(m)
  <2>1. session' \in [on : BOOLEAN, trace : MaybeTrace]
    BY <1>6 DEF OpenSession, TypeOK
  <2> QED
    BY <1>6, <2>1, <1>rec, TypeParts DEF OpenSession, TypeOK
<1>7. CASE Finish(m)
  BY <1>7, <1>rec, EnqueueType, TypeParts DEF Finish, TypeOK
<1> QED
  BY <1>1, <1>2, <1>3, <1>4, <1>5, <1>6, <1>7, <1>rec DEF MoverStep

LEMMA JobStepType == TypeInv /\ JobStep => TypeInv'
<1> SUFFICES ASSUME TypeInv, JobStep PROVE TypeInv'
  OBVIOUS
<1> USE DEF TypeInv, robotVars, gameVars
<1>mov. "job" \in Mover /\ {"moving", "unwind"} \subseteq MoverStates
  BY DEF Mover, MoverStates
<1>keep. ASSUME mover'["job"].pc # "judge",
                \A n \in Mover : n # "job" => mover'[n] = mover[n]
         PROVE  JudgedTrace'
  BY <1>keep DEF JudgedTrace
<1>1. CASE JobBegin
  <2>1. mover' \in [Mover -> MoverRecord] /\ JudgedTrace'
    BY <1>1, <1>mov, <1>keep, GotoRecord DEF JobBegin
  <2> QED
    BY <1>1, <1>mov, <2>1, EnqueueType, TypeParts DEF JobBegin, TypeOK
<1>2. CASE JobRefused
  <2>1. mover' \in [Mover -> MoverRecord] /\ JudgedTrace'
    BY <1>2, <1>mov, <1>keep, RetireRecord DEF JobRefused
  <2> QED
    BY <1>2, <2>1, TypeParts DEF JobRefused, TypeOK
<1>3. CASE TriggerDone
  <2>1. mover' \in [Mover -> MoverRecord] /\ JudgedTrace'
    BY <1>3, <1>mov, <1>keep, RetireRecord DEF TriggerDone
  <2> QED
    BY <1>3, <2>1, TypeParts DEF TriggerDone, TypeOK
<1>4. CASE TriggerFailed
  <2>1. mover' \in [Mover -> MoverRecord] /\ JudgedTrace'
    BY <1>4, <1>mov, <1>keep, GotoRecord DEF TriggerFailed
  <2> QED
    BY <1>4, <2>1, TypeParts DEF TriggerFailed, TypeOK, MaybeTrace
<1>5. CASE Unwind
  <2>1. mover' \in [Mover -> MoverRecord] /\ JudgedTrace'
    BY <1>5, <1>mov, <1>keep, RetireRecord DEF Unwind
  <2> QED
    BY <1>5, <2>1, CloseType, TypeParts DEF Unwind, TypeOK
<1>6. CASE MoverStep("job")
  BY <1>6, <1>mov, MoverStepType
<1> QED
  BY <1>1, <1>2, <1>3, <1>4, <1>5, <1>6 DEF JobStep

\* The vision thread touches no mover.
LEMMA VisionStepType == TypeInv /\ VisionStep => TypeInv'
<1> SUFFICES ASSUME TypeInv, VisionStep PROVE TypeInv'
  OBVIOUS
<1> USE DEF TypeInv, robotVars, gameVars
<1>1. mover' = mover /\ mover \in [Mover -> MoverRecord]
  BY DEF VisionStep, CaptureFrame, SessionExpires, NoStableBoard, StableBoard,
         VisionIgnored, VerifyBegins, VerifyReleases, PlayerMoveSeen, CloseRound,
         TypeOK, MoverRecord
<1>2. JudgedTrace'
  BY <1>1 DEF JudgedTrace
<1>3. Off \in [on : BOOLEAN, trace : MaybeTrace]
      /\ Watching \in [pc : {"idle", "infer", "handle", "release", "close"}, trace : MaybeTrace]
  BY DEF Off, Watching, MaybeTrace
<1>4. ASSUME NEW pc \in {"idle", "infer", "handle", "release", "close"}
      PROVE  [vision EXCEPT !.pc = pc]
                \in [pc : {"idle", "infer", "handle", "release", "close"}, trace : MaybeTrace]
  BY <1>4 DEF TypeOK
<1>5. CASE CaptureFrame
  BY <1>5, <1>1, <1>4, TypeParts, <1>2 DEF CaptureFrame, TypeOK
<1>6. CASE SessionExpires
  BY <1>6, <1>1, <1>2, <1>3, TypeParts DEF SessionExpires, TypeOK
<1>7. CASE NoStableBoard
  BY <1>7, <1>1, <1>2, <1>3, TypeParts DEF NoStableBoard, TypeOK
<1>8. CASE StableBoard
  BY <1>8, <1>1, <1>2, TypeParts DEF StableBoard, TypeOK
<1>9. CASE VisionIgnored
  BY <1>9, <1>1, <1>2, <1>4, TypeParts DEF VisionIgnored, TypeOK
<1>10. CASE VerifyBegins
  BY <1>10, <1>1, <1>2, <1>4, TypeParts DEF VerifyBegins, TypeOK
<1>11. CASE VerifyReleases
  BY <1>11, <1>1, <1>2, <1>4, GameOverType, TypeParts
     DEF VerifyReleases, TypeOK, MaybeTrace
<1>12. CASE PlayerMoveSeen
  BY <1>12, <1>1, <1>2, <1>4, GameOverType, EngineType, EnqueueType, TypeParts
     DEF PlayerMoveSeen, TypeOK
<1>13. CASE CloseRound
  BY <1>13, <1>1, <1>2, <1>3, CloseType, TypeParts DEF CloseRound, TypeOK
<1> QED
  BY <1>5, <1>6, <1>7, <1>8, <1>9, <1>10, <1>11, <1>12, <1>13 DEF VisionStep

\* What the other threads may do to the state, the event loop's and the
\* handlers' steps apart from the start of a command.
LEMMA LoopAndHandlerType ==
    ASSUME TypeInv, mover' = mover, active' = active, lock' = lock,
           pending' \in {pending, {}}, vision' = vision,
           session' \in [on : BOOLEAN, trace : MaybeTrace],
           engine' \in {"off", "on", "busy", "draining"}, game' \in {"playing", "over"},
           loopq' \in Seq({"over", "playing", "reset"}), ended' \in BOOLEAN
    PROVE  TypeInv'
<1>1. JudgedTrace'
  BY DEF TypeInv, JudgedTrace
<1> QED
  BY <1>1, TypeParts DEF TypeInv, TypeOK, MoverRecord

LEMMA LoopType == TypeInv /\ (EngineReads \/ EngineFails \/ EngineFindsNoMove \/ Reduce) => TypeInv'
<1> SUFFICES ASSUME TypeInv, EngineReads \/ EngineFails \/ EngineFindsNoMove \/ Reduce
             PROVE  TypeInv'
  OBVIOUS
<1> USE DEF robotVars, gameVars
<1>1. TypeOK
  BY DEF TypeInv
<1>2. CASE EngineReads \/ EngineFails
  BY <1>1, <1>2, LoopAndHandlerType DEF EngineReads, EngineFails, TypeOK
<1>3. CASE EngineFindsNoMove
  <2>1. <<"over", "playing">> \in Seq({"over", "playing", "reset"})
    OBVIOUS
  <2>2. loopq' \in Seq({"over", "playing", "reset"})
    BY <1>1, <1>3, <2>1 DEF EngineFindsNoMove, TypeOK
  <2> QED
    BY <1>1, <1>3, <2>2, LoopAndHandlerType DEF EngineFindsNoMove, TypeOK
<1>4. CASE Reduce
  <2>1. loopq' \in Seq({"over", "playing", "reset"})
    BY <1>1, <1>4 DEF Reduce, TypeOK
  <2>2. game' \in {"playing", "over"} /\ ended' \in BOOLEAN
    BY <1>1, <1>4 DEF Reduce, TypeOK
  <2> QED
    BY <1>1, <1>4, <2>1, <2>2, LoopAndHandlerType DEF Reduce, TypeOK
<1> QED
  BY <1>2, <1>3, <1>4

LEMMA HandlerType ==
    TypeInv /\ (\/ PlayerDone \/ CaptureStart \/ CaptureStop \/ EndGame \/ Reset \/ Undo
                \/ DecisivePosition \/ HandlerFails \/ StartEngine \/ StopEngine)
        => TypeInv'
<1> SUFFICES ASSUME TypeInv,
                    \/ PlayerDone \/ CaptureStart \/ CaptureStop \/ EndGame \/ Reset \/ Undo
                    \/ DecisivePosition \/ HandlerFails \/ StartEngine \/ StopEngine
             PROVE  TypeInv'
  OBVIOUS
<1> USE DEF robotVars, gameVars
<1>1. TypeOK
  BY DEF TypeInv
<1>2. CASE PlayerDone \/ CaptureStart
  <2>1. PICK t \in Fresh : session' = [on |-> TRUE, trace |-> t]
    BY <1>2 DEF PlayerDone, CaptureStart
  <2>2. session' \in [on : BOOLEAN, trace : MaybeTrace]
    BY <2>1 DEF Fresh, MaybeTrace
  <2> QED
    BY <1>1, <1>2, <2>2, LoopAndHandlerType DEF PlayerDone, CaptureStart, TypeOK
<1>3. CASE CaptureStop
  <2>1. Off \in [on : BOOLEAN, trace : MaybeTrace]
    BY DEF Off, MaybeTrace
  <2> QED
    BY <1>1, <1>3, <2>1, LoopAndHandlerType DEF CaptureStop, TypeOK
<1>4. CASE EndGame
  BY <1>1, <1>4, CloseType, GameOverType, LoopAndHandlerType DEF EndGame, TypeOK
<1>5. CASE Reset \/ Undo \/ DecisivePosition \/ HandlerFails
  <2>1. loopq' \in Seq({"over", "playing", "reset"})
    BY <1>1, <1>5, EnqueueType DEF Reset, Undo, DecisivePosition, HandlerFails
  <2>2. engine' \in {engine, Enabled(engine)}
    BY <1>5 DEF Reset, Undo, DecisivePosition, HandlerFails
  <2> QED
    BY <1>1, <1>5, <2>1, <2>2, EngineType, LoopAndHandlerType
       DEF Reset, Undo, DecisivePosition, HandlerFails, TypeOK
<1>6. CASE StartEngine \/ StopEngine
  BY <1>1, <1>6, EngineType, LoopAndHandlerType DEF StartEngine, StopEngine, TypeOK
<1> QED
  BY <1>2, <1>3, <1>4, <1>5, <1>6

\* The two places a command starts, and the setup page's test.
LEMMA StartType ==
    ASSUME TypeInv,
           (\E t \in Trace : ExecuteReady(t) \/ EngineCompletes(t)) \/ TestBegin
    PROVE  TypeInv'
<1> USE DEF TypeInv, gameVars
<1>1. ASSUME NEW t \in Trace, ExecuteReady(t) PROVE TypeInv'
  <2>1. mover' \in [Mover -> MoverRecord] /\ JudgedTrace'
    BY <1>1, SubmitRecord DEF ExecuteReady, JudgedTrace, Mover
  <2> QED
    BY <1>1, <2>1, SubmitRecord, TypeParts DEF ExecuteReady, TypeOK
<1>2. ASSUME NEW t \in Trace, EngineCompletes(t) PROVE TypeInv'
  <2>1. /\ mover' \in [Mover -> MoverRecord]
        /\ active' \in MaybeTrace
        /\ JudgedTrace'
    BY <1>2, SubmitRecord DEF EngineCompletes, JudgedTrace, Mover, TypeOK, MoverRecord
  <2>2. /\ engine' \in {"off", "on", "busy", "draining"}
        /\ loopq' \in Seq({"over", "playing", "reset"})
    BY <1>2, EnqueueType DEF EngineCompletes
  <2> QED
    BY <1>2, <2>1, <2>2, TypeParts DEF EngineCompletes, TypeOK
<1>3. CASE TestBegin
  <2>1. /\ mover' \in [Mover -> MoverRecord]
        /\ JudgedTrace'
    BY <1>3, GotoRecord DEF TestBegin, JudgedTrace, Mover, MoverStates
  <2> QED
    BY <1>3, <2>1, EnqueueType, TypeParts DEF TestBegin, TypeOK, Mover
<1> QED
  BY <1>1, <1>2, <1>3

LEMMA TypeStep == TypeInv /\ [Next]_vars => TypeInv'
<1> SUFFICES ASSUME TypeInv, [Next]_vars PROVE TypeInv'
  OBVIOUS
<1>1. CASE Next
  BY <1>1, StartType, JobStepType, MoverStepType, VisionStepType, LoopType, HandlerType
     DEF Next, Mover
<1>2. CASE UNCHANGED vars
  BY <1>2 DEF vars, TypeInv, TypeOK, JudgedTrace
<1> QED
  BY <1>1, <1>2

LEMMA TypeInvariant == Spec => []TypeInv
  BY InitType, TypeStep, PTL DEF Spec

\* Every variable keeps its type, for every set of traces and queue bound: no
\* interleaving leaves a waiting verification, the active trace, a mover or the
\* capture session without a well-formed value.
THEOREM TypeCorrect == Spec => []TypeOK
  BY TypeInvariant, PTL DEF TypeInv

-----------------------------------------------------------------------------
(* Mutual exclusion: moves on the arm, and commands against verifications *)

\* Between reading the active trace and marking the workflow, the coordinator
\* may find the active trace released under it, but never replaced.
JudgedNamesActive ==
    mover["job"].pc = "judge" => active \in {None, mover["job"].seen}

\* Without hardware tests the "test" mover never moves.
NoTest == mover["test"].pc = "idle"

\* The inductive invariant: CommandExclusion alone is not inductive, since the
\* step that marks a verification relies on the trace it read two steps before.
RobotInv ==
    /\ OneMoveAtATime
    /\ CommandExclusion /\ OneVerification /\ VerificationNamesActive
    /\ ~HardwareTests => NoTest /\ JudgedNamesActive

\* Steps of other threads: the movers and the lock are theirs alone, a waiting
\* verification may be settled and the active trace released.
LEMMA RobotFrame ==
    ASSUME RobotInv, mover' = mover, lock' = lock,
           pending' \subseteq pending, active' \in {active, None}
    PROVE  RobotInv'
  BY DEF RobotInv, OneMoveAtATime, HoldsLock, CommandExclusion, OneVerification,
         VerificationNamesActive, NoTest, JudgedNamesActive

LEMMA RobotInit == Init => RobotInv
  BY NoneAssumption
     DEF Init, RobotInv, OneMoveAtATime, HoldsLock, CommandExclusion, OneVerification,
         VerificationNamesActive, NoTest, JudgedNamesActive, Idle, Mover

LEMMA OtherThreads ==
    RobotInv /\ (\/ VisionStep \/ EngineReads \/ EngineFails \/ EngineFindsNoMove \/ Reduce
                 \/ PlayerDone \/ CaptureStart \/ CaptureStop \/ EndGame \/ Reset \/ Undo
                 \/ DecisivePosition \/ HandlerFails \/ StartEngine \/ StopEngine)
        => RobotInv'
<1> SUFFICES ASSUME RobotInv,
                    \/ VisionStep \/ EngineReads \/ EngineFails \/ EngineFindsNoMove \/ Reduce
                    \/ PlayerDone \/ CaptureStart \/ CaptureStop \/ EndGame \/ Reset \/ Undo
                    \/ DecisivePosition \/ HandlerFails \/ StartEngine \/ StopEngine
             PROVE  RobotInv'
  OBVIOUS
<1> USE DEF robotVars, gameVars
<1>1. CASE VisionStep
  BY <1>1, RobotFrame
     DEF VisionStep, CaptureFrame, SessionExpires, NoStableBoard, StableBoard,
         VisionIgnored, VerifyBegins, VerifyReleases, PlayerMoveSeen, CloseRound
<1>2. CASE EngineReads \/ EngineFails \/ EngineFindsNoMove \/ Reduce
  BY <1>2, RobotFrame DEF EngineReads, EngineFails, EngineFindsNoMove, Reduce
<1>3. CASE PlayerDone \/ CaptureStart \/ CaptureStop \/ EndGame
  BY <1>3, RobotFrame DEF PlayerDone, CaptureStart, CaptureStop, EndGame
<1>4. CASE Reset \/ Undo \/ DecisivePosition \/ HandlerFails \/ StartEngine \/ StopEngine
  BY <1>4, RobotFrame
     DEF Reset, Undo, DecisivePosition, HandlerFails, StartEngine, StopEngine
<1> QED
  BY <1>1, <1>2, <1>3, <1>4

\* A command starts only when none runs and no verification waits.
LEMMA CommandStarts ==
    ASSUME TypeOK, RobotInv, NEW t \in Trace, ExecuteReady(t) \/ EngineCompletes(t)
    PROVE  RobotInv'
<1>1. /\ pending' = pending
      /\ lock' = lock
  BY DEF ExecuteReady, EngineCompletes
<1>2. CASE UNCHANGED <<active, mover>>
  BY <1>1, <1>2, RobotFrame
<1>3. CASE SubmitMove(t)
  BY <1>1, <1>3, SubmitRecord
     DEF RobotInv, OneMoveAtATime, HoldsLock, CommandExclusion, OneVerification,
         VerificationNamesActive, NoTest, JudgedNamesActive, Mover
<1> QED
  BY <1>2, <1>3 DEF ExecuteReady, EngineCompletes

\* The mover that begins takes the lock; the worker's move finds no verification.
LEMMA MoveBegins == TypeOK /\ RobotInv /\ (JobBegin \/ TestBegin) => RobotInv'
<1> SUFFICES ASSUME TypeOK, RobotInv, JobBegin \/ TestBegin PROVE RobotInv'
  OBVIOUS
<1>0. lock = None => \A m \in Mover : mover[m].pc \notin HoldsLock
  BY NoneAssumption, MoverStatesPc DEF RobotInv, OneMoveAtATime
<1>1. CASE JobBegin
  <2>1. /\ mover'["job"].pc = "moving" /\ mover'["test"] = mover["test"]
        /\ mover["job"].pc = "queued"
    BY <1>1, GotoRecord, MoverStatesPc DEF JobBegin, MoverStates
  <2> QED
    BY <1>0, <1>1, <2>1, MoverStatesPc
       DEF JobBegin, RobotInv, OneMoveAtATime, HoldsLock, CommandExclusion,
           OneVerification, VerificationNamesActive, NoTest, JudgedNamesActive
<1>2. CASE TestBegin
  <2>1. mover'["test"].pc = "moving" /\ mover'["job"] = mover["job"]
    BY <1>2, GotoRecord, MoverStatesPc DEF TestBegin, MoverStates
  <2> QED
    BY <1>0, <1>2, <2>1, MoverStatesPc
       DEF TestBegin, RobotInv, OneMoveAtATime, HoldsLock, CommandExclusion,
           OneVerification, VerificationNamesActive, NoTest, JudgedNamesActive
<1> QED
  BY <1>1, <1>2

\* The worker's own steps outside move_piece.
LEMMA WorkerStep ==
    TypeOK /\ RobotInv /\ (JobRefused \/ TriggerDone \/ TriggerFailed \/ Unwind) => RobotInv'
<1> SUFFICES ASSUME TypeOK, RobotInv, JobRefused \/ TriggerDone \/ TriggerFailed \/ Unwind
             PROVE  RobotInv'
  OBVIOUS
<1>1. /\ mover["job"].pc \notin HoldsLock /\ lock' = lock
      /\ pending' \subseteq pending /\ active' \in {active, None}
  BY DEF JobRefused, TriggerDone, TriggerFailed, Unwind, HoldsLock
<1>2. /\ mover'["job"].pc \in {"idle", "unwind"}
      /\ mover'["test"] = mover["test"]
  BY GotoRecord, RetireRecord, MoverStatesPc
     DEF JobRefused, TriggerDone, TriggerFailed, Unwind, MoverStates
<1> QED
  BY <1>1, <1>2, MoverStatesPc
     DEF RobotInv, OneMoveAtATime, HoldsLock, CommandExclusion,
         OneVerification, VerificationNamesActive, NoTest, JudgedNamesActive

\* move_piece from its first motion to the release of the lock.
LEMMA MoveStep == \A m \in Mover : TypeOK /\ RobotInv /\ MoverStep(m) => RobotInv'
<1> SUFFICES ASSUME TypeOK, RobotInv, NEW m \in Mover, MoverStep(m) PROVE RobotInv'
  OBVIOUS
<1> USE DEF RobotInv
<1>mov. /\ Mover = {"job", "test"}
        /\ mover \in [Mover -> MoverRecord]
        /\ mover' \in [Mover -> MoverRecord]
        /\ \A n \in Mover : n # m => mover'[n] = mover[n]
  BY MoverStepRecord, MoverStatesPc DEF TypeOK, MoverRecord
<1>job. ~HardwareTests => m = "job"
  BY <1>mov DEF NoTest, MoverStep, MotionEnds, ReadActive, JudgeSkip, JudgeVerify,
               LookSession, OpenSession, Finish
<1>1. ASSUME NEW ok \in BOOLEAN, MotionEnds(m, ok) PROVE RobotInv'
  <2>1. mover'[m].pc = "complete" /\ mover[m].pc = "moving"
    BY <1>1, <1>mov DEF MotionEnds, MoverRecord
  <2> QED
    BY <1>1, <1>mov, <1>job, <2>1
       DEF MotionEnds, OneMoveAtATime, HoldsLock, CommandExclusion, OneVerification,
           VerificationNamesActive, NoTest, JudgedNamesActive
<1>2. CASE ReadActive(m)
  <2>1. PICK t \in IF active # None THEN {active} ELSE Fresh :
            mover' = [mover EXCEPT ![m] = [@ EXCEPT !.pc = "judge", !.seen = t]]
    BY <1>2 DEF ReadActive
  <2>2. /\ mover'[m].pc = "judge" /\ mover'[m].seen = t
        /\ mover[m].pc = "complete"
        /\ active \in {None, t}
    BY <1>2, <1>mov, <2>1 DEF ReadActive, MoverRecord
  <2> QED
    BY <1>2, <1>mov, <1>job, <2>2
       DEF ReadActive, OneMoveAtATime, HoldsLock, CommandExclusion, OneVerification,
           VerificationNamesActive, NoTest, JudgedNamesActive
<1>3. CASE JudgeSkip(m)
  <2>1. mover'[m].pc = "finish"
    BY <1>3, GotoRecord DEF JudgeSkip, MoverStates
  <2> QED
    BY <1>3, <1>mov, <1>job, <2>1
       DEF JudgeSkip, OneMoveAtATime, HoldsLock, CommandExclusion, OneVerification,
           VerificationNamesActive, NoTest, JudgedNamesActive
<1>4. CASE JudgeVerify(m)
  <2>1. mover'[m].pc = "look"
    BY <1>4, GotoRecord DEF JudgeVerify, MoverStates
  <2>2. ~HardwareTests => pending' = {mover["job"].seen} /\ active \in pending' \cup {None}
    BY <1>4, <1>job DEF JudgeVerify, CommandExclusion, JudgedNamesActive
  <2> QED
    BY <1>4, <1>mov, <1>job, <2>1, <2>2
       DEF JudgeVerify, OneMoveAtATime, HoldsLock, CommandExclusion, OneVerification,
           VerificationNamesActive, NoTest, JudgedNamesActive
<1>5. CASE LookSession(m)
  <2>1. mover'[m].pc \in {"finish", "open"}
    BY <1>5, GotoRecord DEF LookSession, MoverStates
  <2> QED
    BY <1>5, <1>mov, <1>job, <2>1
       DEF LookSession, OneMoveAtATime, HoldsLock, CommandExclusion, OneVerification,
           VerificationNamesActive, NoTest, JudgedNamesActive
<1>6. CASE OpenSession(m)
  <2>1. mover'[m].pc = "finish"
    BY <1>6, GotoRecord DEF OpenSession, MoverStates
  <2> QED
    BY <1>6, <1>mov, <1>job, <2>1
       DEF OpenSession, OneMoveAtATime, HoldsLock, CommandExclusion, OneVerification,
           VerificationNamesActive, NoTest, JudgedNamesActive
<1>7. CASE Finish(m)
  <2>1. mover'[m].pc \in {"idle", "trigger"} /\ (m = "test" => mover'[m].pc = "idle")
    BY <1>7, GotoRecord, RetireRecord DEF Finish, MoverStates
  <2> QED
    BY <1>7, <1>mov, <1>job, <2>1, NoneAssumption
       DEF Finish, OneMoveAtATime, HoldsLock, CommandExclusion, OneVerification,
           VerificationNamesActive, NoTest, JudgedNamesActive
<1> QED
  BY <1>1, <1>2, <1>3, <1>4, <1>5, <1>6, <1>7 DEF MoverStep

LEMMA RobotStep == TypeOK /\ RobotInv /\ [Next]_vars => RobotInv'
<1> SUFFICES ASSUME TypeOK, RobotInv, [Next]_vars PROVE RobotInv'
  OBVIOUS
<1>1. CASE Next
  BY <1>1, CommandStarts, MoveBegins, WorkerStep, MoveStep, OtherThreads, MoverStatesPc
     DEF Next, JobStep
<1>2. CASE UNCHANGED vars
  BY <1>2, RobotFrame DEF vars
<1> QED
  BY <1>1, <1>2

LEMMA RobotInvariant == Spec => []RobotInv
  BY TypeCorrect, RobotInit, RobotStep, PTL DEF Spec

\* Whatever the HTTP threads, the worker and the setup page do, at most one
\* RobotService.move_piece drives the arm, and it is the one that holds the lock.
THEOREM MovesExclude == Spec => []OneMoveAtATime
  BY RobotInvariant, PTL DEF RobotInv

\* Without hardware tests, a command that is queued or moving finds no
\* verification of an earlier command waiting (start_robot_move's check holds
\* until on_robot_complete marks the command's own verification).
THEOREM CommandsExclude == Spec => []CommandExclusion
  BY RobotInvariant, PTL DEF RobotInv

\* Without hardware tests, one verification at most waits for the camera.
THEOREM VerificationUnique == Spec => []OneVerification
  BY RobotInvariant, PTL DEF RobotInv

\* Without hardware tests, the active trace never names a command other than
\* the one whose verification waits.
THEOREM VerificationNamed == Spec => []VerificationNamesActive
  BY RobotInvariant, PTL DEF RobotInv

-----------------------------------------------------------------------------
(* The coordinator implements the command gate *)

\* Seen from the gate, a step either leaves the worker idle or not and only
\* settles verifications, or it is one of the gate's own.
LEMMA GateQuiet ==
    ASSUME mover' = mover, pending' \subseteq pending
    PROVE  [Gate!Next]_GatePhase
  BY DEF GatePhase, Gate!Next, Gate!Start, Gate!Finish, Gate!Settle

LEMMA GateRunning ==
    ASSUME mover["job"].pc # "idle", mover'["job"].pc # "idle"
    PROVE  [Gate!Next]_GatePhase
  BY DEF GatePhase

LEMMA GateEnds ==
    ASSUME mover["job"].pc # "idle", mover'["job"].pc = "idle"
    PROVE  [Gate!Next]_GatePhase
  BY DEF GatePhase, Gate!Next, Gate!Finish

LEMMA GateInit == Init => Gate!Init
  BY DEF Init, Gate!Init, GatePhase, Idle, Mover

LEMMA GateStep == TypeOK /\ RobotInv /\ [Next]_vars => [Gate!Next]_GatePhase
<1> SUFFICES ASSUME TypeOK, RobotInv, [Next]_vars PROVE [Gate!Next]_GatePhase
  OBVIOUS
<1> USE DEF robotVars, gameVars
<1>1. ASSUME NEW t \in Trace, ExecuteReady(t) \/ EngineCompletes(t)
      PROVE  [Gate!Next]_GatePhase
  <2>1. CASE UNCHANGED <<active, mover>>
    BY <1>1, <2>1, GateQuiet DEF ExecuteReady, EngineCompletes
  <2>2. CASE SubmitMove(t)
    BY <2>2, SubmitRecord DEF GatePhase, Gate!Next, Gate!Start
  <2> QED
    BY <1>1, <2>1, <2>2 DEF ExecuteReady, EngineCompletes
<1>2. CASE JobBegin \/ TriggerFailed
  BY <1>2, GotoRecord, GateRunning, MoverStatesPc DEF JobBegin, TriggerFailed, MoverStates
<1>3. CASE JobRefused \/ TriggerDone \/ Unwind
  BY <1>3, RetireRecord, GateEnds, MoverStatesPc DEF JobRefused, TriggerDone, Unwind
<1>4. CASE TestBegin
  BY <1>4, GotoRecord, MoverStatesPc DEF TestBegin, MoverStates, GatePhase
<1>5. CASE MoverStep("job")
  <2>1. mover["job"].pc # "idle"
    BY <1>5 DEF MoverStep, MotionEnds, ReadActive, JudgeSkip, JudgeVerify,
               LookSession, OpenSession, Finish
  <2> QED
    BY <2>1, GateRunning, GateEnds
<1>6. CASE MoverStep("test")
  <2>1. HardwareTests
    BY <1>6 DEF RobotInv, NoTest, MoverStep, MotionEnds, ReadActive, JudgeSkip,
               JudgeVerify, LookSession, OpenSession, Finish
  <2>2. mover'["job"] = mover["job"]
    BY <1>6, MoverStepRecord, MoverStatesPc
  <2>3. pending \subseteq pending'
    BY <1>6 DEF MoverStep, MotionEnds, ReadActive, JudgeSkip, JudgeVerify,
               LookSession, OpenSession, Finish
  <2> QED
    BY <2>1, <2>2, <2>3 DEF GatePhase, Gate!Next, Gate!TestedFromSetup
<1>7. CASE VisionStep
  BY <1>7, GateQuiet
     DEF VisionStep, CaptureFrame, SessionExpires, NoStableBoard, StableBoard,
         VisionIgnored, VerifyBegins, VerifyReleases, PlayerMoveSeen, CloseRound
<1>8. CASE EngineReads \/ EngineFails \/ EngineFindsNoMove \/ Reduce
  BY <1>8, GateQuiet DEF EngineReads, EngineFails, EngineFindsNoMove, Reduce
<1>9. CASE PlayerDone \/ CaptureStart \/ CaptureStop \/ EndGame
  BY <1>9, GateQuiet DEF PlayerDone, CaptureStart, CaptureStop, EndGame
<1>10. CASE Reset \/ Undo \/ DecisivePosition \/ HandlerFails \/ StartEngine \/ StopEngine
  BY <1>10, GateQuiet
     DEF Reset, Undo, DecisivePosition, HandlerFails, StartEngine, StopEngine
<1>11. CASE UNCHANGED vars
  BY <1>11, GateQuiet DEF vars
<1> QED
  BY <1>1, <1>2, <1>3, <1>4, <1>5, <1>6, <1>7, <1>8, <1>9, <1>10, <1>11
     DEF Next, JobStep

\* The coordinator, its worker and all the threads that poke it implement the
\* command gate: a command starts only from a free robot and is settled or
\* verified before the next one, for every number of traces.
THEOREM ImplementsGate == Spec => GateSpec
  BY GateInit, GateStep, TypeCorrect, RobotInvariant, PTL DEF Spec, GateSpec, Gate!Spec

=============================================================================
