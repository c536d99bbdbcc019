---------------------------- MODULE PickAndPlace ----------------------------
(***************************************************************************)
(* A chess move as a sequence of motions and gripper commands: the profile *)
(* of the robot in which Python knows the poses (RobotService.move_piece   *)
(* with ModbusAdapter.send_motion, payload pose, role client).             *)
(*                                                                         *)
(* move_piece plans the whole move, then sends one motion after another in *)
(* a thread of its own and waits for each with asyncio.wait_for.  When     *)
(* that times out it halts the arm and gives up, while the thread goes on  *)
(* until its own timeout and then clears the trigger; another caller may   *)
(* have begun a move by then.                                              *)
(*                                                                         *)
(* The registers are in the robot's device and outlive the program.        *)
(* TMflow, the arm, the gripper and the pieces are external: TMflow takes  *)
(* the id and the pose when it sees the trigger set, echoes the id, moves, *)
(* reports the end, and waits until the trigger has been cleared.          *)
(***************************************************************************)
EXTENDS Naturals, Sequences, FiniteSets

CONSTANTS
    Caller,    \* threads that call move_piece
    Moves,     \* the moves asked for: [from, to, capture]
    Place,     \* the squares and the dead zone
    DeadZone,  \* kinematics.get_dead_zone_coords(1): every captured piece goes there
    Safe,      \* the places inside the safety limits
    Piece,
    Board,     \* where each piece stands at first
    None

VARIABLES
    reg,     \* the registers: id, pose, trigger, ack, status, halt
    tm,      \* the TMflow project and the command it works on
    arm,     \* the pose it is in, or Between
    closed,  \* the gripper
    at,      \* per piece: a place, "hand" or "dropped"
    lastId,  \* ModbusAdapter._command_id
    lock,    \* RobotService._move_lock
    call,    \* per caller: move_piece (svc, todo) and its sender (io, id, ok)
    used     \* history: the moves asked for

vars == <<reg, tm, arm, closed, at, lastId, lock, call, used>>
plant == <<arm, closed, at>>

Height == {"safe", "grab", "place"}
Pose == [place : Place, z : Height]
NoPose == [place |-> None, z |-> "safe"]
Between == NoPose
NoCall == [svc |-> "idle", todo |-> <<>>, io |-> "off", id |-> 0, ok |-> FALSE,
           lifts |-> {}, takes |-> {}, to |-> None, fit |-> FALSE]

Init ==
    /\ reg = [id |-> 0, pose |-> NoPose, trigger |-> FALSE, ack |-> 0,
              status |-> "idle", halt |-> FALSE]
    /\ tm = [pc |-> "ready", id |-> 0, pose |-> NoPose]
    /\ arm = Between /\ closed = FALSE /\ at = Board
    /\ lastId = 0 /\ lock = None
    /\ call = [c \in Caller |-> NoCall]
    /\ used = {}

-----------------------------------------------------------------------------
(* RobotService.move_piece *)

Go(p, z) == [op |-> "go", pose |-> [place |-> p, z |-> z]]
Grip(close) == [op |-> "grip", close |-> close]

\* Mutant: the gripper opens before the arm is down.
PickAndPlaceHigh(s, e) ==
    << Go(s, "safe"), Go(s, "grab"), Grip(TRUE), Go(s, "safe"),
       Go(e, "safe"), Grip(FALSE), Go(e, "place"), Go(e, "safe") >>
\* _execute_pick_and_place
PickAndPlace(s, e) ==
    << Go(s, "safe"), Go(s, "grab"), Grip(TRUE), Go(s, "safe"),
       Go(e, "safe"), Go(e, "place"), Grip(FALSE), Go(e, "safe") >>

\* A capture clears the target square first.
Plan(m) == (IF m.capture THEN PickAndPlace(m.to, DeadZone) ELSE <<>>)
             \o PickAndPlace(m.from, m.to)
Targets(m) == {m.from, m.to} \cup (IF m.capture THEN {DeadZone} ELSE {})
On(p) == {x \in Piece : at[x] = p}
Fit(m) == ~closed /\ On("hand") = {} /\ \A p \in {m.from, m.to} : \A x, y \in On(p) : x = y

\* _plan_move: every target is checked before the first motion.  A move is fit
\* when it begins with an open, empty gripper and no two pieces on a square: nothing
\* in the code looks at that.
MovePiece(c) ==
    /\ call[c].svc = "idle" /\ lock = None
    /\ \E m \in Moves \ used :
           /\ used' = used \cup {m}
           /\ IF Targets(m) \subseteq Safe
                THEN /\ lock' = c
                     /\ call' = [call EXCEPT ![c] =
                           [svc |-> "run", todo |-> Plan(m), io |-> "off", id |-> 0, ok |-> FALSE,
                            lifts |-> On(m.from), takes |-> IF m.capture THEN On(m.to) ELSE {},
                            to |-> m.to, fit |-> Fit(m)]]
                ELSE UNCHANGED <<lock, call>>
    /\ UNCHANGED <<reg, tm, plant, lastId>>

Running(c) == call[c].svc = "run" /\ call[c].todo # <<>>
Step(c) == Head(call[c].todo)

\* _motion: a sender in a thread of its own.  A sender left behind has at most the
\* time it spent on the ack and the start before its own timeout: it may meddle
\* with the first motion of the next move and is gone before the second.
Motion(c) ==
    /\ Running(c) /\ call[c].io = "off" /\ Step(c).op = "go"
    /\ call[c].id = 0 \/ \A d \in Caller : call[d].svc # "join"
    /\ lastId' = lastId + 1
    /\ call' = [call EXCEPT ![c].io = "id", ![c].id = lastId']
    /\ UNCHANGED <<reg, tm, plant, lock, used>>

Fails(c) ==
    /\ call' = [call EXCEPT ![c] = NoCall]
    /\ lock' = None

\* What the sender answers: on to the next step, or the move has failed.
MotionEnds(c) ==
    /\ Running(c) /\ call[c].io = "end"
    /\ IF call[c].ok
         THEN /\ call' = [call EXCEPT ![c].io = "off", ![c].todo = Tail(@)]
              /\ UNCHANGED lock
         ELSE Fails(c)
    /\ UNCHANGED <<reg, tm, plant, lastId, used>>

\* What the gripper does to the pieces: it takes one that stands where it
\* closes, and leaves the one it holds where it opens.
Gripped(close) ==
    /\ closed' = close
    /\ IF close
         THEN IF ~closed /\ arm.z # "safe" /\ On(arm.place) # {}
                THEN \E x \in On(arm.place) : at' = [at EXCEPT ![x] = "hand"]
                ELSE UNCHANGED at
         ELSE at' = [x \in Piece |-> IF at[x] # "hand" THEN at[x]
                                     ELSE IF arm.z = "safe" THEN "dropped" ELSE arm.place]

\* _set_gripper and ModbusAdapter.set_gripper: the feedback says that the gripper
\* did it, or the step fails, whether the gripper did it or not.
SetGripper(c) ==
    /\ Running(c) /\ call[c].io = "off" /\ Step(c).op = "grip"
    /\ \/ Gripped(Step(c).close) /\ call' = [call EXCEPT ![c].todo = Tail(@)] /\ UNCHANGED lock
       \/ Gripped(Step(c).close) /\ Fails(c)
       \/ UNCHANGED <<closed, at>> /\ Fails(c)
    /\ UNCHANGED <<reg, tm, arm, lastId, used>>

Placed(c) == call[c].svc = "run" /\ call[c].todo = <<>>

\* ROBOT_MOVE_COMPLETED, success.
Return(c) ==
    /\ Placed(c) /\ Fails(c)
    /\ UNCHANGED <<reg, tm, plant, lastId, used>>

\* asyncio.wait_for gives up.  The waits for the ack and for the start are
\* shorter than ROBOT_MOTION_TIMEOUT_SEC: the sender waits for the end by now.
MotionTimeout(c) ==
    /\ Running(c) /\ call[c].io \in {"await", "awaitAck", "cleanup"}
    /\ call' = [call EXCEPT ![c].svc = "halt"]
    /\ UNCHANGED <<reg, tm, plant, lastId, lock, used>>

HaltAndFail(c) ==
    /\ call[c].svc = "halt"
    /\ reg' = [reg EXCEPT !.halt = TRUE]
    /\ lock' = None
    /\ call' = [call EXCEPT ![c].svc = "join"]
    /\ UNCHANGED <<tm, plant, lastId, used>>

\* asyncio.run waits for the sender before execute_move returns.
Join(c) ==
    /\ call[c].svc = "join" /\ call[c].io = "end"
    /\ call' = [call EXCEPT ![c] = NoCall]
    /\ UNCHANGED <<reg, tm, plant, lastId, lock, used>>

-----------------------------------------------------------------------------
(* ModbusAdapter.send_motion *)

To(c, io) == call' = [call EXCEPT ![c].io = io]
Ends(c, io, ok) == call' = [call EXCEPT ![c].io = io, ![c].ok = ok]
SenderKeeps == UNCHANGED <<tm, plant, lastId, lock, used>>

\* A register write over the network.  A write that fails ends the motion; the
\* device may have carried it out all the same.  The trigger is written before
\* the try whose finally clears it.
Write(c, from, to, new) ==
    /\ call[c].io = from
    /\ \/ reg' = new /\ To(c, to)
       \/ reg' \in {reg, new} /\ Ends(c, "end", FALSE)
    /\ SenderKeeps

Goal(c) == Step(c).pose
WriteId(c) == Write(c, "id", "pose", [reg EXCEPT !.id = call[c].id])
\* write_pose_registers: the profile and the pose.
WritePose(c) == Write(c, "pose", "trigger", [reg EXCEPT !.pose = Goal(c)])
SetTrigger(c) == Write(c, "trigger", "ack", [reg EXCEPT !.trigger = TRUE])

SenderReads == UNCHANGED <<reg>> /\ SenderKeeps

\* _wait_for_ack
Acked(c) ==
    /\ call[c].io = "ack" /\ reg.ack = call[c].id
    /\ To(c, "start")
    /\ SenderReads

\* _wait_for_motion_start: "complete" before "moving" is the answer to an older motion.
Started(c) ==
    /\ call[c].io = "start"
    /\ \/ reg.status = "moving" /\ To(c, "await")
       \/ reg.status \in {"complete", "error"} /\ Ends(c, "cleanup", FALSE)
    /\ SenderReads

\* _wait_for_completion reads the status, then the ack.
ReadStatus(c) ==
    /\ call[c].io = "await" /\ reg.status \in {"complete", "idle"}
    /\ call' = [call EXCEPT ![c].io = "awaitAck", ![c].ok = (reg.status = "complete")]
    /\ SenderReads

\* A mismatch is a failure after "complete", and one more round after "idle".
ReadAck(c) ==
    /\ call[c].io = "awaitAck"
    /\ IF reg.ack = call[c].id THEN Ends(c, "cleanup", TRUE)
       ELSE IF call[c].ok THEN Ends(c, "cleanup", FALSE) ELSE To(c, "await")
    /\ SenderReads

\* An error reported by TMflow, or a timeout of its own.
GivesUp(c) ==
    /\ call[c].io \in {"ack", "start", "await"}
    /\ Ends(c, "cleanup", FALSE)
    /\ SenderReads

\* finally: the trigger is cleared, whoever set it last.
Cleanup(c) ==
    /\ call[c].io = "cleanup"
    /\ To(c, "end")
    /\ reg' = [reg EXCEPT !.trigger = FALSE]
    /\ SenderKeeps

Sender(c) ==
    \/ WriteId(c) \/ WritePose(c) \/ SetTrigger(c) \/ Acked(c) \/ Started(c)
    \/ ReadStatus(c) \/ ReadAck(c) \/ GivesUp(c) \/ Cleanup(c)

-----------------------------------------------------------------------------
(* A new program or a new adapter: ids begin at 1, the registers stay *)

Restart ==
    /\ \E c \in Caller : call[c].svc # "idle"
    /\ call' = [c \in Caller |-> NoCall]
    /\ lock' = None /\ lastId' = 0
    /\ UNCHANGED <<reg, tm, plant, used>>

-----------------------------------------------------------------------------
(* TMflow and the arm (external) *)

TmKeeps == UNCHANGED <<closed, at, lastId, lock, call, used>>

TmAccept ==
    /\ tm.pc = "ready" /\ reg.trigger /\ ~reg.halt
    /\ tm' = [pc |-> "accepted", id |-> reg.id, pose |-> reg.pose]
    /\ UNCHANGED <<reg, arm>> /\ TmKeeps

TmAcks ==
    /\ tm.pc = "accepted"
    /\ tm' = [tm EXCEPT !.pc = "acked"]
    /\ reg' = [reg EXCEPT !.ack = tm.id]
    /\ UNCHANGED arm /\ TmKeeps

TmMoves ==
    /\ tm.pc = "acked"
    /\ tm' = [tm EXCEPT !.pc = "moving"]
    /\ reg' = [reg EXCEPT !.status = "moving"]
    /\ arm' = Between
    /\ TmKeeps

TmArrives ==
    /\ tm.pc = "moving"
    /\ tm' = [tm EXCEPT !.pc = "held"]
    /\ arm' = tm.pose
    /\ \E s \in {"complete", "idle"} : reg' = [reg EXCEPT !.status = s]
    /\ TmKeeps

\* The halt register, or an error of its own.
TmStops ==
    /\ tm.pc \in {"accepted", "acked", "moving"}
    /\ tm' = [tm EXCEPT !.pc = "held"]
    /\ \/ reg.halt /\ reg' = [reg EXCEPT !.status = "idle", !.halt = FALSE]
       \/ reg' = [reg EXCEPT !.status = "error"]
    /\ UNCHANGED arm /\ TmKeeps

\* A halt that finds nothing to stop is over before the next command.
TmIdleHalt ==
    /\ tm.pc \in {"ready", "held"} /\ reg.halt
    /\ reg' = [reg EXCEPT !.halt = FALSE]
    /\ UNCHANGED <<tm, arm>> /\ TmKeeps

TmRearms ==
    /\ tm.pc = "held" /\ ~reg.trigger
    /\ tm' = [tm EXCEPT !.pc = "ready"]
    /\ \E s \in {reg.status, "idle"} : reg' = [reg EXCEPT !.status = s]
    /\ UNCHANGED arm /\ TmKeeps

TMflow == TmAccept \/ TmAcks \/ TmMoves \/ TmArrives \/ TmStops \/ TmIdleHalt \/ TmRearms

-----------------------------------------------------------------------------

Service(c) == \/ MovePiece(c) \/ Motion(c) \/ MotionEnds(c) \/ SetGripper(c) \/ Return(c)
              \/ MotionTimeout(c) \/ HaltAndFail(c) \/ Join(c)

Next == (\E c \in Caller : Service(c) \/ Sender(c)) \/ Restart \/ TMflow
Spec == Init /\ [][Next]_vars

-----------------------------------------------------------------------------

TypeOK ==
    /\ reg \in [id : Nat, pose : Pose \cup {NoPose}, trigger : BOOLEAN, ack : Nat,
                status : {"idle", "moving", "complete", "error"}, halt : BOOLEAN]
    /\ tm \in [pc : {"ready", "accepted", "acked", "moving", "held"}, id : Nat,
               pose : Pose \cup {NoPose}]
    /\ arm \in Pose \cup {Between} /\ closed \in BOOLEAN
    /\ at \in [Piece -> Place \cup {"hand", "dropped"}]
    /\ lastId \in Nat /\ lock \in Caller \cup {None}
    /\ \A c \in Caller :
           /\ call[c].svc \in {"idle", "run", "halt", "join"}
           /\ call[c].io \in {"off", "id", "pose", "trigger", "ack", "start", "await",
                              "awaitAck", "cleanup", "end"}
           /\ lock = c <=> call[c].svc \in {"run", "halt"}
    /\ used \subseteq Moves

\* Success means placed: a move that was fit to begin and reports success has done
\* what it was asked: the piece stands on the target square, the captured one in the
\* dead zone, and the hand is empty and open (RobotService.move_piece, whose steps
\* rest on the completion ModbusAdapter.send_motion reads from the registers).
SuccessMeansPlaced ==
    \A c \in Caller : Placed(c) /\ call[c].fit =>
        /\ \A x \in call[c].lifts : at[x] = call[c].to
        /\ \A x \in call[c].takes : at[x] = DeadZone
        /\ ~closed /\ On("hand") = {}

\* Nothing is dropped: whatever failed, was lost or was restarted before, the gripper
\* of _execute_pick_and_place never lets go of a piece at travel height.
NothingIsDropped == On("dropped") = {}

=============================================================================
