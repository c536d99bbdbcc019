--------------------------- MODULE SquareCommand ---------------------------
(***************************************************************************)
(* One chess move on its way to the arm in the lab profile of the robot    *)
(* (ROBOT_ADAPTER=modbus, role server, payload square_command):            *)
(* RobotService.move_piece on the caller's thread, the thread that runs    *)
(* ModbusAdapter.send_chess_move for it, the register bank the adapter     *)
(* serves, and the TMflow project that polls the bank.                     *)
(*                                                                         *)
(* A caller waits for its sender with asyncio.wait_for.  When that times   *)
(* out it halts the arm, reports a failure and frees the move lock, but    *)
(* the sender is a thread and goes on; asyncio.run waits for it before     *)
(* execute_move returns, so one caller never has two senders, while        *)
(* another caller may start with the first one's sender still there.       *)
(*                                                                         *)
(* TMflow is external.  It is modelled from what the adapter expects: it   *)
(* accepts a command when it sees the trigger set, reports moving, then    *)
(* writes the completed id and the status in either order, and looks for   *)
(* the next trigger after it has seen this one cleared.                    *)
(***************************************************************************)
EXTENDS Naturals, FiniteSets

CONSTANTS
    Caller,     \* threads that call move_piece: the actuation worker, one-move tests
    Command,    \* the moves they ask for, each asked for once
    None,       \* no caller, no command
    IdWrap      \* ROBOT_COMMAND_ID_WRAP

ASSUME NoneAssumption == None \notin Caller \cup Command
ASSUME IdWrapAssumption == IdWrap \in Nat \ {0}

VARIABLES
    bank,     \* the holding registers of the adapter in use
    lastId,   \* its _command_id
    call,     \* per caller: its place in move_piece (svc) and its sender's (io)
    lock,     \* RobotService._move_lock: the caller that holds it, or None
    tm,       \* the TMflow project
    used,     \* history: the commands asked for
    carried,  \* history: the commands the arm has carried out
    leftover  \* history: when this bank was made, TMflow was busy with an older one

vars == <<bank, lastId, call, lock, tm, used, carried, leftover>>
history == <<used, carried, leftover>>

Id == 1..IdWrap
Status == {"idle", "moving", "complete", "error"}
IoPc == {"off", "ready", "clear", "load", "id", "trigger", "start", "startPoll",
         "await", "awaitPoll", "cleanup", "end"}
Polling == {"start", "startPoll", "await", "awaitPoll"}
NoCall == [svc |-> "idle", io |-> "off", cmd |-> None, id |-> 0, live |-> FALSE, ok |-> FALSE]

\* Mutant: the status register is left out of the initial values.
NewBankUnset == [trigger |-> FALSE, cmd |-> None, id |-> 0, status |-> "unset",
                 completed |-> 0, halt |-> FALSE]
\* _initialize_server_registers
NewBank == [trigger |-> FALSE, cmd |-> None, id |-> 0, status |-> "idle",
            completed |-> 0, halt |-> FALSE]

TypeOK ==
    /\ bank \in [trigger : BOOLEAN, cmd : Command \cup {None}, id : Id \cup {0},
                 status : Status, completed : Id \cup {0}, halt : BOOLEAN]
    /\ lastId \in Id \cup {0}
    /\ call \in [Caller -> [svc : {"idle", "wait", "halt", "join"}, io : IoPc,
                            cmd : Command \cup {None}, id : Id \cup {0},
                            live : BOOLEAN, ok : BOOLEAN]]
    /\ lock \in Caller \cup {None}
    /\ tm \in [pc : {"ready", "accepted", "moving", "report", "held"},
               cmd : Command \cup {None}, id : Id \cup {0},
               todo : SUBSET {"completed", "status"}]
    /\ used \subseteq Command
    /\ carried \subseteq Command
    /\ leftover \in BOOLEAN

Init ==
    /\ bank = NewBank
    /\ lastId = 0
    /\ call = [c \in Caller |-> NoCall]
    /\ lock = None
    /\ tm = [pc |-> "ready", cmd |-> None, id |-> 0, todo |-> {}]
    /\ used = {} /\ carried = {} /\ leftover = FALSE

-----------------------------------------------------------------------------
(* The caller: RobotService.move_piece inside RobotFacade.execute_move *)

\* The lock is tried, not awaited; the sender starts in a thread of its own and
\* takes the next command id first.
MovePiece(c) ==
    /\ call[c].svc = "idle" /\ lock = None
    /\ \E m \in Command \ used :
           /\ used' = used \cup {m}
           /\ lastId' = (lastId % IdWrap) + 1
           /\ call' = [call EXCEPT ![c] = [NoCall EXCEPT
                  !.svc = "wait", !.io = "ready", !.cmd = m, !.id = lastId', !.live = TRUE]]
    /\ lock' = c
    /\ UNCHANGED <<bank, tm, carried, leftover>>

\* The sender's answer is move_piece's answer.
Return(c) ==
    /\ call[c].svc = "wait" /\ call[c].io = "end"
    /\ lock' = None
    /\ call' = [call EXCEPT ![c] = NoCall]
    /\ UNCHANGED <<bank, lastId, tm, history>>

\* asyncio.wait_for gives up.  The register writes are local and take no time,
\* so the sender is polling or about to clear the trigger.
MotionTimeout(c) ==
    /\ call[c].svc = "wait" /\ call[c].io \in Polling \cup {"cleanup"}
    /\ call' = [call EXCEPT ![c].svc = "halt"]
    /\ UNCHANGED <<bank, lastId, lock, tm, history>>

\* adapter.halt() of the adapter in use; the move is reported as failed and the
\* lock is free, but asyncio.run waits for the sender.
HaltAndFail(c) ==
    /\ call[c].svc = "halt"
    /\ bank' = [bank EXCEPT !.halt = TRUE]
    /\ lock' = None
    /\ call' = [call EXCEPT ![c].svc = "join"]
    /\ UNCHANGED <<lastId, tm, history>>

Join(c) ==
    /\ call[c].svc = "join" /\ call[c].io = "end"
    /\ call' = [call EXCEPT ![c] = NoCall]
    /\ UNCHANGED <<bank, lastId, lock, tm, history>>

-----------------------------------------------------------------------------
(* The sender: ModbusAdapter.send_chess_move *)

SenderAt(c, io) == call[c].io = io

\* The sender of an adapter that was replaced has no registers: writes fail
\* and reads return nothing.
Sees(c, status) == call[c].live /\ bank.status \in status

SenderTo(c, io) == call' = [call EXCEPT ![c].io = io]
SenderEnds(c, io, ok) == call' = [call EXCEPT ![c] = [@ EXCEPT !.io = io, !.ok = ok]]

\* _square_ready_for_command
SquareReady(c) ==
    /\ SenderAt(c, "ready")
    /\ IF Sees(c, {"idle", "complete"}) THEN SenderTo(c, "clear") ELSE SenderEnds(c, "end", FALSE)
    /\ UNCHANGED <<bank, lastId, lock, tm, history>>

\* A register write: the next step, or the end when the write is refused.
Write(c, from, to, newBank) ==
    /\ SenderAt(c, from)
    /\ IF call[c].live
         THEN bank' = newBank /\ SenderTo(c, to)
         ELSE SenderEnds(c, "end", FALSE) /\ UNCHANGED bank
    /\ UNCHANGED <<lastId, lock, tm, history>>

\* _write_square_command_registers: the trigger, the squares and the action, the id.
ClearTrigger(c) == Write(c, "clear", "load", [bank EXCEPT !.trigger = FALSE])
\* Mutant: the squares are left out of the command.
WriteSquaresForgotten(c) == Write(c, "load", "id", bank)
WriteSquares(c) == Write(c, "load", "id", [bank EXCEPT !.cmd = call[c].cmd])
\* Mutant: the id is left out of the command.
WriteIdForgotten(c) == Write(c, "id", "trigger", bank)
WriteId(c) == Write(c, "id", "trigger", [bank EXCEPT !.id = call[c].id])
SetTrigger(c) == Write(c, "trigger", "start", [bank EXCEPT !.trigger = TRUE])

\* _wait_for_square_motion_start: TMflow reports that it moves ...
Started(c) ==
    /\ SenderAt(c, "start") /\ Sees(c, {"moving"})
    /\ SenderTo(c, "await")
    /\ UNCHANGED <<bank, lastId, lock, tm, history>>

\* ... or a status that may mean the command is done: the completed id is read
\* next, after the status, and belongs to a later moment.
ReadStatus(c) ==
    /\ \/ SenderAt(c, "start") /\ Sees(c, {"complete"}) /\ SenderTo(c, "startPoll")
       \/ SenderAt(c, "await") /\ Sees(c, {"complete", "idle"}) /\ SenderTo(c, "awaitPoll")
    /\ UNCHANGED <<bank, lastId, lock, tm, history>>

NamesMe(c) == call[c].live /\ bank.completed = call[c].id

ReadIdAtStart(c) ==
    /\ SenderAt(c, "startPoll")
    /\ SenderTo(c, IF NamesMe(c) THEN "await" ELSE "start")
    /\ UNCHANGED <<bank, lastId, lock, tm, history>>

\* Mutant: ROBOT_SQUARE_REQUIRE_COMPLETED_COMMAND is off.
CompletedAnyId(c) ==
    /\ SenderAt(c, "awaitPoll")
    /\ SenderEnds(c, "cleanup", TRUE)
    /\ UNCHANGED <<bank, lastId, lock, tm, history>>

\* _wait_for_square_completion
Completed(c) ==
    /\ SenderAt(c, "awaitPoll")
    /\ IF NamesMe(c) THEN SenderEnds(c, "cleanup", TRUE) ELSE SenderTo(c, "await")
    /\ UNCHANGED <<bank, lastId, lock, tm, history>>

\* TMflow reports an error, or the sender's own timeout passes.
GivesUp(c) ==
    /\ call[c].io \in {"start", "await"}
    /\ SenderEnds(c, "cleanup", FALSE)
    /\ UNCHANGED <<bank, lastId, lock, tm, history>>

\* Mutant: no finally, the trigger stays set.
CleanupSkipped(c) ==
    /\ SenderAt(c, "cleanup")
    /\ SenderTo(c, "end")
    /\ UNCHANGED <<bank, lastId, lock, tm, history>>

\* Mutant: the thread dies with its adapter instead of reaching its end.
CleanupIfLive(c) ==
    /\ SenderAt(c, "cleanup") /\ call[c].live
    /\ SenderTo(c, "end")
    /\ bank' = [bank EXCEPT !.trigger = FALSE]
    /\ UNCHANGED <<lastId, lock, tm, history>>

\* finally: clear the trigger.
Cleanup(c) ==
    /\ SenderAt(c, "cleanup")
    /\ SenderTo(c, "end")
    /\ bank' = IF call[c].live THEN [bank EXCEPT !.trigger = FALSE] ELSE bank
    /\ UNCHANGED <<lastId, lock, tm, history>>

Sender(c) ==
    \/ SquareReady(c)
    \/ ClearTrigger(c) \/ WriteSquares(c) \/ WriteId(c) \/ SetTrigger(c)
    \/ Started(c) \/ ReadStatus(c) \/ ReadIdAtStart(c) \/ Completed(c)
    \/ GivesUp(c) \/ Cleanup(c)

-----------------------------------------------------------------------------
(* A new adapter: the settings changed, or the process was restarted *)

NewAdapter ==
    /\ bank' = NewBank
    /\ lastId' = 0
    /\ leftover' = (tm.pc \notin {"ready", "held"})
    /\ UNCHANGED <<tm, used, carried>>

\* RobotService.configure_adapter, called without the move lock: the senders of
\* the old adapter lose their registers.
Reconfigure ==
    /\ NewAdapter
    /\ call' = [c \in Caller |-> [call[c] EXCEPT !.live = FALSE]]
    /\ UNCHANGED lock

Restart ==
    /\ NewAdapter
    /\ call' = [c \in Caller |-> NoCall]
    /\ lock' = None

-----------------------------------------------------------------------------
(* TMflow (external) *)

TmUnchanged == UNCHANGED <<lastId, call, lock, used, leftover>>

TmAccept ==
    /\ tm.pc = "ready" /\ bank.trigger
    /\ tm' = [pc |-> "accepted", cmd |-> bank.cmd, id |-> bank.id, todo |-> {}]
    /\ UNCHANGED <<bank, carried>> /\ TmUnchanged

TmMoves ==
    /\ tm.pc = "accepted"
    /\ tm' = [tm EXCEPT !.pc = "moving"]
    /\ bank' = [bank EXCEPT !.status = "moving"]
    /\ UNCHANGED carried /\ TmUnchanged

TmArrives ==
    /\ tm.pc = "moving"
    /\ tm' = [tm EXCEPT !.pc = "report", !.todo = {"completed", "status"}]
    /\ carried' = carried \cup {tm.cmd}
    /\ UNCHANGED bank /\ TmUnchanged

TmReports(r) ==
    /\ tm.pc = "report" /\ r \in tm.todo
    /\ bank' = IF r = "status" THEN [bank EXCEPT !.status = "complete"]
                               ELSE [bank EXCEPT !.completed = tm.id]
    /\ tm' = [tm EXCEPT !.todo = @ \ {r},
                        !.pc = IF tm.todo = {r} THEN "held" ELSE "report"]
    /\ UNCHANGED carried /\ TmUnchanged

\* An error of its own, or the halt register: the arm stops where it is.
TmStops ==
    /\ tm.pc \in {"accepted", "moving"}
    /\ \/ bank.halt /\ bank' = [bank EXCEPT !.status = "idle", !.halt = FALSE]
       \/ bank' = [bank EXCEPT !.status = "error"]
    /\ tm' = [tm EXCEPT !.pc = "held"]
    /\ UNCHANGED carried /\ TmUnchanged

\* The trigger is low again; TMflow may or may not go back to idle.
TmRearms ==
    /\ tm.pc = "held" /\ ~bank.trigger
    /\ tm' = [tm EXCEPT !.pc = "ready"]
    /\ \E s \in {bank.status, "idle"} : bank' = [bank EXCEPT !.status = s]
    /\ UNCHANGED carried /\ TmUnchanged

TMflow == TmAccept \/ TmMoves \/ TmArrives \/ TmStops \/ TmRearms
            \/ \E r \in {"completed", "status"} : TmReports(r)

-----------------------------------------------------------------------------

Service(c) == Return(c) \/ MotionTimeout(c) \/ HaltAndFail(c) \/ Join(c)

Next ==
    \/ \E c \in Caller : MovePiece(c) \/ Service(c) \/ Sender(c)
    \/ Reconfigure \/ Restart
    \/ TMflow

Spec == Init /\ [][Next]_vars

\* Threads keep running, and a sender that polls again and again meets its timeout.
Fairness ==
    \A c \in Caller : WF_vars(Sender(c)) /\ WF_vars(Service(c)) /\ SF_vars(GivesUp(c))

FairSpec == Spec /\ Fairness

-----------------------------------------------------------------------------
(* Properties *)

\* A move that is reported as done was carried out by the arm, whatever other
\* senders, halts and timeouts were in between: the completed id is read, not
\* just the status.  The exception is a bank made while TMflow was still busy
\* with a command of the adapter before: ids start at 1 again, and the late
\* answer to the old command 1 answers the new one.
SuccessMeansCarriedOut ==
    \A c \in Caller :
        call[c].ok /\ call[c].live /\ ~leftover => call[c].cmd \in carried

\* TMflow never gets the squares of one move under the id of another, although
\* a sender that its caller gave up may still be there when the next one
\* writes the registers one by one.
SquaresMatchId ==
    \A c \in Caller : tm.cmd = call[c].cmd /\ call[c].live => tm.id = call[c].id

\* A move the arm has carried out is never accepted a second time: neither a
\* trigger that stays set nor a half-written next command repeats it.
NeverRepeated ==
    [][tm.pc = "ready" /\ tm'.pc = "accepted" => tm'.cmd \notin carried]_vars

\* The trigger does not stay set behind a sender that ended or was given up:
\* TMflow gets to see it low.
TriggerReleased == bank.trigger ~> ~bank.trigger

\* Every call comes back, whatever TMflow does and even when its adapter was
\* replaced under it: the actuation worker is not lost.
CallReturns == \A c \in Caller : call[c].svc # "idle" ~> call[c].svc = "idle"
=============================================================================
