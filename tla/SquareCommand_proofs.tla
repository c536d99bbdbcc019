------------------------ MODULE SquareCommand_proofs ------------------------
(***************************************************************************)
(* Proofs about SquareCommand for every set of callers and moves.          *)
(*                                                                         *)
(* The invariant behind them says who may write the registers.  A sender   *)
(* that is still writing has a caller that waits and holds the move lock,  *)
(* so there is one such sender; while it fills in the command the trigger  *)
(* is low, and its command is new to the bank, to TMflow and to the arm.   *)
(* Hence what TMflow finds under a set trigger is one whole command.       *)
(* Success needs more: the ids of one bank are never given twice, as there *)
(* are no more moves than ids.                                             *)
(***************************************************************************)
EXTENDS SquareCommand, FiniteSetTheorems, TLAPS

Writing == {"ready", "clear", "load", "id", "trigger"}
Filling == {"load", "id", "trigger"}
Busy == {"accepted", "moving", "report"}

CallRecord == [svc : {"idle", "wait", "halt", "join"}, io : IoPc, cmd : Command \cup {None}, id : Id \cup {0},
               live : BOOLEAN, ok : BOOLEAN]
BankRecord == [trigger : BOOLEAN, cmd : Command \cup {None}, id : Id \cup {0}, status : Status,
               completed : Id \cup {0}, halt : BOOLEAN]
TmRecord == [pc : {"ready", "accepted", "moving", "report", "held"}, cmd : Command \cup {None}, id : Id \cup {0},
             todo : SUBSET {"completed", "status"}]

\* A caller at rest has no sender; one that waits or halts holds the lock, and a sender
\* that still writes has a waiting caller.
LockHeld ==
    \A c \in Caller :
        /\ call[c].svc = "idle" => call[c].io = "off" /\ call[c].cmd = None /\ ~call[c].live
        /\ call[c].svc \in {"wait", "halt"} => lock = c
        /\ call[c].io \in Writing => call[c].svc = "wait"
        /\ call[c].svc # "idle" => call[c].cmd # None

\* Every command in the bank, with TMflow, with the arm or with a caller was asked for,
\* by one caller.
Asked ==
    /\ bank.cmd \in used \cup {None} /\ tm.cmd \in used \cup {None} /\ carried \subseteq used
    /\ \A c \in Caller : call[c].cmd \in used \cup {None}
    /\ \A c, d \in Caller : c # d /\ call[c].cmd # None => call[c].cmd # call[d].cmd

\* What a sender that still writes has written.
Written ==
    \A c \in Caller : call[c].live =>
        /\ call[c].io \in {"ready", "clear", "load"} => bank.cmd # call[c].cmd
        /\ call[c].io \in Filling => ~bank.trigger
        /\ call[c].io \in {"id", "trigger"} => bank.cmd = call[c].cmd
        /\ call[c].io = "trigger" => bank.id = call[c].id
        /\ call[c].io \in Writing => tm.cmd # call[c].cmd /\ call[c].cmd \notin carried

\* Under a set trigger there is one whole command, and one that is still to be carried out
\* when TMflow looks for it.
Whole ==
    /\ \A c \in Caller : bank.trigger /\ call[c].live /\ bank.cmd = call[c].cmd => bank.id = call[c].id
    /\ tm.pc = "ready" /\ bank.trigger => bank.cmd \notin carried
    /\ bank.trigger => bank.cmd # None
    /\ tm.pc \in Busy => tm.cmd # None

IInv == TypeOK /\ LockHeld /\ Asked /\ Written /\ Whole /\ SquaresMatchId

-----------------------------------------------------------------------------

LEMMA Types == TypeOK <=>
    /\ bank \in BankRecord /\ lastId \in Id \cup {0} /\ call \in [Caller -> CallRecord]
    /\ lock \in Caller \cup {None} /\ tm \in TmRecord
    /\ used \subseteq Command /\ carried \subseteq Command /\ leftover \in BOOLEAN
  BY DEF TypeOK, BankRecord, CallRecord, TmRecord

LEMMA TypesNext == TypeOK' <=>
    /\ bank' \in BankRecord /\ lastId' \in Id \cup {0} /\ call' \in [Caller -> CallRecord]
    /\ lock' \in Caller \cup {None} /\ tm' \in TmRecord
    /\ used' \subseteq Command /\ carried' \subseteq Command /\ leftover' \in BOOLEAN
  BY DEF TypeOK, BankRecord, CallRecord, TmRecord

LEMMA NextId == ASSUME NEW n \in Id \cup {0} PROVE (n % IdWrap) + 1 \in Id
  BY IdWrapAssumption DEF Id

LEMMA NewBankFits == NewBank \in BankRecord
  BY DEF NewBank, BankRecord, Status

LEMMA NoCallFits == NoCall \in CallRecord
  BY DEF NoCall, CallRecord, IoPc

LEMMA InitIInv == Init => IInv
  <1>1. SUFFICES ASSUME Init PROVE IInv
    OBVIOUS
  <1>2. TypeOK
    BY <1>1, NewBankFits, NoCallFits, Types DEF Init, TmRecord
  <1>3. LockHeld /\ Asked /\ Written /\ Whole /\ SquaresMatchId
    BY <1>1 DEF Init, NewBank, NoCall, LockHeld, Asked, Written, Whole, SquaresMatchId, Writing, Filling, Busy
  <1>4. QED
    BY <1>2, <1>3 DEF IInv

\* While a sender writes, no other one does.
LEMMA OneWriter ==
    ASSUME IInv, NEW c \in Caller, NEW d \in Caller, call[c].io \in Writing, call[d].io \in Writing
    PROVE  c = d
  BY DEF IInv, LockHeld

-----------------------------------------------------------------------------
(* What a step does to the callers. *)

\* The sender of c goes on to io; the rest of its record, but for the answer, and the
\* other callers stay.
Moved(c, io) ==
    /\ \A d \in Caller : d # c => call'[d] = call[d]
    /\ call'[c].io = io /\ call'[c].svc = call[c].svc
    /\ call'[c].cmd = call[c].cmd /\ call'[c].id = call[c].id /\ call'[c].live = call[c].live

LEMMA SenderToMoves ==
    ASSUME call \in [Caller -> CallRecord], NEW c \in Caller, NEW io \in IoPc, SenderTo(c, io)
    PROVE  call' \in [Caller -> CallRecord] /\ Moved(c, io) /\ call'[c].ok = call[c].ok
  BY DEF SenderTo, CallRecord, Moved

LEMMA SenderEndsMoves ==
    ASSUME call \in [Caller -> CallRecord], NEW c \in Caller, NEW io \in IoPc, NEW ok \in BOOLEAN,
           SenderEnds(c, io, ok)
    PROVE  call' \in [Caller -> CallRecord] /\ Moved(c, io) /\ call'[c].ok = ok
<1>1. [call[c] EXCEPT !.io = io, !.ok = ok] \in CallRecord
  BY DEF CallRecord
<1> QED BY <1>1 DEF SenderEnds, CallRecord, Moved

\* A sender that writes no more, or that a step has made so, keeps the invariant.
LEMMA DoneWritingKeeps ==
    ASSUME IInv, NEW c \in Caller, NEW io \in IoPc \ (Writing \cup {"off"}), call[c].svc # "idle",
           call' \in [Caller -> CallRecord], Moved(c, io), UNCHANGED <<bank, lastId, lock, tm, history>>
    PROVE  IInv'
<1>1. TypeOK'
  BY Types, TypesNext DEF IInv, TypeOK, history, CallRecord
<1>2. LockHeld'
  BY DEF IInv, LockHeld, Moved
<1>3. Asked'
  BY DEF IInv, Asked, Moved, history
<1>4. Written'
  BY DEF IInv, Written, Moved, history, Writing, Filling
<1>5. Whole' /\ SquaresMatchId'
  BY DEF IInv, Whole, SquaresMatchId, Moved, history
<1> QED BY <1>1, <1>2, <1>3, <1>4, <1>5 DEF IInv

\* A sender has a record, and its caller is not at rest.
LEMMA SenderHere ==
    ASSUME IInv, NEW c \in Caller, call[c].io # "off"
    PROVE  call \in [Caller -> CallRecord] /\ call[c] \in CallRecord /\ call[c].svc # "idle"
  BY Types DEF IInv, LockHeld

LEMMA ReadyStep == ASSUME IInv, NEW c \in Caller, SquareReady(c) PROVE IInv'
<1>1. call \in [Caller -> CallRecord] /\ call[c].svc # "idle" /\ UNCHANGED <<bank, lastId, lock, tm, history>>
  BY SenderHere DEF SquareReady, SenderAt
<1>2. CASE Sees(c, {"idle", "complete"})
  <2>1. call' \in [Caller -> CallRecord] /\ Moved(c, "clear") /\ call[c].io = "ready"
    BY <1>1, <1>2, SenderToMoves DEF SquareReady, SenderAt, IoPc
  <2>2. TypeOK'
    BY <1>1, <2>1, Types, TypesNext DEF IInv, history
  <2>3. LockHeld' /\ Asked'
    BY <1>1, <2>1 DEF IInv, LockHeld, Asked, Moved, history, Writing
  <2>4. Written'
    BY <1>1, <2>1 DEF IInv, Written, Moved, history, Writing, Filling
  <2>5. Whole' /\ SquaresMatchId'
    BY <1>1, <2>1 DEF IInv, Whole, SquaresMatchId, Moved, history
  <2> QED BY <2>2, <2>3, <2>4, <2>5 DEF IInv
<1>3. CASE ~Sees(c, {"idle", "complete"})
  <2>1. call' \in [Caller -> CallRecord] /\ Moved(c, "end")
    BY <1>1, <1>3, SenderEndsMoves DEF SquareReady, IoPc
  <2> QED BY <1>1, <2>1, DoneWritingKeeps DEF IoPc, Writing
<1> QED BY <1>2, <1>3

\* A write goes to the registers, or ends the sender when they are those of an older adapter.
LEMMA WriteStep ==
    ASSUME IInv, NEW c \in Caller, NEW from \in {"clear", "load", "id", "trigger"},
           NEW to \in {"load", "id", "trigger", "start"}, NEW new, Write(c, from, to, new)
    PROVE  \/ IInv'
           \/ /\ call[c].io = from /\ call[c].live /\ call[c].svc # "idle" /\ call[c] \in CallRecord
              /\ bank' = new /\ call' \in [Caller -> CallRecord] /\ Moved(c, to)
              /\ UNCHANGED <<lastId, lock, tm, used, carried, leftover>>
<1>1. call \in [Caller -> CallRecord] /\ call[c] \in CallRecord /\ call[c].svc # "idle" /\ call[c].io = from
  BY SenderHere DEF Write, SenderAt
<1>2. CASE call[c].live
  <2>1. call' \in [Caller -> CallRecord] /\ Moved(c, to)
    BY <1>1, <1>2, SenderToMoves DEF Write, IoPc
  <2> QED BY <1>1, <1>2, <2>1 DEF Write, history
<1>3. CASE ~call[c].live
  <2>1. call' \in [Caller -> CallRecord] /\ Moved(c, "end")
    BY <1>1, <1>3, SenderEndsMoves DEF Write, IoPc
  <2> QED BY <1>1, <1>3, <2>1, DoneWritingKeeps DEF Write, IoPc, Writing
<1> QED BY <1>2, <1>3

\* The sender that writes is the only one: the others have nothing to be checked against.
LEMMA OnlyWriter ==
    ASSUME IInv, NEW c \in Caller, call[c].io \in Writing
    PROVE  \A d \in Caller : d # c => call[d].io \notin Writing
  BY OneWriter

LEMMA ClearTriggerStep == ASSUME IInv, NEW c \in Caller, ClearTrigger(c) PROVE IInv'
<1> DEFINE new == [bank EXCEPT !.trigger = FALSE]
<1>1. SUFFICES ASSUME call[c].io = "clear", call[c].live, call[c].svc # "idle", call[c] \in CallRecord,
                      bank' = new, call' \in [Caller -> CallRecord], Moved(c, "load"),
                      UNCHANGED <<lastId, lock, tm, used, carried, leftover>>
               PROVE  IInv'
  BY WriteStep DEF ClearTrigger
<1>2. /\ bank' \in BankRecord /\ bank'.trigger = FALSE
      /\ bank'.cmd = bank.cmd /\ bank'.id = bank.id
  BY <1>1, Types DEF IInv, BankRecord
<1> HIDE DEF new
<1>3. TypeOK'
  BY <1>1, <1>2, Types, TypesNext DEF IInv
<1>4. LockHeld' /\ Asked'
  BY <1>1, <1>2 DEF IInv, LockHeld, Asked, Moved, Writing
<1>5. Written'
  BY <1>1, <1>2, OnlyWriter DEF IInv, Written, Moved, Writing, Filling
<1>6. Whole' /\ SquaresMatchId'
  BY <1>1, <1>2 DEF IInv, Whole, SquaresMatchId, Moved
<1> QED BY <1>3, <1>4, <1>5, <1>6 DEF IInv

LEMMA WriteSquaresStep == ASSUME IInv, NEW c \in Caller, WriteSquares(c) PROVE IInv'
<1> DEFINE new == [bank EXCEPT !.cmd = call[c].cmd]
<1>1. SUFFICES ASSUME call[c].io = "load", call[c].live, call[c].svc # "idle", call[c] \in CallRecord,
                      bank' = new, call' \in [Caller -> CallRecord], Moved(c, "id"),
                      UNCHANGED <<lastId, lock, tm, used, carried, leftover>>
               PROVE  IInv'
  BY WriteStep DEF WriteSquares
<1>2. /\ bank' \in BankRecord /\ bank'.trigger = FALSE
      /\ bank'.cmd = call[c].cmd /\ bank'.id = bank.id
  BY <1>1, Types DEF IInv, BankRecord, CallRecord, Written, Filling
<1> HIDE DEF new
<1>3. TypeOK'
  BY <1>1, <1>2, Types, TypesNext DEF IInv
<1>4. LockHeld' /\ Asked'
  BY <1>1, <1>2 DEF IInv, LockHeld, Asked, Moved, Writing
<1>5. Written'
  BY <1>1, <1>2, OnlyWriter DEF IInv, Written, Moved, Writing, Filling
<1>6. Whole' /\ SquaresMatchId'
  BY <1>1, <1>2 DEF IInv, Whole, SquaresMatchId, Moved
<1> QED BY <1>3, <1>4, <1>5, <1>6 DEF IInv

LEMMA WriteIdStep == ASSUME IInv, NEW c \in Caller, WriteId(c) PROVE IInv'
<1> DEFINE new == [bank EXCEPT !.id = call[c].id]
<1>1. SUFFICES ASSUME call[c].io = "id", call[c].live, call[c].svc # "idle", call[c] \in CallRecord,
                      bank' = new, call' \in [Caller -> CallRecord], Moved(c, "trigger"),
                      UNCHANGED <<lastId, lock, tm, used, carried, leftover>>
               PROVE  IInv'
  BY WriteStep DEF WriteId
<1>2. /\ bank' \in BankRecord /\ bank'.trigger = FALSE
      /\ bank'.cmd = bank.cmd /\ bank'.id = call[c].id
  BY <1>1, Types DEF IInv, BankRecord, CallRecord, Written, Filling
<1> HIDE DEF new
<1>3. TypeOK'
  BY <1>1, <1>2, Types, TypesNext DEF IInv
<1>4. LockHeld' /\ Asked'
  BY <1>1, <1>2 DEF IInv, LockHeld, Asked, Moved, Writing
<1>5. Written'
  BY <1>1, <1>2, OnlyWriter DEF IInv, Written, Moved, Writing, Filling
<1>6. Whole' /\ SquaresMatchId'
  BY <1>1, <1>2 DEF IInv, Whole, SquaresMatchId, Moved
<1> QED BY <1>3, <1>4, <1>5, <1>6 DEF IInv

LEMMA SetTriggerStep == ASSUME IInv, NEW c \in Caller, SetTrigger(c) PROVE IInv'
<1> DEFINE new == [bank EXCEPT !.trigger = TRUE]
<1>1. SUFFICES ASSUME call[c].io = "trigger", call[c].live, call[c].svc # "idle", call[c] \in CallRecord,
                      bank' = new, call' \in [Caller -> CallRecord], Moved(c, "start"),
                      UNCHANGED <<lastId, lock, tm, used, carried, leftover>>
               PROVE  IInv'
  BY WriteStep DEF SetTrigger
<1>2. bank' \in BankRecord /\ bank'.cmd = bank.cmd /\ bank'.id = bank.id
  BY <1>1, Types DEF IInv, BankRecord
<1>3. bank.cmd = call[c].cmd /\ bank.id = call[c].id /\ call[c].cmd \notin carried /\ call[c].cmd # None
  BY <1>1 DEF IInv, Written, LockHeld, Writing
<1> HIDE DEF new
<1>4. TypeOK'
  BY <1>1, <1>2, Types, TypesNext DEF IInv
<1>5. LockHeld' /\ Asked'
  BY <1>1, <1>2 DEF IInv, LockHeld, Asked, Moved, Writing
<1>6. Written'
  BY <1>1, <1>2, OnlyWriter DEF IInv, Written, Moved, Writing, Filling
<1>7. Whole' /\ SquaresMatchId'
  BY <1>1, <1>2, <1>3 DEF IInv, Whole, Asked, SquaresMatchId, Moved
<1> QED BY <1>4, <1>5, <1>6, <1>7 DEF IInv

\* The steps of a sender that waits for TMflow.
LEMMA PollStep ==
    ASSUME IInv, NEW c \in Caller,
           Started(c) \/ ReadStatus(c) \/ ReadIdAtStart(c) \/ Completed(c) \/ GivesUp(c)
    PROVE  IInv'
<1>1. /\ call \in [Caller -> CallRecord] /\ call[c].svc # "idle"
      /\ UNCHANGED <<bank, lastId, lock, tm, history>>
  BY SenderHere DEF Started, ReadStatus, ReadIdAtStart, Completed, GivesUp, SenderAt
<1>2. PICK io \in {"await", "startPoll", "awaitPoll", "start", "cleanup"}, ok \in BOOLEAN :
        SenderTo(c, io) \/ SenderEnds(c, io, ok)
  BY DEF Started, ReadStatus, ReadIdAtStart, Completed, GivesUp
<1>3. call' \in [Caller -> CallRecord] /\ Moved(c, io)
  BY <1>1, <1>2, SenderToMoves, SenderEndsMoves DEF IoPc
<1> QED BY <1>1, <1>3, DoneWritingKeeps DEF IoPc, Writing

LEMMA CleanupStep == ASSUME IInv, NEW c \in Caller, Cleanup(c) PROVE IInv'
<1>1. /\ call \in [Caller -> CallRecord] /\ call[c].svc # "idle" /\ call[c].io = "cleanup"
      /\ UNCHANGED <<lastId, lock, tm, history>>
  BY SenderHere DEF Cleanup, SenderAt
<1>2. call' \in [Caller -> CallRecord] /\ Moved(c, "end")
  BY <1>1, SenderToMoves DEF Cleanup, IoPc
<1>3. /\ bank' \in BankRecord /\ (bank'.trigger => bank.trigger)
      /\ bank'.cmd = bank.cmd /\ bank'.id = bank.id
  BY Types DEF IInv, BankRecord, Cleanup
<1>4. TypeOK'
  BY <1>1, <1>2, <1>3, Types, TypesNext DEF IInv, history
<1>5. LockHeld' /\ Asked'
  BY <1>1, <1>2, <1>3 DEF IInv, LockHeld, Asked, Moved, Writing, history
<1>6. Written'
  BY <1>1, <1>2, <1>3 DEF IInv, Written, Moved, Writing, Filling, history
<1>7. Whole' /\ SquaresMatchId'
  BY <1>1, <1>2, <1>3 DEF IInv, Whole, SquaresMatchId, Moved, history
<1> QED BY <1>4, <1>5, <1>6, <1>7 DEF IInv

-----------------------------------------------------------------------------
(* The callers and their lock. *)

LEMMA MovePieceStep == ASSUME IInv, NEW c \in Caller, MovePiece(c) PROVE IInv'
<1>1. PICK m \in Command \ used :
        /\ used' = used \cup {m} /\ lastId' = (lastId % IdWrap) + 1
        /\ call' = [call EXCEPT ![c] = [NoCall EXCEPT
               !.svc = "wait", !.io = "ready", !.cmd = m, !.id = lastId', !.live = TRUE]]
  BY DEF MovePiece
<1>2. call[c].svc = "idle" /\ lock = None /\ lock' = c /\ UNCHANGED <<bank, tm, carried, leftover>>
  BY DEF MovePiece
<1>3. /\ lastId \in Id \cup {0} /\ call \in [Caller -> CallRecord] /\ used \subseteq Command
      /\ bank \in BankRecord /\ tm \in TmRecord
  BY Types DEF IInv
<1>4. lastId' \in Id
  BY <1>1, <1>3, NextId
<1> DEFINE new == [NoCall EXCEPT !.svc = "wait", !.io = "ready", !.cmd = m, !.id = lastId', !.live = TRUE]
<1>5. /\ new \in CallRecord /\ new.svc = "wait" /\ new.io = "ready" /\ new.cmd = m /\ new.id = lastId'
      /\ new.live = TRUE /\ new.ok = FALSE
  BY <1>4 DEF NoCall, CallRecord, IoPc
<1> HIDE DEF new
<1>6. call' = [call EXCEPT ![c] = new]
  BY <1>1 DEF new
<1>7. /\ call' \in [Caller -> CallRecord] /\ call'[c] = new
      /\ \A d \in Caller : d # c => call'[d] = call[d]
  BY <1>3, <1>5, <1>6
<1>8. m # None /\ m \notin used /\ \A d \in Caller : call[d].cmd # m
  BY <1>1, NoneAssumption DEF IInv, Asked
<1>9. \A d \in Caller : d # c => call[d].svc \notin {"wait", "halt"} /\ call[d].io \notin Writing
  BY <1>2, NoneAssumption DEF IInv, LockHeld
<1>10. TypeOK'
  BY <1>1, <1>2, <1>3, <1>4, <1>7, Types, TypesNext DEF IInv
<1>11. LockHeld'
  BY <1>2, <1>5, <1>7, <1>8, <1>9 DEF IInv, LockHeld
<1>12. Asked'
  <2>1. \A d \in Caller : call'[d].cmd \in used' \cup {None}
    BY <1>1, <1>5, <1>7 DEF IInv, Asked
  <2>2. \A d, e \in Caller : d # e /\ call'[d].cmd # None => call'[d].cmd # call'[e].cmd
    BY <1>5, <1>7, <1>8 DEF IInv, Asked
  <2> QED BY <1>1, <1>2, <2>1, <2>2 DEF IInv, Asked
<1>13. bank.cmd # m /\ tm.cmd # m /\ m \notin carried
  BY <1>8 DEF IInv, Asked
<1>14. Written'
  BY <1>2, <1>5, <1>7, <1>9, <1>13 DEF IInv, Written, Writing, Filling
<1>15. Whole' /\ SquaresMatchId'
  BY <1>2, <1>5, <1>7, <1>13 DEF IInv, Whole, SquaresMatchId
<1> QED BY <1>10, <1>11, <1>12, <1>14, <1>15 DEF IInv

\* The end of a call.
LEMMA ReturnStep == ASSUME IInv, NEW c \in Caller, Return(c) \/ Join(c) PROVE IInv'
<1>1. /\ call' = [call EXCEPT ![c] = NoCall] /\ UNCHANGED <<bank, lastId, tm, history>>
      /\ \/ call[c].svc = "wait" /\ lock' = None
         \/ call[c].svc = "join" /\ lock' = lock
  BY DEF Return, Join
<1>2. call \in [Caller -> CallRecord] /\ lock \in Caller \cup {None}
  BY Types DEF IInv
<1>3. /\ call' \in [Caller -> CallRecord] /\ call'[c] = NoCall
      /\ \A d \in Caller : d # c => call'[d] = call[d]
  BY <1>1, <1>2, NoCallFits
<1>4. /\ NoCall.svc = "idle" /\ NoCall.io = "off" /\ NoCall.cmd = None /\ NoCall.live = FALSE
      /\ "off" \notin Writing
  BY DEF NoCall, Writing
<1>5. TypeOK'
  BY <1>1, <1>2, <1>3, Types, TypesNext DEF IInv, history
<1>6. LockHeld'
  BY <1>1, <1>3, <1>4 DEF IInv, LockHeld
<1>7. Asked'
  BY <1>1, <1>3, <1>4 DEF IInv, Asked, history
<1>8. Written' /\ Whole' /\ SquaresMatchId'
  BY <1>1, <1>3, <1>4 DEF IInv, Written, Whole, SquaresMatchId, history
<1> QED BY <1>5, <1>6, <1>7, <1>8 DEF IInv

\* A caller that gives its sender up: first the halt, then the answer.
LEMMA GivenUp ==
    ASSUME call \in [Caller -> CallRecord], NEW c \in Caller, NEW svc \in {"halt", "join"},
           call' = [call EXCEPT ![c].svc = svc]
    PROVE  /\ call' \in [Caller -> CallRecord] /\ call'[c].svc = svc
           /\ \A d \in Caller : d # c => call'[d] = call[d]
           /\ \A d \in Caller : /\ call'[d].io = call[d].io /\ call'[d].cmd = call[d].cmd
                                /\ call'[d].id = call[d].id /\ call'[d].live = call[d].live
                                /\ call'[d].ok = call[d].ok
  BY DEF CallRecord

LEMMA TimeoutStep == ASSUME IInv, NEW c \in Caller, MotionTimeout(c) PROVE IInv'
<1>1. /\ call[c].svc = "wait" /\ call[c].io \in Polling \cup {"cleanup"}
      /\ call' = [call EXCEPT ![c].svc = "halt"] /\ UNCHANGED <<bank, lastId, lock, tm, history>>
  BY DEF MotionTimeout
<1>2. call \in [Caller -> CallRecord]
  BY Types DEF IInv
<1>3. TypeOK'
  BY <1>1, <1>2, GivenUp, Types, TypesNext DEF IInv, history
<1>4. LockHeld'
  BY <1>1, <1>2, GivenUp DEF IInv, LockHeld, Polling, Writing
<1>5. Asked' /\ Written' /\ Whole' /\ SquaresMatchId'
  BY <1>1, <1>2, GivenUp DEF IInv, Asked, Written, Whole, SquaresMatchId, history
<1> QED BY <1>3, <1>4, <1>5 DEF IInv

LEMMA HaltStep == ASSUME IInv, NEW c \in Caller, HaltAndFail(c) PROVE IInv'
<1>1. /\ call[c].svc = "halt" /\ bank' = [bank EXCEPT !.halt = TRUE] /\ lock' = None
      /\ call' = [call EXCEPT ![c].svc = "join"] /\ UNCHANGED <<lastId, tm, history>>
  BY DEF HaltAndFail
<1>2. call \in [Caller -> CallRecord] /\ bank \in BankRecord /\ lock = c
  BY <1>1, Types DEF IInv, LockHeld
<1>3. /\ bank' \in BankRecord /\ bank'.trigger = bank.trigger /\ bank'.cmd = bank.cmd
      /\ bank'.id = bank.id
  BY <1>1, <1>2 DEF BankRecord
<1>4. TypeOK'
  BY <1>1, <1>2, <1>3, GivenUp, Types, TypesNext DEF IInv, history
<1>5. LockHeld'
  BY <1>1, <1>2, GivenUp DEF IInv, LockHeld
<1>6. Asked' /\ Written' /\ Whole' /\ SquaresMatchId'
  BY <1>1, <1>2, <1>3, GivenUp DEF IInv, Asked, Written, Whole, SquaresMatchId, history
<1> QED BY <1>4, <1>5, <1>6 DEF IInv

-----------------------------------------------------------------------------
(* A new bank: nothing in it, and no sender has it. *)

LEMMA NewBankStep ==
    ASSUME IInv, NewAdapter, lock' \in {lock, None}, call' \in [Caller -> CallRecord], LockHeld',
           \A c \in Caller : call'[c].live = FALSE /\ call'[c].cmd \in {call[c].cmd, None}
    PROVE  IInv'
<1>1. /\ bank' \in BankRecord /\ bank'.trigger = FALSE /\ bank'.cmd = None
      /\ UNCHANGED <<tm, used, carried>> /\ lastId' = 0 /\ leftover' \in BOOLEAN
  BY NewBankFits DEF NewAdapter, NewBank
<1>2. TypeOK'
  BY <1>1, Types, TypesNext DEF IInv
<1>3. Asked'
  BY <1>1 DEF IInv, Asked
<1>4. Written' /\ Whole' /\ SquaresMatchId'
  BY <1>1 DEF IInv, Written, Whole, SquaresMatchId
<1> QED BY <1>2, <1>3, <1>4 DEF IInv

LEMMA ReconfigureStep == ASSUME IInv, Reconfigure PROVE IInv'
<1>1. call \in [Caller -> CallRecord] /\ NewAdapter /\ lock' = lock
  BY Types DEF IInv, Reconfigure
<1>2. /\ call' \in [Caller -> CallRecord]
      /\ \A c \in Caller : /\ call'[c].svc = call[c].svc /\ call'[c].io = call[c].io
                           /\ call'[c].cmd = call[c].cmd /\ call'[c].live = FALSE
  BY <1>1 DEF Reconfigure, CallRecord
<1>3. LockHeld'
  BY <1>1, <1>2 DEF IInv, LockHeld
<1> QED BY <1>1, <1>2, <1>3, NewBankStep

LEMMA RestartStep == ASSUME IInv, Restart PROVE IInv'
<1>1. NewAdapter /\ lock' = None /\ call' = [c \in Caller |-> NoCall]
  BY DEF Restart
<1>2. /\ call' \in [Caller -> CallRecord]
      /\ \A c \in Caller : /\ call'[c].svc = "idle" /\ call'[c].io = "off"
                           /\ call'[c].cmd = None /\ call'[c].live = FALSE
  BY <1>1, NoCallFits DEF NoCall
<1>3. LockHeld'
  BY <1>2 DEF LockHeld, Writing
<1> QED BY <1>1, <1>2, <1>3, NewBankStep

-----------------------------------------------------------------------------
(* TMflow *)

LEMMA TmAcceptStep == ASSUME IInv, TmAccept PROVE IInv'
<1>1. /\ tm.pc = "ready" /\ bank.trigger
      /\ tm' = [pc |-> "accepted", cmd |-> bank.cmd, id |-> bank.id, todo |-> {}]
      /\ UNCHANGED <<bank, carried, lastId, call, lock, used, leftover>>
  BY DEF TmAccept, TmUnchanged
<1>2. bank \in BankRecord /\ tm' \in TmRecord
  BY <1>1, Types DEF IInv, BankRecord, TmRecord
<1>3. TypeOK'
  BY <1>1, <1>2, Types, TypesNext DEF IInv
<1>4. tm'.pc = "accepted" /\ tm'.cmd = bank.cmd /\ tm'.id = bank.id
  BY <1>1
<1>5. LockHeld' /\ Asked'
  BY <1>1, <1>4 DEF IInv, LockHeld, Asked
<1>6. Written'
  BY <1>1, <1>4 DEF IInv, Written, Writing, Filling
<1>7. Whole' /\ SquaresMatchId'
  BY <1>1, <1>4 DEF IInv, Whole, SquaresMatchId
<1> QED BY <1>3, <1>5, <1>6, <1>7 DEF IInv

\* The other steps of TMflow keep its command and the command in the bank.
LEMMA TmKeeps ==
    ASSUME IInv, bank' \in BankRecord, tm' \in TmRecord,
           bank'.trigger = bank.trigger, bank'.cmd = bank.cmd, bank'.id = bank.id,
           tm'.cmd = tm.cmd, tm'.id = tm.id,
           tm'.pc \in Busy => tm.pc \in Busy,
           tm'.pc = "ready" => tm.pc = "ready" \/ ~bank.trigger,
           carried' = carried \/ (carried' = carried \cup {tm.cmd} /\ tm.cmd # None),
           tm'.pc # "ready" \/ carried' = carried,
           UNCHANGED <<lastId, call, lock, used, leftover>>
    PROVE  IInv'
<1>1. TypeOK'
  BY Types, TypesNext DEF IInv, TmRecord
<1>2. LockHeld' /\ Asked'
  BY DEF IInv, LockHeld, Asked
<1>3. Written'
  BY DEF IInv, Written
<1>4. Whole' /\ SquaresMatchId'
  BY DEF IInv, Whole, SquaresMatchId
<1> QED BY <1>1, <1>2, <1>3, <1>4 DEF IInv

LEMMA TmStep ==
    ASSUME IInv, TmMoves \/ TmArrives \/ TmStops \/ TmRearms \/ \E r \in {"completed", "status"} : TmReports(r)
    PROVE  IInv'
<1>1. bank \in BankRecord /\ tm \in TmRecord
  BY Types DEF IInv
<1>2. CASE TmMoves
  <2>1. /\ bank' \in BankRecord /\ tm' \in TmRecord
        /\ bank'.trigger = bank.trigger /\ bank'.cmd = bank.cmd /\ bank'.id = bank.id
        /\ tm'.cmd = tm.cmd /\ tm'.id = tm.id /\ tm'.pc = "moving" /\ tm.pc = "accepted"
    BY <1>1, <1>2 DEF TmMoves, BankRecord, TmRecord, Status
  <2> QED BY <1>2, <2>1, TmKeeps DEF TmMoves, TmUnchanged, Busy
<1>3. CASE TmArrives
  <2>1. /\ tm' \in TmRecord /\ tm'.cmd = tm.cmd /\ tm'.id = tm.id /\ tm'.pc = "report" /\ tm.pc = "moving"
    BY <1>1, <1>3 DEF TmArrives, TmRecord
  <2>2. tm.cmd # None
    BY <2>1 DEF IInv, Whole, Busy
  <2> QED BY <1>1, <1>3, <2>1, <2>2, TmKeeps DEF TmArrives, TmUnchanged, Busy
<1>4. CASE TmStops
  <2>1. /\ bank' \in BankRecord /\ bank'.trigger = bank.trigger /\ bank'.cmd = bank.cmd /\ bank'.id = bank.id
    BY <1>1, <1>4 DEF TmStops, BankRecord, Status
  <2>2. tm' \in TmRecord /\ tm'.cmd = tm.cmd /\ tm'.id = tm.id /\ tm'.pc = "held"
    BY <1>1, <1>4 DEF TmStops, TmRecord
  <2> QED BY <1>4, <2>1, <2>2, TmKeeps DEF TmStops, TmUnchanged, Busy
<1>5. CASE TmRearms
  <2>1. /\ bank' \in BankRecord /\ bank'.trigger = bank.trigger /\ bank'.cmd = bank.cmd /\ bank'.id = bank.id
    BY <1>1, <1>5 DEF TmRearms, BankRecord, Status
  <2>2. tm' \in TmRecord /\ tm'.cmd = tm.cmd /\ tm'.id = tm.id /\ tm'.pc = "ready" /\ ~bank.trigger
    BY <1>1, <1>5 DEF TmRearms, TmRecord
  <2> QED BY <1>5, <2>1, <2>2, TmKeeps DEF TmRearms, TmUnchanged, Busy
<1>6. ASSUME NEW r \in {"completed", "status"}, TmReports(r) PROVE IInv'
  <2>1. /\ bank' \in BankRecord /\ bank'.trigger = bank.trigger /\ bank'.cmd = bank.cmd /\ bank'.id = bank.id
    BY <1>1, <1>6 DEF TmReports, BankRecord, TmRecord, Status
  <2>2. /\ tm' \in TmRecord /\ tm'.cmd = tm.cmd /\ tm'.id = tm.id /\ tm'.pc \in {"held", "report"}
        /\ tm.pc = "report"
    BY <1>1, <1>6 DEF TmReports, TmRecord
  <2> QED BY <1>6, <2>1, <2>2, TmKeeps DEF TmReports, TmUnchanged, Busy
<1> QED BY <1>2, <1>3, <1>4, <1>5, <1>6

-----------------------------------------------------------------------------

LEMMA NextIInv == ASSUME IInv, [Next]_vars PROVE IInv'
<1>1. ASSUME NEW c \in Caller, MovePiece(c) \/ Service(c) PROVE IInv'
  BY <1>1, MovePieceStep, ReturnStep, TimeoutStep, HaltStep DEF Service
<1>2. ASSUME NEW c \in Caller, Sender(c) PROVE IInv'
  BY <1>2, ReadyStep, ClearTriggerStep, WriteSquaresStep, WriteIdStep, SetTriggerStep, PollStep, CleanupStep
     DEF Sender
<1>3. ASSUME TMflow PROVE IInv'
  BY <1>3, TmAcceptStep, TmStep DEF TMflow
<1>4. CASE UNCHANGED vars
  BY <1>4 DEF IInv, TypeOK, LockHeld, Asked, Written, Whole, SquaresMatchId, vars
<1> QED BY <1>1, <1>2, <1>3, <1>4, ReconfigureStep, RestartStep DEF Next

\* Every variable keeps its type.
THEOREM TypeCorrect == Spec => []TypeOK
<1>1. IInv => TypeOK
  BY DEF IInv
<1> QED BY <1>1, InitIInv, NextIInv, PTL DEF Spec

\* TMflow never gets the squares of one move under the id of another
\* (modbus_adapter.py, _write_square_command_registers).
THEOREM SquaresAndId == Spec => []SquaresMatchId
<1>1. IInv => SquaresMatchId
  BY DEF IInv
<1> QED BY <1>1, InitIInv, NextIInv, PTL DEF Spec

LEMMA AcceptsNew ==
    ASSUME IInv, [Next]_vars, tm.pc = "ready", tm'.pc = "accepted" PROVE tm'.cmd \notin carried
<1>1. TmAccept
  <2>1. ~UNCHANGED tm /\ tm \in TmRecord
    BY Types DEF IInv
  <2>2. TMflow
    BY <2>1 DEF Next, MovePiece, Service, Return, MotionTimeout, HaltAndFail, Join, Sender, SquareReady,
       ClearTrigger, WriteSquares, WriteId, SetTrigger, Write, Started, ReadStatus, ReadIdAtStart, Completed,
       GivesUp, Cleanup, Reconfigure, Restart, NewAdapter, vars
  <2> QED BY <2>2 DEF TMflow, TmMoves, TmArrives, TmStops, TmRearms, TmReports
<1> QED BY <1>1 DEF IInv, Whole, TmAccept

\* A move the arm has carried out is never accepted a second time.
THEOREM CarriedOutOnce == Spec => NeverRepeated
<1>1. IInv /\ [Next]_vars => (tm.pc = "ready" /\ tm'.pc = "accepted" => tm'.cmd \notin carried)
  BY AcceptsNew
<1> QED BY <1>1, InitIInv, NextIInv, PTL DEF Spec, NeverRepeated

-----------------------------------------------------------------------------
(***************************************************************************)
(* Success.  There are no more moves than ids, so the ids of one bank are  *)
(* never given twice: an id that TMflow reports as completed tells which   *)
(* command it completed.                                                   *)
(***************************************************************************)
EnoughIds == IsFiniteSet(Command) /\ Cardinality(Command) <= IdWrap

\* The ids given by this bank, one to each sender that has it, go up to lastId.
Given ==
    /\ lastId <= Cardinality(used) /\ bank.id <= lastId
    /\ \A c \in Caller : call[c].live => call[c].id \in 1..lastId
    /\ \A c, d \in Caller : c # d /\ call[c].live /\ call[d].live => call[c].id # call[d].id

\* An id under a set trigger, with TMflow or completed is that of one command.
Names(id, cmd) == \A c \in Caller : call[c].live /\ call[c].id = id => call[c].cmd = cmd
Named ==
    /\ bank.trigger => Names(bank.id, bank.cmd)
    /\ ~leftover /\ tm.pc \in Busy => tm.id <= lastId /\ Names(tm.id, tm.cmd)
    /\ tm.pc = "report" => tm.cmd \in carried
    /\ ~leftover => bank.completed <= lastId
    /\ ~leftover => \A c \in Caller : call[c].live /\ call[c].id = bank.completed => call[c].cmd \in carried

SInv == IInv /\ Given /\ Named /\ SuccessMeansCarriedOut

LEMMA Numbers == ASSUME EnoughIds, IInv
    PROVE  /\ Cardinality(used) \in Nat /\ lastId \in Nat /\ bank.id \in Nat /\ bank.completed \in Nat /\ tm.id \in Nat
           /\ IsFiniteSet(used)
           /\ \A m \in Command \ used : /\ Cardinality(used \cup {m}) = Cardinality(used) + 1
                                        /\ Cardinality(used) < IdWrap
<1>1. used \subseteq Command /\ IsFiniteSet(used) /\ IdWrap \in Nat
  BY Types, FS_Subset, IdWrapAssumption DEF IInv, EnoughIds
<1>2. /\ Cardinality(used) \in Nat
      /\ \A m \in Command \ used : Cardinality(used \cup {m}) = Cardinality(used) + 1
  BY <1>1, FS_CardinalityType, FS_AddElement
<1>3. ASSUME NEW m \in Command \ used PROVE Cardinality(used) < IdWrap
  <2>1. used \cup {m} \subseteq Command
    BY <1>1
  <2>2. Cardinality(used \cup {m}) <= Cardinality(Command) /\ Cardinality(Command) \in Nat
    BY <2>1, FS_Subset, FS_CardinalityType DEF EnoughIds
  <2> QED BY <1>1, <1>2, <2>2 DEF EnoughIds
<1>4. lastId \in Nat /\ bank.id \in Nat /\ bank.completed \in Nat /\ tm.id \in Nat
  BY <1>1, Types DEF IInv, BankRecord, TmRecord, Id
<1> QED BY <1>1, <1>2, <1>3, <1>4

LEMMA InitSInv == ASSUME EnoughIds, Init PROVE SInv
<1>1. used = {} /\ Cardinality(used) = 0
  BY FS_EmptySet DEF Init
<1>2. /\ bank.id = 0 /\ bank.completed = 0 /\ bank.trigger = FALSE /\ lastId = 0
      /\ tm.pc = "ready" /\ \A c \in Caller : call[c].live = FALSE
  BY DEF Init, NewBank, NoCall
<1>3. Given /\ Named /\ SuccessMeansCarriedOut
  BY <1>1, <1>2 DEF Given, Named, Busy, SuccessMeansCarriedOut
<1> QED BY <1>3, InitIInv DEF SInv

\* A step of a caller or of its sender, when none is new: the ids stay, and a trigger that
\* is set has the id and the squares of one sender.
CallersStay ==
    /\ UNCHANGED <<lastId, tm, used, carried, leftover>>
    /\ \A c \in Caller : call'[c].live =>
           /\ call[c].live /\ call'[c].id = call[c].id /\ call'[c].cmd = call[c].cmd
           /\ call'[c].ok => call[c].ok \/ call[c].cmd \in carried \/ leftover
    /\ bank'.completed = bank.completed /\ bank'.id <= lastId
    /\ bank'.trigger => \/ bank.trigger /\ bank'.id = bank.id /\ bank'.cmd = bank.cmd
                        \/ \E c \in Caller : call[c].live /\ bank'.id = call[c].id /\ bank'.cmd = call[c].cmd

LEMMA CallersStayKeeps == ASSUME EnoughIds, SInv, IInv', CallersStay PROVE SInv'
<1>1. Given'
  BY DEF SInv, Given, CallersStay
<1>2. \A id, cmd : Names(id, cmd) => Names(id, cmd)'
  BY DEF Names, CallersStay
<1>3. (bank.trigger => Names(bank.id, bank.cmd))'
  <2>1. ASSUME bank'.trigger, NEW c \in Caller, call[c].live, bank'.id = call[c].id, bank'.cmd = call[c].cmd
        PROVE  Names(bank.id, bank.cmd)'
    BY <2>1 DEF SInv, Given, Names, CallersStay
  <2>2. ASSUME bank'.trigger, bank.trigger, bank'.id = bank.id, bank'.cmd = bank.cmd
        PROVE  Names(bank.id, bank.cmd)'
    BY <1>2, <2>2 DEF SInv, Named
  <2> QED BY <2>1, <2>2 DEF CallersStay
<1>4. Named'
  BY <1>2, <1>3 DEF SInv, Named, CallersStay
<1>5. SuccessMeansCarriedOut'
  BY DEF SInv, SuccessMeansCarriedOut, CallersStay
<1> QED BY <1>1, <1>4, <1>5 DEF SInv

LEMMA ServiceSuccess == ASSUME EnoughIds, SInv, NEW c \in Caller, Service(c) PROVE CallersStay
<1>1. call \in [Caller -> CallRecord] /\ bank \in BankRecord /\ bank.id <= lastId
  BY Types DEF SInv, IInv, Given
<1>2. CASE Return(c) \/ Join(c)
  <2>1. /\ call' = [call EXCEPT ![c] = NoCall] /\ UNCHANGED <<bank, lastId, tm, history>>
    BY <1>2 DEF Return, Join
  <2>2. NoCall.live = FALSE
    BY DEF NoCall
  <2> QED BY <1>1, <2>1, <2>2 DEF CallersStay, history
<1>3. CASE MotionTimeout(c)
  <2>1. call' = [call EXCEPT ![c].svc = "halt"] /\ UNCHANGED <<bank, lastId, tm, history>>
    BY <1>3 DEF MotionTimeout
  <2> QED BY <1>1, <2>1, GivenUp DEF CallersStay, history
<1>4. CASE HaltAndFail(c)
  <2>1. /\ call' = [call EXCEPT ![c].svc = "join"] /\ bank' = [bank EXCEPT !.halt = TRUE]
        /\ UNCHANGED <<lastId, tm, history>>
    BY <1>4 DEF HaltAndFail
  <2>2. /\ bank'.trigger = bank.trigger /\ bank'.cmd = bank.cmd /\ bank'.id = bank.id
        /\ bank'.completed = bank.completed
    BY <1>1, <2>1 DEF BankRecord
  <2> QED BY <1>1, <2>1, <2>2, GivenUp DEF CallersStay, history
<1> QED BY <1>2, <1>3, <1>4 DEF Service

\* What a step of the sender does to its record: ok only comes from the completed id.
LEMMA SenderRecord ==
    ASSUME SInv, NEW c \in Caller, Sender(c)
    PROVE  /\ call[c].io # "off"
           /\ UNCHANGED <<lastId, tm, used, carried, leftover>>
           /\ \A d \in Caller : /\ call'[d].live = call[d].live /\ call'[d].id = call[d].id
                                /\ call'[d].cmd = call[d].cmd
           /\ \A d \in Caller : call'[d].ok => \/ call[d].ok
                                               \/ call[d].live /\ bank.completed = call[d].id
<1>1. call \in [Caller -> CallRecord]
  BY Types DEF SInv, IInv
<1>2. call[c].io # "off" /\ UNCHANGED <<lastId, tm, used, carried, leftover>>
  BY DEF Sender, SquareReady, ClearTrigger, WriteSquares, WriteId, SetTrigger, Write, Started, ReadStatus,
     ReadIdAtStart, Completed, GivesUp, Cleanup, SenderAt, history
<1>3. PICK io \in IoPc, ok \in BOOLEAN :
        /\ SenderTo(c, io) \/ SenderEnds(c, io, ok)
        /\ ok => NamesMe(c)
  <2>1. CASE SquareReady(c) \/ Started(c) \/ ReadStatus(c) \/ ReadIdAtStart(c) \/ Completed(c)
             \/ GivesUp(c) \/ Cleanup(c)
    BY <2>1 DEF SquareReady, Started, ReadStatus, ReadIdAtStart, Completed, GivesUp, Cleanup, IoPc
  <2>2. CASE ClearTrigger(c) \/ WriteSquares(c) \/ WriteId(c) \/ SetTrigger(c)
    BY <2>2 DEF ClearTrigger, WriteSquares, WriteId, SetTrigger, Write, IoPc
  <2> QED BY <2>1, <2>2 DEF Sender
<1>4. Moved(c, io) /\ (call'[c].ok => call[c].ok \/ NamesMe(c))
  <2>1. CASE SenderTo(c, io)
    BY <1>1, <2>1, SenderToMoves
  <2>2. CASE SenderEnds(c, io, ok)
    BY <1>1, <1>3, <2>2, SenderEndsMoves
  <2> QED BY <1>3, <2>1, <2>2
<1> QED BY <1>2, <1>4 DEF Moved, NamesMe

LEMMA SenderSuccess == ASSUME EnoughIds, SInv, NEW c \in Caller, Sender(c) PROVE CallersStay
<1>1. bank \in BankRecord /\ bank.id <= lastId /\ (call[c].live => call[c].id <= lastId)
  BY Types, Numbers DEF SInv, IInv, Given
<1>2. \A d \in Caller : call'[d].live /\ call'[d].ok => call[d].ok \/ call[d].cmd \in carried \/ leftover
  BY SenderRecord DEF SInv, Named
<1>3. CASE UNCHANGED bank
  BY <1>1, <1>2, <1>3, SenderRecord DEF CallersStay
<1>4. CASE bank' = [bank EXCEPT !.trigger = FALSE]
  <2>1. bank'.trigger = FALSE /\ bank'.id = bank.id /\ bank'.completed = bank.completed
    BY <1>1, <1>4 DEF BankRecord
  <2> QED BY <1>1, <1>2, <2>1, SenderRecord DEF CallersStay
<1>5. CASE call[c].live /\ call[c].io = "load" /\ bank' = [bank EXCEPT !.cmd = call[c].cmd]
  <2>1. bank'.trigger = FALSE /\ bank'.id = bank.id /\ bank'.completed = bank.completed
    BY <1>1, <1>5 DEF BankRecord, SInv, IInv, Written, Filling
  <2> QED BY <1>1, <1>2, <2>1, SenderRecord DEF CallersStay
<1>6. CASE call[c].live /\ call[c].io = "id" /\ bank' = [bank EXCEPT !.id = call[c].id]
  <2>1. bank'.trigger = FALSE /\ bank'.id = call[c].id /\ bank'.completed = bank.completed
    BY <1>1, <1>6 DEF BankRecord, SInv, IInv, Written, Filling
  <2> QED BY <1>1, <1>2, <1>6, <2>1, SenderRecord DEF CallersStay
<1>7. CASE call[c].live /\ call[c].io = "trigger" /\ bank' = [bank EXCEPT !.trigger = TRUE]
  <2>1. bank'.id = bank.id /\ bank'.cmd = bank.cmd /\ bank'.completed = bank.completed
    BY <1>1, <1>7 DEF BankRecord
  <2>2. bank.cmd = call[c].cmd /\ bank.id = call[c].id
    BY <1>7 DEF SInv, IInv, Written
  <2> QED BY <1>1, <1>2, <1>7, <2>1, <2>2, SenderRecord DEF CallersStay
<1> QED BY <1>3, <1>4, <1>5, <1>6, <1>7 DEF Sender, SquareReady, ClearTrigger, WriteSquares, WriteId, SetTrigger,
           Write, Started, ReadStatus, ReadIdAtStart, Completed, GivesUp, Cleanup, SenderAt

\* A new sender gets an id that nothing has had since the bank was made.
LEMMA MovePieceSuccess == ASSUME EnoughIds, SInv, NEW c \in Caller, MovePiece(c) PROVE SInv'
<1>1. PICK m \in Command \ used :
        /\ used' = used \cup {m} /\ lastId' = (lastId % IdWrap) + 1
        /\ call' = [call EXCEPT ![c] = [NoCall EXCEPT
               !.svc = "wait", !.io = "ready", !.cmd = m, !.id = lastId', !.live = TRUE]]
  BY DEF MovePiece
<1>2. UNCHANGED <<bank, tm, carried, leftover>> /\ call \in [Caller -> CallRecord]
  BY Types DEF MovePiece, SInv, IInv
<1>3. /\ \A d \in Caller : d # c => call'[d] = call[d]
      /\ call'[c].live = TRUE /\ call'[c].id = lastId' /\ call'[c].ok = FALSE
  BY <1>1, <1>2 DEF NoCall
<1>4. lastId' = lastId + 1 /\ Cardinality(used') = Cardinality(used) + 1
  <2>1. /\ lastId \in Nat /\ Cardinality(used) \in Nat /\ lastId <= Cardinality(used)
        /\ Cardinality(used) < IdWrap /\ Cardinality(used') = Cardinality(used) + 1
    BY <1>1, Numbers DEF SInv, Given
  <2>2. lastId % IdWrap = lastId
    BY <2>1, IdWrapAssumption
  <2> QED BY <1>1, <2>1, <2>2
<1>5. Given'
  BY <1>2, <1>3, <1>4, Numbers DEF SInv, Given
<1>6. \A id, cmd : id <= lastId /\ id \in Nat /\ Names(id, cmd) => Names(id, cmd)'
  BY <1>3, <1>4, Numbers DEF SInv, Names
<1>7. Named'
  <2>1. (bank.trigger => Names(bank.id, bank.cmd))'
    BY <1>2, <1>6, Numbers DEF SInv, Given, Named
  <2>2. (~leftover /\ tm.pc \in Busy => tm.id <= lastId /\ Names(tm.id, tm.cmd))'
    BY <1>2, <1>4, <1>6, Numbers DEF SInv, Given, Named
  <2>3. (~leftover => \A d \in Caller : call[d].live /\ call[d].id = bank.completed => call[d].cmd \in carried)'
    BY <1>2, <1>3, <1>4, Numbers DEF SInv, Named
  <2> QED BY <1>2, <1>4, <2>1, <2>2, <2>3, Numbers DEF SInv, Named
<1>8. SuccessMeansCarriedOut'
  BY <1>2, <1>3 DEF SInv, SuccessMeansCarriedOut
<1> QED BY <1>5, <1>7, <1>8, MovePieceStep DEF SInv

LEMMA NewAdapterSuccess ==
    ASSUME EnoughIds, SInv, IInv', NewAdapter, \A c \in Caller : call'[c].live = FALSE PROVE SInv'
<1>1. /\ bank'.trigger = FALSE /\ bank'.id = 0 /\ bank'.completed = 0 /\ lastId' = 0
      /\ leftover' = (tm.pc \notin {"ready", "held"}) /\ UNCHANGED <<tm, used, carried>>
  BY DEF NewAdapter, NewBank
<1>2. Given' /\ SuccessMeansCarriedOut'
  BY <1>1, Numbers DEF SInv, Given, SuccessMeansCarriedOut
<1>3. Named'
  <2>1. ~leftover' => tm'.pc \notin Busy
    BY <1>1 DEF Busy
  <2>2. (tm.pc = "report" => tm.cmd \in carried)'
    BY <1>1 DEF SInv, Named
  <2> QED BY <1>1, <2>1, <2>2 DEF Named
<1> QED BY <1>2, <1>3 DEF SInv

LEMMA TmSuccess == ASSUME EnoughIds, SInv, IInv', TMflow PROVE SInv'
<1>1. /\ bank \in BankRecord /\ tm \in TmRecord /\ TmUnchanged
  BY Types DEF SInv, IInv, TMflow, TmAccept, TmMoves, TmArrives, TmStops, TmRearms, TmReports
<1>2. carried \subseteq carried' /\ bank'.trigger = bank.trigger /\ bank'.id = bank.id /\ bank'.cmd = bank.cmd
  BY <1>1 DEF TMflow, TmAccept, TmMoves, TmArrives, TmStops, TmRearms, TmReports, BankRecord
<1>3. Given' /\ SuccessMeansCarriedOut'
  BY <1>1, <1>2 DEF SInv, Given, SuccessMeansCarriedOut, TmUnchanged
<1>4. \A id, cmd : Names(id, cmd) => Names(id, cmd)'
  BY <1>1 DEF Names, TmUnchanged
<1>5. CASE TmAccept
  <2>1. tm'.pc = "accepted" /\ tm'.id = bank.id /\ tm'.cmd = bank.cmd /\ bank.trigger /\ UNCHANGED <<bank, carried>>
    BY <1>5 DEF TmAccept
  <2> QED BY <1>1, <1>3, <1>4, <2>1 DEF SInv, Given, Named, TmUnchanged
<1>6. CASE TmMoves \/ TmStops \/ TmRearms
  <2>1. /\ tm'.pc \in {"moving", "held", "ready"} /\ (tm'.pc \in Busy => tm.pc \in Busy)
        /\ tm'.id = tm.id /\ tm'.cmd = tm.cmd /\ bank'.completed = bank.completed /\ carried' = carried
    BY <1>1, <1>6 DEF TmMoves, TmStops, TmRearms, TmRecord, BankRecord, Busy
  <2> QED BY <1>1, <1>2, <1>3, <1>4, <2>1 DEF SInv, Named, TmUnchanged
<1>7. CASE TmArrives
  <2>1. /\ tm'.pc = "report" /\ tm.pc \in Busy /\ tm'.id = tm.id /\ tm'.cmd = tm.cmd
        /\ UNCHANGED bank /\ carried' = carried \cup {tm.cmd}
    BY <1>1, <1>7 DEF TmArrives, TmRecord, Busy
  <2> QED BY <1>1, <1>2, <1>3, <1>4, <2>1 DEF SInv, Named, TmUnchanged
<1>8. ASSUME NEW r \in {"completed", "status"}, TmReports(r) PROVE SInv'
  <2>1. /\ tm'.pc \in {"report", "held"} /\ tm.pc = "report" /\ tm'.id = tm.id /\ tm'.cmd = tm.cmd
        /\ carried' = carried /\ bank'.completed \in {bank.completed, tm.id}
    BY <1>1, <1>8 DEF TmReports, TmRecord, BankRecord
  <2>2. ~leftover => /\ bank'.completed <= lastId
                     /\ \A c \in Caller : call[c].live /\ call[c].id = bank'.completed => call[c].cmd \in carried
    BY <2>1 DEF SInv, Named, Names, Busy
  <2>3. Named'
    BY <1>1, <1>2, <1>4, <2>1, <2>2 DEF SInv, Named, Busy, TmUnchanged
  <2> QED BY <1>3, <2>3 DEF SInv
<1> QED BY <1>5, <1>6, <1>7, <1>8 DEF TMflow

LEMMA NextSInv == ASSUME EnoughIds, SInv, [Next]_vars PROVE SInv'
<1>1. IInv'
  BY NextIInv DEF SInv
<1>2. ASSUME NEW c \in Caller, Service(c) \/ Sender(c) PROVE SInv'
  BY <1>1, <1>2, ServiceSuccess, SenderSuccess, CallersStayKeeps
<1>3. CASE Reconfigure \/ Restart
  <2>1. NewAdapter /\ call \in [Caller -> CallRecord]
    BY <1>3, Types DEF SInv, IInv, Reconfigure, Restart
  <2>2. \A c \in Caller : call'[c].live = FALSE
    BY <1>3, <2>1 DEF Reconfigure, Restart, NoCall, CallRecord
  <2> QED BY <1>1, <2>1, <2>2, NewAdapterSuccess
<1>4. CASE UNCHANGED vars
  BY <1>1, <1>4 DEF SInv, Given, Named, Names, SuccessMeansCarriedOut, vars
<1> QED BY <1>1, <1>2, <1>3, <1>4, MovePieceSuccess, TmSuccess DEF Next

\* A move that is reported as done was carried out by the arm, whatever other senders, halts
\* and timeouts were in between, as long as ids are not given twice (modbus_adapter.py,
\* _wait_for_square_completion).
THEOREM SuccessIsTrue == ASSUME EnoughIds PROVE Spec => []SuccessMeansCarriedOut
<1>1. Init => SInv
  BY InitSInv
<1>2. SInv /\ [Next]_vars => SInv'
  BY NextSInv
<1>3. SInv => SuccessMeansCarriedOut
  BY DEF SInv
<1> QED BY <1>1, <1>2, <1>3, PTL DEF Spec
=============================================================================
