----------------------------- MODULE GameRecord -----------------------------
(***************************************************************************)
(* The recorded game and what feeds it: the vision thread with the         *)
(* validator's baseline, the coordinator's judgement of a recognised move, *)
(* the operator's requests (a move by hand, undo, reset, synchronisation), *)
(* the queue of the event loop, and the state manager with its reducers    *)
(* and its bounded undo history.                                           *)
(*                                                                         *)
(* A board is the number of moves each side's pieces have made: enough to  *)
(* tell positions apart, to say whose piece a move moves, and to say when  *)
(* a general is gone (after MaxPly moves).  What the camera sees is any    *)
(* board the validator can make something of.                              *)
(***************************************************************************)
EXTENDS Naturals, Sequences

CONSTANTS
    None,        \* no baseline
    Console,     \* the requests the operator makes: {"move", "undo", "reset", "sync"}
    MaxPly,      \* bound: moves on a board until a general is taken
    MaxMoves,    \* bound: moves recorded or on their way
    MaxHistory,  \* StateManager._max_history
    MaxQueue     \* bound: events waiting for the event loop

ASSUME BoundsAssumption ==
    /\ MaxPly \in Nat \ {0}
    /\ MaxMoves \in Nat
    /\ MaxHistory \in Nat
    /\ MaxQueue \in Nat
ASSUME ConsoleAssumption == Console \subseteq {"move", "undo", "reset", "sync"}

Side == {"w", "b"}
Other(s) == IF s = "w" THEN "b" ELSE "w"

Board == {b \in [Side -> 0..MaxPly] : b["w"] + b["b"] <= MaxPly}
Start == [s \in Side |-> 0]
ASSUME NoneAssumption == None \notin Board

VARIABLES
    store,     \* StateManager._state.game: FEN (board, side), current_turn, moves, over
    history,   \* StateManager._history
    loopq,     \* the event loop's queue of dispatches to the state manager
    baseline,  \* TemporalValidator.last_stable_state
    vision,    \* the vision thread inside on_board_detected
    sync,      \* the HTTP thread inside on_ui_action
    followed,  \* history: the record last took its board from the camera
    overlap    \* history: a synchronisation has met a vision result halfway

vars == <<store, history, loopq, baseline, vision, sync, followed, overlap>>

Verdict == {"none", "ignored", "verified", "nomove", "illegal", "accepted"}
NewGame == [board |-> Start, side |-> "w", turn |-> "w", moves |-> 0, over |-> FALSE]
NoResult == [pc |-> "idle", turn |-> "w", from |-> None, board |-> Start,
             moved |-> FALSE, verdict |-> "none"]
NoSync == [pc |-> "idle", board |-> Start, side |-> "w"]

Game == [board : Board, side : Side, turn : Side, moves : Nat, over : BOOLEAN]
Event == [kind : {"vision", "manual", "undo", "reset", "over", "note", "status"},
          board : Board, side : Side, moved : BOOLEAN]

TypeOK ==
    /\ store \in Game
    /\ history \in Seq(Game) /\ Len(history) <= MaxHistory
    /\ loopq \in Seq(Event)
    /\ baseline \in Board \cup {None}
    /\ vision \in [pc : {"idle", "read", "judge", "publish"}, turn : Side,
                   from : Board \cup {None}, board : Board,
                   moved : BOOLEAN, verdict : Verdict]
    /\ sync \in [pc : {"idle", "blank", "publish"}, board : Board, side : Side]
    /\ followed \in BOOLEAN /\ overlap \in BOOLEAN

Init ==
    /\ store = NewGame /\ history = <<>> /\ loopq = <<>>
    /\ baseline = None /\ vision = NoResult /\ sync = NoSync
    /\ followed = TRUE /\ overlap = FALSE

-----------------------------------------------------------------------------
(* Rules and events.                                                       *)

\* A general has been taken: the game is over whatever side the FEN names.
Ended(b) == b["w"] + b["b"] = MaxPly

\* Mutant: a move is found where there is none.
CanMoveAlways(b) == TRUE
CanMove(b) == ~Ended(b)
Played(b, s) == [b EXCEPT ![s] = @ + 1]

MoveEvent(kind, b, s, moved) == [kind |-> kind, board |-> b, side |-> s, moved |-> moved]
PlainEvent(kind) == MoveEvent(kind, Start, "w", FALSE)

Enqueue(events) ==
    /\ Len(loopq) + Len(events) <= MaxQueue
    /\ loopq' = loopq \o events

\* Bound: room for one more move beside those recorded, undoable and on their way.
Room ==
    LET pending == Len(SelectSeq(loopq, LAMBDA e : e.moved)) + (IF vision.moved THEN 1 ELSE 0)
    IN  /\ store.moves + pending < MaxMoves
        /\ \A i \in DOMAIN history : history[i].moves + pending < MaxMoves

\* WorkflowCoordinator.is_game_over: the status or the recorded position.
GameOver == store.over \/ Ended(store.board)

-----------------------------------------------------------------------------
(* The vision thread.                                                      *)

\* on_board_detected reads the turn to play from the record ...
ReadTurn ==
    /\ vision.pc = "idle"
    /\ vision' = [NoResult EXCEPT !.pc = "read", !.turn = store.turn]
    /\ overlap' = (overlap \/ sync.pc # "idle")
    /\ UNCHANGED <<store, history, loopq, baseline, sync, followed>>

Commit(b, moved) ==
    /\ baseline' = b
    /\ vision' = [vision EXCEPT !.pc = "judge", !.from = baseline, !.board = b, !.moved = moved]

\* ... and validates the board it has seen: the first stable board becomes the
\* baseline as it is, later boards must be one move of that side away from it.
Validate ==
    /\ vision.pc = "read"
    /\ \/ /\ baseline = None
          /\ \E b \in Board : Commit(b, FALSE)
       \/ /\ baseline # None /\ CanMove(baseline)
          /\ Room
          /\ Commit(Played(baseline, vision.turn), TRUE)
       \/ vision' = NoResult /\ UNCHANGED baseline
    /\ UNCHANGED <<store, history, loopq, sync, followed, overlap>>

\* validate_move on the recorded FEN: the piece's colour must be the FEN's side;
\* on another position than the validator's the squares decide, either way.
MayBeLegal == store.board = vision.from => store.side = vision.turn
MayBeIllegal == store.board = vision.from => store.side # vision.turn

\* What on_vision_move can make of the result.
Verdicts ==
    IF GameOver THEN {"ignored"}
    ELSE {"verified"}
         \cup (IF ~vision.moved THEN {"nomove"} ELSE {})
         \cup (IF vision.moved /\ MayBeLegal THEN {"accepted"} ELSE {})
         \cup (IF vision.moved /\ MayBeIllegal THEN {"illegal"} ELSE {})

\* The coordinator runs inside the publication, before the state manager is
\* handed the event; what it publishes itself is queued first.
Judge ==
    /\ vision.pc = "judge"
    /\ \E verdict \in Verdicts :
          /\ vision' = [vision EXCEPT !.pc = "publish", !.verdict = verdict]
          /\ Enqueue(IF verdict \in {"verified", "accepted"} /\ Ended(vision.board)
                       THEN <<PlainEvent("over"), PlainEvent("note")>>
                       ELSE <<PlainEvent("note")>>)
    /\ UNCHANGED <<store, history, baseline, sync, followed, overlap>>

\* The dispatch of the vision event itself; its FEN names the side read before.
Publish ==
    /\ vision.pc = "publish"
    /\ Enqueue(<<MoveEvent("vision", vision.board, vision.turn, vision.moved)>>)
    /\ vision' = NoResult
    /\ UNCHANGED <<store, history, baseline, sync, followed, overlap>>

-----------------------------------------------------------------------------
(* The operator's requests.                                                *)

\* A manual synchronisation drops the baseline first ...
SyncReset ==
    /\ "sync" \in Console /\ sync.pc = "idle"
    /\ sync' = [NoSync EXCEPT !.pc = "blank"]
    /\ baseline' = None
    /\ overlap' = (overlap \/ vision.pc # "idle")
    /\ UNCHANGED <<store, history, loopq, vision, followed>>

\* ... may fail in the camera or the detector and leave it dropped ...
SyncFails ==
    /\ sync.pc = "blank"
    /\ sync' = NoSync
    /\ UNCHANGED <<store, history, loopq, baseline, vision, followed, overlap>>

\* ... or takes the next frame as the baseline, whatever it shows.
SyncCommit ==
    /\ sync.pc = "blank"
    /\ \E b \in Board :
          /\ baseline' = b
          /\ sync' = [pc |-> "publish", board |-> b, side |-> store.turn]
    /\ UNCHANGED <<store, history, loopq, vision, followed, overlap>>

\* The coordinator only notes a result without a move on a trace of its own.
SyncPublish ==
    /\ sync.pc = "publish"
    /\ Enqueue(<<PlainEvent("note"), MoveEvent("vision", sync.board, sync.side, FALSE)>>)
    /\ sync' = NoSync
    /\ UNCHANGED <<store, history, baseline, vision, followed, overlap>>

\* A move by hand: legal for the side the recorded FEN names.
ManualMove ==
    /\ "move" \in Console
    /\ CanMove(store.board)
    /\ Room
    /\ Enqueue(<<MoveEvent("manual", Played(store.board, store.side), Other(store.side), TRUE)>>)
    /\ UNCHANGED <<store, history, baseline, vision, sync, followed, overlap>>

Undo ==
    /\ "undo" \in Console
    /\ Enqueue(<<PlainEvent("undo")>>)
    /\ UNCHANGED <<store, history, baseline, vision, sync, followed, overlap>>

Reset ==
    /\ "reset" \in Console
    /\ Enqueue(<<PlainEvent("reset")>>)
    /\ UNCHANGED <<store, history, baseline, vision, sync, followed, overlap>>

\* Engine and robot results set the game status; diagnostics leave it alone.
\* Bound: one of them waits at a time.
Background ==
    /\ \A i \in DOMAIN loopq : loopq[i].kind \notin {"status", "note"}
    /\ \E kind \in {"status", "note"} : Enqueue(<<PlainEvent(kind)>>)
    /\ UNCHANGED <<store, history, baseline, vision, sync, followed, overlap>>

-----------------------------------------------------------------------------
(* The state manager: one event at a time, on the event loop.              *)

\* Mutant: the board is taken over only together with a move.
MovedOnly(game, e) ==
    IF game.over THEN game
    ELSE [board |-> IF e.moved THEN e.board ELSE game.board,
          side  |-> e.side,
          turn  |-> IF e.moved THEN Other(game.turn) ELSE game.turn,
          moves |-> IF e.moved THEN game.moves + 1 ELSE game.moves,
          over  |-> Ended(e.board)]

\* Mutant: the turn passes with every event.
MovedTogglesAlways(game, e) ==
    IF game.over THEN game
    ELSE [board |-> e.board, side |-> e.side, turn |-> Other(game.turn),
          moves |-> IF e.moved THEN game.moves + 1 ELSE game.moves,
          over |-> Ended(e.board)]

\* MoveReducer; a game that is over is returned as it is.
Moved(game, e) ==
    IF game.over THEN game
    ELSE [board |-> e.board,
          side  |-> e.side,
          turn  |-> IF e.moved THEN Other(game.turn) ELSE game.turn,
          moves |-> IF e.moved THEN game.moves + 1 ELSE game.moves,
          over  |-> Ended(e.board)]

\* The reducers of the other events.
Reduced(game, e) ==
    CASE e.kind \in {"vision", "manual"} -> Moved(game, e)
      [] e.kind = "reset"  -> NewGame
      [] e.kind = "over"   -> [game EXCEPT !.over = TRUE]
      [] e.kind = "status" -> [game EXCEPT !.over = FALSE]
      [] OTHER             -> game

\* Mutant: a full history drops the newest entry.
PushDropsNewest(game) ==
    LET longer == Append(history, game)
    IN  history' = IF Len(longer) > MaxHistory THEN SubSeq(longer, 1, MaxHistory) ELSE longer

\* A changed state pushes the one before; the oldest one is dropped.
Push(game) ==
    LET longer == Append(history, game)
    IN  history' = IF Len(longer) > MaxHistory THEN Tail(longer) ELSE longer

\* dispatch of every event but GAME_UNDO.
Dispatch ==
    /\ loopq # <<>> /\ Head(loopq).kind # "undo"
    /\ loopq' = Tail(loopq)
    /\ LET e == Head(loopq)
           moving == e.kind \in {"vision", "manual"}
       IN  /\ store' = Reduced(store, e)
           /\ IF moving /\ store.over THEN UNCHANGED history ELSE Push(store)
           /\ followed' = IF moving \/ e.kind = "reset"
                            THEN e.kind = "vision" /\ ~store.over
                            ELSE followed
    /\ UNCHANGED <<baseline, vision, sync, overlap>>

\* What an undo looks at: FEN, move list and turn.
UndoKey(game) == <<game.board, game.side, game.moves, game.turn>>

\* Mutant: an undo takes the last entry, changed or not.
AnyEntry == DOMAIN history

\* The entries of the history an undo can go back to.
Different == {i \in DOMAIN history : UndoKey(history[i]) # UndoKey(store)}

\* dispatch of GAME_UNDO: pop until something differs, and restore that whole.
DispatchUndo ==
    /\ loopq # <<>> /\ Head(loopq).kind = "undo"
    /\ loopq' = Tail(loopq)
    /\ IF Different = {}
         THEN history' = <<>> /\ UNCHANGED <<store, followed>>
         ELSE \E i \in Different :
                /\ \A j \in Different : j <= i
                /\ store' = history[i]
                /\ history' = SubSeq(history, 1, i - 1)
                /\ followed' = FALSE
    /\ UNCHANGED <<baseline, vision, sync, overlap>>

Next ==
    \/ ReadTurn \/ Validate \/ Judge \/ Publish
    \/ SyncReset \/ SyncFails \/ SyncCommit \/ SyncPublish
    \/ ManualMove \/ Undo \/ Reset \/ Background
    \/ Dispatch \/ DispatchUndo

Spec == Init /\ [][Next]_vars

-----------------------------------------------------------------------------
(* Properties.                                                             *)

\* In the record and in everything an undo can restore, it is Red's turn
\* exactly after an even number of moves: every path that appends to the move
\* list toggles current_turn with it (MoveReducer, undo, reset).
TurnFits(game) == (game.turn = "w") = (game.moves % 2 = 0)
TurnCountsMoves ==
    /\ TurnFits(store)
    /\ \A i \in DOMAIN history : TurnFits(history[i])

\* When no vision result is on its way, the record shows the board the
\* validator compares the next frame with: the two copies of the position, kept
\* by two threads, do not drift apart in play.  Excepted are a hand-made move,
\* an undo, a reset, a result for a game that is over, and a synchronisation
\* that overlaps a vision result.
Quiet ==
    /\ vision.pc \in {"idle", "read"} /\ sync.pc = "idle"
    /\ \A i \in DOMAIN loopq : loopq[i].kind # "vision"
StoreFollowsVision ==
    Quiet /\ followed /\ ~overlap /\ baseline # None => store.board = baseline

\* The comment in the coordinator promises "validate player move -> ask engine":
\* a move that the validator found legal for the side whose turn the record
\* says, on the recorded position, is not rejected as an illegal player move.
RecognisedMoveAccepted ==
    [][vision.pc = "judge" /\ vision'.verdict = "illegal" =>
          ~(store.board = vision.from /\ store.turn = vision.turn)]_vars
=============================================================================
