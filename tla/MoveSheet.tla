----------------------------- MODULE MoveSheet ------------------------------
(***************************************************************************)
(* The sheet "Game Moves" of the exported workbook, made from the events   *)
(* of a game as they were stored: which of them are moves, whose move each *)
(* one is, and in which round it was played.                               *)
(*                                                                         *)
(* Moves are numbered; red plays the odd ones.  The red move is recognised *)
(* by the camera or entered by hand, never both; the black one is played   *)
(* by the arm, perhaps after failed attempts, and recognised then.  The    *)
(* export is not cut off by its limit and holds one game without undo.     *)
(***************************************************************************)
EXTENDS Naturals, Sequences

CONSTANTS
    MaxMoves,   \* bound: moves of the game
    MaxEvents   \* bound: events of the game

VARIABLES
    log,     \* the stored events, in the order of their timestamps
    played,  \* moves the store holds
    arm      \* idle, moving, or done: the move is on the board

vars == <<log, played, arm>>

Init == log = <<>> /\ played = 0 /\ arm = "idle"

-----------------------------------------------------------------------------
(* The events that carry a move.  "analysis" is ENGINE_ANALYSIS_COMPLETED,   *)
(* "vision" VISION_MOVE_DETECTED, "player" GAME_PLAYER_MOVE; the others are  *)
(* the arm's ROBOT_MOVE_STARTED and ROBOT_MOVE_COMPLETED.                    *)

Store(type, n) == log' = Append(log, [type |-> type, n |-> n])

RedPlays ==
    /\ played % 2 = 0 /\ played < MaxMoves /\ arm = "idle"
    /\ \E by \in {"vision", "player"} : Store(by, played + 1)
    /\ played' = played + 1
    /\ UNCHANGED arm

Analysed ==
    /\ played % 2 = 1 /\ arm = "idle"
    /\ Store("analysis", played + 1)
    /\ UNCHANGED <<played, arm>>

Started ==
    /\ played % 2 = 1 /\ arm = "idle" /\ played < MaxMoves
    /\ Store("started", played + 1)
    /\ arm' = "moving" /\ UNCHANGED played

\* The arm reports its move before the camera has seen it or after; a move that
\* failed is reported with the same event.
Completed ==
    \/ /\ arm = "moving" /\ arm' \in {"done", "idle"}
       /\ Store("completed", played + 1) /\ UNCHANGED played
    \/ /\ arm = "seen" /\ arm' = "idle"
       /\ Store("completed", played) /\ UNCHANGED played

Recognised ==
    /\ arm \in {"moving", "done"}
    /\ arm' = IF arm = "moving" THEN "seen" ELSE "idle"
    /\ Store("vision", played + 1)
    /\ played' = played + 1

Next ==
    /\ Len(log) < MaxEvents
    /\ RedPlays \/ Analysed \/ Started \/ Completed \/ Recognised
Spec == Init /\ [][Next]_vars

-----------------------------------------------------------------------------
(* The sheet *)

\* _is_move: an engine result is one only with the word MOVE in its type.
IsMove(e) == e.type # "analysis"

\* _infer_actor: by the words of the event's type.
Actor(e) ==
    CASE e.type \in {"started", "completed"} -> "robot"
      [] e.type = "player" -> "player"
      [] e.type = "vision" -> "vision"
      [] OTHER -> "ai"

Owner(n) == IF n % 2 = 1 THEN "red" ELSE "black"

\* _parse_move_details on the position after `known` moves: the piece on the square the
\* move starts from, or, when that square is empty, the actor.
Side(e, known) ==
    IF known < e.n THEN Owner(e.n)
    ELSE IF Actor(e) \in {"robot", "ai"} THEN "black" ELSE "red"

\* The position a row is read on: the one its event names, or that of the last row
\* that named one.
Before(e, known) == IF e.type = "player" THEN e.n - 1 ELSE known
After(e, known) == IF e.type \in {"player", "vision"} THEN e.n ELSE known

\* Mutant: a red move opens a round, the first one too.
EntersEager(acc, side) == side = "red"
\* A red move opens a round when the present one has a move already.
Enters(acc, side) == side = "red" /\ acc.inRound > 0

AddRow(acc, e) ==
    LET side == Side(e, Before(e, acc.known))
        new == Enters(acc, side)
        round == IF new THEN acc.round + 1 ELSE acc.round
    IN  [round |-> round, inRound |-> IF new THEN 1 ELSE acc.inRound + 1,
         known |-> After(e, acc.known),
         rows |-> Append(acc.rows, [n |-> e.n, side |-> side, round |-> round])]

\* _write_game_moves: the accumulator after each event
Written ==
    LET acc[k \in 0..Len(log)] ==
            IF k = 0 THEN [round |-> 1, inRound |-> 0, known |-> 0, rows |-> <<>>]
            ELSE IF IsMove(log[k]) THEN AddRow(acc[k - 1], log[k]) ELSE acc[k - 1]
    IN  acc
Rows == Written[Len(log)].rows

-----------------------------------------------------------------------------

TypeOK ==
    /\ played \in 0..MaxMoves /\ arm \in {"idle", "moving", "done", "seen"}
    /\ \A i \in DOMAIN log : log[i].n \in 1..MaxMoves + 1

\* Every row tells the side that played the move and the round it was played in,
\* although the arm's own events, failed attempts among them, are rows too and may
\* come after the camera has seen the move (_write_game_moves, _parse_move_details).
RowsTellTheRound ==
    \A i \in DOMAIN Rows :
        Rows[i].side = Owner(Rows[i].n) /\ Rows[i].round = (Rows[i].n + 1) \div 2

=============================================================================
