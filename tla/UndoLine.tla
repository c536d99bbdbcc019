------------------------------ MODULE UndoLine ------------------------------
(***************************************************************************)
(* What the undo button promises: the game is a line of positions, an undo *)
(* takes back exactly the last one, and only the oldest positions are ever *)
(* forgotten.  The state manager of GameRecord implements this module with *)
(* a bounded history of whole system states.                               *)
(***************************************************************************)
EXTENDS Naturals, Sequences

CONSTANTS
    Position,  \* what an undo can tell apart
    Depth      \* how many positions the line can hold

VARIABLE line

Init == Len(line) = 1 /\ line[1] \in Position

\* A new position; the oldest one may be forgotten for it.
Recorded(old, new) ==
    LET p == new[Len(new)]
        longer == Append(old, p)
    IN  /\ Len(new) \in 1..Depth
        /\ p \in Position /\ p # old[Len(old)]
        /\ new \in {longer, Tail(longer)}

\* Undo.
TakenBack(old, new) == Len(old) > 1 /\ new = SubSeq(old, 1, Len(old) - 1)

\* Something else used up the room of the oldest position.
Forgotten(old, new) == Len(old) > 1 /\ new = Tail(old)

TakeBack == TakenBack(line, line')

Next ==
    LET old == line
        new == line'
    IN  Recorded(old, new) \/ TakenBack(old, new) \/ Forgotten(old, new)

Spec == Init /\ [][Next]_line
=============================================================================
