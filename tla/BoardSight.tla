------------------------------ MODULE BoardSight ------------------------------
(***************************************************************************)
(* From the boxes a detector returns to the pieces on the board: the       *)
(* anchor of a box (detection/detection_result.py), the nearest            *)
(* intersection (board/coordinate_system.py), the piece of a label and the *)
(* choice between detections of one intersection (board/board_mapper.py).  *)
(* Lengths are in parts of a cell, Unit parts wide and high; confidences   *)
(* are in percent.                                                         *)
(***************************************************************************)
EXTENDS Integers, Sequences

CONSTANTS Cols, Rows,     \* BOARD_COLS and BOARD_ROWS
          Unit,           \* parts of a cell
          Anchor,         \* VISION_BBOX_ANCHOR_X and _Y in tenths, a pair
          Boxes,          \* the boxes a detector may return: [x1, y1, x2, y2]
          Labels,         \* the labels: [colour, kind], either may be "unknown"
          Confidences,
          MaxDetections   \* bound: detections of a frame

VARIABLES frame,   \* the detections mapped so far
          board,   \* the piece on each intersection taken
          best     \* the confidence and squared distance of the detection that put it there

vars == <<frame, board, best>>

Init == frame = << >> /\ board = << >> /\ best = << >>

AnchorOf(box) ==
  <<box.x1 + ((box.x2 - box.x1) * Anchor[1]) \div 10, box.y1 + ((box.y2 - box.y1) * Anchor[2]) \div 10>>

Nearest(value, n) ==
  LET i == (2 * value + Unit) \div (2 * Unit) IN IF i < 0 THEN 0 ELSE IF i > n - 1 THEN n - 1 ELSE i

CellAt(p) == <<Nearest(p[1], Cols), Nearest(p[2], Rows)>>
DistanceSq(p, cell) ==
  (p[1] - cell[1] * Unit) * (p[1] - cell[1] * Unit) + (p[2] - cell[2] * Unit) * (p[2] - cell[2] * Unit)
\* intersection_tolerance_ratio is 0.65 of a cell.
OnGrid(p) == 400 * DistanceSq(p, CellAt(p)) <= 169 * Unit * Unit

\* A label without a colour is taken for a red piece.
PieceOf(label) == <<IF label.colour = "black" THEN "b" ELSE "w", label.kind>>

Status(d) ==
  IF ~OnGrid(AnchorOf(d.box)) THEN "off_grid" ELSE IF d.label.kind = "unknown" THEN "unknown_label" ELSE "mapped"
CellOf(d) == CellAt(AnchorOf(d.box))
Rank(d) == [confidence |-> d.confidence, distance |-> DistanceSq(AnchorOf(d.box), CellOf(d))]

\* Mutant: of two detections with the same confidence the later one is kept.
BetterOrEqual(new, old) ==
  new.confidence > old.confidence \/ (new.confidence = old.confidence /\ new.distance <= old.distance)
Better(new, old) ==
  new.confidence > old.confidence \/ (new.confidence = old.confidence /\ new.distance < old.distance)

\* board[cell] = piece: an entry is replaced or added.
Put(table, cell, value) == [c \in DOMAIN table \cup {cell} |-> IF c = cell THEN value ELSE table[c]]

(* One turn of the loop of map_detections. *)
MapDetection(d) ==
  /\ Len(frame) < MaxDetections
  /\ frame' = Append(frame, d)
  /\ IF Status(d) = "mapped" /\ (CellOf(d) \in DOMAIN board => Better(Rank(d), best[CellOf(d)]))
     THEN board' = Put(board, CellOf(d), PieceOf(d.label)) /\ best' = Put(best, CellOf(d), Rank(d))
     ELSE UNCHANGED <<board, best>>

Next == \E box \in Boxes, label \in Labels, confidence \in Confidences :
          MapDetection([box |-> box, label |-> label, confidence |-> confidence])
Spec == Init /\ [][Next]_vars

Intersections == (0..Cols-1) \X (0..Rows-1)

TypeOK ==
  /\ Len(frame) <= MaxDetections /\ DOMAIN board = DOMAIN best
  /\ DOMAIN board \subseteq Intersections

(***************************************************************************)
(* Properties.                                                             *)
(***************************************************************************)
\* The board shows on every intersection the piece of the surest detection within reach of it, of those the nearest, of
\* those the first, and nothing where no detection with a known label is in reach: an anchor half-way between two
\* intersections counts for the one to the right or below (BoardMapper.map_detections, BoardCoordinateSystem.pixel_to_cell_detail).
Reaches(d, cell) ==
  LET p == AnchorOf(d.box)
  IN  /\ \A other \in Intersections :
           \/ DistanceSq(p, cell) < DistanceSq(p, other)
           \/ DistanceSq(p, cell) = DistanceSq(p, other) /\ other[1] <= cell[1] /\ other[2] <= cell[2]
      /\ 20 * 20 * DistanceSq(p, cell) <= 13 * 13 * Unit * Unit
Wins(i, cell) ==
  /\ Reaches(frame[i], cell) /\ frame[i].label.kind # "unknown"
  /\ \A j \in DOMAIN frame :
       Reaches(frame[j], cell) /\ frame[j].label.kind # "unknown"
         => \/ frame[i].confidence > frame[j].confidence
            \/ /\ frame[i].confidence = frame[j].confidence
               /\ \/ Rank(frame[i]).distance < Rank(frame[j]).distance
                  \/ Rank(frame[i]).distance = Rank(frame[j]).distance /\ i <= j
BestDetectionWins ==
  \A cell \in Intersections :
    IF cell \in DOMAIN board THEN \E i \in DOMAIN frame : Wins(i, cell) /\ PieceOf(frame[i].label) = board[cell]
    ELSE ~\E i \in DOMAIN frame : Wins(i, cell)
=============================================================================
