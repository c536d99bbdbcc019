----------------------------- MODULE XiangqiPlay -----------------------------
(***************************************************************************)
(* A game by the rules of XiangqiRules, watched by a camera that misses    *)
(* the same pieces again and again, or in one frame of the window takes a  *)
(* piece for another or sees one that is not there.  The system keeps the  *)
(* last frames, fuses them and repairs the result against the position it  *)
(* knows (temporal_validator.py, board_reconciler.py).                     *)
(***************************************************************************)
EXTENDS XiangqiRules

CONSTANTS Starts,   \* the positions [board, turn] a game may start from
          Ghosts,   \* the <<cell, piece>> pairs a frame may show although they are not there
          Dim,      \* the cells whose piece a frame may miss or mistake
          Window,   \* STABILITY_THRESHOLD, the frames the validator keeps
          MaxPly    \* bound: moves played

VARIABLES truth,    \* the pieces as they stand
          known,    \* the last stable position: [board, turn]
          history,  \* the frames in the window: [seen, fault, ply]
          method,   \* how the last frame was taken
          ply

vars == <<truth, known, history, method, ply>>

Init ==
  /\ known \in Starts /\ truth = known.board
  /\ history = << >> /\ method = "none" /\ ply = 0

(* The side to move moves a piece; nobody moves again before the camera has understood it. *)
Play ==
  /\ truth = known.board /\ ply < MaxPly
  /\ ~GameResult(known.board, known.turn).ended
  /\ \E m \in LegalMoves(known.board, known.turn) : truth' = ApplyMove(known.board, m, known.turn).board
  /\ ply' = ply + 1
  /\ UNCHANGED <<known, history, method>>

Mislabels == [w |-> <<"w", "p">>, b |-> <<"b", "n">>]
Frames ==
  {[seen |-> truth, fault |-> "none", ply |-> ply]}
  \cup {[seen |-> Restrict(truth, DOMAIN truth \ {s}), fault |-> "miss", ply |-> ply] : s \in DOMAIN truth \cap Dim}
  \cup {[seen |-> With(truth, s, Mislabels[truth[s][1]]), fault |-> "mistake", ply |-> ply] : s \in DOMAIN truth \cap Dim}
  \cup {[seen |-> With(truth, g[1], g[2]), fault |-> "mistake", ply |-> ply] : g \in Ghosts}
\* A mistake stands alone in its window; misses may fill it.
Bearable(frames) ==
  \A i, j \in DOMAIN frames : i # j /\ frames[i].fault = "mistake" => frames[j].fault = "none"

\* The frames the window keeps, with the new one.
Kept(frame) ==
  LET all == Append(history, frame) IN  SubSeq(all, IF Len(all) > Window THEN 2 ELSE 1, Len(all))
Seen(frames) == [i \in DOMAIN frames |-> frames[i].seen]

(* validate(): nothing before the window is full; then the fused frames are repaired, and a board that only the frames
   agree on is not taken. *)
Look(frame) ==
  LET frames == Kept(frame)
      r == Reconcile(known.board, Fused(Seen(frames)), known.turn)
  IN  /\ Bearable(frames)
      /\ history' = frames
      /\ method' = IF Len(frames) < Window THEN "collecting" ELSE r.method
      /\ known' = IF method' = "legal_move_repair"
                  THEN [board |-> r.board, turn |-> Other(known.turn)] ELSE known
      /\ UNCHANGED <<truth, ply>>

\* What a game starts from: every piece on a cell, both generals in their palaces, and not in check the side that is
\* not to move.
Standing(b) == DOMAIN b \subseteq Cells /\ \A s \in DOMAIN b : b[s] \in Pieces
InPlay(b, turn) ==
  /\ Standing(b) /\ turn \in Sides
  /\ \A side \in Sides : Generals(b, side) # {} /\ Generals(b, side) \subseteq Palace(side)
  /\ ~InCheck(b, Other(turn))
StartsInPlay == \A p \in Starts : {"board", "turn"} \subseteq DOMAIN p /\ InPlay(p.board, p.turn)

Next == Play \/ \E frame \in Frames : Look(frame)
Spec == Init /\ [][Next]_vars

TypeOK ==
  /\ DOMAIN truth \subseteq Cells /\ DOMAIN known.board \subseteq Cells
  /\ known.turn \in {"w", "b"} /\ ply \in 0..MaxPly
  /\ Len(history) <= Window /\ \A i \in DOMAIN history : DOMAIN history[i].seen \subseteq Cells
  /\ method \in {"none", "collecting", "unchanged", "no_legal_match", "legal_move_repair", "ambiguous"}

(***************************************************************************)
(* Properties.                                                             *)
(***************************************************************************)
Right == \/ truth = known.board
         \/ \E m \in LegalMoves(known.board, known.turn) : Moved(known.board, m) = truth
Faults(frames) == {i \in DOMAIN frames : frames[i].fault # "none"}
Misses(frames) == \A i \in Faults(frames) : frames[i].fault = "miss"
Fresh(frames) == \A i \in DOMAIN frames : frames[i].ply = ply

\* A validator that knows the position before the move does not take another move for it, when one frame of its window
\* is wrong, older than the move or not, or when a piece is missed in every frame since the move
\* (temporal_validator.py, board_reconciler.py).
MoveFound ==
  Right /\ known' # known /\ (Cardinality(Faults(history')) <= 1 \/ (Misses(history') /\ Fresh(history')))
    => known'.board = truth
RepairFindsTheMove == [][MoveFound]_vars

\* Seen from the general outwards: along its lines, and from where horses, pawns and the other general could come.
Attacked(b, turn) ==
  \E g \in Generals(b, turn), s \in DOMAIN b :
    /\ b[s][1] # turn
    /\ \/ b[s][2] \in {"r", "k"} /\ s \in Lines(g) /\ Screens(b, g, s) = 0 /\ (b[s][2] = "r" \/ s[2] = g[2])
       \/ b[s][2] = "c" /\ s \in Lines(g) /\ Screens(b, g, s) = 1
       \/ /\ b[s][2] = "n"
          /\ \E d \in {-1, 1} \X {-1, 1} :
               /\ ~Taken(b, Off(g, d[1], d[2]))
               /\ s \in {Off(g, 2 * d[1], d[2]), Off(g, d[1], 2 * d[2])}
       \/ /\ b[s][2] = "p"
          /\ LET ahead == IF turn = "w" THEN -1 ELSE 1
             IN  s \in {Off(g, ahead, 0), Off(g, 0, 1), Off(g, 0, -1)}

\* A position is check by the moves of the enemy's pieces exactly when it is seen from the general, and the rules
\* treat both sides alike: turning the board and the colours turns the legal moves (rule_engine.py).
NewPosition == truth = known.board /\ method \in {"none", "legal_move_repair"}
Turned(s) == <<9 - s[1], 8 - s[2]>>
TurnedBoard(b) == [s \in {Turned(q) : q \in DOMAIN b} |-> <<Other(b[Turned(s)][1]), b[Turned(s)][2]>>]
RulesAgree == NewPosition =>
  /\ \A turn \in {"w", "b"} : InCheck(known.board, turn) = Attacked(known.board, turn)
  /\ LegalMoves(TurnedBoard(known.board), Other(known.turn))
       = {<<Turned(m[1]), Turned(m[2])>> : m \in LegalMoves(known.board, known.turn)}

\* The FEN of a position reads back as the position, the piece counts accept what a legal move leaves, and moves from
\* one file have notations that differ (fen/parser.py, core/notation.py).
PositionsReadBack == NewPosition =>
  LET fen == BoardToFen(known.board, known.turn)
  IN  /\ ValidFen(fen) /\ FenToBoard(fen) = known.board
      /\ EngineTurn(fen.turn) = known.turn /\ RulesTurn(fen.turn) = known.turn
      /\ PieceTypesValid(Counts(truth), Counts(known.board), known.turn)
      /\ \A col \in Cols :
           LET moves == {m \in LegalMoves(known.board, known.turn) : m[1][2] = col}
           IN  Cardinality({MoveText(known.board, m) : m \in moves}) = Cardinality(moves)

=============================================================================
