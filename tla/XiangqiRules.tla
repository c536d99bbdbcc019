---------------------------- MODULE XiangqiRules ----------------------------
(***************************************************************************)
(* The rules of Xiangqi and the texts of a position: moves and results     *)
(* (domain/game/rule_engine.py, core/rules.py), FEN and piece counts       *)
(* (utils/fen/parser.py), Chinese notation (core/notation.py), and the     *)
(* repair of a sparse detection (vision/validation/board_reconciler.py).   *)
(*                                                                         *)
(* A cell is <<row, column>>, row 0 on Black's side; a piece is <<side,    *)
(* kind>>; a board is a function from the occupied cells to their pieces.  *)
(***************************************************************************)
EXTENDS Integers, Sequences, FiniteSets, SequencesExt, Functions

Rows == 0..9
Cols == 0..8
Cells == Rows \X Cols
Kinds == {"k", "a", "b", "n", "r", "c", "p"}
Sides == {"w", "b"}
Pieces == Sides \X Kinds
Other(turn) == IF turn = "w" THEN "b" ELSE "w"

Taken(b, s) == s \in DOMAIN b
Own(b, s, turn) == Taken(b, s) /\ b[s][1] = turn

(***************************************************************************)
(* Where a piece may go, its general's safety aside.                       *)
(***************************************************************************)
Off(s, dr, dc) == <<s[1] + dr, s[2] + dc>>
Steps(s, D) == {Off(s, d[1], d[2]) : d \in D} \cap Cells
Straight == {<<-1, 0>>, <<1, 0>>, <<0, -1>>, <<0, 1>>}
Palace(turn) == (IF turn = "w" THEN 7..9 ELSE 0..2) \X (3..5)
Bank(turn) == (IF turn = "w" THEN 5..9 ELSE 0..4) \X Cols

Inner(i, j) == IF i < j THEN (i + 1)..(j - 1) ELSE (j + 1)..(i - 1)
Between(s, t) == IF s[1] = t[1] THEN {s[1]} \X Inner(s[2], t[2]) ELSE Inner(s[1], t[1]) \X {s[2]}
Lines(s) == (({s[1]} \X Cols) \cup (Rows \X {s[2]})) \ {s}
Screens(b, s, t) == Cardinality(Between(s, t) \cap DOMAIN b)

PawnReach(b, s, turn) ==
  Steps(s, {<<IF turn = "w" THEN -1 ELSE 1, 0>>})
  \cup (IF s \in Bank(turn) THEN {} ELSE Steps(s, {<<0, -1>>, <<0, 1>>}))

\* A general also takes the other one down an open file.
KingReach(b, s, turn) ==
  (Steps(s, Straight) \cap Palace(turn))
  \cup {t \in Rows \X {s[2]} : Taken(b, t) /\ b[t] = <<Other(turn), "k">> /\ Screens(b, s, t) = 0}

RookReach(b, s) == {t \in Lines(s) : Screens(b, s, t) = 0}

CannonReach(b, s) ==
  {t \in Lines(s) : Screens(b, s, t) = (IF Taken(b, t) THEN 1 ELSE 0)}

Jumps == {<<-2, -1>>, <<-2, 1>>, <<2, -1>>, <<2, 1>>, <<-1, -2>>, <<1, -2>>, <<-1, 2>>, <<1, 2>>}
\* Mutant: the leg of the horse taken beside its target.
LegByTarget(s, d) == IF d[1] \in {-2, 2} THEN Off(s, d[1] \div 2, d[2]) ELSE Off(s, d[1], d[2] \div 2)
Leg(s, d) == IF d[1] \in {-2, 2} THEN Off(s, d[1] \div 2, 0) ELSE Off(s, 0, d[2] \div 2)
HorseReach(b, s) == Steps(s, {d \in Jumps : ~Taken(b, Leg(s, d))})

ElephantReach(b, s, turn) ==
  Steps(s, {d \in {-2, 2} \X {-2, 2} : ~Taken(b, Off(s, d[1] \div 2, d[2] \div 2))}) \cap Bank(turn)

AdvisorReach(s, turn) == Steps(s, {-1, 1} \X {-1, 1}) \cap Palace(turn)

PseudoMoves(b, s, turn) ==
  LET k == b[s][2]
      reach == CASE k = "p" -> PawnReach(b, s, turn) [] k = "k" -> KingReach(b, s, turn)
                 [] k = "r" -> RookReach(b, s)       [] k = "c" -> CannonReach(b, s)
                 [] k = "n" -> HorseReach(b, s)      [] k = "b" -> ElephantReach(b, s, turn)
                 [] k = "a" -> AdvisorReach(s, turn)
  IN  {t \in reach : ~Own(b, t, turn)}

(***************************************************************************)
(* Legal moves and the end of the game.                                    *)
(***************************************************************************)
Generals(b, turn) == {s \in DOMAIN b : b[s] = <<turn, "k">>}
\* A board with a piece put on a cell, in place of what stood there.
With(b, s, p) == [q \in DOMAIN b \cup {s} |-> IF q = s THEN p ELSE b[q]]
Moved(b, m) == With(Restrict(b, DOMAIN b \ {m[1]}), m[2], b[m[1]])

GeneralsFace(b) ==
  \E s \in Generals(b, "w"), t \in Generals(b, "b") : s[2] = t[2] /\ Screens(b, s, t) = 0

InCheck(b, turn) ==
  \/ Generals(b, turn) = {}
  \/ \E s \in DOMAIN b : b[s][1] # turn /\ PseudoMoves(b, s, Other(turn)) \cap Generals(b, turn) # {}

LeavesInCheck(b, m, turn) == LET c == Moved(b, m) IN GeneralsFace(c) \/ InCheck(c, turn)

LegalMoves(b, turn) ==
  {m \in UNION {{s} \X PseudoMoves(b, s, turn) : s \in {q \in DOMAIN b : b[q][1] = turn}} :
     ~LeavesInCheck(b, m, turn)}

IsValidMove(b, m, turn) ==
  /\ m[1] \in Cells /\ m[2] \in Cells
  /\ Own(b, m[1], turn) /\ ~Own(b, m[2], turn)
  /\ m[2] \in PseudoMoves(b, m[1], turn)
  /\ ~LeavesInCheck(b, m, turn)

\* An illegal move leaves the position as it is.
ApplyMove(b, m, turn) ==
  IF IsValidMove(b, m, turn) THEN [board |-> Moved(b, m), turn |-> Other(turn)] ELSE [board |-> b, turn |-> turn]

GameResult(b, turn) ==
  IF Generals(b, "w") = {} THEN [ended |-> TRUE, winner |-> "b"]
  ELSE IF Generals(b, "b") = {} THEN [ended |-> TRUE, winner |-> "w"]
  ELSE IF LegalMoves(b, turn) = {} THEN [ended |-> TRUE, winner |-> Other(turn)]
  ELSE [ended |-> FALSE, winner |-> "none"]

(***************************************************************************)
(* FEN.  A text is [rows, turn]: ten rows of tokens, each a piece or       *)
(* <<"gap", n>>, and a word for the side to move.                          *)
(***************************************************************************)
NormalTurn(word) ==
  IF word \in {"w", "red", "white", "r"} THEN "w" ELSE IF word \in {"b", "black"} THEN "b" ELSE "invalid"
EngineTurn(word) == IF word = "w" THEN "w" ELSE "b"      \* rule_engine
RulesTurn(word) == IF word = "b" THEN "b" ELSE "w"       \* core/rules

FenRow(b, r) ==
  LET Closed(acc) == IF acc.gap = 0 THEN acc.out ELSE Append(acc.out, <<"gap", acc.gap>>)
      Add(acc, c) == IF Taken(b, <<r, c>>) THEN [out |-> Append(Closed(acc), b[<<r, c>>]), gap |-> 0]
                     ELSE [acc EXCEPT !.gap = @ + 1]
  IN  Closed(FoldLeft(Add, [out |-> << >>, gap |-> 0], <<0, 1, 2, 3, 4, 5, 6, 7, 8>>))

BoardToFen(b, turn) == [rows |-> [i \in 1..10 |-> FenRow(b, i - 1)], turn |-> NormalTurn(turn)]

Wide(token) == IF token[1] = "gap" THEN token[2] ELSE 1
RowWidth(row) == FoldLeft(LAMBDA n, token : n + Wide(token), 0, row)
Readable(fen) ==
  /\ Len(fen.rows) = 10
  /\ \A i \in 1..10 : /\ \A j \in DOMAIN fen.rows[i] :
                           fen.rows[i][j] \in Pieces \/ (fen.rows[i][j][1] = "gap" /\ fen.rows[i][j][2] \in 1..9)
                      /\ RowWidth(fen.rows[i]) = 9
\* Where the token at place j of row i stands.
CellOf(fen, i, j) == <<i - 1, RowWidth(SubSeq(fen.rows[i], 1, j - 1))>>
Places(fen) == {p \in (1..10) \X (1..9) : p[2] \in DOMAIN fen.rows[p[1]] /\ fen.rows[p[1]][p[2]][1] # "gap"}
FenToBoard(fen) ==
  [s \in {CellOf(fen, p[1], p[2]) : p \in Places(fen)} |->
     LET p == CHOOSE q \in Places(fen) : CellOf(fen, q[1], q[2]) = s IN fen.rows[p[1]][p[2]]]

CountOf(b, p) == Cardinality({s \in DOMAIN b : b[s] = p})
InitialCount(p) == IF p[2] = "k" THEN 1 ELSE IF p[2] = "p" THEN 5 ELSE 2
ValidFen(fen) ==
  /\ Readable(fen) /\ NormalTurn(fen.turn) # "invalid"
  /\ \A p \in Pieces : CountOf(FenToBoard(fen), p) <= InitialCount(p)
  /\ \A side \in {"w", "b"} : CountOf(FenToBoard(fen), <<side, "k">>) = 1

(* validate_piece_types: all the counts as expected, or one piece of the opponent fewer. *)
Counts(b) == [p \in Pieces |-> CountOf(b, p)]
PieceTypesValid(actual, expected, mover) ==
  \/ actual = expected
  \/ \E p \in {Other(mover)} \X Kinds : actual = [expected EXCEPT ![p] = @ - 1]

(***************************************************************************)
(* Chinese notation: <<name, source, action, target>>.                     *)
(***************************************************************************)
FileNumber(col, red) == IF red THEN 9 - col ELSE col + 1
NameOf(p) == IF p[2] \in {"n", "r"} THEN <<"either", p[2]>> ELSE p   \* both sides write horse and chariot alike
SourceLabel(b, s, red) ==
  LET same == {r \in Rows : Taken(b, <<r, s[2]>>) /\ b[<<r, s[2]>>] = b[s]}
      Ahead(r, q) == IF red THEN r < q ELSE r > q
  IN  IF Cardinality(same) >= 2 /\ \A q \in same \ {s[1]} : Ahead(s[1], q) THEN <<"front">>
      ELSE IF Cardinality(same) >= 2 /\ \A q \in same \ {s[1]} : Ahead(q, s[1]) THEN <<"back">>
      ELSE <<"file", FileNumber(s[2], red)>>
ActionLabel(m, red) ==
  IF m[1][1] = m[2][1] THEN "flat"
  ELSE IF red = (m[2][1] < m[1][1]) THEN "advance" ELSE "retreat"
TargetLabel(p, m, red) ==
  IF m[1][1] # m[2][1] /\ p[2] \in {"k", "r", "c", "p"} /\ m[1][2] = m[2][2]
  THEN IF m[1][1] < m[2][1] THEN m[2][1] - m[1][1] ELSE m[1][1] - m[2][1]
  ELSE FileNumber(m[2][2], red)
MoveText(b, m) ==
  LET red == b[m[1]][1] = "w"
  IN  <<NameOf(b[m[1]]), SourceLabel(b, m[1], red), ActionLabel(m, red), TargetLabel(b[m[1]], m, red)>>

(***************************************************************************)
(* The reconciler.  A candidate is a legal move from the last stable board *)
(* that no observed piece contradicts, whose source was seen empty and     *)
(* whose target was seen taken by the piece that moved.  Scores are in     *)
(* tenths.                                                                 *)
(***************************************************************************)
MinScore == 120
MinMargin == 20

Confirmed(stable, seen, m) ==
  LET c == Moved(stable, m)
  IN  /\ \A s \in DOMAIN seen : Taken(c, s) /\ c[s] = seen[s]
      /\ ~Taken(seen, m[1])
      /\ Taken(seen, m[2]) /\ ~(Taken(stable, m[2]) /\ stable[m[2]] = c[m[2]])
Matches(c, seen) == Cardinality({s \in DOMAIN seen : Taken(c, s) /\ c[s] = seen[s]})
Score(stable, seen, m) == 150 + (IF Matches(Moved(stable, m), seen) > 32 THEN 32 ELSE Matches(Moved(stable, m), seen))

\* Mutant: the best candidate taken however close the next one is.
ReconcileBest(stable, seen, turn) ==
  LET moves == {m \in LegalMoves(stable, turn) : Confirmed(stable, seen, m)}
      best == CHOOSE m \in moves : \A o \in moves : Score(stable, seen, m) >= Score(stable, seen, o)
      Repaired == moves # {} /\ Score(stable, seen, best) >= MinScore
  IN  IF DOMAIN stable = {} THEN [accepted |-> FALSE, board |-> seen, method |-> "no_previous"]
      ELSE IF seen = stable THEN [accepted |-> TRUE, board |-> stable, method |-> "unchanged"]
      ELSE IF moves = {} THEN [accepted |-> FALSE, board |-> seen, method |-> "no_legal_match"]
      ELSE IF Repaired THEN [accepted |-> TRUE, board |-> Moved(stable, best), method |-> "legal_move_repair"]
      ELSE [accepted |-> FALSE, board |-> seen, method |-> "ambiguous"]
Reconcile(stable, seen, turn) ==
  LET moves == {m \in LegalMoves(stable, turn) : Confirmed(stable, seen, m)}
      best == CHOOSE m \in moves : \A o \in moves : Score(stable, seen, m) >= Score(stable, seen, o)
      Clear == \A o \in moves \ {best} : Score(stable, seen, best) - Score(stable, seen, o) >= MinMargin
      Repaired == moves # {} /\ Score(stable, seen, best) >= MinScore /\ Clear
  IN  IF DOMAIN stable = {} THEN [accepted |-> FALSE, board |-> seen, method |-> "no_previous"]
      ELSE IF seen = stable THEN [accepted |-> TRUE, board |-> stable, method |-> "unchanged"]
      ELSE IF moves = {} THEN [accepted |-> FALSE, board |-> seen, method |-> "no_legal_match"]
      ELSE IF Repaired THEN [accepted |-> TRUE, board |-> Moved(stable, best), method |-> "legal_move_repair"]
      ELSE [accepted |-> FALSE, board |-> seen, method |-> "ambiguous"]

(***************************************************************************)
(* The frames of the window, fused (temporal_validator.py): a cell holds   *)
(* what most frames that show something there show, at least MinVotes of   *)
(* them, and nothing when two pieces have the same votes.                  *)
(***************************************************************************)
MinVotes == 1
Votes(frames, s, p) == Cardinality({i \in DOMAIN frames : Taken(frames[i], s) /\ frames[i][s] = p})
Shown(frames, s) == {frames[i][s] : i \in {j \in DOMAIN frames : Taken(frames[j], s)}}
Winners(frames, s) ==
  {p \in Shown(frames, s) : /\ Votes(frames, s, p) >= MinVotes
                            /\ \A q \in Shown(frames, s) \ {p} : Votes(frames, s, p) > Votes(frames, s, q)}
Fused(frames) ==
  LET cells == {s \in UNION {DOMAIN frames[i] : i \in DOMAIN frames} : Winners(frames, s) # {}}
  IN  [s \in cells |-> CHOOSE p \in Winners(frames, s) : TRUE]
=============================================================================
