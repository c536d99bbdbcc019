---------------------------- MODULE MCGameRecord ----------------------------
(***************************************************************************)
(* Instances of GameRecord for TLC, with the line of positions its undo    *)
(* history stands for: a game with the operator's requests and an undo     *)
(* history, and one with synchronisations of the camera and without the    *)
(* history, each with variables of its own.  "part" says which of the two  *)
(* moves.                                                                  *)
(***************************************************************************)
EXTENDS GameRecord, FiniteSets

VARIABLES part, recorded, past, queue, stable, camera, request, seen, met

cameraVars == <<recorded, past, queue, stable, camera, request, seen, met>>

Camera == INSTANCE GameRecord WITH
    Console <- {"sync"}, MaxMoves <- 1, MaxHistory <- 0,
    store <- recorded, history <- past, loopq <- queue, baseline <- stable,
    vision <- camera, sync <- request, followed <- seen, overlap <- met

PartsInit == part \in {"operator", "camera"} /\ Init /\ Camera!Init
PartsNext ==
    \/ part = "operator" /\ Next        /\ UNCHANGED <<part, cameraVars>>
    \/ part = "camera"   /\ Camera!Next /\ UNCHANGED <<part, vars>>

PartsSpec == PartsInit /\ [][PartsNext]_<<part, vars, cameraVars>>

\* The recorded board and the validator's baseline stay together, with moves by
\* hand, undos and resets in between and with synchronisations in between:
\* StoreFollowsVision of GameRecord in either game.
BoardFollowsVision == StoreFollowsVision /\ Camera!StoreFollowsVision

-----------------------------------------------------------------------------

\* Where the position changes in a sequence of games.
Changes(games) == {i \in 1..(Len(games) - 1) : UndoKey(games[i]) # UndoKey(games[i + 1])}

\* The k-th smallest of a set of numbers.
Nth(S, k) == CHOOSE x \in S : Cardinality({y \in S : y <= x}) = k

\* The positions of a sequence of games, without repetitions of one.
Positions(games) ==
    LET changes == Changes(games)
        earlier == [k \in 1..Cardinality(changes) |-> UndoKey(games[Nth(changes, k)])]
    IN  Append(earlier, UndoKey(games[Len(games)]))

\* What an undo can go back to, and the present position.
Line == Positions(Append(history, store))

AllPositions == Board \X Side \X Nat \X Side

Promise == INSTANCE UndoLine WITH Position <- AllPositions, Depth <- MaxHistory + 1, line <- Line

\* An undo takes back exactly the last change of the position, and the history
\* loses only its oldest positions (StateManager.dispatch and
\* _undo_last_game_mutation against the module UndoLine).
UndoSpec == Promise!Spec

\* And it does take it back: an undo request that finds an earlier position in
\* the history never ends without effect, whatever else was pushed meanwhile.
UndoTakesBack == [][DispatchUndo /\ Len(Line) > 1 => Promise!TakeBack]_vars
=============================================================================
