-------------------------- MODULE MCRobotWorkflow --------------------------
(***************************************************************************)
(* Instances of RobotWorkflow for TLC: the game, and the game while the    *)
(* setup page moves the arm as well, each with variables of its own.  The  *)
(* variable "part" says which of the two moves.  Trace ids are             *)
(* interchangeable, so the safety run uses them as a symmetry set.         *)
(***************************************************************************)
EXTENDS RobotWorkflow, TLC

VARIABLES part,
    waiting, current, arm, moveLock, capture, camera, analysis, status, queue, over

setupVars == <<waiting, current, arm, moveLock, capture, camera, analysis, status, queue, over>>

Setup == INSTANCE RobotWorkflow WITH
    HardwareTests <- TRUE, MaxQueue <- 1,
    pending <- waiting, active <- current, mover <- arm, lock <- moveLock, session <- capture,
    vision <- camera, engine <- analysis, game <- status, loopq <- queue, ended <- over

TwoInit ==
    /\ part \in {"game", "setup"}
    /\ Init /\ (part # "game" => engine = "off")
    /\ Setup!Init /\ (part # "setup" => analysis = "off")

GameMoves == part = "game" /\ Next /\ UNCHANGED <<part, setupVars>>
SetupMoves == part = "setup" /\ Setup!Next /\ UNCHANGED <<part, vars>>

TwoSpec == TwoInit /\ [][GameMoves \/ SetupMoves]_<<part, vars, setupVars>>

\* The game alone, with the fairness of its threads.
GameInit == TwoInit /\ part = "game"
FairGameSpec == GameInit /\ [][GameMoves]_<<part, vars, setupVars>> /\ Fairness

TraceSymmetry == Permutations(Trace)

\* With the setup page's one-move tests beside the actuation worker, two moves
\* never drive the arm at once: OneMoveAtATime of RobotWorkflow, for the
\* system whose setup page is in use (setup_routes.py, robot_service.py).
TestsTakeTurns == Setup!OneMoveAtATime
=============================================================================
