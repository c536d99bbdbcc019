---------------------------- MODULE CommandGate ----------------------------
(***************************************************************************)
(* What the workflow coordinator promises about robot commands, without    *)
(* its threads: a command starts only when the robot is free, and a        *)
(* finished command is either settled at once or must be verified by the   *)
(* camera before the next one.  RobotWorkflow implements this module.      *)
(***************************************************************************)

CONSTANT HardwareTests  \* may the setup page move the arm while the system is up?

VARIABLE phase

Init == phase = "free"

\* A command is handed to the actuation worker.
Start == phase = "free" /\ phase' = "running"

\* The actuation worker is done; the arm's work is verified or it is not.
Finish == phase = "running" /\ phase' \in {"free", "verifying"}

\* The verification is answered, or given up by ending the game.
Settle == phase = "verifying" /\ phase' = "free"

\* A hardware test of the setup page asks for a verification of its own.
TestedFromSetup == HardwareTests /\ phase = "free" /\ phase' = "verifying"

Next == Start \/ Finish \/ Settle \/ TestedFromSetup

Spec == Init /\ [][Next]_phase
=============================================================================
