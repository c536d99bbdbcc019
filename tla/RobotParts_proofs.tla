------------------------- MODULE RobotParts_proofs -------------------------
(***************************************************************************)
(* Proofs about the robot's parts that MCParts runs: the moves it makes,   *)
(* the settings and the calibration of the board it makes them by, and the *)
(* pieces that stand on it.                                                *)
(*                                                                         *)
(* First, why a move that reports success has put its pieces where they    *)
(* belong, and why nothing is dropped, whoever was left behind, whatever   *)
(* failed and whenever the program was restarted.                          *)
(*                                                                         *)
(* The registers may hold the answer of an earlier program, so the first   *)
(* motion of a move can be taken for done without having been.  But a      *)
(* sender that saw "moving" after it set the trigger, and the end after    *)
(* that, leaves behind a controller at rest and a cleared trigger, and     *)
(* from then on each motion is answered for itself: between the trigger    *)
(* and its clearing TMflow takes one command only, and the pose it takes   *)
(* is the one that was written before.  No gripper command follows the     *)
(* first motion directly.                                                  *)
(*                                                                         *)
(* Then, why the board can be mapped both ways whatever is asked of the    *)
(* setup page, and why the two files fit: a request that is alone accounts *)
(* for each step it has made, so what it leaves is what it checked.  And   *)
(* why three measured points are mapped to where they were measured.       *)
(*                                                                         *)
(* Last, what the robot plays by: the pieces in the picture, of which the  *)
(* best of the detections wins, and the rules of the game, by which a side *)
(* is in check when its general sees an enemy, and both sides alike.       *)
(***************************************************************************)
EXTENDS PickAndPlace, Integers, FiniteSetTheorems, SequenceTheorems, WellFoundedInduction, TLAPS

CONSTANTS  \* SetupSettings
    SetupThread, SettingsRequests, CalRequests, ScriptInputs, Tests, Env, Default, Production, Keyed, Word,
    Idle, Torn, Missing, NoTemp, MaxRequests, MaxRestarts, NoSplit, NoPoint, NoMap

CONSTANTS  \* BoardSight, XiangqiPlay
    BoardCols, BoardRows, Unit, Anchor, Boxes, Labels, Confidences, MaxDetections,
    Positions, Ghosts, Dim, Fusing, MaxPly

VARIABLES  \* SetupSettings
    live, conf, calFile, setFile, temp, report, job, script, up, requests, restarts, disturbed

VARIABLES  \* BoardSight, XiangqiPlay
    detected, occupied, best, truth, position, history, verdict, ply

\* A move leads from one square to another, neither of them in the dead zone; pieces are moved
\* by the gripper only.
Sound ==
    /\ Moves \subseteq [from : Place, to : Place, capture : BOOLEAN]
    /\ \A m \in Moves : m.from # m.to /\ DeadZone \notin {m.from, m.to}
    /\ DeadZone \in Place /\ {"hand", "dropped"} \cap Place = {}
    /\ Board \in [Piece -> Place]
    /\ None \notin Caller

-----------------------------------------------------------------------------
(* The plan, counted from its end: Ahead(m, n) is the step with n steps    *)
(* left.                                                                   *)

Steps == [op : {"go"}, pose : Pose] \cup [op : {"grip"}, close : BOOLEAN]
Total(m) == IF m.capture THEN 16 ELSE 8
Ahead(m, n) == IF n <= 8 THEN PickAndPlace(m.from, m.to)[9 - n] ELSE PickAndPlace(m.to, DeadZone)[17 - n]

Left(c) == Len(call[c].todo)
Follows(todo, m) == Len(todo) <= Total(m) /\ \A i \in 1..Len(todo) : todo[i] = Ahead(m, Len(todo) + 1 - i)
OnPlan(c, m) == Follows(call[c].todo, m) /\ call[c].to = m.to

-----------------------------------------------------------------------------
(* The motion in work.                                                     *)

Quiet == ~reg.trigger /\ tm.pc \in {"ready", "held"}
AtRest == tm.pc = "held" \/ Quiet

\* A motion after the first, between its beginning and its end.
Later(c) ==
    /\ \A d \in Caller : call[d].svc # "join"
    /\ call[c].io \in {"id", "pose", "trigger"} => Quiet
    /\ call[c].io = "trigger" => reg.pose = Goal(c)
    /\ call[c].io \in {"ack", "start"} =>
         /\ reg.trigger /\ reg.pose = Goal(c)
         /\ tm.pc \in {"ready", "held"} \/ (tm.pose = Goal(c) /\ ~reg.halt)
    /\ call[c].io = "await" =>
         /\ reg.trigger
         /\ \/ tm.pc = "moving" /\ tm.pose = Goal(c) /\ ~reg.halt
            \/ tm.pc = "held" /\ (reg.status = "error" \/ arm = Goal(c))
    /\ call[c].io = "awaitAck" \/ (call[c].io = "cleanup" /\ call[c].ok) =>
         reg.trigger /\ tm.pc = "held" /\ arm = Goal(c)
    /\ call[c].io = "end" /\ call[c].ok => Quiet /\ arm = Goal(c)

\* Any motion: one that is reported done leaves the controller at rest.
Motioned(c, m) ==
    /\ call[c].id = 0 => call[c].io = "off" /\ Left(c) = Total(m)
    /\ call[c].io = "off" /\ call[c].id # 0 => Quiet /\ Left(c) < Total(m)
    /\ call[c].io = "off" /\ Left(c) + 1 < Total(m) /\ Ahead(m, Left(c) + 1).op = "go" =>
         arm = Ahead(m, Left(c) + 1).pose
    /\ call[c].io # "off" => Left(c) > 0 /\ Ahead(m, Left(c)).op = "go"
    /\ call[c].io = "await" => tm.pc = "moving" \/ AtRest
    /\ call[c].io = "awaitAck" \/ (call[c].io = "cleanup" /\ call[c].ok) => AtRest
    /\ call[c].io = "end" /\ call[c].ok => Quiet
    /\ call[c].io # "off" /\ Left(c) < Total(m) => Later(c)

-----------------------------------------------------------------------------
(* The pieces of a move that was fit to begin.                             *)

InHand(c) == Left(c) \in 2..5 \cup 10..13
Holding(c) == CASE Left(c) \in 2..5 -> call[c].lifts
                [] Left(c) \in 10..13 -> call[c].takes
                [] OTHER -> {}
Carried(c, m) ==
    /\ closed <=> InHand(c)
    /\ On("hand") = Holding(c)
    /\ Left(c) >= 6 => call[c].lifts = On(m.from)
    /\ Left(c) <= 1 => \A x \in call[c].lifts : at[x] = m.to
    /\ Left(c) >= 14 => call[c].takes = On(m.to)
    /\ Left(c) <= 9 => \A x \in call[c].takes : at[x] = DeadZone
    /\ \A x, y \in call[c].lifts : x = y
    /\ \A x, y \in call[c].takes : x = y

-----------------------------------------------------------------------------

Places == {"off", "id", "pose", "trigger", "ack", "start", "await", "awaitAck", "cleanup", "end"}
CallRecord == [svc : {"idle", "run", "halt", "join"}, todo : Seq(Steps), io : Places, id : Nat, ok : BOOLEAN,
               lifts : SUBSET Piece, takes : SUBSET Piece, to : Place \cup {None}, fit : BOOLEAN]

OnItsWay(c) == \E m \in Moves : OnPlan(c, m) /\ Motioned(c, m) /\ (call[c].fit => Carried(c, m))

Typed == TypeOK /\ call \in [Caller -> CallRecord] /\ (reg.status = "moving" <=> tm.pc = "moving")

\* A sender whose caller has given up has seen its motion begin.
Outlived(c) ==
    /\ call[c].svc \in {"halt", "join"} => call[c].io \in {"await", "awaitAck", "cleanup", "end"}
    /\ call[c].svc = "idle" => call[c].io = "off"

IInv ==
    /\ Typed
    /\ \A c \in Caller : Outlived(c) /\ (call[c].svc = "run" => OnItsWay(c))
    /\ NothingIsDropped

-----------------------------------------------------------------------------
(* The plan.                                                               *)

LEMMA StepsAhead ==
  ASSUME Sound, NEW m \in Moves
  PROVE  /\ Ahead(m, 8) = Go(m.from, "safe") /\ Ahead(m, 7) = Go(m.from, "grab") /\ Ahead(m, 6) = Grip(TRUE)
         /\ Ahead(m, 5) = Go(m.from, "safe") /\ Ahead(m, 4) = Go(m.to, "safe") /\ Ahead(m, 3) = Go(m.to, "place")
         /\ Ahead(m, 2) = Grip(FALSE) /\ Ahead(m, 1) = Go(m.to, "safe")
         /\ Ahead(m, 16) = Go(m.to, "safe") /\ Ahead(m, 15) = Go(m.to, "grab") /\ Ahead(m, 14) = Grip(TRUE)
         /\ Ahead(m, 13) = Go(m.to, "safe") /\ Ahead(m, 12) = Go(DeadZone, "safe")
         /\ Ahead(m, 11) = Go(DeadZone, "place") /\ Ahead(m, 10) = Grip(FALSE) /\ Ahead(m, 9) = Go(DeadZone, "safe")
  BY DEF Ahead, PickAndPlace

LEMMA StepIs ==
  ASSUME Sound, NEW m \in Moves, NEW n \in 1..16
  PROVE  /\ Ahead(m, n) \in Steps
         /\ Ahead(m, n).op = IF n \in {2, 6, 10, 14} THEN "grip" ELSE "go"
<1>1. n \in {1, 2, 3, 4, 5, 6, 7, 8, 9, 10, 11, 12, 13, 14, 15, 16}
  OBVIOUS
<1>2. m.from \in Place /\ m.to \in Place /\ DeadZone \in Place
  BY DEF Sound
<1>3. \A p \in Place, z \in Height : Go(p, z) \in Steps /\ Go(p, z).op = "go"
  BY DEF Go, Steps, Pose
<1>4. \A b \in BOOLEAN : Grip(b) \in Steps /\ Grip(b).op = "grip"
  BY DEF Grip, Steps
<1>5. {"safe", "grab", "place"} \subseteq Height
  BY DEF Height
<1>6. CASE n \in {2, 6, 10, 14}
  <2>1. \E b \in BOOLEAN : Ahead(m, n) = Grip(b)
    BY <1>6, StepsAhead
  <2> QED BY <1>4, <1>6, <2>1
<1>7. CASE n \in {1, 3, 4, 5, 7, 8, 9, 11, 12, 13, 15, 16}
  <2>1. CASE n \in {1, 3, 4, 5, 7, 8}
    <3>1. \E p \in Place, z \in {"safe", "grab", "place"} : Ahead(m, n) = Go(p, z)
      BY <1>2, <2>1, StepsAhead
    <3> QED BY <1>3, <1>5, <1>7, <3>1
  <2>2. CASE n \in {9, 11, 12, 13, 15, 16}
    <3>1. \E p \in Place, z \in {"safe", "grab", "place"} : Ahead(m, n) = Go(p, z)
      BY <1>2, <2>2, StepsAhead
    <3> QED BY <1>3, <1>5, <1>7, <3>1
  <2> QED BY <1>7, <2>1, <2>2
<1> QED BY <1>1, <1>6, <1>7

LEMMA EightSteps ==
  ASSUME NEW S, NEW a \in S, NEW b \in S, NEW c \in S, NEW d \in S, NEW e \in S, NEW f \in S, NEW g \in S, NEW h \in S
  PROVE  <<a, b, c, d, e, f, g, h>> \in Seq(S) /\ Len(<<a, b, c, d, e, f, g, h>>) = 8
  OBVIOUS

LEMMA Joined ==
  ASSUME NEW S, NEW A \in Seq(S), Len(A) = 8, NEW B \in Seq(S), Len(B) = 8
  PROVE  /\ A \o B \in Seq(S) /\ Len(A \o B) = 16
         /\ \A i \in 1..16 : (A \o B)[i] = IF i <= 8 THEN A[i] ELSE B[i - 8]
<1>1. /\ A \o B \in Seq(S) /\ Len(A \o B) = Len(A) + Len(B)
      /\ \A i \in 1..Len(A) + Len(B) : (A \o B)[i] = IF i <= Len(A) THEN A[i] ELSE B[i - Len(A)]
  BY ConcatProperties, Zenon
<1>2. Len(A) + Len(B) = 16
  OBVIOUS
<1> QED BY <1>1, <1>2, Zenon

LEMMA PlanIs ==
  ASSUME Sound, NEW m \in Moves
  PROVE  /\ Plan(m) \in Seq(Steps) /\ Len(Plan(m)) = Total(m)
         /\ \A i \in 1..Total(m) : Plan(m)[i] = Ahead(m, Total(m) + 1 - i)
<1>1. ASSUME NEW s \in Place, NEW e \in Place
      PROVE  PickAndPlace(s, e) \in Seq(Steps) /\ Len(PickAndPlace(s, e)) = 8
  <2>1. \A p \in Place, z \in Height : Go(p, z) \in Steps
    BY DEF Go, Steps, Pose
  <2>2. \A b \in BOOLEAN : Grip(b) \in Steps
    BY DEF Grip, Steps
  <2>3. /\ Go(s, "safe") \in Steps /\ Go(s, "grab") \in Steps /\ Go(e, "safe") \in Steps /\ Go(e, "place") \in Steps
        /\ Grip(TRUE) \in Steps /\ Grip(FALSE) \in Steps
    BY <2>1, <2>2 DEF Height
  <2> QED BY <2>3, EightSteps, Zenon DEF PickAndPlace
<1>2. m.from \in Place /\ m.to \in Place /\ DeadZone \in Place /\ m.capture \in BOOLEAN
  BY DEF Sound
<1>3. CASE m.capture
  <2> DEFINE A == PickAndPlace(m.to, DeadZone)
             B == PickAndPlace(m.from, m.to)
  <2>1. A \in Seq(Steps) /\ Len(A) = 8 /\ B \in Seq(Steps) /\ Len(B) = 8
    BY <1>1, <1>2
  <2>2. Plan(m) = A \o B /\ Total(m) = 16
    BY <1>3 DEF Plan, Total
  <2>3. \A i \in 1..16 : Ahead(m, 17 - i) = IF i <= 8 THEN A[i] ELSE B[i - 8]
    BY DEF Ahead
  <2> HIDE DEF A, B
  <2>4. A \o B \in Seq(Steps) /\ Len(A \o B) = 16 /\ \A i \in 1..16 : (A \o B)[i] = IF i <= 8 THEN A[i] ELSE B[i - 8]
    BY <2>1, Joined
  <2>5. \A i \in 1..16 : 16 + 1 - i = 17 - i
    OBVIOUS
  <2>6. \A i \in 1..16 : (A \o B)[i] = Ahead(m, 16 + 1 - i)
    BY <2>3, <2>4, <2>5
  <2> QED BY <2>2, <2>4, <2>6, Zenon
<1>4. CASE ~m.capture
  <2> DEFINE B == PickAndPlace(m.from, m.to)
  <2>1. B \in Seq(Steps) /\ Len(B) = 8
    BY <1>1, <1>2
  <2>2. Plan(m) = << >> \o B /\ Total(m) = 8
    BY <1>4 DEF Plan, Total
  <2>3. \A i \in 1..8 : Ahead(m, 9 - i) = B[i]
    BY DEF Ahead
  <2> HIDE DEF B
  <2> QED BY <2>1, <2>2, <2>3
<1> QED BY <1>2, <1>3, <1>4

LEMMA AfterTheHead ==
  ASSUME Sound, NEW m \in Moves, NEW t \in Seq(Steps), t # << >>, Follows(t, m)
  PROVE  /\ Len(t) \in 1..16 /\ Head(t) \in Steps /\ Head(t) = Ahead(m, Len(t))
         /\ Tail(t) \in Seq(Steps) /\ Len(Tail(t)) = Len(t) - 1 /\ Follows(Tail(t), m)
<1>1. Len(t) \in 1..16 /\ Total(m) \in Nat
  <2>1. Total(m) \in {8, 16} /\ Len(t) \in Nat /\ Len(t) # 0
    BY EmptySeq DEF Total
  <2>2. Len(t) <= Total(m)
    BY DEF Follows
  <2>3. \A n \in Nat : \A k \in {8, 16} : n # 0 /\ n <= k => n \in 1..16
    OBVIOUS
  <2>4. 8 \in Nat /\ 16 \in Nat
    OBVIOUS
  <2> QED BY <2>1, <2>2, <2>3, <2>4, Zenon
<1>2. Head(t) \in Steps /\ Head(t) = t[1] /\ Tail(t) \in Seq(Steps) /\ Len(Tail(t)) = Len(t) - 1
      /\ \A i \in 1..(Len(t) - 1) : Tail(t)[i] = t[i + 1]
  BY HeadTailProperties
<1>3. t[1] = Ahead(m, Len(t))
  <2>1. t[1] = Ahead(m, Len(t) + 1 - 1)
    BY <1>1 DEF Follows
  <2>2. Len(t) + 1 - 1 = Len(t)
    BY <1>1
  <2> QED BY <2>1, <2>2
<1>4. ASSUME NEW i \in 1..(Len(t) - 1) PROVE Tail(t)[i] = Ahead(m, Len(t) - 1 + 1 - i)
  <2>1. i + 1 \in 1..Len(t)
    BY <1>1
  <2>2. Tail(t)[i] = Ahead(m, Len(t) + 1 - (i + 1))
    BY <1>2, <2>1 DEF Follows
  <2>3. Len(t) + 1 - (i + 1) = Len(t) - 1 + 1 - i
    BY <1>1
  <2> QED BY <2>2, <2>3
<1>5. Follows(Tail(t), m)
  BY <1>1, <1>2, <1>4 DEF Follows
<1> QED BY <1>1, <1>2, <1>3, <1>5

\* What a run caller does next.
LEMMA StepOf ==
  ASSUME Sound, Typed, NEW c \in Caller, NEW m \in Moves, OnPlan(c, m), Left(c) # 0
  PROVE  /\ Left(c) \in 1..16 /\ Left(c) <= Total(m) /\ call[c].todo # << >>
         /\ Step(c) \in Steps /\ Step(c) = Ahead(m, Left(c))
         /\ Step(c).op = IF Left(c) \in {2, 6, 10, 14} THEN "grip" ELSE "go"
<1>1. call[c].todo \in Seq(Steps) /\ call[c].todo # << >>
  BY DEF Typed, CallRecord, Left
<1>2. Left(c) \in 1..16 /\ Step(c) \in Steps /\ Step(c) = Ahead(m, Left(c))
  BY <1>1, AfterTheHead DEF OnPlan, Left, Step
<1>3. Left(c) <= Total(m)
  BY DEF OnPlan, Follows, Left
<1>4. Ahead(m, Left(c)).op = IF Left(c) \in {2, 6, 10, 14} THEN "grip" ELSE "go"
  BY <1>2, StepIs
<1> QED BY <1>1, <1>2, <1>3, <1>4

LEMMA OneHolds ==
  ASSUME Typed, NEW c \in Caller, NEW d \in Caller,
         call[c].svc \in {"run", "halt"}, call[d].svc \in {"run", "halt"}
  PROVE  c = d
  BY DEF Typed, TypeOK

-----------------------------------------------------------------------------
(* What steps change.                                                      *)

\* Only the trigger is cleared, and only the first motion of a move has others beside it.
LEMMA Untouched ==
  ASSUME NEW c \in Caller, OnItsWay(c), call'[c] = call[c], UNCHANGED <<tm, plant>>,
         \/ reg' = reg
         \/ reg' = [reg EXCEPT !.trigger = FALSE] /\ \E d \in Caller : call[d].svc = "join",
         \A d \in Caller : call'[d].svc = "join" => call[d].svc = "join", Typed
  PROVE  OnItsWay(c)'
<1>1. PICK m \in Moves : OnPlan(c, m) /\ Motioned(c, m) /\ (call[c].fit => Carried(c, m))
  BY DEF OnItsWay
<1>2. OnPlan(c, m)' /\ (call[c].fit => Carried(c, m)')
  BY <1>1 DEF OnPlan, Carried, InHand, Holding, On, Left, plant
<1>3. reg'.trigger \in {reg.trigger, FALSE} /\ (reg' = reg \/ \E d \in Caller : call[d].svc = "join")
      /\ reg'.status = reg.status /\ reg'.pose = reg.pose /\ reg'.halt = reg.halt
  BY DEF Typed, TypeOK
<1>4. (Quiet => Quiet') /\ (AtRest => AtRest')
  BY <1>3 DEF Quiet, AtRest
<1>5. Later(c) => Later(c)'
  BY <1>3, <1>4 DEF Later, Goal, Step, plant
<1>6. Motioned(c, m)'
  BY <1>1, <1>3, <1>4, <1>5 DEF Motioned, Left, plant
<1> QED BY <1>1, <1>2, <1>6 DEF OnItsWay

\* The records of the others stay when a sender goes on.
LEMMA SenderMoves ==
  ASSUME Typed, NEW c \in Caller, NEW v \in Places, NEW b \in BOOLEAN,
         (To(c, v) /\ b = call[c].ok) \/ Ends(c, v, b)
  PROVE  /\ call' \in [Caller -> CallRecord]
         /\ call'[c].io = v /\ call'[c].ok = b
         /\ call'[c].svc = call[c].svc /\ call'[c].todo = call[c].todo /\ call'[c].id = call[c].id
         /\ call'[c].lifts = call[c].lifts /\ call'[c].takes = call[c].takes /\ call'[c].to = call[c].to
         /\ call'[c].fit = call[c].fit
         /\ \A d \in Caller \ {c} : call'[d] = call[d]
         /\ \A d \in Caller : call'[d].svc = call[d].svc
<1> DEFINE new == [call[c] EXCEPT !.io = v, !.ok = b]
<1>1. call \in [Caller -> CallRecord] /\ call[c] \in CallRecord
  BY DEF Typed
<1>2. /\ new \in CallRecord /\ new.io = v /\ new.ok = b
      /\ new.svc = call[c].svc /\ new.todo = call[c].todo /\ new.id = call[c].id
      /\ new.lifts = call[c].lifts /\ new.takes = call[c].takes /\ new.to = call[c].to /\ new.fit = call[c].fit
  BY <1>1 DEF CallRecord
<1>3. call' = [call EXCEPT ![c] = new]
  <2>1. CASE To(c, v) /\ b = call[c].ok
    <3>1. [call[c] EXCEPT !.io = v] = new
      BY <1>1, <2>1 DEF CallRecord
    <3>2. call' = [call EXCEPT ![c] = [call[c] EXCEPT !.io = v]]
      BY <2>1 DEF To
    <3> QED BY <3>1, <3>2, Zenon
  <2>2. CASE Ends(c, v, b)
    BY <1>1, <2>2 DEF Ends
  <2> QED BY <2>1, <2>2
<1> HIDE DEF new
<1> QED BY <1>1, <1>2, <1>3

-----------------------------------------------------------------------------
(* TMflow.                                                                 *)

LEMMA TmTyped == ASSUME Typed, TMflow PROVE Typed' /\ UNCHANGED <<closed, at, lastId, lock, call, used>>
<1> USE DEF Typed, TypeOK, TmKeeps
<1>1. CASE TmAccept
  BY <1>1 DEF TmAccept
<1>2. CASE TmAcks
  BY <1>2 DEF TmAcks
<1>3. CASE TmMoves
  BY <1>3 DEF TmMoves, Between
<1>4. CASE TmArrives
  BY <1>4 DEF TmArrives, Between
<1>5. CASE TmStops
  BY <1>5 DEF TmStops
<1>6. CASE TmIdleHalt
  BY <1>6 DEF TmIdleHalt
<1>7. CASE TmRearms
  BY <1>7 DEF TmRearms
<1> QED BY <1>1, <1>2, <1>3, <1>4, <1>5, <1>6, <1>7 DEF TMflow

\* A controller at rest with a cleared trigger stays so.
LEMMA TmRests ==
  ASSUME Typed, TMflow
  PROVE  /\ reg'.trigger = reg.trigger /\ reg'.pose = reg.pose
         /\ (reg'.halt => reg.halt)
         /\ (Quiet => Quiet' /\ arm' = arm) /\ (AtRest => AtRest' /\ arm' = arm)
         /\ (tm.pc = "moving" => tm'.pc \in {"moving", "held"})
<1> USE DEF Typed, TypeOK, Quiet, AtRest
<1>1. CASE TmAccept
  BY <1>1 DEF TmAccept
<1>2. CASE TmAcks
  BY <1>2 DEF TmAcks
<1>3. CASE TmMoves
  BY <1>3 DEF TmMoves, Between
<1>4. CASE TmArrives
  BY <1>4 DEF TmArrives, Between
<1>5. CASE TmStops
  BY <1>5 DEF TmStops
<1>6. CASE TmIdleHalt
  BY <1>6 DEF TmIdleHalt
<1>7. CASE TmRearms
  BY <1>7 DEF TmRearms
<1> QED BY <1>1, <1>2, <1>3, <1>4, <1>5, <1>6, <1>7 DEF TMflow

\* Under a set trigger one command is taken, moved for and ended.
LEMMA TmLater == ASSUME Typed, NEW c \in Caller, Later(c), TMflow PROVE Later(c)'
<1>1. call' = call /\ Goal(c)' = Goal(c)
  BY TmTyped DEF Goal, Step
<1>2. ASSUME reg.trigger, reg.pose = Goal(c), tm.pc \in {"ready", "held"} \/ (tm.pose = Goal(c) /\ ~reg.halt)
      PROVE  tm'.pc \in {"ready", "held"} \/ (tm'.pose = Goal(c) /\ ~reg'.halt)
  BY <1>2 DEF Typed, TypeOK, TMflow, TmAccept, TmAcks, TmMoves, TmArrives, TmStops, TmIdleHalt, TmRearms, TmKeeps
<1>3. ASSUME reg.trigger,
             \/ tm.pc = "moving" /\ tm.pose = Goal(c) /\ ~reg.halt
             \/ tm.pc = "held" /\ (reg.status = "error" \/ arm = Goal(c))
      PROVE  \/ tm'.pc = "moving" /\ tm'.pose = Goal(c) /\ ~reg'.halt
             \/ tm'.pc = "held" /\ (reg'.status = "error" \/ arm' = Goal(c))
  BY <1>3 DEF Typed, TypeOK, TMflow, TmAccept, TmAcks, TmMoves, TmArrives, TmStops, TmIdleHalt, TmRearms, TmKeeps
<1>4. ASSUME reg.trigger, tm.pc = "held" PROVE tm'.pc = "held"
  BY <1>4 DEF Typed, TypeOK, TMflow, TmAccept, TmAcks, TmMoves, TmArrives, TmStops, TmIdleHalt, TmRearms, TmKeeps
<1>5. /\ reg'.trigger = reg.trigger /\ reg'.pose = reg.pose
      /\ Quiet => Quiet' /\ arm' = arm
      /\ AtRest => AtRest' /\ arm' = arm
  BY TmRests
<1>6. tm.pc = "held" => arm' = arm
  BY <1>5 DEF AtRest
<1>7. (\A d \in Caller : call[d].svc # "join")'
  BY <1>1 DEF Later
<1>8. (call[c].io \in {"id", "pose", "trigger"} => Quiet)' /\ (call[c].io = "trigger" => reg.pose = Goal(c))'
  BY <1>1, <1>5 DEF Later
<1>9. (call[c].io \in {"ack", "start"} =>
         /\ reg.trigger /\ reg.pose = Goal(c)
         /\ tm.pc \in {"ready", "held"} \/ (tm.pose = Goal(c) /\ ~reg.halt))'
  BY <1>1, <1>2, <1>5 DEF Later
<1>10. (call[c].io = "await" =>
         /\ reg.trigger
         /\ \/ tm.pc = "moving" /\ tm.pose = Goal(c) /\ ~reg.halt
            \/ tm.pc = "held" /\ (reg.status = "error" \/ arm = Goal(c)))'
  BY <1>1, <1>3, <1>5 DEF Later
<1>11. (call[c].io = "awaitAck" \/ (call[c].io = "cleanup" /\ call[c].ok) =>
         reg.trigger /\ tm.pc = "held" /\ arm = Goal(c))'
  BY <1>1, <1>4, <1>5, <1>6 DEF Later
<1>12. (call[c].io = "end" /\ call[c].ok => Quiet /\ arm = Goal(c))'
  BY <1>1, <1>5 DEF Later
<1> QED BY <1>7, <1>8, <1>9, <1>10, <1>11, <1>12 DEF Later

LEMMA TmStep ==
  ASSUME Sound, IInv, TMflow PROVE IInv'
<1>1. Typed /\ Typed' /\ UNCHANGED <<closed, at, lastId, lock, call, used>>
  BY TmTyped DEF IInv
<1>2. ASSUME NEW c \in Caller, OnItsWay(c) PROVE OnItsWay(c)'
  <2>1. PICK m \in Moves : OnPlan(c, m) /\ Motioned(c, m) /\ (call[c].fit => Carried(c, m))
    BY <1>2 DEF OnItsWay
  <2>2. OnPlan(c, m)' /\ (call[c].fit => Carried(c, m))'
    BY <1>1, <2>1 DEF OnPlan, Carried, InHand, Holding, On, Left
  <2>3. /\ Quiet => Quiet' /\ arm' = arm
        /\ AtRest => AtRest' /\ arm' = arm
        /\ tm.pc = "moving" => tm'.pc = "moving" \/ AtRest'
    BY <1>1, TmRests DEF IInv, AtRest
  <2>4. Later(c) => Later(c)'
    BY <1>1, TmLater
  <2>5. Left(c)' = Left(c)
    BY <1>1 DEF Left
  <2>6. Motioned(c, m)'
    <3>1. (call[c].io = "off" /\ Left(c) + 1 < Total(m) /\ Ahead(m, Left(c) + 1).op = "go" =>
             arm = Ahead(m, Left(c) + 1).pose)'
      <4>1. Left(c) # Total(m) /\ call[c].io = "off" => Quiet
        BY <2>1 DEF Motioned
      <4>2. Left(c) + 1 < Total(m) => Left(c) # Total(m)
        BY <1>1 DEF Left, Typed, CallRecord, Total
      <4> QED BY <1>1, <2>1, <2>3, <2>5, <4>1, <4>2 DEF Motioned
    <3> QED BY <1>1, <2>1, <2>3, <2>4, <2>5, <3>1 DEF Motioned
  <2> QED BY <1>1, <2>1, <2>2, <2>6 DEF OnItsWay
<1>3. NothingIsDropped'
  BY <1>1 DEF IInv, NothingIsDropped, On
<1> QED BY <1>1, <1>2, <1>3 DEF IInv, Outlived

-----------------------------------------------------------------------------
(* The sender.                                                             *)

\* What a sender's step keeps of the invariant, up to the motion itself.
LEMMA SenderKeepsRest ==
  ASSUME Sound, IInv, NEW c \in Caller, call[c].svc = "run", NEW m \in Moves,
         OnPlan(c, m), call[c].fit => Carried(c, m),
         NEW v \in Places, NEW b \in BOOLEAN, (To(c, v) /\ b = call[c].ok) \/ Ends(c, v, b),
         SenderKeeps, reg'.status = reg.status, Typed', Motioned(c, m)'
  PROVE  IInv'
<1>1. /\ call'[c].svc = call[c].svc /\ call'[c].todo = call[c].todo
      /\ call'[c].lifts = call[c].lifts /\ call'[c].takes = call[c].takes /\ call'[c].to = call[c].to
      /\ call'[c].fit = call[c].fit
      /\ \A d \in Caller \ {c} : call'[d] = call[d]
  BY SenderMoves DEF IInv
<1>2. OnPlan(c, m)' /\ (call[c].fit => Carried(c, m))'
  BY <1>1 DEF OnPlan, Carried, InHand, Holding, On, Left, SenderKeeps, plant
<1>3. OnItsWay(c)'
  BY <1>2 DEF OnItsWay
<1>4. ASSUME NEW d \in Caller PROVE Outlived(d)' /\ (call'[d].svc = "run" => d = c)
  <2>1. call'[d].svc = "run" => d = c
    BY <1>1, OneHolds DEF IInv
  <2> QED BY <1>1, <2>1 DEF Outlived, IInv
<1>5. NothingIsDropped'
  BY DEF IInv, NothingIsDropped, On, SenderKeeps, plant
<1> QED BY <1>3, <1>4, <1>5 DEF IInv

\* A run caller's register write: done, refused, or done and not heard of.
LEMMA WriteStep ==
  ASSUME Sound, IInv, NEW c \in Caller, call[c].svc = "run", WriteId(c) \/ WritePose(c) \/ SetTrigger(c)
  PROVE  IInv'
<1>1. PICK m \in Moves : OnPlan(c, m) /\ Motioned(c, m) /\ (call[c].fit => Carried(c, m))
  BY DEF IInv, OnItsWay
<1>2. Typed /\ SenderKeeps
  BY DEF IInv, WriteId, WritePose, SetTrigger, Write
<1>3. call[c].io \in {"id", "pose", "trigger"}
  BY DEF WriteId, WritePose, SetTrigger, Write
<1>4. Left(c) # 0 /\ Goal(c) \in Pose
  <2>1. Left(c) # 0 /\ Ahead(m, Left(c)).op = "go"
    BY <1>1, <1>2, <1>3 DEF Motioned, Left, Typed, CallRecord
  <2>2. Step(c) \in Steps /\ Step(c).op = "go"
    BY <1>1, <1>2, <2>1, StepOf
  <2> QED BY <2>1, <2>2 DEF Steps, Goal
<1>5. PICK v \in Places, b \in BOOLEAN :
        /\ (To(c, v) /\ b = call[c].ok) \/ Ends(c, v, b)
        /\ \/ call[c].io = "id" /\ v = "pose" /\ reg' = [reg EXCEPT !.id = call[c].id]
           \/ call[c].io = "pose" /\ v = "trigger" /\ reg' = [reg EXCEPT !.pose = Goal(c)]
           \/ call[c].io = "trigger" /\ v = "ack" /\ reg' = [reg EXCEPT !.trigger = TRUE]
           \/ v = "end" /\ ~b /\ reg' \in {reg, [reg EXCEPT !.id = call[c].id], [reg EXCEPT !.pose = Goal(c)],
                                           [reg EXCEPT !.trigger = TRUE]}
  <2>1. call[c].ok \in BOOLEAN
    BY <1>2 DEF Typed, CallRecord
  <2>2. ASSUME NEW from, NEW to \in Places, NEW new, Write(c, from, to, new)
        PROVE  /\ call[c].io = from
               /\ \/ reg' = new /\ To(c, to)
                  \/ reg' \in {reg, new} /\ Ends(c, "end", FALSE)
    BY <2>2 DEF Write
  <2>3. {"pose", "trigger", "ack", "end"} \subseteq Places
    BY DEF Places
  <2>4. CASE WriteId(c)
    BY <2>1, <2>2, <2>3, <2>4 DEF WriteId
  <2>5. CASE WritePose(c)
    BY <2>1, <2>2, <2>3, <2>5 DEF WritePose
  <2>6. CASE SetTrigger(c)
    BY <2>1, <2>2, <2>3, <2>6 DEF SetTrigger
  <2> QED BY <2>4, <2>5, <2>6
<1>6. /\ call' \in [Caller -> CallRecord]
      /\ call'[c].io = v /\ call'[c].ok = b
      /\ call'[c].svc = call[c].svc /\ call'[c].todo = call[c].todo /\ call'[c].id = call[c].id
      /\ \A d \in Caller : call'[d].svc = call[d].svc
      /\ \A d \in Caller \ {c} : call'[d] = call[d]
  BY <1>2, <1>5, SenderMoves
<1>7. call[c].id \in Nat
  BY <1>2 DEF Typed, CallRecord
<1>8. reg' \in [id : Nat, pose : Pose \cup {NoPose}, trigger : BOOLEAN, ack : Nat,
                status : {"idle", "moving", "complete", "error"}, halt : BOOLEAN]
      /\ reg'.status = reg.status
  BY <1>2, <1>4, <1>5, <1>7 DEF Typed, TypeOK
<1>9. Typed'
  BY <1>2, <1>6, <1>8 DEF Typed, TypeOK, SenderKeeps, plant, Places
<1>10. Left(c)' = Left(c) /\ Goal(c)' = Goal(c)
  BY <1>6 DEF Left, Goal, Step
<1>11. Left(c) < Total(m) => Later(c)'
  <2> SUFFICES ASSUME Left(c) < Total(m), Later(c) PROVE Later(c)'
    BY <1>1, <1>3 DEF Motioned
  <2>1. tm' = tm /\ arm' = arm
    BY <1>2 DEF SenderKeeps, plant
  <2> QED BY <1>2, <1>3, <1>5, <1>6, <1>10, <2>1 DEF Later, Quiet, Typed, TypeOK
<1>12. Motioned(c, m)'
  BY <1>1, <1>3, <1>5, <1>6, <1>10, <1>11 DEF Motioned
<1> QED BY <1>1, <1>2, <1>5, <1>8, <1>9, <1>12, SenderKeepsRest

Reads(c) == Acked(c) \/ Started(c) \/ ReadStatus(c) \/ ReadAck(c) \/ GivesUp(c)

\* What a sender reads, and where it goes on.
LEMMA ReadOutcome ==
  ASSUME Typed, NEW c \in Caller, Reads(c)
  PROVE  /\ UNCHANGED reg /\ SenderKeeps
         /\ \E v \in Places, b \in BOOLEAN :
              /\ (To(c, v) /\ b = call[c].ok) \/ Ends(c, v, b)
              /\ \/ call[c].io = "ack" /\ v = "start"
                 \/ call[c].io = "start" /\ v = "await" /\ tm.pc = "moving"
                 \/ call[c].io = "await" /\ v = "awaitAck" /\ reg.status \in {"complete", "idle"}
                 \/ call[c].io = "awaitAck" /\ (v = "await" \/ (v = "cleanup" /\ b))
                 \/ call[c].io \in {"ack", "start", "await", "awaitAck"} /\ v = "cleanup" /\ ~b
<1> USE DEF Places, SenderReads
<1>1. call[c].ok \in BOOLEAN /\ (reg.status = "moving" <=> tm.pc = "moving")
  BY DEF Typed, CallRecord
<1>2. CASE Acked(c)
  BY <1>1, <1>2 DEF Acked
<1>3. CASE Started(c)
  BY <1>1, <1>3 DEF Started
<1>4. CASE ReadStatus(c)
  BY <1>1, <1>4 DEF ReadStatus, Ends
<1>5. CASE ReadAck(c)
  BY <1>1, <1>5 DEF ReadAck
<1>6. CASE GivesUp(c)
  BY <1>1, <1>6 DEF GivesUp
<1> QED BY <1>2, <1>3, <1>4, <1>5, <1>6 DEF Reads

LEMMA OwnRead ==
  ASSUME Sound, IInv, NEW c \in Caller, call[c].svc = "run", Reads(c) PROVE IInv'
<1>1. PICK m \in Moves : OnPlan(c, m) /\ Motioned(c, m) /\ (call[c].fit => Carried(c, m))
  BY DEF IInv, OnItsWay
<1>2. Typed /\ SenderKeeps /\ reg' = reg
  BY ReadOutcome DEF IInv
<1>3. PICK v \in Places, b \in BOOLEAN :
        /\ (To(c, v) /\ b = call[c].ok) \/ Ends(c, v, b)
        /\ \/ call[c].io = "ack" /\ v = "start"
           \/ call[c].io = "start" /\ v = "await" /\ tm.pc = "moving"
           \/ call[c].io = "await" /\ v = "awaitAck" /\ reg.status \in {"complete", "idle"}
           \/ call[c].io = "awaitAck" /\ (v = "await" \/ (v = "cleanup" /\ b))
           \/ call[c].io \in {"ack", "start", "await", "awaitAck"} /\ v = "cleanup" /\ ~b
  BY <1>2, ReadOutcome
<1>4. /\ call' \in [Caller -> CallRecord]
      /\ call'[c].io = v /\ call'[c].ok = b
      /\ call'[c].svc = call[c].svc /\ call'[c].todo = call[c].todo /\ call'[c].id = call[c].id
      /\ \A d \in Caller : call'[d].svc = call[d].svc
      /\ \A d \in Caller \ {c} : call'[d] = call[d]
  BY <1>2, <1>3, SenderMoves
<1>5. Typed'
  BY <1>2, <1>4 DEF Typed, TypeOK, SenderKeeps, plant, Places
<1>6. Left(c)' = Left(c) /\ Goal(c)' = Goal(c) /\ UNCHANGED <<reg, tm, arm>>
  BY <1>2, <1>4 DEF Left, Goal, Step, SenderKeeps, plant
<1>7. (Quiet' <=> Quiet) /\ (AtRest' <=> AtRest) /\ (reg.status = "moving" <=> tm.pc = "moving")
  BY <1>2, <1>6 DEF Quiet, AtRest, Typed
<1>8. Left(c) < Total(m) => Later(c)'
  <2> SUFFICES ASSUME Left(c) < Total(m), Later(c) PROVE Later(c)'
    BY <1>1, <1>3 DEF Motioned
  <2> QED BY <1>3, <1>4, <1>6, <1>7 DEF Later
<1>9. Motioned(c, m)'
  BY <1>1, <1>3, <1>4, <1>6, <1>7, <1>8 DEF Motioned
<1> QED BY <1>1, <1>2, <1>3, <1>5, <1>9, SenderKeepsRest

LEMMA OwnCleanup ==
  ASSUME Sound, IInv, NEW c \in Caller, call[c].svc = "run", Cleanup(c) PROVE IInv'
<1>1. PICK m \in Moves : OnPlan(c, m) /\ Motioned(c, m) /\ (call[c].fit => Carried(c, m))
  BY DEF IInv, OnItsWay
<1>2. /\ Typed /\ SenderKeeps /\ call[c].io = "cleanup" /\ To(c, "end") /\ reg' = [reg EXCEPT !.trigger = FALSE]
      /\ "end" \in Places /\ call[c].ok \in BOOLEAN
  BY DEF IInv, Cleanup, Places, Typed, CallRecord
<1>3. /\ call' \in [Caller -> CallRecord]
      /\ call'[c].io = "end" /\ call'[c].ok = call[c].ok
      /\ call'[c].svc = call[c].svc /\ call'[c].todo = call[c].todo /\ call'[c].id = call[c].id
      /\ \A d \in Caller : call'[d].svc = call[d].svc
      /\ \A d \in Caller \ {c} : call'[d] = call[d]
  BY <1>2, SenderMoves
<1>4. /\ Typed' /\ reg'.status = reg.status
      /\ AtRest => Quiet'
  BY <1>2, <1>3 DEF Typed, TypeOK, SenderKeeps, plant, Places, AtRest, Quiet
<1>5. Left(c)' = Left(c) /\ Goal(c)' = Goal(c) /\ arm' = arm
  BY <1>2, <1>3 DEF Left, Goal, Step, SenderKeeps, plant
<1>6. Left(c) < Total(m) => Later(c)'
  <2> SUFFICES ASSUME Left(c) < Total(m), Later(c) PROVE Later(c)'
    BY <1>1, <1>2 DEF Motioned
  <2>1. tm.pc = "held" => AtRest
    BY DEF AtRest
  <2> QED BY <1>2, <1>3, <1>4, <1>5, <2>1 DEF Later
<1>7. Motioned(c, m)'
  BY <1>1, <1>2, <1>3, <1>4, <1>5, <1>6 DEF Motioned
<1> QED BY <1>1, <1>2, <1>4, <1>7, SenderKeepsRest

\* A sender that was left behind reads, and clears the trigger at most.
LEMMA LeftBehindStep ==
  ASSUME Sound, IInv, NEW c \in Caller, call[c].svc # "run", Sender(c) PROVE IInv'
<1>1. call[c].io \in {"await", "awaitAck", "cleanup"} /\ call[c].svc \in {"halt", "join"}
  BY DEF IInv, Outlived, Typed, CallRecord, Sender, WriteId, WritePose, SetTrigger, Write, Acked, Started, ReadStatus, ReadAck,
         GivesUp, Cleanup
<1>2. Reads(c) \/ Cleanup(c)
  BY <1>1 DEF Sender, Reads, WriteId, WritePose, SetTrigger, Write
<1>3. Typed
  BY DEF IInv
<1>4. PICK v \in {"await", "awaitAck", "cleanup", "end"}, b \in BOOLEAN :
        /\ (To(c, v) /\ b = call[c].ok) \/ Ends(c, v, b)
        /\ reg' \in {reg, [reg EXCEPT !.trigger = FALSE]} /\ SenderKeeps
  <2>1. CASE Reads(c)
    BY <1>1, <1>3, <2>1, ReadOutcome
  <2>2. CASE Cleanup(c)
    BY <1>3, <2>2 DEF Cleanup, Typed, CallRecord
  <2> QED BY <1>2, <2>1, <2>2
<1>5. /\ call' \in [Caller -> CallRecord]
      /\ call'[c].io = v /\ call'[c].svc = call[c].svc
      /\ \A d \in Caller : call'[d].svc = call[d].svc
      /\ \A d \in Caller \ {c} : call'[d] = call[d]
  BY <1>3, <1>4, SenderMoves DEF Places
<1>6. Typed'
  <2>1. /\ reg' \in [id : Nat, pose : Pose \cup {NoPose}, trigger : BOOLEAN, ack : Nat,
                    status : {"idle", "moving", "complete", "error"}, halt : BOOLEAN]
        /\ reg'.status = reg.status
    BY <1>3, <1>4 DEF Typed, TypeOK
  <2> QED BY <1>3, <1>4, <1>5, <2>1 DEF Typed, TypeOK, SenderKeeps, plant, Places
<1>7. ASSUME NEW d \in Caller, call'[d].svc = "run" PROVE OnItsWay(d)'
  <2>1. d # c /\ call[d].svc = "run" /\ call'[d] = call[d]
    BY <1>5, <1>7
  <2>2. call[c].svc = "join"
    BY <1>1, <1>3, <2>1, OneHolds
  <2> QED BY <1>3, <1>4, <1>5, <2>1, <2>2, Untouched DEF IInv, SenderKeeps
<1>8. \A d \in Caller : Outlived(d)'
  BY <1>1, <1>5 DEF Outlived, IInv
<1>9. NothingIsDropped'
  BY <1>4 DEF IInv, NothingIsDropped, On, SenderKeeps, plant
<1> QED BY <1>6, <1>7, <1>8, <1>9 DEF IInv

LEMMA SenderStep == ASSUME Sound, IInv, NEW c \in Caller, Sender(c) PROVE IInv'
  BY WriteStep, OwnRead, OwnCleanup, LeftBehindStep DEF Sender, Reads

-----------------------------------------------------------------------------
(* The service.                                                            *)

LEMMA NoCallTyped == NoCall \in CallRecord
  BY EmptySeq DEF NoCall, CallRecord, Places

\* A caller that ends a move concerns nobody but itself.
LEMMA OneEnds ==
  ASSUME Sound, IInv, NEW c \in Caller, call' = [call EXCEPT ![c] = NoCall], UNCHANGED <<reg, tm, arm>>,
         lock' = IF call[c].svc \in {"run", "halt"} THEN None ELSE lock, lastId' \in Nat, used' = used,
         \/ UNCHANGED plant
         \/ /\ call[c].svc = "run" /\ closed' \in BOOLEAN
            /\ at' \in [Piece -> Place \cup {"hand", "dropped"}] /\ NothingIsDropped'
  PROVE  IInv'
<1>1. /\ call' \in [Caller -> CallRecord] /\ call'[c].svc = "idle" /\ call'[c].io = "off"
      /\ \A d \in Caller \ {c} : call'[d] = call[d]
  <2>1. NoCall.svc = "idle" /\ NoCall.io = "off"
    BY DEF NoCall
  <2> QED BY <2>1, NoCallTyped DEF IInv, Typed
<1>2. Typed'
  <2>1. \A d \in Caller : lock' = d <=> call'[d].svc \in {"run", "halt"}
    BY <1>1, OneHolds DEF IInv, Typed, TypeOK, Sound
  <2>2. lock' \in Caller \cup {None}
    BY DEF IInv, Typed, TypeOK
  <2>3. \A d \in Caller : call'[d].svc \in {"idle", "run", "halt", "join"} /\ call'[d].io \in Places
    BY <1>1 DEF CallRecord
  <2> QED BY <1>1, <2>1, <2>2, <2>3 DEF IInv, Typed, TypeOK, plant, Places
<1>3. ASSUME NEW d \in Caller, call'[d].svc = "run" PROVE OnItsWay(d)'
  <2>1. d # c /\ call'[d] = call[d] /\ call[d].svc = "run"
    BY <1>1, <1>3
  <2>2. UNCHANGED plant
    BY <2>1, OneHolds DEF IInv
  <2> QED BY <1>1, <2>1, <2>2, Untouched DEF IInv
<1>4. \A d \in Caller : Outlived(d)'
  BY <1>1 DEF Outlived, IInv
<1>5. NothingIsDropped'
  BY DEF IInv, NothingIsDropped, On, plant
<1> QED BY <1>2, <1>3, <1>4, <1>5 DEF IInv

LEMMA RestartStep == ASSUME Sound, IInv, Restart PROVE IInv'
<1>1. call' = [c \in Caller |-> NoCall] /\ lock' = None /\ lastId' = 0 /\ UNCHANGED <<reg, tm, plant, used>>
  BY DEF Restart
<1>2. \A c \in Caller : call'[c] = NoCall /\ NoCall.svc = "idle" /\ NoCall.io = "off"
  BY <1>1 DEF NoCall
<1>3. Typed'
  <2>1. call' \in [Caller -> CallRecord]
    BY <1>1, NoCallTyped
  <2> QED BY <1>1, <1>2, <2>1 DEF IInv, Typed, TypeOK, plant, Sound
<1>4. NothingIsDropped'
  BY <1>1 DEF IInv, NothingIsDropped, On, plant
<1> QED BY <1>2, <1>3, <1>4 DEF IInv, Outlived

\* A move begins with its whole plan ahead.
LEMMA MoveStep == ASSUME Sound, IInv, NEW c \in Caller, MovePiece(c) PROVE IInv'
<1>1. UNCHANGED <<reg, tm, plant, lastId>> /\ call[c].svc = "idle" /\ lock = None /\ Typed
  BY DEF MovePiece, IInv
<1>2. NothingIsDropped'
  BY <1>1 DEF IInv, NothingIsDropped, On, plant
<1>3. PICK m \in Moves : /\ used' = used \cup {m}
                         /\ \/ UNCHANGED <<lock, call>>
                            \/ /\ lock' = c
                               /\ call' = [call EXCEPT ![c] =
                                    [svc |-> "run", todo |-> Plan(m), io |-> "off", id |-> 0, ok |-> FALSE,
                                     lifts |-> On(m.from), takes |-> IF m.capture THEN On(m.to) ELSE {},
                                     to |-> m.to, fit |-> Fit(m)]]
  BY DEF MovePiece
<1>4. \A d \in Caller : call[d].svc \notin {"run", "halt"}
  BY <1>1 DEF Typed, TypeOK, Sound
<1>5. CASE UNCHANGED <<lock, call>>
  BY <1>1, <1>2, <1>3, <1>4, <1>5 DEF IInv, Typed, TypeOK, plant, Outlived
<1>6. CASE lock' # lock \/ call' # call
  <2> DEFINE new == [svc |-> "run", todo |-> Plan(m), io |-> "off", id |-> 0, ok |-> FALSE,
                     lifts |-> On(m.from), takes |-> IF m.capture THEN On(m.to) ELSE {},
                     to |-> m.to, fit |-> Fit(m)]
  <2>1. lock' = c /\ call' = [call EXCEPT ![c] = new]
    BY <1>3, <1>6
  <2>2. new \in CallRecord
    <3>1. m.to \in Place /\ Plan(m) \in Seq(Steps) /\ Fit(m) \in BOOLEAN /\ On(m.from) \subseteq Piece /\ On(m.to) \subseteq Piece
      BY PlanIs DEF Sound, Fit, On
    <3> QED BY <3>1 DEF CallRecord, Places
  <2>3. /\ new.svc = "run" /\ new.todo = Plan(m) /\ new.io = "off" /\ new.id = 0 /\ new.lifts = On(m.from)
        /\ new.takes = (IF m.capture THEN On(m.to) ELSE {}) /\ new.to = m.to /\ new.fit = Fit(m)
    OBVIOUS
  <2> HIDE DEF new
  <2>4. call' \in [Caller -> CallRecord] /\ call'[c] = new /\ \A d \in Caller \ {c} : call'[d] = call[d]
    BY <1>1, <2>1, <2>2 DEF Typed
  <2>5. Typed'
    <3>1. \A d \in Caller : lock' = d <=> call'[d].svc \in {"run", "halt"}
      BY <1>4, <2>1, <2>3, <2>4
    <3>2. \A d \in Caller : call'[d].svc \in {"idle", "run", "halt", "join"} /\ call'[d].io \in Places
      BY <2>4 DEF CallRecord
    <3>3. used' \subseteq Moves
      BY <1>1, <1>3 DEF Typed, TypeOK
    <3> QED BY <1>1, <2>1, <2>4, <3>1, <3>2, <3>3 DEF Typed, TypeOK, plant, Places
  <2>6. Left(c)' = Total(m) /\ Total(m) \in {8, 16} /\ (m.capture <=> Total(m) = 16)
    <3>1. Left(c)' = Len(Plan(m))
      BY <2>3, <2>4 DEF Left
    <3>2. m.capture \in BOOLEAN
      BY DEF Sound
    <3>3. Total(m) \in {8, 16} /\ (m.capture <=> Total(m) = 16)
      BY <3>2 DEF Total
    <3>4. Len(Plan(m)) = Total(m)
      BY PlanIs
    <3> QED BY <3>1, <3>3, <3>4
  <2>7. OnPlan(c, m)'
    BY <2>3, <2>4, PlanIs DEF OnPlan, Follows
  <2>8. Motioned(c, m)'
    BY <2>3, <2>4, <2>6 DEF Motioned
  <2>9. Fit(m) => Carried(c, m)'
    <3>1. On(m.from)' = On(m.from) /\ On(m.to)' = On(m.to) /\ On("hand")' = On("hand") /\ closed' = closed
      BY <1>1 DEF On, plant
    <3>2. ~InHand(c)' /\ Holding(c)' = {}
      BY <2>6 DEF InHand, Holding
    <3>3. CASE m.capture
      BY <2>3, <2>4, <2>6, <3>1, <3>2, <3>3 DEF Carried, Fit
    <3>4. CASE ~m.capture
      BY <2>3, <2>4, <2>6, <3>1, <3>2, <3>4 DEF Carried, Fit
    <3> QED BY <3>3, <3>4
  <2>10. OnItsWay(c)'
    BY <2>3, <2>4, <2>7, <2>8, <2>9 DEF OnItsWay
  <2>11. \A d \in Caller : Outlived(d)' /\ (call'[d].svc = "run" => d = c)
    BY <1>4, <2>3, <2>4 DEF Outlived, IInv
  <2> QED BY <1>2, <2>5, <2>10, <2>11 DEF IInv
<1> QED BY <1>5, <1>6

\* A step of the runner, which keeps the lock: the others are as they were.
LEMMA RunnerSteps ==
  ASSUME Sound, IInv, NEW c \in Caller, call[c].svc = "run", call'[c] \in CallRecord, call'[c].svc = "run",
         call' = [call EXCEPT ![c] = call'[c]], UNCHANGED <<reg, tm, arm, lock, used>>, lastId' \in Nat,
         closed' \in BOOLEAN, at' \in [Piece -> Place \cup {"hand", "dropped"}], NothingIsDropped',
         OnItsWay(c)'
  PROVE  IInv'
<1>1. call' \in [Caller -> CallRecord] /\ \A d \in Caller \ {c} : call'[d] = call[d]
  BY DEF IInv, Typed
<1>2. \A d \in Caller : call'[d].svc = call[d].svc /\ call'[d].io \in Places
  BY <1>1 DEF CallRecord
<1>3. Typed'
  BY <1>1, <1>2 DEF IInv, Typed, TypeOK, Places
<1>4. ASSUME NEW d \in Caller PROVE Outlived(d)' /\ (call'[d].svc = "run" => d = c)
  <2>1. call'[d].svc = "run" => d = c
    BY <1>2, OneHolds DEF IInv
  <2> QED BY <1>1, <1>2, <2>1 DEF Outlived, IInv
<1> QED BY <1>3, <1>4 DEF IInv

LEMMA MotionStep == ASSUME Sound, IInv, NEW c \in Caller, Motion(c) PROVE IInv'
<1> DEFINE new == [call[c] EXCEPT !.io = "id", !.id = lastId + 1]
<1>1. /\ call[c].svc = "run" /\ call[c].io = "off" /\ call[c].todo # << >> /\ Step(c).op = "go"
      /\ call[c].id = 0 \/ \A d \in Caller : call[d].svc # "join"
      /\ lastId' = lastId + 1 /\ UNCHANGED <<reg, tm, arm, closed, at, lock, used>>
  BY DEF Motion, Running, plant
<1>2. call[c] \in CallRecord /\ lastId \in Nat /\ Typed
  BY DEF IInv, Typed, TypeOK
<1>3. /\ new \in CallRecord /\ new.svc = "run" /\ new.io = "id" /\ new.id = lastId + 1 /\ new.todo = call[c].todo
      /\ new.ok = call[c].ok /\ new.lifts = call[c].lifts /\ new.takes = call[c].takes /\ new.to = call[c].to
      /\ new.fit = call[c].fit
  <2>1. lastId + 1 \in Nat
    BY <1>2
  <2> QED BY <1>1, <1>2, <2>1 DEF CallRecord, Places
<1>4. call' = [call EXCEPT ![c] = new]
  BY <1>1, <1>2 DEF Motion
<1> HIDE DEF new
<1>5. call'[c] = new
  BY <1>2, <1>4 DEF Typed
<1>6. PICK m \in Moves : OnPlan(c, m) /\ Motioned(c, m) /\ (call[c].fit => Carried(c, m))
  BY <1>1 DEF IInv, OnItsWay
<1>7. Left(c)' = Left(c) /\ Goal(c)' = Goal(c) /\ lastId + 1 # 0 /\ lastId' \in Nat
  BY <1>1, <1>2, <1>3, <1>5 DEF Left, Goal, Step
<1>8. Left(c) > 0 /\ Ahead(m, Left(c)).op = "go"
  <2>1. Left(c) # 0
    BY <1>1, <1>2, EmptySeq DEF CallRecord, Left
  <2> QED BY <1>1, <1>2, <1>6, <2>1, StepOf
<1>9. Left(c) < Total(m) => Later(c)'
  <2> SUFFICES ASSUME Left(c) < Total(m) PROVE Later(c)'
    OBVIOUS
  <2>1. call[c].id # 0
    <3>1. Left(c) \in Nat /\ Total(m) \in Nat
      BY <1>2 DEF Left, CallRecord, Total
    <3> QED BY <1>6, <3>1 DEF Motioned
  <2>2. Quiet /\ \A d \in Caller : call'[d].svc = call[d].svc
    BY <1>1, <1>2, <1>3, <1>4, <1>6, <2>1 DEF Motioned, Typed
  <2> QED BY <1>1, <1>3, <1>5, <2>1, <2>2 DEF Later, Quiet
<1>10. Motioned(c, m)'
  BY <1>3, <1>5, <1>7, <1>8, <1>9 DEF Motioned
<1>11. OnPlan(c, m)' /\ (call[c].fit => Carried(c, m)')
  BY <1>1, <1>3, <1>5, <1>6, <1>7 DEF OnPlan, Carried, InHand, Holding, On
<1>12. OnItsWay(c)'
  BY <1>3, <1>5, <1>10, <1>11 DEF OnItsWay
<1> QED BY <1>1, <1>2, <1>3, <1>4, <1>7, <1>12, RunnerSteps DEF IInv, Typed, TypeOK, NothingIsDropped, On

\* The runner's call with its first step done.
LEMMA StepDone ==
  ASSUME Sound, Typed, NEW c \in Caller, call[c].todo # << >>, NEW m \in Moves, OnPlan(c, m),
         call' = [call EXCEPT ![c] = [call[c] EXCEPT !.io = "off", !.todo = Tail(call[c].todo)]]
  PROVE  /\ call' = [call EXCEPT ![c] = call'[c]]
         /\ call'[c] \in CallRecord /\ call'[c].svc = call[c].svc /\ call'[c].io = "off" /\ call'[c].id = call[c].id
         /\ call'[c].lifts = call[c].lifts /\ call'[c].takes = call[c].takes /\ call'[c].to = call[c].to
         /\ call'[c].fit = call[c].fit
         /\ Left(c) \in 1..16 /\ Left(c) <= Total(m) /\ Left(c)' = Left(c) - 1 /\ OnPlan(c, m)'
<1> DEFINE new == [call[c] EXCEPT !.io = "off", !.todo = Tail(call[c].todo)]
<1>1. call[c] \in CallRecord /\ call[c].todo \in Seq(Steps)
  BY DEF Typed, CallRecord
<1>2. /\ Left(c) \in 1..16 /\ Tail(call[c].todo) \in Seq(Steps) /\ Len(Tail(call[c].todo)) = Left(c) - 1
      /\ Follows(Tail(call[c].todo), m)
  BY <1>1, AfterTheHead DEF OnPlan, Left
<1>3. Left(c) <= Total(m)
  BY DEF OnPlan, Follows, Left
<1>4. /\ new \in CallRecord /\ new.svc = call[c].svc /\ new.io = "off" /\ new.id = call[c].id
      /\ new.lifts = call[c].lifts /\ new.takes = call[c].takes /\ new.to = call[c].to /\ new.fit = call[c].fit
      /\ new.todo = Tail(call[c].todo)
  BY <1>1, <1>2 DEF CallRecord, Places
<1>5. call' = [call EXCEPT ![c] = new]
  OBVIOUS
<1> HIDE DEF new
<1>6. call'[c] = new
  BY <1>5 DEF Typed
<1>7. Left(c)' = Left(c) - 1 /\ OnPlan(c, m)'
  BY <1>2, <1>4, <1>6 DEF Left, OnPlan
<1> QED BY <1>2, <1>3, <1>4, <1>5, <1>6, <1>7

\* A motion that was reported done moved the arm where the step says, and no piece.
LEMMA MotionEndsStep == ASSUME Sound, IInv, NEW c \in Caller, MotionEnds(c) PROVE IInv'
<1>1. /\ call[c].svc = "run" /\ call[c].io = "end" /\ call[c].todo # << >> /\ Typed
      /\ UNCHANGED <<reg, tm, arm, closed, at, lastId, used>>
  BY DEF MotionEnds, Running, plant, IInv
<1>2. CASE ~call[c].ok
  BY <1>1, <1>2, OneEnds DEF MotionEnds, Fails, plant, IInv, Typed, TypeOK
<1>3. CASE call[c].ok
  <2>1. call' = [call EXCEPT ![c] = [call[c] EXCEPT !.io = "off", !.todo = Tail(call[c].todo)]] /\ lock' = lock
    BY <1>1, <1>3 DEF MotionEnds, Typed, CallRecord
  <2>2. PICK m \in Moves : OnPlan(c, m) /\ Motioned(c, m) /\ (call[c].fit => Carried(c, m))
    BY <1>1 DEF IInv, OnItsWay
  <2>4. /\ call' = [call EXCEPT ![c] = call'[c]]
        /\ call'[c] \in CallRecord /\ call'[c].svc = call[c].svc /\ call'[c].io = "off" /\ call'[c].id = call[c].id
        /\ call'[c].lifts = call[c].lifts /\ call'[c].takes = call[c].takes /\ call'[c].to = call[c].to
        /\ call'[c].fit = call[c].fit
        /\ Left(c) \in 1..16 /\ Left(c) <= Total(m) /\ Left(c)' = Left(c) - 1 /\ OnPlan(c, m)'
    BY <1>1, <2>1, <2>2, StepDone
  <2>5. Ahead(m, Left(c)).op = "go" /\ Goal(c) = Ahead(m, Left(c)).pose /\ Left(c) \notin {2, 6, 10, 14}
    <3>1. Left(c) # 0
      BY <2>4
    <3> QED BY <1>1, <2>2, <2>4, <3>1, StepOf DEF Goal, Motioned
  <2>6. Quiet /\ call[c].id # 0 /\ (Left(c) < Total(m) => arm = Goal(c))
    BY <1>1, <1>3, <2>2 DEF Motioned, Later
  <2>7. Total(m) \in {8, 16}
    BY DEF Total
  <2>8. Motioned(c, m)'
    <3>1. Left(c)' + 1 = Left(c) /\ Left(c)' < Total(m)
      BY <2>4, <2>7
    <3> QED BY <1>1, <2>4, <2>5, <2>6, <3>1 DEF Motioned, Quiet
  <2>9. call[c].fit => Carried(c, m)'
    <3>1. /\ Left(c)' \in 2..5 <=> Left(c) \in 2..5
          /\ Left(c)' \in 10..13 <=> Left(c) \in 10..13
          /\ Left(c)' >= 6 => Left(c) >= 6
          /\ Left(c)' <= 1 => Left(c) <= 1
          /\ Left(c)' >= 14 => Left(c) >= 14
          /\ Left(c)' <= 9 => Left(c) <= 9
      BY <2>4, <2>5
    <3>2. \A p : On(p)' = On(p)
      BY <1>1 DEF On
    <3>3. (InHand(c)' <=> InHand(c)) /\ Holding(c)' = Holding(c)
      BY <2>4, <3>1 DEF InHand, Holding
    <3> QED BY <1>1, <2>2, <2>4, <3>1, <3>2, <3>3 DEF Carried
  <2>10. OnItsWay(c)'
    BY <2>4, <2>8, <2>9 DEF OnItsWay
  <2> QED BY <1>1, <2>1, <2>4, <2>10, RunnerSteps DEF IInv, Typed, TypeOK, NothingIsDropped, On
<1> QED BY <1>1, <1>2, <1>3

\* What the gripper holds before a gripper step of the plan, and where the arm is.
LEMMA ArmAtGrip ==
  ASSUME Sound, Typed, NEW c \in Caller, call[c].io = "off", call[c].todo # << >>, Step(c).op = "grip",
         NEW m \in Moves, OnPlan(c, m), Motioned(c, m)
  PROVE  /\ call[c].id # 0 /\ Quiet
         /\ \/ Left(c) = 2 /\ Step(c) = Grip(FALSE) /\ arm = [place |-> m.to, z |-> "place"]
            \/ Left(c) = 6 /\ Step(c) = Grip(TRUE) /\ arm = [place |-> m.from, z |-> "grab"]
            \/ Left(c) = 10 /\ Step(c) = Grip(FALSE) /\ arm = [place |-> DeadZone, z |-> "place"]
            \/ Left(c) = 14 /\ Step(c) = Grip(TRUE) /\ arm = [place |-> m.to, z |-> "grab"]
<1>1. Left(c) # 0
  BY EmptySeq DEF Typed, CallRecord, Left
<1>2. Left(c) \in {2, 6, 10, 14} /\ Left(c) <= Total(m) /\ Step(c) = Ahead(m, Left(c))
  BY <1>1, StepOf
<1>3. Total(m) \in {8, 16}
  BY DEF Total
<1>4. Left(c) + 1 < Total(m) /\ Left(c) # Total(m) /\ Left(c) + 1 \in {3, 7, 11, 15}
  BY <1>2, <1>3
<1>5. call[c].id # 0 /\ Quiet
  BY <1>4 DEF Motioned
<1>6. arm = Ahead(m, Left(c) + 1).pose
  <2>1. Ahead(m, Left(c) + 1).op = "go"
    BY <1>4, StepIs
  <2> QED BY <1>4, <2>1 DEF Motioned
<1>7. \A p, z : Go(p, z).pose = [place |-> p, z |-> z]
  BY DEF Go
<1>8. CASE Left(c) = 2
  <2>1. Left(c) + 1 = 3
    BY <1>8
  <2>2. Ahead(m, 2) = Grip(FALSE) /\ Ahead(m, 3) = Go(m.to, "place")
    BY StepsAhead
  <2>3. Step(c) = Grip(FALSE) /\ arm = Go(m.to, "place").pose
    BY <1>2, <1>6, <1>8, <2>1, <2>2
  <2>4. arm = [place |-> m.to, z |-> "place"]
    BY <1>7, <2>3, Zenon
  <2> QED BY <1>5, <1>8, <2>3, <2>4
<1>9. CASE Left(c) = 6
  <2>1. Left(c) + 1 = 7
    BY <1>9
  <2>2. Ahead(m, 6) = Grip(TRUE) /\ Ahead(m, 7) = Go(m.from, "grab")
    BY StepsAhead
  <2>3. Step(c) = Grip(TRUE) /\ arm = Go(m.from, "grab").pose
    BY <1>2, <1>6, <1>9, <2>1, <2>2
  <2>4. arm = [place |-> m.from, z |-> "grab"]
    BY <1>7, <2>3, Zenon
  <2> QED BY <1>5, <1>9, <2>3, <2>4
<1>10. CASE Left(c) = 10
  <2>1. Left(c) + 1 = 11
    BY <1>10
  <2>2. Ahead(m, 10) = Grip(FALSE) /\ Ahead(m, 11) = Go(DeadZone, "place")
    BY StepsAhead
  <2>3. Step(c) = Grip(FALSE) /\ arm = Go(DeadZone, "place").pose
    BY <1>2, <1>6, <1>10, <2>1, <2>2
  <2>4. arm = [place |-> DeadZone, z |-> "place"]
    BY <1>7, <2>3, Zenon
  <2> QED BY <1>5, <1>10, <2>3, <2>4
<1>11. CASE Left(c) = 14
  <2>1. Left(c) + 1 = 15
    BY <1>11
  <2>2. Ahead(m, 14) = Grip(TRUE) /\ Ahead(m, 15) = Go(m.to, "grab")
    BY StepsAhead
  <2>3. Step(c) = Grip(TRUE) /\ arm = Go(m.to, "grab").pose
    BY <1>2, <1>6, <1>11, <2>1, <2>2
  <2>4. arm = [place |-> m.to, z |-> "grab"]
    BY <1>7, <2>3, Zenon
  <2> QED BY <1>5, <1>11, <2>3, <2>4
<1> QED BY <1>2, <1>8, <1>9, <1>10, <1>11

\* The gripper opens at the place of its step only, and takes what stands there.
LEMMA GrippedDrops ==
  ASSUME Sound, Typed, NothingIsDropped, NEW close \in BOOLEAN, Gripped(close), arm \in Pose, arm.z # "safe"
  PROVE  /\ closed' \in BOOLEAN /\ closed' = close /\ NothingIsDropped'
         /\ at' \in [Piece -> Place \cup {"hand", "dropped"}]
<1>1. arm.place \in Place /\ "dropped" \notin Place /\ at \in [Piece -> Place \cup {"hand", "dropped"}]
  BY DEF Sound, Pose, Typed, TypeOK
<1>2. \A x \in Piece : at[x] # "dropped"
  BY DEF NothingIsDropped, On
<1>3. at' \in [Piece -> Place \cup {"hand", "dropped"}] /\ closed' = close
  BY <1>1 DEF Gripped
<1>4. \A x \in Piece : at'[x] # "dropped"
  BY <1>1, <1>2 DEF Gripped
<1> QED BY <1>3, <1>4 DEF NothingIsDropped, On

LEMMA HeldCounts == 13 \in 10..13 /\ 13 \notin 2..5 /\ 5 \in 2..5
  OBVIOUS

LEMMA LowPoses == ASSUME NEW p PROVE [place |-> p, z |-> "grab"].z # "safe" /\ [place |-> p, z |-> "place"].z # "safe"
  OBVIOUS

\* What stands where after a gripper step of a move that was fit to begin.
LEMMA GripCarries ==
  ASSUME Sound, Typed, NEW c \in Caller, call[c].svc = "run", NEW m \in Moves, Carried(c, m), Gripped(Step(c).close),
         call'[c].lifts = call[c].lifts, call'[c].takes = call[c].takes, Left(c)' = Left(c) - 1,
         \/ Left(c) = 2 /\ Step(c) = Grip(FALSE) /\ arm = [place |-> m.to, z |-> "place"]
         \/ Left(c) = 6 /\ Step(c) = Grip(TRUE) /\ arm = [place |-> m.from, z |-> "grab"]
         \/ Left(c) = 10 /\ Step(c) = Grip(FALSE) /\ arm = [place |-> DeadZone, z |-> "place"]
         \/ Left(c) = 14 /\ Step(c) = Grip(TRUE) /\ arm = [place |-> m.to, z |-> "grab"]
  PROVE  Carried(c, m)'
<1>1. /\ m.from \in Place /\ m.to \in Place /\ m.from # m.to /\ DeadZone \notin {m.from, m.to} /\ DeadZone \in Place
      /\ "hand" \notin Place /\ at \in [Piece -> Place \cup {"hand", "dropped"}]
      /\ call[c].lifts \subseteq Piece /\ call[c].takes \subseteq Piece
  BY DEF Sound, Typed, TypeOK, CallRecord
<1>2. Grip(TRUE).close = TRUE /\ Grip(FALSE).close = FALSE
  BY DEF Grip
<1>3. /\ \A x, y \in call[c].lifts : x = y
      /\ \A x, y \in call[c].takes : x = y
  BY DEF Carried
\* A piece is lifted.
<1>4. ASSUME NEW p \in Place, arm.place = p, arm.z # "safe", ~closed, On("hand") = {}, Step(c) = Grip(TRUE),
             \A x, y \in On(p) : x = y
      PROVE  /\ closed' /\ On("hand")' = On(p)
             /\ \A q \in Place \ {p} : On(q)' = On(q)
             /\ \A x \in Piece : at[x] \in Place \ {p} => at'[x] = at[x]
  <2>1. CASE On(p) = {}
    <3>1. closed' = TRUE /\ at' = at
      BY <1>2, <1>4, <2>1 DEF Gripped
    <3> QED BY <1>4, <2>1, <3>1 DEF On
  <2>2. CASE On(p) # {}
    <3>1. PICK x \in On(p) : closed' = TRUE /\ at' = [at EXCEPT ![x] = "hand"]
      BY <1>2, <1>4, <2>2 DEF Gripped
    <3>2. x \in Piece /\ at[x] = p /\ \A y \in Piece : at'[y] = IF y = x THEN "hand" ELSE at[y]
      BY <1>1, <3>1 DEF On
    <3>3. \A y \in Piece : at[y] = p => y = x
      BY <1>4, <3>1 DEF On
    <3>4. \A y \in Piece : at[y] # "hand"
      BY <1>4 DEF On
    <3>5. On("hand")' = On(p)
      BY <3>2, <3>3, <3>4 DEF On
    <3>6. \A q \in Place \ {p} : On(q)' = On(q)
      BY <1>1, <3>2 DEF On
    <3> QED BY <3>1, <3>2, <3>5, <3>6
  <2> QED BY <2>1, <2>2
\* A piece is put down.
<1>5. ASSUME NEW p \in Place, arm.place = p, arm.z # "safe", Step(c) = Grip(FALSE)
      PROVE  /\ ~closed' /\ On("hand")' = {}
             /\ \A q \in Place \ {p} : On(q)' = On(q)
             /\ \A x \in On("hand") : at'[x] = p
             /\ \A x \in Piece : at[x] \in Place => at'[x] = at[x]
  <2>1. closed' = FALSE /\ at' = [x \in Piece |-> IF at[x] # "hand" THEN at[x] ELSE p]
    BY <1>2, <1>5 DEF Gripped
  <2> QED BY <1>1, <1>5, <2>1 DEF On
<1>6. CASE Left(c) = 14 /\ Step(c) = Grip(TRUE) /\ arm = [place |-> m.to, z |-> "grab"]
  <2>1. Left(c)' = 13 /\ arm.place = m.to /\ arm.z # "safe"
    BY <1>6
  <2>2. ~closed /\ On("hand") = {} /\ call[c].takes = On(m.to) /\ call[c].lifts = On(m.from)
    BY <1>6 DEF Carried, InHand, Holding
  <2>3. closed' /\ On("hand")' = On(m.to) /\ On(m.from)' = On(m.from)
    BY <1>1, <1>3, <1>4, <1>6, <2>1, <2>2
  <2>4. InHand(c)' /\ Holding(c)' = call[c].takes
    <3>1. Left(c)' \in 10..13 /\ Left(c)' \notin 2..5
      BY <2>1, HeldCounts, Zenon
    <3> QED BY <3>1 DEF InHand, Holding
  <2>5. (closed <=> InHand(c))' /\ (On("hand") = Holding(c))'
    BY <2>2, <2>3, <2>4
  <2> QED BY <1>3, <2>1, <2>2, <2>3, <2>5 DEF Carried
<1>7. CASE Left(c) = 10 /\ Step(c) = Grip(FALSE) /\ arm = [place |-> DeadZone, z |-> "place"]
  <2>1. Left(c)' = 9 /\ arm.place = DeadZone /\ arm.z # "safe"
    BY <1>7
  <2>2. On("hand") = call[c].takes /\ call[c].lifts = On(m.from)
    BY <1>7 DEF Carried, InHand, Holding
  <2>3. ~closed' /\ On("hand")' = {} /\ On(m.from)' = On(m.from) /\ \A x \in call[c].takes : at'[x] = DeadZone
    BY <1>1, <1>5, <1>7, <2>1, <2>2
  <2> QED BY <1>3, <2>1, <2>2, <2>3 DEF Carried, InHand, Holding
<1>8. CASE Left(c) = 6 /\ Step(c) = Grip(TRUE) /\ arm = [place |-> m.from, z |-> "grab"]
  <2>1. Left(c)' = 5 /\ arm.place = m.from /\ arm.z # "safe"
    BY <1>8
  <2>2. ~closed /\ On("hand") = {} /\ call[c].lifts = On(m.from) /\ \A x \in call[c].takes : at[x] = DeadZone
    BY <1>8 DEF Carried, InHand, Holding
  <2>3. closed' /\ On("hand")' = On(m.from) /\ \A x \in call[c].takes : at'[x] = DeadZone
    BY <1>1, <1>3, <1>4, <1>8, <2>1, <2>2
  <2>4. InHand(c)' /\ Holding(c)' = call[c].lifts
    <3>1. Left(c)' \in 2..5
      BY <2>1, HeldCounts, Zenon
    <3> QED BY <3>1 DEF InHand, Holding
  <2>5. (closed <=> InHand(c))' /\ (On("hand") = Holding(c))'
    BY <2>2, <2>3, <2>4
  <2> QED BY <1>3, <2>1, <2>2, <2>3, <2>5 DEF Carried
<1>9. CASE Left(c) = 2 /\ Step(c) = Grip(FALSE) /\ arm = [place |-> m.to, z |-> "place"]
  <2>1. Left(c)' = 1 /\ arm.place = m.to /\ arm.z # "safe"
    BY <1>9
  <2>2. On("hand") = call[c].lifts /\ \A x \in call[c].takes : at[x] = DeadZone
    BY <1>9 DEF Carried, InHand, Holding
  <2>3. ~closed' /\ On("hand")' = {} /\ (\A x \in call[c].lifts : at'[x] = m.to) /\ \A x \in call[c].takes : at'[x] = DeadZone
    BY <1>1, <1>5, <1>9, <2>1, <2>2
  <2> QED BY <1>3, <2>1, <2>2, <2>3 DEF Carried, InHand, Holding
<1> QED BY <1>6, <1>7, <1>8, <1>9

\* The gripper did it and said so, did it and did not, or did nothing.
LEMMA SetGripperStep == ASSUME Sound, IInv, NEW c \in Caller, SetGripper(c) PROVE IInv'
<1>1. /\ call[c].svc = "run" /\ call[c].io = "off" /\ call[c].todo # << >> /\ Step(c).op = "grip" /\ Typed
      /\ UNCHANGED <<reg, tm, arm, lastId, used>> /\ lastId \in Nat
  BY DEF SetGripper, Running, IInv, Typed, TypeOK
<1>2. PICK m \in Moves : OnPlan(c, m) /\ Motioned(c, m) /\ (call[c].fit => Carried(c, m))
  BY <1>1 DEF IInv, OnItsWay
<1>3. /\ call[c].id # 0 /\ Quiet
      /\ \/ Left(c) = 2 /\ Step(c) = Grip(FALSE) /\ arm = [place |-> m.to, z |-> "place"]
         \/ Left(c) = 6 /\ Step(c) = Grip(TRUE) /\ arm = [place |-> m.from, z |-> "grab"]
         \/ Left(c) = 10 /\ Step(c) = Grip(FALSE) /\ arm = [place |-> DeadZone, z |-> "place"]
         \/ Left(c) = 14 /\ Step(c) = Grip(TRUE) /\ arm = [place |-> m.to, z |-> "grab"]
  BY <1>1, <1>2, ArmAtGrip
<1>4. Step(c).close \in BOOLEAN /\ arm \in Pose /\ arm.z # "safe"
  <2>1. m.to \in Place /\ m.from \in Place /\ DeadZone \in Place
    BY DEF Sound
  <2>2. Grip(TRUE).close = TRUE /\ Grip(FALSE).close = FALSE
    BY DEF Grip
  <2>3. Step(c).close \in BOOLEAN
    BY <1>3, <2>2
  <2>4. arm.z # "safe"
    BY <1>3, LowPoses, Zenon
  <2>5. /\ [place |-> m.to, z |-> "place"] \in Pose /\ [place |-> m.from, z |-> "grab"] \in Pose
        /\ [place |-> DeadZone, z |-> "place"] \in Pose /\ [place |-> m.to, z |-> "grab"] \in Pose
    BY <2>1 DEF Pose, Height
  <2> QED BY <1>3, <2>3, <2>4, <2>5, Zenon
<1>5. Gripped(Step(c).close) => /\ closed' \in BOOLEAN /\ NothingIsDropped'
                                /\ at' \in [Piece -> Place \cup {"hand", "dropped"}]
  BY <1>1, <1>4, GrippedDrops DEF IInv
<1>6. CASE Gripped(Step(c).close) /\ Fails(c)
  BY <1>1, <1>5, <1>6, OneEnds DEF Fails
<1>7. CASE UNCHANGED <<closed, at>> /\ Fails(c)
  BY <1>1, <1>7, OneEnds DEF Fails, plant
<1>8. CASE Gripped(Step(c).close) /\ call' = [call EXCEPT ![c].todo = Tail(@)] /\ lock' = lock
  <2>1. call' = [call EXCEPT ![c] = [call[c] EXCEPT !.io = "off", !.todo = Tail(call[c].todo)]]
    <3>1. [call[c] EXCEPT !.todo = Tail(call[c].todo)] = [call[c] EXCEPT !.io = "off", !.todo = Tail(call[c].todo)]
      BY <1>1 DEF Typed, CallRecord
    <3>2. call' = [call EXCEPT ![c] = [call[c] EXCEPT !.todo = Tail(call[c].todo)]]
      BY <1>8
    <3> QED BY <3>1, <3>2, Zenon
  <2>2. /\ call' = [call EXCEPT ![c] = call'[c]]
        /\ call'[c] \in CallRecord /\ call'[c].svc = call[c].svc /\ call'[c].io = "off" /\ call'[c].id = call[c].id
        /\ call'[c].lifts = call[c].lifts /\ call'[c].takes = call[c].takes /\ call'[c].to = call[c].to
        /\ call'[c].fit = call[c].fit
        /\ Left(c) \in 1..16 /\ Left(c) <= Total(m) /\ Left(c)' = Left(c) - 1 /\ OnPlan(c, m)'
    BY <1>1, <1>2, <2>1, StepDone
  <2>3. Motioned(c, m)'
    <3>1. Left(c)' + 1 = Left(c) /\ Left(c)' < Total(m)
      <4>1. Total(m) \in {8, 16}
        BY DEF Total
      <4> QED BY <2>2, <4>1
    <3>2. Ahead(m, Left(c)).op = "grip"
      BY <1>3, <2>2, StepIs
    <3> QED BY <1>1, <1>3, <2>2, <3>1, <3>2 DEF Motioned, Quiet
  <2>4. call[c].fit => Carried(c, m)'
    BY <1>1, <1>2, <1>3, <1>8, <2>2, GripCarries
  <2>5. OnItsWay(c)'
    BY <2>2, <2>3, <2>4 DEF OnItsWay
  <2> QED BY <1>1, <1>5, <1>8, <2>2, <2>5, RunnerSteps
<1> QED BY <1>6, <1>7, <1>8 DEF SetGripper

\* A caller that gives up leaves its sender behind, and nobody runs.
LEMMA GivingUpStep == ASSUME Sound, IInv, NEW c \in Caller, MotionTimeout(c) \/ HaltAndFail(c) PROVE IInv'
<1>1. PICK v \in {"halt", "join"} :
        /\ call' = [call EXCEPT ![c].svc = v] /\ lock' = IF v = "halt" THEN lock ELSE None
        /\ call[c].svc \in {"run", "halt"} /\ (v = "halt" <=> call[c].svc = "run")
        /\ call[c].io \in {"await", "awaitAck", "cleanup", "end"}
        /\ reg' \in {reg, [reg EXCEPT !.halt = TRUE]} /\ UNCHANGED <<tm, plant, lastId, used>>
  BY DEF MotionTimeout, HaltAndFail, Running, IInv, Outlived
<1> DEFINE new == [call[c] EXCEPT !.svc = v]
<1>2. call[c] \in CallRecord /\ new \in CallRecord /\ new.svc = v /\ new.io = call[c].io
  BY DEF IInv, Typed, CallRecord
<1>3. call' = [call EXCEPT ![c] = new]
  BY <1>1
<1> HIDE DEF new
<1>4. call' \in [Caller -> CallRecord] /\ call'[c] = new /\ \A d \in Caller \ {c} : call'[d] = call[d]
  BY <1>2, <1>3 DEF IInv, Typed
<1>5. \A d \in Caller \ {c} : call[d].svc \notin {"run", "halt"}
  BY <1>1, OneHolds DEF IInv
<1>6. Typed'
  <2>1. /\ reg' \in [id : Nat, pose : Pose \cup {NoPose}, trigger : BOOLEAN, ack : Nat,
                    status : {"idle", "moving", "complete", "error"}, halt : BOOLEAN]
        /\ reg'.status = reg.status
    BY <1>1 DEF IInv, Typed, TypeOK
  <2>2. \A d \in Caller : lock' = d <=> call'[d].svc \in {"run", "halt"}
    BY <1>1, <1>2, <1>4, <1>5 DEF IInv, Typed, TypeOK, Sound
  <2>3. lock' \in Caller \cup {None}
    BY <1>1 DEF IInv, Typed, TypeOK
  <2>4. \A d \in Caller : call'[d].svc \in {"idle", "run", "halt", "join"} /\ call'[d].io \in Places
    BY <1>4 DEF CallRecord
  <2> QED BY <1>1, <1>4, <2>1, <2>2, <2>3, <2>4 DEF IInv, Typed, TypeOK, plant, Places
<1>7. ASSUME NEW d \in Caller PROVE Outlived(d)' /\ call'[d].svc # "run"
  <2>1. CASE d = c
    BY <1>1, <1>2, <1>4, <2>1 DEF Outlived
  <2>2. CASE d # c
    BY <1>4, <1>5, <2>2 DEF Outlived, IInv
  <2> QED BY <2>1, <2>2
<1>8. NothingIsDropped'
  BY <1>1 DEF IInv, NothingIsDropped, On, plant
<1> QED BY <1>6, <1>7, <1>8 DEF IInv

LEMMA ServiceStep == ASSUME Sound, IInv, NEW c \in Caller, Service(c) PROVE IInv'
<1>1. CASE MovePiece(c)
  BY <1>1, MoveStep
<1>2. CASE Motion(c)
  BY <1>2, MotionStep
<1>3. CASE MotionEnds(c)
  BY <1>3, MotionEndsStep
<1>4. CASE SetGripper(c)
  BY <1>4, SetGripperStep
<1>5. CASE Return(c)
  BY <1>5, OneEnds DEF Return, Placed, Fails, plant, IInv, Typed, TypeOK
<1>6. CASE MotionTimeout(c) \/ HaltAndFail(c)
  BY <1>6, GivingUpStep
<1>7. CASE Join(c)
  BY <1>7, OneEnds DEF Join, plant, IInv, Typed, TypeOK
<1> QED BY <1>1, <1>2, <1>3, <1>4, <1>5, <1>6, <1>7 DEF Service

-----------------------------------------------------------------------------
(* The invariant and what follows from it.                                 *)

LEMMA InitIInv == ASSUME Sound, Init PROVE IInv
<1>1. Typed
  <2>1. call \in [Caller -> CallRecord] /\ \A c \in Caller : call[c] = NoCall
    BY NoCallTyped DEF Init
  <2>2. \A c \in Caller : call[c].svc = "idle" /\ call[c].io = "off"
    BY <2>1 DEF NoCall
  <2> QED BY <2>1, <2>2 DEF Init, Typed, TypeOK, Sound, Between
<1>2. \A c \in Caller : call[c].svc = "idle" /\ call[c].io = "off"
  BY DEF Init, NoCall
<1>3. NothingIsDropped
  BY DEF Init, Sound, NothingIsDropped, On
<1> QED BY <1>1, <1>2, <1>3 DEF IInv, Outlived

LEMMA StepIInv == ASSUME Sound, IInv, [Next]_vars PROVE IInv'
<1>1. CASE UNCHANGED vars
  <2>1. \A c \in Caller : OnItsWay(c) => OnItsWay(c)'
    BY <1>1, Untouched DEF vars, plant, IInv
  <2> QED BY <1>1, <2>1 DEF vars, IInv, Typed, TypeOK, Outlived, NothingIsDropped, On
<1> QED BY <1>1, ServiceStep, SenderStep, TmStep, RestartStep DEF Next

\* The step before the last is the last on the board: with nothing left to do the gripper is
\* open and empty.
LEMMA InvMeansPlaced == ASSUME Sound, IInv PROVE SuccessMeansPlaced
<1> SUFFICES ASSUME NEW c \in Caller, Placed(c), call[c].fit
             PROVE  /\ \A x \in call[c].lifts : at[x] = call[c].to
                    /\ \A x \in call[c].takes : at[x] = DeadZone
                    /\ ~closed /\ On("hand") = {}
  BY DEF SuccessMeansPlaced
<1>1. PICK m \in Moves : OnPlan(c, m) /\ Carried(c, m)
  BY DEF Placed, IInv, OnItsWay
<1>2. Left(c) = 0
  BY EmptySeq DEF Placed, Left
<1> QED BY <1>1, <1>2 DEF OnPlan, Carried, InHand, Holding

LEMMA InvHolds == ASSUME Sound PROVE Spec => []IInv
<1>1. Init => IInv
  BY InitIInv
<1>2. IInv /\ [Next]_vars => IInv'
  BY StepIInv
<1> QED BY <1>1, <1>2, PTL DEF Spec

\* The registers, the locks and the records of the callers keep their types, and the lock of
\* RobotService belongs to the caller whose move is in work.
THEOREM TypesHold == ASSUME Sound PROVE Spec => []TypeOK
<1>1. IInv => TypeOK
  BY DEF IInv, Typed
<1> QED BY <1>1, InvHolds, PTL

\* RobotService.move_piece reports success only when the pieces are where they belong: in any
\* order of the callers, their senders, TMflow and restarts, whatever write, motion or gripper
\* command fails, and whatever the registers still hold from an earlier program.
THEOREM MovesArePlaced == ASSUME Sound PROVE Spec => []SuccessMeansPlaced
<1>1. IInv => SuccessMeansPlaced
  BY InvMeansPlaced
<1> QED BY <1>1, InvHolds, PTL

\* The gripper of _execute_pick_and_place opens at the height of the board only.
THEOREM NothingDropped == ASSUME Sound PROVE Spec => []NothingIsDropped
<1>1. IInv => NothingIsDropped
  BY DEF IInv
<1> QED BY <1>1, InvHolds, PTL
-----------------------------------------------------------------------------
(* The settings and the calibration of the board.                          *)
Setup == INSTANCE SetupSettings WITH Thread <- SetupThread

\* A set of numbers has a least one.
LEMMA LeastNatural ==
    ASSUME NEW S \in SUBSET Nat, S # {}
    PROVE  \E m \in S : \A k \in S : m <= k
<1>1. IsWellFoundedOn(OpToRel(<, Nat), Nat)
  BY NatLessThanWellFounded
<1>2. PICK m \in S : \A y \in S : ~(<<y, m>> \in OpToRel(<, Nat))
  BY <1>1, WFMin
<1>3. m \in Nat /\ \A y \in S : y \in Nat /\ ~(y < m)
  BY <1>2 DEF OpToRel
<1>4. \A y \in S : m <= y
  BY <1>3
<1> QED BY <1>2, <1>4

(* The map of the board.                                                   *)

LEMMA DetIs == ASSUME NEW m \in Setup!Matrix PROVE Setup!Det(m) \in Int /\ Setup!Det(m) = m[1][1] * m[2][2] - m[1][2] * m[2][1]
  BY DEF Setup!Matrix, Setup!Det

\* A fraction that is the point.
Exactly(q, f, r) == q.d \in Nat \ {0} /\ q.f = f * q.d /\ q.r = r * q.d

\* The inverse of where a point of the board is.
LEMMA InverseOfPoint ==
    ASSUME NEW m \in Setup!Matrix, Setup!Det(m) # 0, NEW f \in Int, NEW r \in Int
    PROVE  Exactly(Setup!InverseAt(m, Setup!At(m, f, r)), f, r)
<1> DEFINE a == m[1][1]  b == m[1][2]  c == m[1][3]  g == m[2][1]  h == m[2][2]  k == m[2][3]
           D == Setup!Det(m)  s == IF D > 0 THEN 1 ELSE -1
<1>1. a \in Int /\ b \in Int /\ c \in Int /\ g \in Int /\ h \in Int /\ k \in Int
  BY DEF Setup!Matrix
<1>2. D \in Int /\ D = a * h - b * g /\ D # 0
  BY DetIs
<1>3. Setup!At(m, f, r) = [x |-> a * f + b * r + c, y |-> g * f + h * r + k]
  BY DEF Setup!At
<1>4. Setup!InverseAt(m, Setup!At(m, f, r)) =
        [f |-> s * (h * ((a * f + b * r + c) - c) - b * ((g * f + h * r + k) - k)),
         r |-> s * (a * ((g * f + h * r + k) - k) - g * ((a * f + b * r + c) - c)), d |-> s * D]
  BY <1>3 DEF Setup!InverseAt
<1> HIDE DEF a, b, c, g, h, k, D
<1>5. (a * f + b * r + c) - c = a * f + b * r /\ (g * f + h * r + k) - k = g * f + h * r
  BY <1>1
<1>6. h * (a * f + b * r) - b * (g * f + h * r) = f * D
  BY <1>1, <1>2
<1>7. a * (g * f + h * r) - g * (a * f + b * r) = r * D
  BY <1>1, <1>2
<1>8. s * D \in Nat \ {0} /\ s * (f * D) = f * (s * D) /\ s * (r * D) = r * (s * D)
  BY <1>2
<1> HIDE DEF s
<1> QED BY <1>4, <1>5, <1>6, <1>7, <1>8 DEF Exactly

LEMMA NearestOfWhole == ASSUME NEW n \in Int, NEW d \in Nat \ {0} PROVE Setup!Nearest(n * d, d) = n
<1>1. Setup!Nearest(n * d, d) = (2 * (n * d) + d) \div (2 * d)
  BY DEF Setup!Nearest
<1>2. n * d \in Int /\ 2 * (n * d) = (2 * d) * n
  OBVIOUS
<1>3. \A e \in Nat \ {0} : \A y \in 0..(e - 1) : (e * n + y) \div e = n
  <2> SUFFICES ASSUME NEW e \in Nat \ {0}, NEW y \in 0..(e - 1) PROVE (e * n + y) \div e = n
    OBVIOUS
  <2> DEFINE x == e * n + y  q == x \div e
  <2>1. x \in Int /\ e * n \in Int
    OBVIOUS
  <2>2. q \in Int /\ e * q <= x /\ x < e * q + e
    <3> HIDE DEF x
    <3> QED BY <2>1
  <2>3. ~(q < n)
    <3> HIDE DEF q
    <3> SUFFICES ASSUME q < n PROVE FALSE
      OBVIOUS
    <3>1. q + 1 <= n
      BY <2>2
    <3>2. e * (q + 1) <= e * n
      BY <3>1, <2>2
    <3> QED BY <3>2, <2>1, <2>2
  <2>4. ~(n < q)
    <3> HIDE DEF q
    <3> SUFFICES ASSUME n < q PROVE FALSE
      OBVIOUS
    <3>1. n + 1 <= q
      BY <2>2
    <3>2. e * (n + 1) <= e * q
      BY <3>1, <2>2
    <3> QED BY <3>2, <2>1, <2>2
  <2> HIDE DEF q
  <2> QED BY <2>2, <2>3, <2>4 DEF q
<1> QED BY <1>1, <1>2, <1>3

LEMMA MaxIs == ASSUME NEW a \in Int, NEW b \in Int
               PROVE  LET M == Setup!Max({0, a, b}) IN M \in {0, a, b} /\ M >= 0 /\ M >= a /\ M >= b
<1>1. \E x \in {0, a, b} : \A y \in {0, a, b} : x >= y
  OBVIOUS
<1> QED BY <1>1 DEF Setup!Max

\* A board point with an exact inverse is found again.
LEMMA FoundAgain ==
    ASSUME NEW c, NEW p, NEW f \in 0..8, NEW r \in 0..9, Exactly(Setup!Located(c, p), f, r)
    PROVE  Setup!RobotToGrid(c, p) = <<f, r>>
<1> DEFINE q == Setup!Located(c, p)  d == q.d
<1>1. f \in Int /\ r \in Int /\ d \in Nat \ {0} /\ q.f = f * d /\ q.r = r * d
  BY DEF Exactly
<1> HIDE DEF q, d
<1>2. Setup!Nearest(f * d, d) = f
  BY ONLY <1>1, NearestOfWhole, Zenon
<1>3. Setup!Nearest(r * d, d) = r
  BY ONLY <1>1, NearestOfWhole, Zenon
<1>4. Setup!Nearest(q.f, d) = f /\ Setup!Nearest(q.r, d) = r
  BY <1>1, <1>2, <1>3, Zenon
<1>5. q.f - f * d = 0 /\ q.r - r * d = 0 /\ 4 * (0 * 0 + 0 * 0) <= d * d
  BY <1>1
<1>6. f \in Setup!FileIds /\ r \in Setup!RankIds
  BY DEF Setup!FileIds, Setup!RankIds
<1>7. Setup!RobotToGrid(c, p) =
        IF /\ f \in Setup!FileIds /\ r \in Setup!RankIds
           /\ 4 * ((q.f - f * d) * (q.f - f * d) + (q.r - r * d) * (q.r - r * d)) <= d * d
        THEN <<f, r>> ELSE NoPoint
  BY <1>4, Zenon DEF Setup!RobotToGrid, q, d
<1> QED BY <1>5, <1>6, <1>7

\* What an inverse is made of, and how far it lies outside.
LEMMA InverseIs ==
    ASSUME NEW m \in Setup!Matrix, Setup!Det(m) # 0, NEW f \in Int, NEW r \in Int, NEW n \in Setup!Matrix
    PROVE  LET q == Setup!InverseAt(m, Setup!At(n, f, r)) IN q.d \in Nat \ {0} /\ q.r \in Int /\ q.f \in Int
<1> DEFINE x == Setup!At(n, f, r).x  y == Setup!At(n, f, r).y
           a == m[1][1]  b == m[1][2]  c == m[1][3]  g == m[2][1]  h == m[2][2]  k == m[2][3]
           D == Setup!Det(m)  s == IF D > 0 THEN 1 ELSE -1
<1>1. a \in Int /\ b \in Int /\ c \in Int /\ g \in Int /\ h \in Int /\ k \in Int
  BY DEF Setup!Matrix
<1>2. D \in Int /\ D # 0
  BY DetIs
<1>3. x \in Int /\ y \in Int
  <2>1. n[1][1] \in Int /\ n[1][2] \in Int /\ n[1][3] \in Int /\ n[2][1] \in Int /\ n[2][2] \in Int /\ n[2][3] \in Int
    BY DEF Setup!Matrix
  <2> QED BY <2>1 DEF Setup!At
<1>4. Setup!InverseAt(m, Setup!At(n, f, r)) =
        [f |-> s * (h * (x - c) - b * (y - k)), r |-> s * (a * (y - k) - g * (x - c)), d |-> s * D]
  BY DEF Setup!InverseAt
<1>5. s \in Int /\ s * D \in Nat \ {0}
  BY <1>2
<1> HIDE DEF x, y, a, b, c, g, h, k, D, s
<1>6. h * (x - c) - b * (y - k) \in Int /\ a * (y - k) - g * (x - c) \in Int
  BY <1>1, <1>3
<1>7. s * (h * (x - c) - b * (y - k)) \in Int /\ s * (a * (y - k) - g * (x - c)) \in Int
  BY <1>5, <1>6
<1> QED BY <1>4, <1>5, <1>7

LEMMA OutsideIs ==
    ASSUME NEW q, q.d \in Nat \ {0}, q.r \in Int, NEW lo \in Int, NEW hi \in Int
    PROVE  LET o == Setup!Outside(q, lo, hi) IN
           o \in Int /\ o >= 0 /\ (\A r \in lo..hi : q.r = r * q.d => o = 0)
<1> DEFINE a == lo * q.d - q.r  b == q.r - hi * q.d
<1>1. a \in Int /\ b \in Int
  OBVIOUS
<1>2. Setup!Outside(q, lo, hi) = Setup!Max({0, a, b})
  BY DEF Setup!Outside
<1>3. \A r \in lo..hi : q.r = r * q.d => a <= 0 /\ b <= 0
  <2> SUFFICES ASSUME NEW r \in lo..hi, q.r = r * q.d PROVE a <= 0 /\ b <= 0
    OBVIOUS
  <2>1. r \in Int /\ lo <= r /\ r <= hi
    OBVIOUS
  <2>2. lo * q.d <= r * q.d /\ r * q.d <= hi * q.d
    BY <2>1
  <2> QED BY <2>1, <2>2
<1> HIDE DEF a, b
<1> DEFINE M == Setup!Max({0, a, b})
<1>4. M \in {0, a, b} /\ M >= 0 /\ M >= a /\ M >= b
  BY <1>1, MaxIs, Zenon
<1>5. Setup!Outside(q, lo, hi) = M
  BY <1>2
<1> HIDE DEF M
<1>6. M \in Int /\ M >= 0
  BY <1>1, <1>4
<1>7. \A r \in lo..hi : q.r = r * q.d => M = 0
  BY <1>1, <1>3, <1>4
<1> QED BY <1>5, <1>6, <1>7, Zenon

\* A map that can be inverted: the whole board's, or the two halves' where there are two.
Invertible(c) ==
    /\ c.split = NoSplit => c.affine \in Setup!Matrix /\ Setup!Det(c.affine) # 0
    /\ c.split # NoSplit => Setup!HalvesFit(c.split)

LEMMA SquareIs == Setup!Squares = (0..8) \X (0..9)
  BY DEF Setup!Squares, Setup!FileIds, Setup!RankIds

LEMMA InvertibleRoundTrips ==
    ASSUME NEW c, Invertible(c)
    PROVE  Setup!RoundTrips(c)
<1>1. SUFFICES \A f \in 0..8, r \in 0..9 : Setup!RobotToGrid(c, Setup!GridToRobot(c, f, r)) = <<f, r>>
  <2>1. \A s \in Setup!Squares : s[1] \in 0..8 /\ s[2] \in 0..9 /\ s = <<s[1], s[2]>>
    BY SquareIs
  <2> QED BY <1>1, <2>1, Zenon DEF Setup!RoundTrips
<1> SUFFICES ASSUME NEW f \in 0..8, NEW r \in 0..9
             PROVE  Setup!RobotToGrid(c, Setup!GridToRobot(c, f, r)) = <<f, r>>
  OBVIOUS
<1> DEFINE p == Setup!GridToRobot(c, f, r)
<1>2. f \in Int /\ r \in Int /\ r - 5 \in Int /\ f \in Setup!FileIds /\ r \in Setup!RankIds
  BY DEF Setup!FileIds, Setup!RankIds
<1>3. CASE c.split = NoSplit
  <2>1. p = Setup!At(c.affine, f, r) /\ c.affine \in Setup!Matrix /\ Setup!Det(c.affine) # 0
    BY <1>2, <1>3 DEF Setup!GridToRobot, Invertible
  <2>2. Exactly(Setup!InverseAt(c.affine, p), f, r)
    BY <1>2, <2>1, InverseOfPoint, Zenon
  <2>3. Setup!Located(c, p) = Setup!InverseAt(c.affine, p)
    BY <1>3 DEF Setup!Located
  <2> QED BY <2>2, <2>3, FoundAgain, Zenon
<1>4. CASE c.split # NoSplit
  <2> DEFINE low == Setup!InverseAt(c.split.lower, p)
             rel == Setup!InverseAt(c.split.upper, p)
             upp == [rel EXCEPT !.r = @ + 5 * rel.d]
  <2>1. Setup!HalvesFit(c.split)
    BY <1>4 DEF Invertible
  <2>2. Setup!Located(c, p) = IF Setup!Outside(low, 0, 4) * upp.d <= Setup!Outside(upp, 5, 9) * low.d THEN low ELSE upp
    BY <1>4 DEF Setup!Located
  <2>3. CASE r <= 4
    <3>1. p = Setup!At(c.split.lower, f, r)
      BY <1>2, <1>4, <2>3 DEF Setup!GridToRobot, Setup!OnLowerHalf
    <3>2. Exactly(low, f, r)
      BY <1>2, <2>1, <3>1, InverseOfPoint, Zenon DEF Setup!HalvesFit
    <3>3. rel.d \in Nat \ {0} /\ rel.r \in Int
      BY <1>2, <2>1, <3>1, InverseIs DEF Setup!HalvesFit
    <3>4. upp.d = rel.d /\ upp.r = rel.r + 5 * rel.d
      BY DEF Setup!InverseAt
    <3>5. Setup!Outside(low, 0, 4) = 0
      <4>1. low.d \in Nat \ {0} /\ low.r = r * low.d /\ r * low.d \in Int /\ r \in 0..4
        BY <1>2, <2>3, <3>2 DEF Exactly
      <4>2. low.r \in Int
        BY <4>1, Zenon
      <4> HIDE DEF low
      <4> QED BY <4>1, <4>2, OutsideIs
    <3>6. Setup!Outside(upp, 5, 9) \in Int /\ Setup!Outside(upp, 5, 9) >= 0
      <4>1. upp.d \in Nat \ {0} /\ upp.r \in Int
        BY <3>3, <3>4
      <4> HIDE DEF upp
      <4> QED BY <4>1, OutsideIs
    <3>7. Setup!Located(c, p) = low
      <4>1. low.d \in Nat \ {0}
        BY <3>2 DEF Exactly
      <4> HIDE DEF low, upp
      <4>2. Setup!Outside(low, 0, 4) * upp.d <= Setup!Outside(upp, 5, 9) * low.d
        <5>1. 0 <= Setup!Outside(upp, 5, 9) * low.d
          BY <3>6, <4>1
        <5>2. upp.d \in Int
          BY <3>3, <3>4
        <5> QED BY <3>5, <5>1, <5>2
      <4> QED BY <2>2, <4>2
    <3> QED BY <3>2, <3>7, FoundAgain, Zenon
  <2>4. CASE ~(r <= 4)
    <3>1. p = Setup!At(c.split.upper, f, r - 5) /\ r \in 5..9
      BY <1>2, <1>4, <2>4 DEF Setup!GridToRobot, Setup!OnLowerHalf
    <3>2. Exactly(rel, f, r - 5)
      BY <1>2, <2>1, <3>1, InverseOfPoint, Zenon DEF Setup!HalvesFit
    <3>3. upp.d = rel.d /\ upp.r = rel.r + 5 * rel.d /\ upp.f = rel.f
      BY DEF Setup!InverseAt
    <3>4. Exactly(upp, f, r)
      <4>1. rel.d \in Nat \ {0} /\ rel.f = f * rel.d /\ rel.r = (r - 5) * rel.d
        BY <3>2 DEF Exactly
      <4>2. (r - 5) * rel.d + 5 * rel.d = r * rel.d
        BY <1>2, <4>1
      <4> HIDE DEF rel, upp
      <4> QED BY <3>3, <4>1, <4>2 DEF Exactly
    <3>5. Setup!Outside(upp, 5, 9) = 0
      <4>1. upp.d \in Nat \ {0} /\ upp.r = r * upp.d /\ r * upp.d \in Int
        BY <1>2, <3>4 DEF Exactly
      <4>2. upp.r \in Int
        BY <4>1, Zenon
      <4> HIDE DEF upp
      <4> QED BY <3>1, <4>1, <4>2, OutsideIs
    <3>6. low.d \in Nat \ {0} /\ low.r \in Int
      BY <1>2, <2>1, <3>1, InverseIs DEF Setup!HalvesFit
    <3>7. Setup!Outside(low, 0, 4) > 0 /\ Setup!Outside(low, 0, 4) \in Int
      <4>1. Setup!Outside(low, 0, 4) > 0
        BY <2>1, <3>1 DEF Setup!HalvesFit
      <4> HIDE DEF low
      <4> QED BY <3>6, <4>1, OutsideIs
    <3>8. Setup!Located(c, p) = upp
      <4>1. upp.d \in Nat \ {0}
        BY <3>4 DEF Exactly
      <4> HIDE DEF low, upp
      <4>2. ~(Setup!Outside(low, 0, 4) * upp.d <= Setup!Outside(upp, 5, 9) * low.d)
        <5> DEFINE o == Setup!Outside(low, 0, 4)  d == upp.d  e == low.d
        <5>1. o \in Int /\ o > 0 /\ d \in Nat \ {0} /\ e \in Nat \ {0}
          BY <3>6, <3>7, <4>1
        <5>2. ~(o * d <= 0 * e)
          <6> HIDE DEF o, d, e
          <6>1. o * d > 0 /\ 0 * e = 0
            BY <5>1
          <6> QED BY <5>1, <6>1
        <5> QED BY <3>5, <5>2, Zenon
      <4> QED BY <2>2, <4>2
    <3> HIDE DEF upp
    <3>9. Exactly(Setup!Located(c, p), f, r)
      BY <3>4, <3>8, Zenon
    <3> QED BY <3>9, FoundAgain, Zenon
  <2> QED BY <2>3, <2>4
<1> QED BY <1>3, <1>4

-----------------------------------------------------------------------------
(* The values of the settings.                                             *)

\* All the settings, and those that are stored.
AllSettings == {s \in [Setup!Fields -> Int \cup BOOLEAN \cup Word] : Setup!SomeSettings(s)}
StoredFiles == {s \in [Setup!Fields \ Setup!Unstored -> Int \cup BOOLEAN \cup Word] : Setup!SomeSettings(s)}

LEMMA KindIs ==
    /\ \A f : Setup!KindOf(f) \subseteq Int \cup BOOLEAN \cup Word
    /\ Setup!KindOf("source") = Word /\ Setup!KindOf("adapter") = Word /\ Setup!KindOf("min_y") = Int
  BY DEF Setup!KindOf, Setup!Flags, Setup!Texts, Setup!Words

LEMMA AllSettingsAre ==
    ASSUME NEW F, NEW s, s = [f \in F |-> s[f]], F \subseteq Setup!Fields, \A f \in F : s[f] \in Setup!KindOf(f)
    PROVE  /\ Setup!SomeSettings(s)
           /\ F = Setup!Fields => s \in AllSettings
           /\ F = Setup!Fields \ Setup!Unstored => s \in StoredFiles
<1>1. DOMAIN s = F
  OBVIOUS
<1>2. Setup!SomeSettings(s)
  BY <1>1 DEF Setup!SomeSettings
<1>3. s \in [F -> Int \cup BOOLEAN \cup Word]
  BY KindIs
<1> QED BY <1>2, <1>3 DEF AllSettings, StoredFiles

LEMMA OverIs ==
    ASSUME NEW f, NEW g
    PROVE  /\ DOMAIN Setup!Over(f, g) = DOMAIN f \cup DOMAIN g
           /\ \A x \in DOMAIN f : Setup!Over(f, g)[x] = f[x]
           /\ \A x \in DOMAIN g \ DOMAIN f : Setup!Over(f, g)[x] = g[x]
           /\ Setup!Over(f, g) = [x \in DOMAIN f \cup DOMAIN g |-> Setup!Over(f, g)[x]]
  BY DEF Setup!Over

LEMMA OverTyped ==
    ASSUME NEW f, NEW g, Setup!SomeSettings(f), Setup!SomeSettings(g)
    PROVE  Setup!SomeSettings(Setup!Over(f, g))
<1> DEFINE o == Setup!Over(f, g)
<1>1. DOMAIN o = DOMAIN f \cup DOMAIN g
  BY OverIs
<1>2. \A x \in DOMAIN f \cup DOMAIN g : o[x] \in Setup!KindOf(x)
  BY DEF Setup!SomeSettings, Setup!Over
<1> HIDE DEF o
<1>3. Setup!SomeSettings(o)
  BY <1>1, <1>2 DEF Setup!SomeSettings
<1> QED BY <1>3 DEF o

\* A value read at start.
Read(f, kept) == Setup!Setting(f, kept, Env, Default, Production)

LEMMA ReadIs ==
    ASSUME Setup!FieldsSound, NEW kept, Setup!SomeSettings(kept), NEW f \in Setup!Fields
    PROVE  Read(f, kept) \in Setup!KindOf(f)
  BY DEF Read, Setup!Setting, Setup!SomeSettings, Setup!FieldsSound

LEMMA SectionIs ==
    ASSUME Setup!FieldsSound, NEW kept, Setup!SomeSettings(kept), NEW F \in SUBSET Setup!Fields
    PROVE  LET s == Setup!LoadSection(F, kept, Env, Default, Production) IN
           /\ Setup!SomeSettings(s) /\ DOMAIN s = F
           /\ \A f \in F : s[f] = Read(f, kept)
<1> DEFINE s == Setup!LoadSection(F, kept, Env, Default, Production)
<1>1. s = [f \in F |-> Read(f, kept)]
  BY DEF Setup!LoadSection, Read
<1>2. \A f \in F : Read(f, kept) \in Setup!KindOf(f)
  BY ReadIs
<1> QED BY <1>1, <1>2 DEF Setup!SomeSettings

LEMMA ChoicesAre ==
    /\ DOMAIN Setup!Bounds =
         {"camera_index", "width", "height", "buffer_size", "grab_drain", "capture_interval", "capture_timeout",
          "image_port", "image_max_bytes", "max_saved_images", "port", "max_retry", "max_message_bytes",
          "gripper_wait_ms", "server_port", "square_index_base"}
    /\ DOMAIN Setup!Words =
         {"source", "adapter", "motion_mode", "wire_format", "stop_mode", "role", "payload_mode", "addressing", "encoding"}
<1>1. DOMAIN Setup!Bounds =
         {"camera_index", "width", "height", "buffer_size", "grab_drain", "capture_interval", "capture_timeout",
          "image_port", "image_max_bytes", "max_saved_images", "port", "max_retry", "max_message_bytes",
          "gripper_wait_ms", "server_port", "square_index_base"}
  BY DEF Setup!Bounds
<1>2. DOMAIN Setup!Words =
         {"source", "adapter", "motion_mode", "wire_format", "stop_mode", "role", "payload_mode", "addressing", "encoding"}
  BY DEF Setup!Words
<1> QED BY <1>1, <1>2

LEMMA SectionsAre ==
    /\ Setup!VisionFields \subseteq Setup!Fields /\ Setup!CaptureFields \subseteq Setup!Fields
    /\ Setup!RuntimeFields \subseteq Setup!Fields /\ Setup!LinkFields \subseteq Setup!Fields
    /\ Setup!JsonFields \subseteq Setup!Fields /\ Setup!ModbusFields \subseteq Setup!Fields
    /\ Setup!SquareFields \subseteq Setup!Fields /\ Setup!MotionFields \subseteq Setup!Fields
    /\ Setup!Fields \subseteq Setup!VisionFields \cup Setup!CaptureFields \cup Setup!RuntimeFields \cup Setup!LinkFields
         \cup {"adapter"} \cup Setup!JsonFields \cup Setup!ModbusFields \cup Setup!SquareFields \cup Setup!MotionFields
<1> USE ChoicesAre DEF Setup!Fields, Setup!Bounded, Setup!Texts, Setup!Flags, Setup!Finite, Setup!Positive
<1>1. Setup!VisionFields \subseteq Setup!Fields
  BY DEF Setup!VisionFields
<1>2. Setup!CaptureFields \subseteq Setup!Fields /\ Setup!RuntimeFields \subseteq Setup!Fields
  BY DEF Setup!CaptureFields, Setup!RuntimeFields
<1>3. Setup!LinkFields \subseteq Setup!Fields
  BY DEF Setup!LinkFields
<1>4. Setup!JsonFields \subseteq Setup!Fields
  BY DEF Setup!JsonFields
<1>5. Setup!SquareFields \subseteq Setup!Fields
  BY DEF Setup!SquareFields
<1>6. Setup!ModbusFields \subseteq Setup!Fields
  BY DEF Setup!ModbusFields
<1>7. Setup!MotionFields \subseteq Setup!Fields
  BY DEF Setup!MotionFields
<1>8. Setup!Registers \cup Setup!Codes \subseteq Setup!ModbusFields \cup Setup!SquareFields
  BY DEF Setup!ModbusFields
<1> DEFINE All == Setup!VisionFields \cup Setup!CaptureFields \cup Setup!RuntimeFields \cup Setup!LinkFields
         \cup {"adapter"} \cup Setup!JsonFields \cup Setup!ModbusFields \cup Setup!SquareFields \cup Setup!MotionFields
<1>9. DOMAIN Setup!Bounds \subseteq All
  BY DEF Setup!VisionFields, Setup!CaptureFields, Setup!LinkFields, Setup!JsonFields, Setup!ModbusFields, Setup!SquareFields
<1>10. DOMAIN Setup!Words \subseteq All
  BY DEF Setup!VisionFields, Setup!LinkFields, Setup!JsonFields, Setup!ModbusFields
<1>11. Setup!Texts \subseteq All
  BY DEF Setup!VisionFields, Setup!LinkFields, Setup!JsonFields, Setup!ModbusFields
<1>12. Setup!Flags \subseteq All
  BY DEF Setup!VisionFields, Setup!LinkFields, Setup!JsonFields, Setup!ModbusFields, Setup!SquareFields, Setup!RuntimeFields
<1>13. Setup!Finite \subseteq All
  BY DEF Setup!VisionFields, Setup!LinkFields, Setup!JsonFields, Setup!ModbusFields, Setup!CaptureFields, Setup!MotionFields
<1> QED BY <1>1, <1>2, <1>3, <1>4, <1>5, <1>6, <1>7, <1>8, <1>9, <1>10, <1>11, <1>12, <1>13, Zenon

LimitFields == {"min_x", "max_x", "min_y", "max_y"}

LEMMA LimitsElsewhere ==
    /\ LimitFields \subseteq Setup!MotionFields
    /\ LimitFields \cap Setup!VisionFields = {} /\ LimitFields \cap Setup!CaptureFields = {}
    /\ LimitFields \cap Setup!RuntimeFields = {} /\ LimitFields \cap Setup!LinkFields = {} /\ "adapter" \notin LimitFields
    /\ LimitFields \cap Setup!JsonFields = {} /\ LimitFields \cap Setup!ModbusFields = {}
    /\ LimitFields \cap Setup!SquareFields = {}
<1>1. LimitFields \subseteq Setup!MotionFields
  BY DEF LimitFields, Setup!MotionFields
<1>2. LimitFields \cap Setup!VisionFields = {} /\ LimitFields \cap Setup!CaptureFields = {}
  BY DEF LimitFields, Setup!VisionFields, Setup!CaptureFields
<1>3. LimitFields \cap Setup!RuntimeFields = {} /\ LimitFields \cap Setup!LinkFields = {} /\ "adapter" \notin LimitFields
  BY DEF LimitFields, Setup!RuntimeFields, Setup!LinkFields
<1>4. LimitFields \cap Setup!JsonFields = {}
  BY DEF LimitFields, Setup!JsonFields
<1>5. LimitFields \cap (Setup!Registers \cup Setup!Codes) = {}
  BY DEF LimitFields, Setup!Registers, Setup!Codes
<1>6. LimitFields \cap Setup!SquareFields = {}
  BY <1>5 DEF LimitFields, Setup!SquareFields
<1>7. LimitFields \cap Setup!ModbusFields = {}
  BY <1>5 DEF LimitFields, Setup!ModbusFields
<1> QED BY <1>1, <1>2, <1>3, <1>4, <1>6, <1>7

\* Settings for the fields F, with the limits as they are read.
Gives(s, F, kept) ==
    /\ Setup!SomeSettings(s) /\ DOMAIN s = F /\ LimitFields \subseteq F
    /\ \A f \in LimitFields : s[f] = Read(f, kept)

\* A section that has no limits before others that have them.
LEMMA OverGives ==
    ASSUME NEW s, NEW F, NEW t, NEW G, NEW kept, Gives(t, G, kept),
           Setup!SomeSettings(s), DOMAIN s = F, LimitFields \cap F = {}
    PROVE  Gives(Setup!Over(s, t), F \cup G, kept)
<1> DEFINE o == Setup!Over(s, t)
<1>1. Setup!SomeSettings(o)
  BY OverTyped DEF Gives
<1>2. DOMAIN o = F \cup G
  BY OverIs DEF Gives
<1>3. \A f \in LimitFields : f \in G /\ f \notin F
  BY DEF Gives
<1>4. \A f \in LimitFields : o[f] = t[f]
  <2>1. \A f \in LimitFields : f \in DOMAIN t \ DOMAIN s
    BY <1>3 DEF Gives
  <2> QED BY <2>1 DEF Setup!Over
<1> HIDE DEF o
<1>5. Gives(o, F \cup G, kept)
  BY <1>1, <1>2, <1>3, <1>4 DEF Gives
<1> QED BY <1>5 DEF o

\* The sections as they are read.
Load(kept) == Setup!Loaded(kept, Env, Default, Production)

LEMMA LoadIs ==
    ASSUME Setup!FieldsSound, NEW kept, Setup!SomeSettings(kept)
    PROVE  /\ Load(kept) \in AllSettings
           /\ \A f \in LimitFields : Load(kept)[f] = Read(f, kept)
<1> DEFINE vision == Setup!VisionLoaded(kept, Env, Default, Production)
           capture == Setup!CaptureLoaded(kept, Env, Default, Production)
           runtime == Setup!RuntimeLoaded(kept, Env, Default, Production)
           linked == Setup!LinkLoaded(kept, Env, Default, Production)
           json == Setup!JsonLoaded(kept, Env, Default, Production)
           modbus == Setup!ModbusLoaded(kept, Env, Default, Production)
           square == Setup!SquareLoaded(kept, Env, Default, Production)
           motion == Setup!MotionLoaded(kept, Env, Default, Production)
<1>1. Setup!SomeSettings(vision) /\ DOMAIN vision = Setup!VisionFields
  <2> DEFINE v == Setup!LoadSection(Setup!VisionFields, kept, Env, Default, Production)
  <2>1. Setup!SomeSettings(v) /\ DOMAIN v = Setup!VisionFields
    BY SectionIs, SectionsAre
  <2>2. PICK w : vision = [v EXCEPT !.source = IF w \in Setup!Words.source THEN w ELSE "opencv"]
    <3> HIDE DEF v
    <3> QED BY DEF Setup!VisionLoaded, v
  <2>3. "source" \in DOMAIN Setup!Words /\ "opencv" \in Setup!Words.source
    BY DEF Setup!Words
  <2>4. Setup!Words["source"] \subseteq Setup!KindOf("source")
    BY <2>3, KindIs DEF Setup!FieldsSound
  <2>5. (IF w \in Setup!Words.source THEN w ELSE "opencv") \in Setup!KindOf("source")
    BY <2>3, <2>4
  <2> DEFINE x == IF w \in Setup!Words.source THEN w ELSE "opencv"
  <2>6. DOMAIN vision = Setup!VisionFields /\ \A f \in Setup!VisionFields : vision[f] = IF f = "source" THEN x ELSE v[f]
    <3> HIDE DEF x, v, vision
    <3>1. vision = [v EXCEPT !["source"] = x]
      BY <2>2 DEF x
    <3> QED BY <2>1, <3>1
  <2> HIDE DEF x, v, vision
  <2> QED BY <2>1, <2>5, <2>6, SectionsAre DEF Setup!SomeSettings, x
<1>2. Setup!SomeSettings(capture) /\ DOMAIN capture = Setup!CaptureFields
  BY SectionIs, SectionsAre DEF Setup!CaptureLoaded
<1>3. Setup!SomeSettings(runtime) /\ DOMAIN runtime = Setup!RuntimeFields
  BY SectionIs, SectionsAre DEF Setup!RuntimeLoaded
<1>4. Setup!SomeSettings(linked) /\ DOMAIN linked = Setup!LinkFields \cup {"adapter"}
  <2> DEFINE v == Setup!LoadSection(Setup!LinkFields, kept, Env, Default, Production)
  <2>1. Setup!SomeSettings(v) /\ DOMAIN v = Setup!LinkFields
    BY SectionIs, SectionsAre
  <2>2. PICK a : linked = Setup!Over(v, [adapter |-> IF a \in Setup!Words.adapter THEN a ELSE "tmflow_json"])
    <3> HIDE DEF v
    <3> QED BY DEF Setup!LinkLoaded, v
  <2>3. "adapter" \in DOMAIN Setup!Words /\ "tmflow_json" \in Setup!Words.adapter
    BY DEF Setup!Words
  <2>4. Setup!Words["adapter"] \subseteq Setup!KindOf("adapter")
    BY <2>3, KindIs DEF Setup!FieldsSound
  <2> DEFINE x == IF a \in Setup!Words.adapter THEN a ELSE "tmflow_json"
  <2>5. x \in Setup!KindOf("adapter")
    BY <2>3, <2>4
  <2>6. "adapter" \in Setup!Fields
    BY <2>3 DEF Setup!Fields
  <2> HIDE DEF x
  <2>7. Setup!SomeSettings([adapter |-> x]) /\ DOMAIN [adapter |-> x] = {"adapter"}
    BY <2>5, <2>6 DEF Setup!SomeSettings
  <2> DEFINE o == Setup!Over(v, [adapter |-> x])
  <2>8. linked = o
    BY <2>2, Zenon DEF x
  <2> HIDE DEF v, linked
  <2>9. Setup!SomeSettings(o) /\ DOMAIN o = Setup!LinkFields \cup {"adapter"}
    <3>1. Setup!SomeSettings(o)
      BY <2>1, <2>7, OverTyped, Zenon
    <3>2. DOMAIN o = DOMAIN v \cup DOMAIN [adapter |-> x]
      BY OverIs, Zenon
    <3> HIDE DEF o
    <3> QED BY <3>1, <3>2, <2>1, <2>7, Zenon
  <2> HIDE DEF o
  <2> QED BY <2>8, <2>9
<1>5. Setup!SomeSettings(json) /\ DOMAIN json = Setup!JsonFields
  BY SectionIs, SectionsAre DEF Setup!JsonLoaded
<1>6. Setup!SomeSettings(modbus) /\ DOMAIN modbus = Setup!ModbusFields
  BY SectionIs, SectionsAre DEF Setup!ModbusLoaded
<1>7. Setup!SomeSettings(square) /\ DOMAIN square = Setup!SquareFields
  BY SectionIs, SectionsAre DEF Setup!SquareLoaded
<1>8. Setup!SomeSettings(motion) /\ DOMAIN motion = Setup!MotionFields /\ \A f \in Setup!MotionFields : motion[f] = Read(f, kept)
  BY SectionIs, SectionsAre DEF Setup!MotionLoaded
<1> DEFINE r7 == Setup!Over(square, motion)
           r6 == Setup!Over(modbus, r7)
           r5 == Setup!Over(json, r6)
           r4 == Setup!Over(linked, r5)
           r3 == Setup!Over(runtime, r4)
           r2 == Setup!Over(capture, r3)
           r1 == Setup!Over(vision, r2)
<1>9. Load(kept) = r1
  BY Zenon DEF Load, Setup!Loaded
<1> HIDE DEF vision, capture, runtime, linked, json, modbus, square, motion
<1> DEFINE f7 == Setup!SquareFields \cup Setup!MotionFields
           f6 == Setup!ModbusFields \cup f7
           f5 == Setup!JsonFields \cup f6
           f4 == (Setup!LinkFields \cup {"adapter"}) \cup f5
           f3 == Setup!RuntimeFields \cup f4
           f2 == Setup!CaptureFields \cup f3
           f1 == Setup!VisionFields \cup f2
<1>10. Gives(motion, Setup!MotionFields, kept)
  BY <1>8, LimitsElsewhere DEF Gives
<1>11. Gives(r7, f7, kept)
  <2> HIDE DEF r1
  <2>1. LimitFields \cap Setup!SquareFields = {}
    BY LimitsElsewhere
  <2> QED BY <1>7, <1>10, <2>1, OverGives, Zenon
<1>12. Gives(r6, f6, kept)
  <2> HIDE DEF r7, f7
  <2>1. LimitFields \cap Setup!ModbusFields = {}
    BY LimitsElsewhere
  <2> QED BY <1>6, <1>11, <2>1, OverGives, Zenon
<1>13. Gives(r5, f5, kept)
  <2> HIDE DEF r6, f6, r7, f7
  <2>1. LimitFields \cap Setup!JsonFields = {}
    BY LimitsElsewhere
  <2> QED BY <1>5, <1>12, <2>1, OverGives, Zenon
<1>14. Gives(r4, f4, kept)
  <2> HIDE DEF r5, f5, r6, f6, r7, f7
  <2>1. LimitFields \cap (Setup!LinkFields \cup {"adapter"}) = {}
    BY LimitsElsewhere
  <2> QED BY <1>4, <1>13, <2>1, OverGives, Zenon
<1>15. Gives(r3, f3, kept)
  <2> HIDE DEF r4, f4, r5, f5, r6, f6, r7, f7
  <2>1. LimitFields \cap Setup!RuntimeFields = {}
    BY LimitsElsewhere
  <2> QED BY <1>3, <1>14, <2>1, OverGives, Zenon
<1>16. Gives(r2, f2, kept)
  <2> HIDE DEF r3, f3, r4, f4, r5, f5, r6, f6, r7, f7
  <2>1. LimitFields \cap Setup!CaptureFields = {}
    BY LimitsElsewhere
  <2> QED BY <1>2, <1>15, <2>1, OverGives, Zenon
<1>17. Gives(r1, f1, kept)
  <2> HIDE DEF r2, f2, r3, f3, r4, f4, r5, f5, r6, f6, r7, f7
  <2>1. LimitFields \cap Setup!VisionFields = {}
    BY LimitsElsewhere
  <2> QED BY <1>1, <1>16, <2>1, OverGives, Zenon
<1>18. f1 = Setup!Fields
  <2> HIDE DEF r1
  <2>1. f1 \subseteq Setup!Fields
    <3>1. "adapter" \in Setup!Fields
      BY ChoicesAre DEF Setup!Fields
    <3> QED BY <3>1, SectionsAre
  <2>2. Setup!Fields \subseteq f1
    BY SectionsAre
  <2> QED BY <2>1, <2>2
<1>19. r1 = [f \in DOMAIN r1 |-> r1[f]]
  <2> HIDE DEF r2
  <2> QED BY OverIs
<1> HIDE DEF r1, f1
<1>20. r1 \in AllSettings
  <2>1. \A f \in Setup!Fields : r1[f] \in Setup!KindOf(f)
    BY <1>17, <1>18 DEF Setup!SomeSettings, Gives
  <2>2. r1 = [f \in Setup!Fields |-> r1[f]]
    BY <1>17, <1>18, <1>19 DEF Gives
  <2> QED BY <2>1, <2>2, AllSettingsAre
<1> QED BY <1>9, <1>17, <1>20 DEF Gives

-----------------------------------------------------------------------------
(* The calibration.                                                        *)

\* Scales that are positive, an area and a matrix that can be inverted.
Usable(c) == ~(c.sx <= 0) /\ ~(c.sy <= 0) /\ Setup!DeadOk(c.dead) /\ Setup!Det(c.affine) # 0

LEMMA AxesAre ==
    ASSUME NEW c, c.ox \in Int, c.oy \in Int, c.sx \in Int, c.sy \in Int
    PROVE  /\ Setup!Axes(c) \in Setup!Matrix
           /\ Setup!Det(Setup!Axes(c)) = c.sx * c.sy
<1>1. Setup!Axes(c) \in Setup!Matrix
  BY DEF Setup!Axes, Setup!Matrix
<1>2. Setup!Det(Setup!Axes(c)) = c.sx * c.sy - 0 * 0
  BY DEF Setup!Axes, Setup!Det
<1>3. c.sx * c.sy \in Int /\ 0 * 0 = 0
  OBVIOUS
<1> QED BY <1>1, <1>2, <1>3

LEMMA DefaultDeadIs ==
    ASSUME NEW c, c.ox \in Int, c.oy \in Int, c.sx \in Int, c.sy \in Int
    PROVE  Setup!DefaultDead(c) \in Setup!CapturedArea
<1>1. (21 * c.sx) \div 2 \in Int
  OBVIOUS
<1> QED BY <1>1 DEF Setup!DefaultDead, Setup!CapturedArea

\* An update may stop half-way; it leaves the halves alone, and what could be inverted can be.
LEMMA UpdatedIs ==
    ASSUME NEW c \in Setup!Cal, NEW u, Setup!SomeUpdate(u)
    PROVE  LET res == Setup!Updated(c, u) IN
           /\ res.cal \in Setup!Cal /\ res.ok \in BOOLEAN /\ res.cal.split = c.split
           /\ res.cal.affine = c.affine \/ Setup!Det(res.cal.affine) # 0
<1> DEFINE Val(key) == IF Setup!Given(u, key) THEN u[key] ELSE c[key]
           moved == [c EXCEPT !.ox = Val("ox"), !.oy = Val("oy"), !.sx = Val("sx"), !.sy = Val("sy")]
           dead == IF Setup!Given(u, "dead") THEN u.dead
                   ELSE IF \E k \in {"ox", "oy", "sx", "sy"} : Setup!Given(u, k) THEN Setup!DefaultDead(moved) ELSE c.dead
           placed == [moved EXCEPT !.dead = dead]
           matrix == IF Setup!Given(u, "affine") THEN u.affine ELSE Setup!Axes(moved)
<1>1. Setup!Updated(c, u) =
        IF moved.sx <= 0 \/ moved.sy <= 0 THEN [cal |-> moved, ok |-> FALSE]
        ELSE IF ~Setup!DeadOk(dead)
        THEN [cal |-> [moved EXCEPT !.dead.x = dead.x, !.dead.y = dead.y], ok |-> FALSE]
        ELSE IF Setup!Det(matrix) = 0 THEN [cal |-> placed, ok |-> FALSE]
        ELSE [cal |-> [placed EXCEPT !.affine = matrix], ok |-> TRUE]
  BY Zenon DEF Setup!Updated
<1>2. moved \in Setup!Cal /\ moved.split = c.split /\ moved.affine = c.affine
  BY DEF Setup!Cal, Setup!SomeUpdate, Setup!Given
<1>3. dead \in Setup!CapturedArea
  <2>1. Setup!DefaultDead(moved) \in Setup!CapturedArea
    <3> HIDE DEF moved
    <3> QED BY <1>2, DefaultDeadIs DEF Setup!Cal
  <2>2. c.dead \in Setup!CapturedArea
    BY DEF Setup!Cal
  <2> QED BY <2>1, <2>2 DEF Setup!SomeUpdate, Setup!Given
<1>4. matrix \in Setup!Matrix
  <2>1. Setup!Axes(moved) \in Setup!Matrix
    <3> HIDE DEF moved
    <3> QED BY <1>2, AxesAre DEF Setup!Cal
  <2> QED BY <2>1 DEF Setup!SomeUpdate, Setup!Given
<1> HIDE DEF moved, dead, matrix
<1>5. placed \in Setup!Cal /\ placed.split = c.split /\ placed.affine = c.affine
  BY <1>2, <1>3 DEF Setup!Cal
<1>6. LET v == [moved EXCEPT !.dead.x = dead.x, !.dead.y = dead.y]
      IN  v \in Setup!Cal /\ v.split = c.split /\ v.affine = c.affine
  BY <1>2, <1>3 DEF Setup!Cal, Setup!CapturedArea
<1>7. LET v == [placed EXCEPT !.affine = matrix]
      IN  v \in Setup!Cal /\ v.split = c.split /\ v.affine = matrix
  BY <1>4, <1>5 DEF Setup!Cal
<1> QED BY <1>1, <1>2, <1>5, <1>6, <1>7

\* An update that names everything: what comes of it does not depend on what was there.
MatrixOf(u) == IF "affine" \in DOMAIN u THEN u.affine ELSE Setup!Axes(u)
Usably(u) == ~(u.sx <= 0) /\ ~(u.sy <= 0) /\ Setup!DeadOk(u.dead) /\ Setup!Det(MatrixOf(u)) # 0

LEMMA FullUpdateIs ==
    ASSUME NEW c \in Setup!Cal, NEW u, Setup!SomeUpdate(u), {"ox", "oy", "sx", "sy", "dead"} \subseteq DOMAIN u
    PROVE  LET res == Setup!Updated(c, u) IN
           /\ res.ok <=> Usably(u)
           /\ res.ok => res.cal = [c EXCEPT !.ox = u.ox, !.oy = u.oy, !.sx = u.sx, !.sy = u.sy, !.dead = u.dead,
                                            !.affine = MatrixOf(u)]
<1> DEFINE moved == [c EXCEPT !.ox = u.ox, !.oy = u.oy, !.sx = u.sx, !.sy = u.sy]
           matrix == IF "affine" \in DOMAIN u THEN u.affine ELSE Setup!Axes(moved)
           placed == [moved EXCEPT !.dead = u.dead]
<1>1. Setup!Updated(c, u) =
        IF moved.sx <= 0 \/ moved.sy <= 0 THEN [cal |-> moved, ok |-> FALSE]
        ELSE IF ~Setup!DeadOk(u.dead)
        THEN [cal |-> [moved EXCEPT !.dead.x = u.dead.x, !.dead.y = u.dead.y], ok |-> FALSE]
        ELSE IF Setup!Det(matrix) = 0 THEN [cal |-> placed, ok |-> FALSE]
        ELSE [cal |-> [placed EXCEPT !.affine = matrix], ok |-> TRUE]
  BY DEF Setup!Updated, Setup!Given
<1>2. moved.sx = u.sx /\ moved.sy = u.sy /\ moved.ox = u.ox /\ moved.oy = u.oy
  BY DEF Setup!Cal
<1>3. matrix = MatrixOf(u)
  BY <1>2 DEF MatrixOf, Setup!Axes
<1>4. [placed EXCEPT !.affine = matrix] =
        [c EXCEPT !.ox = u.ox, !.oy = u.oy, !.sx = u.sx, !.sy = u.sy, !.dead = u.dead, !.affine = matrix]
  BY DEF Setup!Cal
<1> HIDE DEF moved, matrix, placed
<1> QED BY <1>1, <1>2, <1>3, <1>4 DEF Usably

LEMMA LengthIs == ASSUME NEW a \in Int, NEW b \in Int PROVE Setup!Length(a, b) \in Nat
<1> DEFINE s == a * a + b * b
           m == Setup!Magnitude(a) + Setup!Magnitude(b)
           P(n) == n * n <= s /\ (n + 1) * (n + 1) > s
<1>1. Setup!Magnitude(a) \in Nat /\ (Setup!Magnitude(a) = a \/ Setup!Magnitude(a) = -a)
  <2>1. \E x \in {a, -a} : \A y \in {a, -a} : x >= y
    OBVIOUS
  <2> QED BY <2>1 DEF Setup!Magnitude, Setup!Max
<1>2. Setup!Magnitude(b) \in Nat /\ (Setup!Magnitude(b) = b \/ Setup!Magnitude(b) = -b)
  <2>1. \E x \in {b, -b} : \A y \in {b, -b} : x >= y
    OBVIOUS
  <2> QED BY <2>1 DEF Setup!Magnitude, Setup!Max
<1>3. s \in Nat /\ m \in Nat /\ (m + 1) * (m + 1) > s
  <2> DEFINE x == Setup!Magnitude(a)  y == Setup!Magnitude(b)
  <2>1. x \in Nat /\ y \in Nat /\ (x = a \/ x = -a) /\ (y = b \/ y = -b)
    BY <1>1, <1>2
  <2>2. m = x + y
    OBVIOUS
  <2> HIDE DEF x, y, m
  <2>3. x * x = a * a /\ y * y = b * b
    BY <2>1
  <2>4. (m + 1) * (m + 1) = x * x + y * y + 2 * (x * y) + 2 * x + 2 * y + 1
    BY <2>1, <2>2
  <2>5. x * y >= 0 /\ x * x \in Int /\ y * y \in Int /\ a * a \in Int /\ b * b \in Int /\ x * y \in Int
    BY <2>1
  <2>6. x * x >= 0 /\ y * y >= 0
    BY <2>1
  <2>7. s = x * x + y * y
    BY <2>3
  <2> HIDE DEF s
  <2> QED BY <2>1, <2>2, <2>4, <2>5, <2>6, <2>7
<1> HIDE DEF s, m
<1>4. \E n \in 0..m : P(n)
  <2> DEFINE K == {k \in Nat : k * k > s}
  <2>1. m + 1 \in K
    BY <1>3
  <2>2. PICK k \in K : \A l \in K : k <= l
    <3>1. K \subseteq Nat /\ K # {}
      BY <2>1
    <3> HIDE DEF K
    <3> QED BY <3>1, LeastNatural
  <2>3. k # 0 /\ k <= m + 1
    BY <1>3, <2>1, <2>2
  <2>4. k - 1 \in 0..m /\ k - 1 \notin K /\ (k - 1) + 1 = k
    BY <1>3, <2>2, <2>3
  <2>5. ~((k - 1) * (k - 1) > s) /\ (k - 1) * (k - 1) \in Int
    BY <2>4
  <2>6. P(k - 1)
    BY <1>3, <2>2, <2>4, <2>5
  <2> QED BY <2>4, <2>6
<1>5. Setup!Length(a, b) = CHOOSE n \in 0..m : P(n)
  BY DEF Setup!Length, s, m
<1> HIDE DEF P
<1> QED BY <1>3, <1>4, <1>5

\* A measured calibration is one, or the request stopped before the matrix was changed.
LEMMA MeasuredIs ==
    ASSUME NEW c \in Setup!Cal, NEW S, Setup!FitsWhole(S)
    PROVE  LET res == Setup!Measured(c, S) IN
           /\ res.cal \in Setup!Cal /\ res.ok \in BOOLEAN /\ res.cal.split = c.split
           /\ res.cal.affine = c.affine \/ Setup!Det(res.cal.affine) # 0
<1> DEFINE m == Setup!FitAffine(S)
           fx == Setup!FitAxis({<<q.f, q.x>> : q \in S}, c.sx)
           fy == Setup!FitAxis({<<q.r, q.y>> : q \in S}, c.sy)
           free == [c EXCEPT !.affine = m, !.ox = m[1][3], !.oy = m[2][3],
                             !.sx = Setup!Length(m[1][1], m[2][1]), !.sy = Setup!Length(m[1][2], m[2][2])]
           axial == [c EXCEPT !.ox = fx.origin, !.sx = fx.step, !.oy = fy.origin, !.sy = fy.step]
           placed == [axial EXCEPT !.affine = Setup!Axes(axial)]
           half == [c EXCEPT !.ox = fx.origin, !.sx = fx.step]
           Done(d) == [cal |-> [d EXCEPT !.dead = Setup!DefaultDead(d)], ok |-> TRUE]
<1>1. Setup!Measured(c, S) =
        IF Setup!Cardinality(S) < 2 THEN [cal |-> c, ok |-> FALSE]
        ELSE IF Setup!NonCollinear(S)
        THEN IF Setup!Det(m) = 0 THEN [cal |-> c, ok |-> FALSE] ELSE Done(free)
        ELSE IF fx.step <= 0 THEN [cal |-> c, ok |-> FALSE]
        ELSE IF fy.step <= 0 THEN [cal |-> half, ok |-> FALSE]
        ELSE Done(placed)
  BY Zenon DEF Setup!Measured
<1>2. ASSUME NEW d \in Setup!Cal
      PROVE  LET e == [d EXCEPT !.dead = Setup!DefaultDead(d)] IN e \in Setup!Cal /\ e.split = d.split /\ e.affine = d.affine
  <2>1. d.ox \in Int /\ d.oy \in Int /\ d.sx \in Int /\ d.sy \in Int
    BY DEF Setup!Cal
  <2>2. Setup!DefaultDead(d) \in Setup!CapturedArea
    BY <2>1, DefaultDeadIs
  <2> QED BY <2>2 DEF Setup!Cal
<1>3. ASSUME Setup!Cardinality(S) >= 2, Setup!NonCollinear(S)
      PROVE  free \in Setup!Cal /\ free.split = c.split /\ free.affine = m
  <2>1. m \in Setup!Matrix
    BY <1>3 DEF Setup!FitsWhole
  <2> HIDE DEF m
  <2>2. m[1][1] \in Int /\ m[1][2] \in Int /\ m[1][3] \in Int /\ m[2][1] \in Int /\ m[2][2] \in Int /\ m[2][3] \in Int
    BY <2>1 DEF Setup!Matrix
  <2>3. Setup!Length(m[1][1], m[2][1]) \in Int /\ Setup!Length(m[1][2], m[2][2]) \in Int
    <3>1. Setup!Length(m[1][1], m[2][1]) \in Nat /\ Setup!Length(m[1][2], m[2][2]) \in Nat
      BY <2>2, LengthIs, Zenon
    <3> QED BY <3>1
  <2> QED BY <2>1, <2>2, <2>3 DEF Setup!Cal
<1>4. ASSUME Setup!Cardinality(S) >= 2, ~Setup!NonCollinear(S)
      PROVE  fx.origin \in Int /\ fx.step \in Int /\ fy.origin \in Int /\ fy.step \in Int
  <2>1. ASSUME NEW P, Setup!AxisWhole(P), NEW s \in Int
        PROVE  Setup!FitAxis(P, s).origin \in Int /\ Setup!FitAxis(P, s).step \in Int
    <3> DEFINE n == Setup!Cardinality(P)
               I == Setup!Total([q \in P |-> q[1]])  W == Setup!Total([q \in P |-> q[2]])
               k == Setup!Cardinality({q[1] : q \in P})
               slope == Setup!Centred(n, Setup!Total([q \in P |-> q[1] * q[2]]), I, W)
                        \div Setup!Centred(n, Setup!Total([q \in P |-> q[1] * q[1]]), I, I)
               st == IF k < 2 THEN s ELSE slope
    <3>1. Setup!FitAxis(P, s) = Setup!Line(n, I, W, st)
      BY Zenon DEF Setup!FitAxis
    <3>2. Setup!FitAxis(P, 0) = Setup!Line(n, I, W, IF k < 2 THEN 0 ELSE slope)
      BY Zenon DEF Setup!FitAxis
    <3>3. n \in Nat \ {0} /\ I \in Int /\ W \in Int /\ (k >= 2 => Setup!FitAxis(P, 0).step \in Int)
      BY <2>1, Zenon DEF Setup!AxisWhole
    <3>4. k \in Nat
      BY <2>1, Zenon DEF Setup!AxisWhole
    <3> HIDE DEF n, I, W, k, slope
    <3> QED BY <3>1, <3>2, <3>3, <3>4 DEF Setup!Line
  <2>2. Setup!AxisWhole({<<q.f, q.x>> : q \in S}) /\ Setup!AxisWhole({<<q.r, q.y>> : q \in S})
    BY <1>4 DEF Setup!FitsWhole
  <2>3. c.sx \in Int /\ c.sy \in Int
    BY DEF Setup!Cal
  <2> QED BY <2>1, <2>2, <2>3
<1>5. ASSUME fx.origin \in Int, fx.step \in Int, fy.origin \in Int, fy.step \in Int
      PROVE  /\ half \in Setup!Cal /\ half.split = c.split /\ half.affine = c.affine
             /\ placed \in Setup!Cal /\ placed.split = c.split
             /\ ~(fx.step <= 0) /\ ~(fy.step <= 0) => Setup!Det(placed.affine) # 0
  <2> DEFINE a == fx.origin  b == fx.step  e == fy.origin  g == fy.step
  <2>1. a \in Int /\ b \in Int /\ e \in Int /\ g \in Int
    BY <1>5
  <2>2. half = [c EXCEPT !.ox = a, !.sx = b] /\ axial = [c EXCEPT !.ox = a, !.sx = b, !.oy = e, !.sy = g]
    OBVIOUS
  <2> HIDE DEF a, b, e, g, half, axial
  <2>3. half \in Setup!Cal /\ half.split = c.split /\ half.affine = c.affine
    BY <2>1, <2>2 DEF Setup!Cal
  <2>4. axial \in Setup!Cal /\ axial.split = c.split /\ axial.sx = b /\ axial.sy = g
    BY <2>1, <2>2 DEF Setup!Cal
  <2>5. Setup!Axes(axial) \in Setup!Matrix /\ Setup!Det(Setup!Axes(axial)) = b * g
    <3>1. axial.ox \in Int /\ axial.oy \in Int /\ axial.sx \in Int /\ axial.sy \in Int
      BY <2>4 DEF Setup!Cal
    <3>2. Setup!Det(Setup!Axes(axial)) = axial.sx * axial.sy /\ Setup!Axes(axial) \in Setup!Matrix
      BY <3>1, AxesAre
    <3> QED BY <2>4, <3>2
  <2>6. placed \in Setup!Cal /\ placed.split = c.split /\ placed.affine = Setup!Axes(axial)
    BY <2>4, <2>5 DEF Setup!Cal
  <2>7. ~(b <= 0) /\ ~(g <= 0) => b * g # 0
    BY <2>1
  <2> HIDE DEF placed
  <2>8. ~(b <= 0) /\ ~(g <= 0) => Setup!Det(placed.affine) # 0
    BY <2>5, <2>6, <2>7
  <2> QED BY <2>3, <2>6, <2>8 DEF b, g
<1>6. c \in Setup!Cal
  OBVIOUS
<1>0. Setup!Cardinality(S) \in Nat
  BY DEF Setup!FitsWhole
<1>7. CASE Setup!Cardinality(S) < 2
  BY <1>1, <1>7
<1>8. CASE ~(Setup!Cardinality(S) < 2) /\ Setup!NonCollinear(S)
  <2> HIDE DEF m, free, fx, fy, half, placed, axial
  <2>1. CASE Setup!Det(m) = 0
    BY <1>1, <1>8, <2>1
  <2>2. CASE Setup!Det(m) # 0
    <3>1. free \in Setup!Cal /\ free.split = c.split /\ free.affine = m
      BY <1>0, <1>3, <1>8
    <3> DEFINE e == [free EXCEPT !.dead = Setup!DefaultDead(free)]
    <3>2. e \in Setup!Cal /\ e.split = free.split /\ e.affine = free.affine
      BY <1>2, <3>1
    <3>3. Setup!Measured(c, S) = [cal |-> e, ok |-> TRUE]
      BY <1>1, <1>8, <2>2
    <3> HIDE DEF e
    <3> QED BY <2>2, <3>1, <3>2, <3>3
  <2> QED BY <2>1, <2>2
<1>9. CASE ~(Setup!Cardinality(S) < 2) /\ ~Setup!NonCollinear(S)
  <2>1. fx.origin \in Int /\ fx.step \in Int /\ fy.origin \in Int /\ fy.step \in Int
    BY <1>0, <1>4, <1>9
  <2>2. /\ half \in Setup!Cal /\ half.split = c.split /\ half.affine = c.affine
        /\ placed \in Setup!Cal /\ placed.split = c.split
        /\ ~(fx.step <= 0) /\ ~(fy.step <= 0) => Setup!Det(placed.affine) # 0
    BY <1>5, <2>1, Zenon
  <2> HIDE DEF m, free, fx, fy, half, placed, axial
  <2>3. CASE fx.step <= 0
    BY <1>1, <1>9, <2>3
  <2>4. CASE ~(fx.step <= 0) /\ fy.step <= 0
    BY <1>1, <1>9, <2>2, <2>4
  <2>5. CASE ~(fx.step <= 0) /\ ~(fy.step <= 0)
    <3> DEFINE e == [placed EXCEPT !.dead = Setup!DefaultDead(placed)]
    <3>2. e \in Setup!Cal /\ e.split = placed.split /\ e.affine = placed.affine
      BY <1>2, <2>2
    <3>3. Setup!Measured(c, S) = [cal |-> e, ok |-> TRUE]
      BY <1>1, <1>9, <2>5
    <3> HIDE DEF e
    <3> QED BY <2>2, <2>5, <3>2, <3>3
  <2> QED BY <2>3, <2>4, <2>5
<1> QED BY <1>7, <1>8, <1>9

\* What a change may leave behind: a calibration that still divides the board as before, whose matrix is the
\* one before or can be inverted.
ChangeOf(d, c) == d \in Setup!Cal /\ d.split = c.split /\ (d.affine = c.affine \/ Setup!Det(d.affine) # 0)

LEMMA ChangeInvertible ==
    ASSUME NEW c, NEW d, ChangeOf(d, c), Invertible(c)
    PROVE  Invertible(d)
<1>1. d.affine \in Setup!Matrix
  BY DEF ChangeOf, Setup!Cal
<1> QED BY <1>1 DEF ChangeOf, Invertible

LEMMA ChangedIs ==
    ASSUME Setup!RequestsSound, NEW c \in Setup!Cal, NEW r \in CalRequests
    PROVE  LET res == Setup!Changed(c, r) IN ChangeOf(res.cal, c) /\ res.ok \in BOOLEAN
<1> DEFINE Good(res) == ChangeOf(res.cal, c) /\ res.ok \in BOOLEAN
<1>0. r.kind \in {"values", "points", "image", "clear"}
  BY DEF Setup!RequestsSound
<1>1. CASE r.kind = "values"
  <2>1. Setup!Changed(c, r) = Setup!Updated(c, r.u)
    BY <1>1 DEF Setup!Changed
  <2>2. Good(Setup!Updated(c, r.u))
    BY <1>1, UpdatedIs DEF Setup!RequestsSound, ChangeOf
  <2> QED BY <2>1, <2>2
<1>2. CASE r.kind = "points"
  <2> DEFINE res == Setup!Measured(c, r.samples)
  <2>1. Setup!Changed(c, r) = IF res.ok /\ "dead" \in DOMAIN r THEN [res EXCEPT !.cal.dead = r.dead] ELSE res
    BY <1>2 DEF Setup!Changed
  <2>2. Good(res) /\ ("dead" \in DOMAIN r => r.dead \in Setup!CapturedArea)
    BY <1>2, MeasuredIs DEF Setup!RequestsSound, ChangeOf
  <2>3. \E d : \E b \in BOOLEAN : res = [cal |-> d, ok |-> b]
    <3> HIDE DEF Good
    <3> QED BY DEF Setup!Measured
  <2>4. PICK d : \E b \in BOOLEAN : res = [cal |-> d, ok |-> b]
    BY <2>3
  <2>5. PICK b \in BOOLEAN : res = [cal |-> d, ok |-> b]
    BY <2>4
  <2> HIDE DEF res
  <2>6. res.cal = d /\ res.ok = b
    BY <2>5
  <2>7. CASE res.ok /\ "dead" \in DOMAIN r
    <3> DEFINE e == [d EXCEPT !.dead = r.dead]
    <3>1. e \in Setup!Cal /\ e.split = d.split /\ e.affine = d.affine
      BY <2>2, <2>6, <2>7 DEF ChangeOf, Setup!Cal
    <3>2. [res EXCEPT !.cal.dead = r.dead] = [cal |-> e, ok |-> b]
      BY <2>5
    <3> HIDE DEF e
    <3>3. Setup!Changed(c, r) = [cal |-> e, ok |-> b]
      BY <2>1, <2>7, <3>2
    <3> QED BY <2>2, <2>6, <3>1, <3>3 DEF ChangeOf
  <2> QED BY <2>1, <2>2, <2>7
<1>3. CASE r.kind = "image"
  <2> DEFINE e == [c EXCEPT !.image = [space |-> r.space, points |-> r.samples]]
  <2>1. \/ Setup!Changed(c, r) = [cal |-> c, ok |-> FALSE]
        \/ r.space \in {"rectified_board", "camera_frame"} /\ Setup!Changed(c, r) = [cal |-> e, ok |-> TRUE]
    <3>1. Setup!Changed(c, r) = Setup!ImageMapped(c, r.samples, r.space)
      BY <1>3 DEF Setup!Changed
    <3> QED BY <3>1, Zenon DEF Setup!ImageMapped
  <2>2. r.space \in {"rectified_board", "camera_frame"} =>
          e \in Setup!Cal /\ e.split = c.split /\ e.affine = c.affine
    <3>1. r.space \in {"rectified_board", "camera_frame"} => [space |-> r.space, points |-> r.samples] \in Setup!Picture
      BY <1>3 DEF Setup!Picture
    <3> DEFINE p == [space |-> r.space, points |-> r.samples]
    <3> HIDE DEF p
    <3> QED BY <3>1 DEF Setup!Cal, p
  <2> HIDE DEF e
  <2>3. ChangeOf(c, c)
    BY DEF ChangeOf
  <2>4. r.space \in {"rectified_board", "camera_frame"} => ChangeOf(e, c)
    BY <2>2 DEF ChangeOf
  <2> DEFINE res == Setup!Changed(c, r)
  <2>5. (res.cal = c /\ res.ok = FALSE) \/ (r.space \in {"rectified_board", "camera_frame"} /\ res.cal = e /\ res.ok = TRUE)
    BY <2>1
  <2> QED BY <2>3, <2>4, <2>5, Zenon
<1>4. CASE r.kind = "clear"
  <2> DEFINE e == [c EXCEPT !.image = NoMap]
  <2>1. Setup!Changed(c, r) = [cal |-> e, ok |-> TRUE]
    BY <1>4 DEF Setup!Changed
  <2>2. e \in Setup!Cal /\ e.split = c.split /\ e.affine = c.affine
    BY DEF Setup!Cal, Setup!Picture
  <2> HIDE DEF e
  <2> QED BY <2>1, <2>2 DEF ChangeOf
<1> QED BY <1>0, <1>1, <1>2, <1>3, <1>4

LEMMA DefaultCalIs ==
    ASSUME NEW s, s.min_y \in Int
    PROVE  LET c == Setup!DefaultCal(s) IN
           c \in Setup!Cal /\ c.split = NoSplit /\ Usable(c) /\ Invertible(c)
<1> DEFINE b == [ox |-> 0, oy |-> s.min_y, sx |-> 40, sy |-> 40]
           d == Setup!DefaultDead(b)  m == Setup!Axes(b)
           c == [ox |-> 0, oy |-> s.min_y, sx |-> 40, sy |-> 40, affine |-> m, dead |-> d, split |-> NoSplit,
                 image |-> NoMap]
<1>1. Setup!DefaultCal(s) = c
  BY Zenon DEF Setup!DefaultCal
<1>2. b.ox \in Int /\ b.oy \in Int /\ b.sx = 40 /\ b.sy = 40
  OBVIOUS
<1>3. m \in Setup!Matrix /\ Setup!Det(m) # 0
  <2> HIDE DEF b
  <2>1. m \in Setup!Matrix /\ Setup!Det(m) = b.sx * b.sy
    BY <1>2, AxesAre
  <2> QED BY <1>2, <2>1
<1>4. d \in Setup!CapturedArea /\ Setup!DeadOk(d)
  <2> HIDE DEF b
  <2>1. d \in Setup!CapturedArea
    BY <1>2, DefaultDeadIs
  <2>2. d.w = 80 /\ d.h = 80 /\ d.gap = 25 /\ d.slots = 4
    BY <1>2 DEF Setup!DefaultDead
  <2> QED BY <2>1, <2>2 DEF Setup!DeadOk
<1> HIDE DEF b, d, m
<1>5. c \in Setup!Cal
  BY <1>3, <1>4 DEF Setup!Cal, Setup!Picture
<1>6. c.split = NoSplit /\ c.affine = m /\ c.dead = d /\ c.sx = 40 /\ c.sy = 40
  OBVIOUS
<1> HIDE DEF c
<1> QED BY <1>1, <1>3, <1>4, <1>5, <1>6 DEF Usable, Invertible

\* What the script makes of the corners has nothing of the calibration it starts from but the picture's mapping.
LEMMA SplitHalvesIs ==
    ASSUME Setup!RequestsSound, NEW c \in Setup!Cal, Setup!DefaultCal(Default) \in Setup!Cal, NEW i \in ScriptInputs
    PROVE  LET n == Setup!SplitHalves(c, i.corners, i.dead) IN n \in Setup!Cal /\ Invertible(n)
<1> DEFINE k == i.corners
           lower == Setup!FitAffine(Setup!LowerSamples(k))
           upper == Setup!FitAffine(Setup!UpperSamples(k))
           a0 == Setup!Corner(k, "a0", "a4", "i0")
           whole == Setup!FitAffine(Setup!LowerSamples(k) \union {[q EXCEPT !.r = @ + 5] : q \in Setup!UpperSamples(k)})
           sx == (Setup!Length(lower[1][1], lower[2][1]) + Setup!Length(upper[1][1], upper[2][1])) \div 2
           sy == (Setup!Length(lower[1][2], lower[2][2]) + Setup!Length(upper[1][2], upper[2][2])) \div 2
           split == [lower |-> lower, upper |-> upper]
           Of(d) == [d EXCEPT !.ox = a0.x, !.oy = a0.y, !.dead = i.dead, !.affine = whole, !.sx = sx, !.sy = sy,
                              !.split = split]
           base == Setup!DefaultCal(Default)
<1>1. \A d : Setup!SplitHalves(d, k, i.dead) = Of(d)
  BY Zenon DEF Setup!SplitHalves
<1>2. LET n == Setup!SplitHalves(base, k, i.dead)
      IN  /\ n.ox \in Int /\ n.oy \in Int /\ n.affine \in Setup!Matrix /\ i.dead \in Setup!CapturedArea
          /\ n.split # NoSplit /\ Setup!HalvesFit(n.split)
  BY Zenon DEF Setup!RequestsSound
<1> HIDE DEF a0, whole, sx, sy, split, base
<1>3. Of(base).ox = a0.x /\ Of(base).oy = a0.y /\ Of(base).affine = whole /\ Of(base).split = split
  BY DEF Setup!Cal, base
<1>4. a0.x \in Int /\ a0.y \in Int /\ whole \in Setup!Matrix /\ i.dead \in Setup!CapturedArea /\ split # NoSplit
      /\ Setup!HalvesFit(split)
  BY <1>1, <1>2, <1>3
<1>5. lower \in Setup!Matrix /\ upper \in Setup!Matrix /\ split \in Setup!Halves
  <2> HIDE DEF lower, upper
  <2>1. split = [lower |-> lower, upper |-> upper]
    BY DEF split
  <2> QED BY <1>4, <2>1 DEF Setup!HalvesFit, Setup!Halves
<1>6. sx \in Int /\ sy \in Int
  <2> HIDE DEF lower, upper
  <2>1. \A m \in Setup!Matrix : m[1][1] \in Int /\ m[1][2] \in Int /\ m[2][1] \in Int /\ m[2][2] \in Int
    BY DEF Setup!Matrix
  <2>2. \A m \in Setup!Matrix : Setup!Length(m[1][1], m[2][1]) \in Nat /\ Setup!Length(m[1][2], m[2][2]) \in Nat
    BY <2>1, LengthIs, Zenon
  <2>3. \A x, y \in Nat : (x + y) \div 2 \in Int
    OBVIOUS
  <2>4. /\ Setup!Length(lower[1][1], lower[2][1]) \in Nat /\ Setup!Length(upper[1][1], upper[2][1]) \in Nat
        /\ Setup!Length(lower[1][2], lower[2][2]) \in Nat /\ Setup!Length(upper[1][2], upper[2][2]) \in Nat
    BY <1>5, <2>2, Zenon
  <2> QED BY <2>3, <2>4, Zenon DEF sx, sy
<1>7. Of(c) \in Setup!Cal /\ Of(c).split = split
  BY <1>4, <1>5, <1>6 DEF Setup!Cal
<1> HIDE DEF Of
<1> QED BY <1>1, <1>4, <1>7 DEF Invertible

-----------------------------------------------------------------------------
(* Settings that are asked for, stored and read again.                     *)

LEMMA MergedIs ==
    ASSUME Setup!FieldsSound, NEW s \in AllSettings, NEW r \in SettingsRequests
    PROVE  Setup!Merged(s, r.set) \in AllSettings
<1> DEFINE o == Setup!Over(r.set, s)
           w == Setup!SourceAlias(o["source"])
<1>1. Setup!Merged(s, r.set) = [o EXCEPT !["source"] = w]
  BY DEF Setup!Merged
<1>2. Setup!SomeSettings(s) /\ DOMAIN s = Setup!Fields
  BY DEF AllSettings
<1>3. Setup!SomeSettings(r.set) /\ DOMAIN r.set \subseteq Setup!Fields
  BY DEF Setup!FieldsSound, Setup!SomeSettings
<1>4. Setup!SomeSettings(o)
  BY <1>2, <1>3, OverTyped, Zenon
<1>5. DOMAIN o = Setup!Fields
  <2>1. DOMAIN o = DOMAIN r.set \cup DOMAIN s
    BY OverIs, Zenon
  <2> HIDE DEF o
  <2> QED BY <1>2, <1>3, <2>1
<1>6. "source" \in Setup!Fields /\ "source" \in DOMAIN Setup!Words
  BY ChoicesAre DEF Setup!Fields
<1> HIDE DEF o
<1>7. o["source"] \in Word
  BY <1>4, <1>5, <1>6, KindIs DEF Setup!SomeSettings
<1>8. {"opencv", "tmvision_http", "tmflow_json"} \subseteq Word
  <2>1. Setup!Words["source"] = {"opencv", "tmvision_http", "tmflow_json"}
    BY DEF Setup!Words
  <2> QED BY <1>6, <2>1 DEF Setup!FieldsSound
<1>9. w \in Word
  BY <1>7, <1>8 DEF Setup!SourceAlias
<1> HIDE DEF w
<1> DEFINE m == [o EXCEPT !["source"] = w]
<1>10. \A f \in Setup!Fields : m[f] \in Setup!KindOf(f)
  BY <1>4, <1>5, <1>9, KindIs DEF Setup!SomeSettings
<1>11. m = [f \in Setup!Fields |-> m[f]]
  BY <1>5
<1> HIDE DEF m
<1>12. m \in AllSettings
  BY <1>10, <1>11, AllSettingsAre
<1> QED BY <1>1, <1>12 DEF m

LEMMA FullUpdateSays ==
    ASSUME NEW u \in Setup!FullUpdate
    PROVE  /\ Setup!SomeUpdate(u) /\ {"ox", "oy", "sx", "sy", "dead"} \subseteq DOMAIN u
           /\ MatrixOf(u) \in Setup!Matrix
<1>0. u.ox \in Int /\ u.oy \in Int /\ u.sx \in Int /\ u.sy \in Int /\ u.dead \in Setup!CapturedArea
  BY DEF Setup!FullUpdate
<1>1. \/ DOMAIN u = {"ox", "oy", "sx", "sy", "dead"}
      \/ DOMAIN u = {"ox", "oy", "sx", "sy", "dead", "affine"} /\ u.affine \in Setup!Matrix
  BY DEF Setup!FullUpdate
<1>2. Setup!SomeUpdate(u)
  BY <1>0, <1>1 DEF Setup!SomeUpdate
<1>3. Setup!Axes(u) \in Setup!Matrix
  BY <1>0, AxesAre
<1>4. MatrixOf(u) \in Setup!Matrix
  BY <1>1, <1>3 DEF MatrixOf
<1> QED BY <1>1, <1>2, <1>4

LEMMA CalUpdateIs ==
    ASSUME live \in Setup!Cal, NEW a, Setup!SomeUpdate(a)
    PROVE  Setup!CalUpdate(a) \in Setup!FullUpdate
<1> DEFINE K == {"ox", "oy", "sx", "sy", "dead"}
           b == [k \in K |-> IF k \in DOMAIN a THEN a[k] ELSE live[k]]
           n == [ox |-> b["ox"], oy |-> b["oy"], sx |-> b["sx"], sy |-> b["sy"], dead |-> b["dead"]]
           m == [ox |-> b["ox"], oy |-> b["oy"], sx |-> b["sx"], sy |-> b["sy"], dead |-> b["dead"], affine |-> a.affine]
<1>1. live.ox \in Int /\ live.oy \in Int /\ live.sx \in Int /\ live.sy \in Int /\ live.dead \in Setup!CapturedArea
  BY DEF Setup!Cal
<1>2. b["ox"] \in Int /\ b["oy"] \in Int /\ b["sx"] \in Int /\ b["sy"] \in Int /\ b["dead"] \in Setup!CapturedArea
  BY <1>1 DEF Setup!SomeUpdate
<1>3. Setup!CalUpdate(a) = Setup!Over(b, IF "affine" \in DOMAIN a THEN [affine |-> a.affine] ELSE << >>)
  BY Zenon DEF Setup!CalUpdate
<1>4. DOMAIN b = K /\ b = [k \in K |-> b[k]]
  OBVIOUS
<1> HIDE DEF b
<1>5. CASE "affine" \in DOMAIN a
  <2>1. Setup!CalUpdate(a) = Setup!Over(b, [affine |-> a.affine])
    BY <1>3, <1>5
  <2>2. Setup!Over(b, [affine |-> a.affine]) = m
    BY <1>4 DEF Setup!Over
  <2>3. a.affine \in Setup!Matrix
    BY <1>5 DEF Setup!SomeUpdate
  <2> QED BY <1>2, <2>1, <2>2, <2>3 DEF Setup!FullUpdate
<1>6. CASE "affine" \notin DOMAIN a
  <2>1. Setup!CalUpdate(a) = Setup!Over(b, << >>)
    BY <1>3, <1>6
  <2>2. Setup!Over(b, << >>) = n
    <3>1. DOMAIN << >> = {}
      OBVIOUS
    <3> QED BY <1>4, <3>1 DEF Setup!Over
  <2> QED BY <1>2, <2>1, <2>2 DEF Setup!FullUpdate
<1> QED BY <1>5, <1>6

LEMMA PersistedIs ==
    ASSUME NEW s \in AllSettings, NEW kept, Setup!Storable(kept)
    PROVE  LET o == Setup!Over(Setup!Persisted(s), kept) IN
           o \in StoredFiles /\ \A f \in LimitFields : f \in DOMAIN o /\ o[f] = s[f]
<1> DEFINE F == Setup!Fields \ Setup!Unstored
           p == [f \in F |-> s[f]]
           o == Setup!Over(p, kept)
<1>1. Setup!Persisted(s) = p
  BY DEF Setup!Persisted, Setup!Restrict
<1>2. DOMAIN kept \subseteq F
  BY DEF Setup!Storable
<1>3. DOMAIN o = F /\ o = [f \in F |-> o[f]] /\ \A f \in F : o[f] = s[f]
  BY <1>2 DEF Setup!Over
<1>4. LimitFields \subseteq F
  <2>1. LimitFields \subseteq Setup!Fields
    BY LimitsElsewhere, SectionsAre
  <2>2. LimitFields \cap Setup!Unstored = {}
    BY DEF LimitFields, Setup!Unstored
  <2> QED BY <2>1, <2>2
<1> HIDE DEF o
<1>5. o \in StoredFiles
  <2>1. \A f \in F : o[f] \in Setup!KindOf(f)
    BY <1>3 DEF AllSettings, Setup!SomeSettings
  <2> QED BY <1>3, <2>1, AllSettingsAre
<1> QED BY <1>1, <1>3, <1>4, <1>5 DEF o

LEMMA LimitsAre ==
    ASSUME NEW s, NEW t, \A f \in LimitFields : s[f] = t[f]
    PROVE  Setup!Limits(s) = Setup!Limits(t)
<1>1. s["min_x"] = t["min_x"] /\ s["max_x"] = t["max_x"] /\ s["min_y"] = t["min_y"] /\ s["max_y"] = t["max_y"]
  BY DEF LimitFields
<1> QED BY <1>1 DEF Setup!Limits

\* The limits that were saved are those that are read at the next start, unless the environment overrules them.
LEMMA ReadBack ==
    ASSUME Setup!FieldsSound, NEW s \in AllSettings, NEW kept, Setup!Storable(kept),
           ~Setup!Overruled(Setup!Over(Setup!Persisted(s), kept))
    PROVE  Setup!Limits(Load(Setup!Over(Setup!Persisted(s), kept))) = Setup!Limits(s)
<1> DEFINE o == Setup!Over(Setup!Persisted(s), kept)
<1>1. o \in StoredFiles /\ \A f \in LimitFields : f \in DOMAIN o /\ o[f] = s[f]
  BY PersistedIs
<1>0. ~Setup!Overruled(o)
  OBVIOUS
<1> HIDE DEF o
<1>2. Setup!SomeSettings(o)
  BY <1>1 DEF StoredFiles
<1>3. \A f \in LimitFields : Load(o)[f] = Read(f, o)
  BY <1>2, LoadIs
<1>4. \A f \in LimitFields : Production /\ f \in DOMAIN Env => Env[f] = o[f]
  BY <1>0, <1>1 DEF Setup!Overruled, Setup!LimitFields, LimitFields
<1>5. \A f \in LimitFields : Read(f, o) = o[f]
  BY <1>1, <1>4 DEF Read, Setup!Setting
<1> DEFINE l == Load(o)
<1>6. \A f \in LimitFields : l[f] = s[f]
  BY <1>1, <1>3, <1>5
<1> HIDE DEF l
<1>7. Setup!Limits(l) = Setup!Limits(s)
  BY <1>6, LimitsAre
<1> QED BY <1>7 DEF l, o

-----------------------------------------------------------------------------
(* The values of the variables.                                            *)

Stages == {"renew", "open", "write", "stage", "replace", "apply", "mark", "validate", "restore"}

\* The steps of a request for settings and of one for a calibration.
StageOf(step, kind) ==
    /\ step \in {"renew", "stage", "replace", "apply", "mark"} => kind = "settings"
    /\ step \in {"validate", "restore"} => kind = "calibration"

\* What a thread does, typed: it writes what could be inverted.
SomeJob(j) ==
    /\ j \in Setup!Jobs /\ StageOf(j.at, j.kind)
    /\ j.kind = "settings" => Setup!SomeSettings(j.set)
    /\ "content" \in DOMAIN j => Invertible(j.content)
    /\ j.at = "write" => "content" \in DOMAIN j

SomeScript(s) ==
    \/ s = Idle
    \/ /\ s.at \in {"calibration", "settings"} /\ DOMAIN s = {"at", "set", "cal"}
       /\ Setup!Storable(s.set) /\ s.cal \in Setup!Cal /\ Invertible(s.cal)
    \/ s.at = "write" /\ DOMAIN s = {"at", "set"} /\ Setup!Storable(s.set)

MemoryTyped == live \in Setup!Cal /\ Invertible(live) /\ conf \in AllSettings
FilesTyped ==
    /\ calFile \in {Torn, Missing} \/ (calFile \in Setup!Cal /\ Invertible(calFile))
    /\ setFile = Torn \/ Setup!Storable(setFile)
    /\ temp = NoTemp \/ temp \in StoredFiles
JobsTyped == job \in [SetupThread -> {Idle} \cup Setup!Jobs] /\ \A t \in SetupThread : job[t] # Idle => SomeJob(job[t])
SetupTypes == MemoryTyped /\ FilesTyped /\ JobsTyped /\ SomeScript(script) /\ restarts \in Nat

LEMMA JobsAre ==
    ASSUME NEW j \in Setup!Jobs
    PROVE  /\ j.at \in Stages /\ j.kind \in {"settings", "calibration"} /\ {"at", "kind"} \subseteq DOMAIN j
           /\ j.kind = "settings" =>
                {"set", "u"} \subseteq DOMAIN j /\ j.u \in Setup!FullUpdate
                /\ j.set \in [Setup!Fields -> Int \cup BOOLEAN \cup Word]
           /\ j.kind = "calibration" =>
                {"old", "cal", "persist"} \subseteq DOMAIN j /\ j.old \in Setup!Cal /\ j.cal \in Setup!Cal
                /\ j.persist \in BOOLEAN
           /\ "content" \in DOMAIN j => j.content \in Setup!Cal
  BY DEF Setup!Jobs, Stages

LEMMA JobMoves ==
    ASSUME NEW j \in Setup!Jobs, NEW step \in Stages
    PROVE  LET k == [j EXCEPT !.at = step] IN
           /\ k \in Setup!Jobs /\ k.at = step /\ DOMAIN k = DOMAIN j
           /\ \A x \in DOMAIN j \ {"at"} : k[x] = j[x]
<1> DEFINE Held == [Setup!Fields -> Int \cup BOOLEAN \cup Word]
<1>1. Setup!Jobs =
        [at : Stages, kind : {"settings"}, set : Held, u : Setup!FullUpdate]
        \cup [at : Stages, kind : {"settings"}, set : Held, u : Setup!FullUpdate, content : Setup!Cal]
        \cup [at : Stages, kind : {"calibration"}, old : Setup!Cal, cal : Setup!Cal, persist : BOOLEAN]
        \cup [at : Stages, kind : {"calibration"}, old : Setup!Cal, cal : Setup!Cal, persist : BOOLEAN, content : Setup!Cal]
  BY Zenon DEF Setup!Jobs, Stages
<1> HIDE DEF Held
<1> QED BY <1>1

LEMMA JobWrites ==
    ASSUME NEW j \in Setup!Jobs, NEW c \in Setup!Cal
    PROVE  LET k == Setup!Over([at |-> "write", content |-> c], j) IN
           /\ k \in Setup!Jobs /\ k.at = "write" /\ DOMAIN k = DOMAIN j \cup {"content"} /\ k.content = c
           /\ \A x \in DOMAIN j \ {"at", "content"} : k[x] = j[x]
<1> DEFINE Held == [Setup!Fields -> Int \cup BOOLEAN \cup Word]
           k == Setup!Over([at |-> "write", content |-> c], j)
<1>1. Setup!Jobs =
        [at : Stages, kind : {"settings"}, set : Held, u : Setup!FullUpdate]
        \cup [at : Stages, kind : {"settings"}, set : Held, u : Setup!FullUpdate, content : Setup!Cal]
        \cup [at : Stages, kind : {"calibration"}, old : Setup!Cal, cal : Setup!Cal, persist : BOOLEAN]
        \cup [at : Stages, kind : {"calibration"}, old : Setup!Cal, cal : Setup!Cal, persist : BOOLEAN, content : Setup!Cal]
  BY Zenon DEF Setup!Jobs, Stages
<1>2. "write" \in Stages
  BY DEF Stages
<1>3. k = [x \in DOMAIN j \cup {"at", "content"} |-> IF x = "at" THEN "write" ELSE IF x = "content" THEN c ELSE j[x]]
  BY DEF Setup!Over
<1>4. "at" \in DOMAIN j
  BY <1>1
<1>5. DOMAIN k = DOMAIN j \cup {"content"} /\ k.at = "write" /\ k.content = c
      /\ \A x \in DOMAIN j \ {"at", "content"} : k[x] = j[x]
  <2> HIDE DEF k
  <2> QED BY <1>3, <1>4
<1>6. k \in Setup!Jobs
  <2> HIDE DEF k, Held
  <2>1. CASE j.kind = "settings"
    <3>1. /\ j.kind = "settings" /\ j.set \in Held /\ j.u \in Setup!FullUpdate
          /\ DOMAIN j \cup {"content"} = {"at", "kind", "set", "u", "content"}
      BY <1>1, <2>1
    <3>2. k = [at |-> "write", kind |-> "settings", set |-> j.set, u |-> j.u, content |-> c]
      BY <1>3, <1>4, <3>1
    <3> QED BY <1>1, <1>2, <3>1, <3>2
  <2>2. CASE j.kind # "settings"
    <3>1. /\ j.kind = "calibration" /\ j.old \in Setup!Cal /\ j.cal \in Setup!Cal /\ j.persist \in BOOLEAN
          /\ DOMAIN j \cup {"content"} = {"at", "kind", "old", "cal", "persist", "content"}
      BY <1>1, <2>2
    <3>2. k = [at |-> "write", kind |-> "calibration", old |-> j.old, cal |-> j.cal, persist |-> j.persist, content |-> c]
      BY <1>3, <1>4, <3>1
    <3> QED BY <1>1, <1>2, <3>1, <3>2
  <2> QED BY <2>1, <2>2
<1> QED BY <1>5, <1>6

LEMMA SomeJobMoves ==
    ASSUME NEW j, SomeJob(j), NEW step \in Stages \ {"write"}, StageOf(step, j.kind)
    PROVE  LET k == [j EXCEPT !.at = step] IN SomeJob(k) /\ k.at = step
<1> DEFINE k == [j EXCEPT !.at = step]
<1>1. /\ k \in Setup!Jobs /\ k.at = step /\ DOMAIN k = DOMAIN j
      /\ \A x \in DOMAIN j \ {"at"} : k[x] = j[x]
  BY JobMoves DEF SomeJob
<1>2. /\ j.kind \in {"settings", "calibration"} /\ {"at", "kind"} \subseteq DOMAIN j
      /\ j.kind = "settings" => "set" \in DOMAIN j
  BY JobsAre DEF SomeJob
<1> HIDE DEF k
<1>3. k["kind"] = j["kind"] /\ (j.kind = "settings" => k["set"] = j["set"])
      /\ ("content" \in DOMAIN j => k["content"] = j["content"])
  BY <1>1, <1>2
<1>4. StageOf(k.at, k.kind)
  BY <1>1, <1>3
<1>5. SomeJob(k)
  BY <1>1, <1>3, <1>4 DEF SomeJob
<1> QED BY <1>1, <1>5 DEF k

LEMMA SomeJobWrites ==
    ASSUME NEW j, SomeJob(j), NEW c \in Setup!Cal, Invertible(c)
    PROVE  SomeJob(Setup!Over([at |-> "write", content |-> c], j))
<1> DEFINE k == Setup!Over([at |-> "write", content |-> c], j)
<1>1. /\ k \in Setup!Jobs /\ k.at = "write" /\ DOMAIN k = DOMAIN j \cup {"content"} /\ k.content = c
      /\ \A x \in DOMAIN j \ {"at", "content"} : k[x] = j[x]
  BY JobWrites DEF SomeJob
<1>2. /\ j.kind \in {"settings", "calibration"} /\ {"at", "kind"} \subseteq DOMAIN j
      /\ j.kind = "settings" => "set" \in DOMAIN j
  BY JobsAre DEF SomeJob
<1> HIDE DEF k
<1>3. k["kind"] = j["kind"] /\ (j.kind = "settings" => k["set"] = j["set"])
  BY <1>1, <1>2
<1>4. StageOf("write", k.kind)
  BY DEF StageOf
<1>5. SomeJob(k)
  BY <1>1, <1>3, <1>4 DEF SomeJob
<1> QED BY <1>5 DEF k

\* What an instance has to give.
SetupSound == Setup!FieldsSound /\ Setup!RequestsSound /\ Setup!NothingIsAValue /\ Setup!DefaultsFit

LEMMA StoredIs == ASSUME FilesTyped PROVE Setup!Storable(Setup!StoredSettings)
<1>1. DOMAIN << >> = {}
  OBVIOUS
<1>2. Setup!Storable(<< >>)
  BY <1>1 DEF Setup!Storable, Setup!SomeSettings
<1> QED BY <1>2 DEF FilesTyped, Setup!StoredSettings

LEMMA StoredFilesAre == ASSUME NEW s \in StoredFiles PROVE Setup!Storable(s)
  BY DEF StoredFiles, Setup!Storable

LEMMA AllSettingsHold ==
    ASSUME NEW s \in AllSettings
    PROVE  Setup!SomeSettings(s) /\ DOMAIN s = Setup!Fields /\ s.min_y \in Int
<1>1. Setup!SomeSettings(s) /\ DOMAIN s = Setup!Fields
  BY DEF AllSettings
<1>2. "min_y" \in Setup!Fields
  BY SectionsAre, LimitsElsewhere DEF LimitFields
<1>3. s["min_y"] \in Setup!KindOf("min_y")
  BY <1>1, <1>2 DEF Setup!SomeSettings
<1> QED BY <1>1, <1>3, KindIs

LEMMA ConfLoadedIs ==
    ASSUME SetupSound, FilesTyped
    PROVE  Setup!ConfLoaded = Load(Setup!StoredSettings) /\ Setup!ConfLoaded \in AllSettings
<1>1. Setup!ConfLoaded = Load(Setup!StoredSettings)
  BY Zenon DEF Setup!ConfLoaded, Load
<1>2. Setup!SomeSettings(Setup!StoredSettings)
  BY StoredIs DEF Setup!Storable
<1> QED BY <1>1, <1>2, LoadIs DEF SetupSound

LEMMA CalLoadedIs ==
    ASSUME FilesTyped, NEW s \in AllSettings
    PROVE  Setup!CalLoaded(calFile, s) \in Setup!Cal /\ Invertible(Setup!CalLoaded(calFile, s))
<1>1. Setup!DefaultCal(s) \in Setup!Cal /\ Invertible(Setup!DefaultCal(s))
  BY AllSettingsHold, DefaultCalIs
<1> QED BY <1>1 DEF FilesTyped, Setup!CalLoaded

LEMMA DefaultBase == ASSUME SetupSound PROVE Setup!DefaultCal(Default) \in Setup!Cal
<1>1. "min_y" \in Setup!Fields
  BY SectionsAre, LimitsElsewhere DEF LimitFields
<1>2. Default["min_y"] \in Setup!KindOf("min_y")
  BY <1>1 DEF SetupSound, Setup!FieldsSound, Setup!SomeSettings
<1> QED BY <1>2, KindIs, DefaultCalIs

\* One thread's job is another one or none.
LEMMA OneJob ==
    ASSUME JobsTyped, NEW t \in SetupThread, NEW j, j = Idle \/ SomeJob(j), job' = [job EXCEPT ![t] = j]
    PROVE  JobsTyped'
  BY DEF JobsTyped, SomeJob

LEMMA OneJobGoes ==
    ASSUME JobsTyped, NEW t \in SetupThread, job[t] # Idle, NEW step \in Stages \ {"write"},
           StageOf(step, job[t].kind), Setup!Go(t, step)
    PROVE  JobsTyped'
<1> DEFINE j == [job[t] EXCEPT !.at = step]
<1>1. SomeJob(j)
  BY SomeJobMoves DEF JobsTyped
<1>2. job' = [job EXCEPT ![t] = j]
  BY DEF Setup!Go
<1> HIDE DEF j
<1> QED BY <1>1, <1>2, OneJob

LEMMA OneJobEnds ==
    ASSUME JobsTyped, NEW t \in SetupThread, Setup!End(t)
    PROVE  JobsTyped'
  BY OneJob DEF Setup!End

\* The requests and what is left of them.
LEMMA PostedTyped ==
    ASSUME SetupSound, SetupTypes, NEW t \in SetupThread, NEW r \in SettingsRequests, Setup!SettingsPosted(t, r)
    PROVE  JobsTyped'
<1> DEFINE s == Setup!Merged(conf, r.set)  u == Setup!CalUpdate(r.cal)
           j == [at |-> "renew", kind |-> "settings", set |-> s, u |-> u]
<1>1. job' = [job EXCEPT ![t] = j] \/ job' = job
  BY Zenon DEF Setup!SettingsPosted
<1>2. s \in AllSettings
  BY MergedIs DEF SetupTypes, MemoryTyped, SetupSound
<1>3. u \in Setup!FullUpdate
  BY CalUpdateIs DEF SetupTypes, MemoryTyped, SetupSound, Setup!RequestsSound
<1> HIDE DEF s, u
<1>4. j \in Setup!Jobs /\ Setup!SomeSettings(s)
  <2>1. s \in [Setup!Fields -> Int \cup BOOLEAN \cup Word] /\ Setup!SomeSettings(s)
    BY <1>2 DEF AllSettings
  <2> QED BY <1>3, <2>1 DEF Setup!Jobs
<1>5. SomeJob(j)
  <2>1. j.at = "renew" /\ j.kind = "settings" /\ j.set = s /\ DOMAIN j = {"at", "kind", "set", "u"}
    OBVIOUS
  <2> HIDE DEF j
  <2> QED BY <1>4, <2>1 DEF SomeJob, StageOf
<1> HIDE DEF j
<1> QED BY <1>1, <1>5, OneJob DEF SetupTypes, JobsTyped

LEMMA RenewedTyped ==
    ASSUME SetupTypes, NEW t \in SetupThread, Setup!Renewed(t)
    PROVE  JobsTyped' /\ live' \in Setup!Cal /\ Invertible(live)'
<1>1. job[t] # Idle /\ job[t].at = "renew" /\ SomeJob(job[t])
  BY DEF Setup!Renewed, Setup!Doing, SetupTypes, JobsTyped
<1>2. JobsTyped'
  <2>1. Setup!Go(t, "open") \/ Setup!End(t)
    BY Zenon DEF Setup!Renewed
  <2>2. "open" \in Stages \ {"write"} /\ StageOf("open", job[t].kind)
    BY DEF Stages, StageOf
  <2> QED BY <1>1, <2>1, <2>2, OneJobGoes, OneJobEnds DEF SetupTypes
<1>3. Setup!SomeUpdate(job[t].u)
  BY <1>1, JobsAre, FullUpdateSays DEF SomeJob, StageOf
<1>4. live' = Setup!Updated(live, job[t].u).cal
  BY DEF Setup!Renewed
<1>5. ChangeOf(live', live)
  BY <1>3, <1>4, UpdatedIs DEF ChangeOf, SetupTypes, MemoryTyped
<1>6. Invertible(live')
  BY <1>5, ChangeInvertible DEF SetupTypes, MemoryTyped
<1> QED BY <1>2, <1>5, <1>6 DEF ChangeOf, Invertible

LEMMA OpenedTyped ==
    ASSUME SetupTypes, NEW t \in SetupThread, Setup!FileOpened(t)
    PROVE  JobsTyped' /\ calFile' = Torn
<1> DEFINE j == Setup!Over([at |-> "write", content |-> live], job[t])
<1>1. job[t] # Idle /\ job' = [job EXCEPT ![t] = j] /\ calFile' = Torn
  BY DEF Setup!FileOpened, Setup!Doing
<1>2. SomeJob(j)
  BY <1>1, SomeJobWrites DEF SetupTypes, JobsTyped, MemoryTyped
<1> HIDE DEF j
<1> QED BY <1>1, <1>2, OneJob DEF SetupTypes

LEMMA WrittenTyped ==
    ASSUME SetupTypes, NEW t \in SetupThread, Setup!FileWritten(t)
    PROVE  JobsTyped' /\ (calFile' = Torn \/ (calFile' \in Setup!Cal /\ Invertible(calFile')))
<1>1. job[t] # Idle /\ job[t].at = "write" /\ SomeJob(job[t]) /\ job[t] \in Setup!Jobs
  BY DEF Setup!FileWritten, Setup!Doing, SetupTypes, JobsTyped, SomeJob
<1>2. job[t].content \in Setup!Cal /\ Invertible(job[t].content)
  BY <1>1, JobsAre DEF SomeJob
<1>3. calFile' = Torn \/ calFile' = job[t].content
  BY DEF Setup!FileWritten
<1>4. JobsTyped'
  <2>1. (job[t].kind = "settings" /\ Setup!Go(t, "stage")) \/ Setup!End(t)
    BY Zenon DEF Setup!FileWritten
  <2>2. "stage" \in Stages \ {"write"}
    BY DEF Stages
  <2>3. job[t].kind = "settings" => StageOf("stage", job[t].kind)
    BY DEF StageOf
  <2> QED BY <1>1, <2>1, <2>2, <2>3, OneJobGoes, OneJobEnds DEF SetupTypes
<1> QED BY <1>2, <1>3, <1>4 DEF Invertible

LEMMA StagedTyped ==
    ASSUME SetupTypes, NEW t \in SetupThread, Setup!Staged(t)
    PROVE  JobsTyped' /\ temp' \in StoredFiles
<1>1. job[t] # Idle /\ job[t].at = "stage" /\ SomeJob(job[t])
  BY DEF Setup!Staged, Setup!Doing, SetupTypes, JobsTyped
<1>2. job[t].kind = "settings"
  BY <1>1 DEF SomeJob, StageOf
<1>3. job[t].set \in AllSettings
  BY <1>1, <1>2, JobsAre DEF SomeJob, AllSettings
<1>4. JobsTyped'
  <2>1. Setup!Go(t, "replace")
    BY Zenon DEF Setup!Staged
  <2>2. "replace" \in Stages \ {"write"} /\ StageOf("replace", job[t].kind)
    BY <1>2 DEF Stages, StageOf
  <2> QED BY <1>1, <2>1, <2>2, OneJobGoes DEF SetupTypes
<1>5. temp' = Setup!Over(Setup!Persisted(job[t].set), Setup!StoredSettings)
  BY DEF Setup!Staged
<1>6. temp' \in StoredFiles
  BY <1>3, <1>5, StoredIs, PersistedIs DEF SetupTypes
<1> QED BY <1>4, <1>6

LEMMA ReplacedTyped ==
    ASSUME SetupTypes, NEW t \in SetupThread, Setup!Replaced(t)
    PROVE  JobsTyped' /\ (UNCHANGED <<setFile, temp>> \/ (temp' = NoTemp /\ Setup!Storable(setFile')))
<1>1. job[t] # Idle /\ job[t].at = "replace" /\ SomeJob(job[t])
  BY DEF Setup!Replaced, Setup!Doing, SetupTypes, JobsTyped
<1>2. job[t].kind = "settings"
  BY <1>1 DEF SomeJob, StageOf
<1>3. \/ Setup!End(t) /\ UNCHANGED <<setFile, temp>>
      \/ temp # NoTemp /\ Setup!Go(t, "apply") /\ setFile' = temp /\ temp' = NoTemp
  BY Zenon DEF Setup!Replaced
<1>4. "apply" \in Stages \ {"write"} /\ StageOf("apply", job[t].kind)
  BY <1>2 DEF Stages, StageOf
<1>5. JobsTyped'
  BY <1>1, <1>3, <1>4, OneJobGoes, OneJobEnds DEF SetupTypes
<1>6. temp # NoTemp => Setup!Storable(temp)
  BY StoredFilesAre DEF SetupTypes, FilesTyped
<1> QED BY <1>3, <1>5, <1>6

LEMMA AppliedTyped ==
    ASSUME SetupTypes, NEW t \in SetupThread, Setup!Applied(t)
    PROVE  JobsTyped' /\ conf' \in AllSettings
<1>1. job[t] # Idle /\ job[t].at = "apply" /\ SomeJob(job[t])
  BY DEF Setup!Applied, Setup!Doing, SetupTypes, JobsTyped
<1>2. job[t].kind = "settings"
  BY <1>1 DEF SomeJob, StageOf
<1>3. "mark" \in Stages \ {"write"} /\ StageOf("mark", job[t].kind)
  BY <1>2 DEF Stages, StageOf
<1>4. Setup!Go(t, "mark") /\ conf' = job[t].set
  BY DEF Setup!Applied
<1>5. job[t].set \in AllSettings
  BY <1>1, <1>2, JobsAre DEF SomeJob, AllSettings
<1> QED BY <1>1, <1>3, <1>4, <1>5, OneJobGoes DEF SetupTypes

LEMMA AskedTyped ==
    ASSUME SetupSound, SetupTypes, NEW t \in SetupThread, NEW r \in CalRequests, Setup!CalibrationPosted(t, r)
    PROVE  JobsTyped' /\ live' \in Setup!Cal /\ Invertible(live)'
<1> DEFINE res == Setup!Changed(live, r)
           j == [at |-> IF res.ok THEN "validate" ELSE "restore", kind |-> "calibration", old |-> live, cal |-> res.cal,
                 persist |-> r.persist]
<1>1. job' = [job EXCEPT ![t] = j] /\ live' = res.cal
  BY Zenon DEF Setup!CalibrationPosted
<1>2. ChangeOf(res.cal, live)
  BY ChangedIs DEF SetupSound, SetupTypes, MemoryTyped
<1>3. r.persist \in BOOLEAN
  BY DEF SetupSound, Setup!RequestsSound
<1> HIDE DEF res
<1>4. j.at \in {"validate", "restore"} /\ j.kind = "calibration" /\ DOMAIN j = {"at", "kind", "old", "cal", "persist"}
  OBVIOUS
<1>5. j \in Setup!Jobs
  <2>1. live \in Setup!Cal /\ res.cal \in Setup!Cal
    BY <1>2 DEF ChangeOf, SetupTypes, MemoryTyped
  <2> QED BY <1>3, <2>1 DEF Setup!Jobs
<1> HIDE DEF j
<1>6. SomeJob(j)
  BY <1>4, <1>5 DEF SomeJob, StageOf
<1>7. Invertible(live')
  BY <1>1, <1>2, ChangeInvertible DEF SetupTypes, MemoryTyped
<1> QED BY <1>1, <1>2, <1>6, <1>7, OneJob DEF SetupTypes, ChangeOf, Invertible

LEMMA ValidatedTyped ==
    ASSUME SetupTypes, NEW t \in SetupThread, Setup!Validated(t)
    PROVE  JobsTyped'
<1>1. job[t] # Idle /\ job[t].at = "validate" /\ SomeJob(job[t])
  BY DEF Setup!Validated, Setup!Doing, SetupTypes, JobsTyped
<1>2. job[t].kind = "calibration"
  BY <1>1 DEF SomeJob, StageOf
<1>3. Setup!Go(t, "restore") \/ Setup!Go(t, "open") \/ Setup!End(t)
  BY Zenon DEF Setup!Validated
<1>4. {"restore", "open"} \subseteq Stages \ {"write"} /\ StageOf("restore", job[t].kind) /\ StageOf("open", job[t].kind)
  BY <1>2 DEF Stages, StageOf
<1> QED BY <1>1, <1>3, <1>4, OneJobGoes, OneJobEnds DEF SetupTypes

\* What is set back is of the kind of what was there.
LEMMA RestoredToIs ==
    ASSUME NEW c \in Setup!Cal, NEW old \in Setup!Cal
    PROVE  LET u == [k \in {"ox", "oy", "sx", "sy", "dead", "affine"} |-> old[k]] IN
           /\ Setup!SomeUpdate(u) /\ {"ox", "oy", "sx", "sy", "dead"} \subseteq DOMAIN u
           /\ ChangeOf(Setup!RestoredTo(c, old), c)
<1> DEFINE u == [k \in {"ox", "oy", "sx", "sy", "dead", "affine"} |-> old[k]]
           res == Setup!Updated(c, u)
           e == [res.cal EXCEPT !.image = old.image]
<1>1. Setup!SomeUpdate(u)
  BY DEF Setup!SomeUpdate, Setup!Cal
<1>2. {"ox", "oy", "sx", "sy", "dead"} \subseteq DOMAIN u
  OBVIOUS
<1>3. Setup!RestoredTo(c, old) = IF res.ok THEN e ELSE res.cal
  BY Zenon DEF Setup!RestoredTo
<1> HIDE DEF u
<1>4. ChangeOf(res.cal, c)
  BY <1>1, UpdatedIs DEF ChangeOf
<1> HIDE DEF res
<1>5. e \in Setup!Cal /\ e.split = res.cal.split /\ e.affine = res.cal.affine
  BY <1>4 DEF ChangeOf, Setup!Cal
<1> HIDE DEF e
<1>6. ChangeOf(e, c)
  BY <1>4, <1>5 DEF ChangeOf
<1> QED BY <1>1, <1>2, <1>3, <1>4, <1>6 DEF u

LEMMA RestoredTyped ==
    ASSUME SetupTypes, NEW t \in SetupThread, Setup!Restored(t)
    PROVE  JobsTyped' /\ live' \in Setup!Cal /\ Invertible(live)'
<1>1. job[t] # Idle /\ job[t].at = "restore" /\ SomeJob(job[t])
  BY DEF Setup!Restored, Setup!Doing, SetupTypes, JobsTyped
<1>2. job[t].old \in Setup!Cal
  BY <1>1, JobsAre DEF SomeJob, StageOf
<1>3. live' = Setup!RestoredTo(live, job[t].old) /\ Setup!End(t)
  BY DEF Setup!Restored
<1>4. ChangeOf(live', live)
  BY <1>2, <1>3, RestoredToIs DEF SetupTypes, MemoryTyped
<1>5. Invertible(live')
  BY <1>4, ChangeInvertible DEF SetupTypes, MemoryTyped
<1> QED BY <1>3, <1>4, <1>5, OneJobEnds DEF SetupTypes, ChangeOf, Invertible

LEMMA MarkedTyped ==
    ASSUME SetupTypes, NEW t \in SetupThread, Setup!Marked(t)
    PROVE  JobsTyped'
  BY OneJobEnds DEF Setup!Marked, SetupTypes

LEMMA ScriptTyped ==
    ASSUME SetupSound, SetupTypes,
           \/ \E i \in ScriptInputs : Setup!ScriptStarts(i)
           \/ Setup!ScriptCalibrates \/ Setup!ScriptOpensSettings \/ Setup!ScriptWritesSettings
    PROVE  SomeScript(script') /\ FilesTyped' /\ UNCHANGED <<live, conf, job, restarts>>
<1>1. CASE \E i \in ScriptInputs : Setup!ScriptStarts(i)
  <2>1. PICK i \in ScriptInputs : Setup!ScriptStarts(i)
    BY <1>1
  <2> DEFINE c == Setup!SplitHalves(Setup!CalLoaded(calFile, Setup!ConfLoaded), i.corners, i.dead)
  <2>2. Setup!CalLoaded(calFile, Setup!ConfLoaded) \in Setup!Cal
    BY ConfLoadedIs, CalLoadedIs DEF SetupTypes
  <2>3. c \in Setup!Cal /\ Invertible(c)
    BY <2>2, DefaultBase, SplitHalvesIs DEF SetupSound
  <2>4. Setup!Storable(i.set)
    BY DEF SetupSound, Setup!FieldsSound
  <2>5. script' = [at |-> "calibration", set |-> i.set, cal |-> c]
    BY <2>1, Zenon DEF Setup!ScriptStarts
  <2> HIDE DEF c
  <2>6. SomeScript(script')
    BY <2>3, <2>4, <2>5 DEF SomeScript
  <2>7. calFile' = Torn /\ UNCHANGED <<live, conf, setFile, temp, job, restarts>>
    BY <2>1 DEF Setup!ScriptStarts, Setup!memory, Setup!others
  <2> QED BY <2>6, <2>7 DEF FilesTyped, SetupTypes
<1>2. CASE Setup!ScriptCalibrates
  <2>1. /\ script # Idle /\ script.at = "calibration" /\ calFile' = script.cal
        /\ script' = [script EXCEPT !.at = "settings"]
        /\ UNCHANGED <<live, conf, setFile, temp, job, restarts>>
    BY <1>2 DEF Setup!ScriptCalibrates, Setup!memory, Setup!others
  <2>2. DOMAIN script = {"at", "set", "cal"} /\ Setup!Storable(script.set) /\ script.cal \in Setup!Cal /\ Invertible(script.cal)
    BY <2>1 DEF SetupTypes, SomeScript
  <2>3. DOMAIN script' = {"at", "set", "cal"} /\ script'.at = "settings" /\ script'.set = script.set /\ script'.cal = script.cal
    BY <2>1, <2>2
  <2> QED BY <2>1, <2>2, <2>3 DEF SomeScript, FilesTyped, SetupTypes, Invertible
<1>3. CASE Setup!ScriptOpensSettings
  <2>1. /\ script # Idle /\ script.at = "settings" /\ setFile' = Torn
        /\ script' = [at |-> "write", set |-> Setup!Over(script.set, Setup!StoredSettings)]
        /\ UNCHANGED <<live, conf, calFile, temp, job, restarts>>
    BY <1>3 DEF Setup!ScriptOpensSettings, Setup!memory, Setup!others
  <2>2. Setup!Storable(script.set)
    BY <2>1 DEF SetupTypes, SomeScript
  <2> DEFINE o == Setup!Over(script.set, Setup!StoredSettings)
  <2>3. Setup!Storable(o)
    <3>1. Setup!Storable(Setup!StoredSettings)
      BY StoredIs DEF SetupTypes
    <3>2. Setup!SomeSettings(o)
      BY <2>2, <3>1, OverTyped DEF Setup!Storable
    <3>3. DOMAIN o = DOMAIN script.set \cup DOMAIN Setup!StoredSettings
      BY OverIs, Zenon
    <3> HIDE DEF o
    <3> QED BY <2>2, <3>1, <3>2, <3>3 DEF Setup!Storable
  <2> HIDE DEF o
  <2>4. script' = [at |-> "write", set |-> o]
    BY <2>1 DEF o
  <2>5. SomeScript(script')
    BY <2>3, <2>4 DEF SomeScript
  <2> QED BY <2>1, <2>5 DEF FilesTyped, SetupTypes, Invertible
<1>4. CASE Setup!ScriptWritesSettings
  <2>1. /\ script # Idle /\ script.at = "write" /\ setFile' = script.set /\ script' = Idle
        /\ UNCHANGED <<live, conf, calFile, temp, job, restarts>>
    BY <1>4 DEF Setup!ScriptWritesSettings, Setup!memory, Setup!others
  <2>2. Setup!Storable(script.set)
    BY <2>1 DEF SetupTypes, SomeScript
  <2> QED BY <2>1, <2>2 DEF SomeScript, FilesTyped, SetupTypes, Invertible
<1> QED BY <1>1, <1>2, <1>3, <1>4

LEMMA RestartTyped ==
    ASSUME SetupSound, SetupTypes, Setup!Restart
    PROVE  SetupTypes'
<1>1. /\ conf' = Setup!ConfLoaded /\ live' = Setup!CalLoaded(calFile, Setup!ConfLoaded)
      /\ job' = [t \in SetupThread |-> Idle] /\ restarts' = restarts + 1
      /\ UNCHANGED <<calFile, setFile, temp, script>>
  BY Zenon DEF Setup!Restart, Setup!files
<1>2. conf' \in AllSettings /\ live' \in Setup!Cal /\ Invertible(live')
  BY <1>1, ConfLoadedIs, CalLoadedIs DEF SetupTypes
<1>3. MemoryTyped'
  BY <1>2 DEF MemoryTyped, Invertible
<1>4. FilesTyped' /\ SomeScript(script)'
  BY <1>1 DEF SetupTypes, FilesTyped, SomeScript, Invertible
<1>5. JobsTyped'
  BY <1>1 DEF JobsTyped
<1> QED BY <1>1, <1>3, <1>4, <1>5 DEF SetupTypes

LEMMA SetupInit == ASSUME SetupSound, Setup!Init PROVE SetupTypes
<1>1. /\ calFile = Missing /\ setFile = << >> /\ temp = NoTemp /\ conf = Load(<< >>) /\ live = Setup!DefaultCal(conf)
      /\ job = [t \in SetupThread |-> Idle] /\ script = Idle /\ restarts = 0
  BY Zenon DEF Setup!Init, Load
<1>2. DOMAIN << >> = {}
  OBVIOUS
<1>3. Setup!Storable(<< >>)
  BY <1>2 DEF Setup!Storable, Setup!SomeSettings
<1>4. FilesTyped
  BY <1>1, <1>3 DEF FilesTyped
<1>5. conf \in AllSettings
  BY <1>1, <1>3, LoadIs DEF SetupSound, Setup!Storable
<1>6. live \in Setup!Cal /\ Invertible(live)
  BY <1>1, <1>5, AllSettingsHold, DefaultCalIs
<1> QED BY <1>1, <1>4, <1>5, <1>6 DEF SetupTypes, MemoryTyped, JobsTyped, SomeScript

\* What is unchanged keeps its type.
LEMMA SameMemory == ASSUME MemoryTyped, UNCHANGED <<live, conf>> PROVE MemoryTyped'
  BY DEF MemoryTyped, Invertible
LEMMA SameFiles == ASSUME FilesTyped, UNCHANGED <<calFile, setFile, temp>> PROVE FilesTyped'
  BY DEF FilesTyped, Invertible
LEMMA SameJobs == ASSUME JobsTyped, UNCHANGED job PROVE JobsTyped'
  BY DEF JobsTyped

LEMMA SetupStep ==
    ASSUME SetupSound, SetupTypes, [Setup!Next]_(Setup!vars)
    PROVE  SetupTypes'
<1> USE DEF Setup!memory, Setup!files, Setup!others
<1> DEFINE Rest == UNCHANGED <<script, restarts>>
<1>0. MemoryTyped /\ FilesTyped /\ JobsTyped /\ SomeScript(script) /\ restarts \in Nat
  BY DEF SetupTypes
<1>1. ASSUME MemoryTyped', FilesTyped', JobsTyped', Rest PROVE SetupTypes'
  BY <1>0, <1>1 DEF SetupTypes, SomeScript
<1>2. ASSUME NEW t \in SetupThread, NEW r \in SettingsRequests, Setup!SettingsPosted(t, r) PROVE SetupTypes'
  <2>1. UNCHANGED <<live, conf, calFile, setFile, temp, script, restarts>>
    BY <1>2 DEF Setup!SettingsPosted
  <2> QED BY <1>0, <1>1, <1>2, <2>1, PostedTyped, SameMemory, SameFiles
<1>3. ASSUME NEW t \in SetupThread, NEW r \in CalRequests, Setup!CalibrationPosted(t, r) PROVE SetupTypes'
  <2>1. UNCHANGED <<conf, calFile, setFile, temp, script, restarts>>
    BY <1>3 DEF Setup!CalibrationPosted
  <2>2. MemoryTyped'
    BY <1>0, <1>3, <2>1, AskedTyped DEF MemoryTyped
  <2> QED BY <1>0, <1>1, <1>3, <2>1, <2>2, AskedTyped, SameFiles
<1>4. ASSUME NEW t \in SetupThread, \/ \E q \in Tests : Setup!HardwareTested(t, q)
                                    \/ Setup!Preflight(t)
      PROVE  SetupTypes'
  <2>1. UNCHANGED <<live, conf, calFile, setFile, temp, job, script, restarts>>
    BY <1>4, Zenon DEF Setup!HardwareTested, Setup!Preflight
  <2> QED BY <1>0, <1>1, <2>1, SameMemory, SameFiles, SameJobs
<1>5. ASSUME NEW t \in SetupThread, Setup!Renewed(t) PROVE SetupTypes'
  <2>1. UNCHANGED <<conf, calFile, setFile, temp, script, restarts>>
    BY <1>5 DEF Setup!Renewed
  <2>2. MemoryTyped'
    BY <1>0, <1>5, <2>1, RenewedTyped DEF MemoryTyped
  <2> QED BY <1>0, <1>1, <1>5, <2>1, <2>2, RenewedTyped, SameFiles
<1>6. ASSUME NEW t \in SetupThread, Setup!FileOpened(t) PROVE SetupTypes'
  <2>1. UNCHANGED <<live, conf, setFile, temp, script, restarts>>
    BY <1>6 DEF Setup!FileOpened
  <2>2. FilesTyped'
    BY <1>0, <1>6, <2>1, OpenedTyped DEF FilesTyped
  <2> QED BY <1>0, <1>1, <1>6, <2>1, <2>2, OpenedTyped, SameMemory
<1>7. ASSUME NEW t \in SetupThread, Setup!FileWritten(t) PROVE SetupTypes'
  <2>1. UNCHANGED <<live, conf, setFile, temp, script, restarts>>
    BY <1>7 DEF Setup!FileWritten
  <2>2. FilesTyped'
    BY <1>0, <1>7, <2>1, WrittenTyped DEF FilesTyped, Invertible
  <2> QED BY <1>0, <1>1, <1>7, <2>1, <2>2, WrittenTyped, SameMemory
<1>8. ASSUME NEW t \in SetupThread, Setup!Staged(t) PROVE SetupTypes'
  <2>1. UNCHANGED <<live, conf, calFile, setFile, script, restarts>>
    BY <1>8 DEF Setup!Staged
  <2>2. FilesTyped'
    BY <1>0, <1>8, <2>1, StagedTyped DEF FilesTyped, Invertible
  <2> QED BY <1>0, <1>1, <1>8, <2>1, <2>2, StagedTyped, SameMemory
<1>9. ASSUME NEW t \in SetupThread, Setup!Replaced(t) PROVE SetupTypes'
  <2>1. UNCHANGED <<live, conf, calFile, script, restarts>>
    BY <1>9 DEF Setup!Replaced
  <2>2. FilesTyped'
    BY <1>0, <1>9, <2>1, ReplacedTyped DEF FilesTyped, Invertible
  <2> QED BY <1>0, <1>1, <1>9, <2>1, <2>2, ReplacedTyped, SameMemory
<1>10. ASSUME NEW t \in SetupThread, Setup!Applied(t) PROVE SetupTypes'
  <2>1. UNCHANGED <<live, calFile, setFile, temp, script, restarts>>
    BY <1>10 DEF Setup!Applied
  <2>2. MemoryTyped'
    BY <1>0, <1>10, <2>1, AppliedTyped DEF MemoryTyped, Invertible
  <2> QED BY <1>0, <1>1, <1>10, <2>1, <2>2, AppliedTyped, SameFiles
<1>11. ASSUME NEW t \in SetupThread, Setup!Marked(t) PROVE SetupTypes'
  <2>1. UNCHANGED <<live, conf, calFile, setFile, temp, script, restarts>>
    BY <1>11 DEF Setup!Marked
  <2> QED BY <1>0, <1>1, <1>11, <2>1, MarkedTyped, SameMemory, SameFiles
<1>12. ASSUME NEW t \in SetupThread, Setup!Validated(t) PROVE SetupTypes'
  <2>1. UNCHANGED <<live, conf, calFile, setFile, temp, script, restarts>>
    BY <1>12, Zenon DEF Setup!Validated
  <2> QED BY <1>0, <1>1, <1>12, <2>1, ValidatedTyped, SameMemory, SameFiles
<1>13. ASSUME NEW t \in SetupThread, Setup!Restored(t) PROVE SetupTypes'
  <2>1. UNCHANGED <<conf, calFile, setFile, temp, script, restarts>>
    BY <1>13 DEF Setup!Restored
  <2>2. MemoryTyped'
    BY <1>0, <1>13, <2>1, RestoredTyped DEF MemoryTyped
  <2> QED BY <1>0, <1>1, <1>13, <2>1, <2>2, RestoredTyped, SameFiles
<1>14. CASE \/ \E i \in ScriptInputs : Setup!ScriptStarts(i)
            \/ Setup!ScriptCalibrates \/ Setup!ScriptOpensSettings \/ Setup!ScriptWritesSettings
  <2>1. SomeScript(script') /\ FilesTyped' /\ UNCHANGED <<live, conf, job, restarts>>
    BY <1>14, ScriptTyped
  <2>2. MemoryTyped' /\ JobsTyped'
    BY <1>0, <2>1, SameMemory, SameJobs
  <2> QED BY <1>0, <2>1, <2>2 DEF SetupTypes, SomeScript
<1>15. CASE UNCHANGED Setup!vars
  <2>1. UNCHANGED <<live, conf, calFile, setFile, temp, job, script, restarts>>
    BY <1>15 DEF Setup!vars
  <2> QED BY <1>0, <1>1, <2>1, SameMemory, SameFiles, SameJobs
<1> QED BY <1>2, <1>3, <1>4, <1>5, <1>6, <1>7, <1>8, <1>9, <1>10, <1>11, <1>12, <1>13, <1>14, <1>15, RestartTyped, Zenon
        DEF Setup!Next

\* The values of the variables are what they should be.
LEMMA SetupTypesHold ==
    ASSUME SetupTypes
    PROVE  Setup!TypeOK /\ Setup!MappingStaysInvertible
<1>1. Setup!MappingStaysInvertible
  BY InvertibleRoundTrips DEF SetupTypes, MemoryTyped, Setup!MappingStaysInvertible
<1>2. live \in Setup!Cal /\ calFile \in {Torn, Missing} \cup Setup!Cal
  BY DEF SetupTypes, MemoryTyped, FilesTyped
<1>3. Setup!SomeSettings(conf) /\ DOMAIN conf = Setup!Fields
  BY AllSettingsHold DEF SetupTypes, MemoryTyped
<1>4. (setFile # Torn => Setup!Storable(setFile)) /\ (temp # NoTemp => Setup!Storable(temp))
  BY StoredFilesAre DEF SetupTypes, FilesTyped
<1>5. ASSUME NEW t \in SetupThread, job[t] # Idle
      PROVE  /\ job[t].at \in {"renew", "open", "write", "stage", "replace", "apply", "mark", "validate", "restore"}
             /\ IF job[t].kind = "settings"
                THEN /\ Setup!SomeSettings(job[t].set) /\ DOMAIN job[t].set = Setup!Fields
                     /\ job[t].u \in Setup!FullUpdate
                ELSE {job[t].old, job[t].cal} \subseteq Setup!Cal
             /\ job[t].at = "write" => job[t].content \in Setup!Cal
  <2>1. SomeJob(job[t]) /\ job[t] \in Setup!Jobs
    BY <1>5 DEF SetupTypes, JobsTyped, SomeJob
  <2> QED BY <2>1, JobsAre DEF SomeJob, Stages
<1>6. Setup!TypeOK
  BY <1>2, <1>3, <1>4, <1>5, Zenon DEF Setup!TypeOK
<1> QED BY <1>1, <1>6

-----------------------------------------------------------------------------
(* The calibration and the limits that are stored.                         *)

\* A calibration of one matrix that can be used.
Plain(c) == c.split = NoSplit /\ Usable(c)

\* The board and the captured-piece area lie within the limits.
Fits(c, lim) == Setup!BoardTolerated(c, lim) /\ Setup!AreaTolerated(c.dead, lim)
MatrixFits(m, dead, lim) ==
    (\A s \in Setup!Squares : Setup!Tolerated(lim, Setup!At(m, s[1], s[2]))) /\ Setup!AreaTolerated(dead, lim)

LEMMA FitIs ==
    ASSUME NEW c, c.split = NoSplit, NEW lim
    PROVE  Fits(c, lim) <=> MatrixFits(c.affine, c.dead, lim)
<1>1. ASSUME NEW s \in Setup!Squares
      PROVE  Setup!GridToRobot(c, s[1], s[2]) = Setup!At(c.affine, s[1], s[2])
  <2>1. s[1] \in Setup!FileIds /\ s[2] \in Setup!RankIds
    BY DEF Setup!Squares
  <2> QED BY <2>1 DEF Setup!GridToRobot
<1> QED BY <1>1, Zenon DEF Fits, MatrixFits, Setup!BoardTolerated

LEMMA AcceptedIs ==
    ASSUME SetupTypes, Setup!CalLoaded(calFile, conf).split = NoSplit, NEW s, NEW junk, NEW u, Setup!SomeUpdate(u),
           {"ox", "oy", "sx", "sy", "dead"} \subseteq DOMAIN u, Setup!Accepted(s, u, junk)
    PROVE  Usably(u) /\ MatrixFits(MatrixOf(u), u.dead, Setup!Limits(s))
<1> DEFINE c == Setup!CalLoaded(calFile, conf)  res == Setup!Updated(c, u)
           n == [c EXCEPT !.ox = u.ox, !.oy = u.oy, !.sx = u.sx, !.sy = u.sy, !.dead = u.dead, !.affine = MatrixOf(u)]
<1>1. res.ok /\ Setup!BoardTolerated(res.cal, Setup!Limits(s)) /\ Setup!AreaTolerated(u.dead, Setup!Limits(s))
  BY Zenon DEF Setup!Accepted
<1>2. c \in Setup!Cal /\ c.split = NoSplit
  BY CalLoadedIs DEF SetupTypes, MemoryTyped
<1> HIDE DEF c
<1>3. (res.ok <=> Usably(u)) /\ (res.ok => res.cal = n)
  BY <1>2, FullUpdateIs
<1> HIDE DEF res
<1>4. n.split = NoSplit /\ n.affine = MatrixOf(u) /\ n.dead = u.dead
  BY <1>2 DEF Setup!Cal
<1> HIDE DEF n
<1>5. Fits(n, Setup!Limits(s))
  BY <1>1, <1>3, <1>4 DEF Fits
<1>6. MatrixFits(n.affine, n.dead, Setup!Limits(s))
  BY <1>4, <1>5, FitIs
<1> QED BY <1>1, <1>3, <1>4, <1>6

\* What the only request under way has done so far: l is the calibration in memory, s the settings, saved
\* the calibration's file, tmp the temporary one and kept what the settings' file holds.
LimitsFor(j, s) == IF j.kind = "settings" THEN Setup!Limits(j.set) ELSE Setup!Limits(s)
SoFar(j, l, s, saved, tmp, kept) ==
    /\ j.at = "renew" => Usably(j.u) /\ MatrixFits(MatrixOf(j.u), j.u.dead, Setup!Limits(j.set))
    /\ j.at = "open" => Fits(l, LimitsFor(j, s))
    /\ j.at = "write" => Plain(j.content) /\ Fits(j.content, LimitsFor(j, s))
    /\ j.at \in {"stage", "replace"} => saved \in Setup!Cal /\ Fits(saved, Setup!Limits(j.set))
    /\ j.at = "replace" => tmp \in StoredFiles /\ (~Setup!Overruled(tmp) => Setup!Limits(Load(tmp)) = Setup!Limits(j.set))
    /\ j.at = "apply" /\ ~Setup!Overruled(kept) => Setup!Limits(Load(kept)) = Setup!Limits(j.set)
    /\ j.at = "validate" => l = j.cal
    /\ j.at \in {"validate", "restore"} => Plain(j.old)

Among(j, steps) == j # Idle /\ j.at \in steps
Alone(j, l, s, saved, tmp, kept) ==
    /\ l.split = NoSplit /\ (saved \in Setup!Cal => Plain(saved))
    /\ ~Among(j, {"validate", "restore"}) => Usable(l)
    /\ ~Among(j, {"write", "stage", "replace"}) /\ ~Setup!Overruled(kept) =>
         Fits(Setup!CalLoaded(saved, Load(kept)), Setup!Limits(Load(kept)))
    /\ ~Among(j, {"apply"}) /\ ~Setup!Overruled(kept) => Setup!Limits(s) = Setup!Limits(Load(kept))
    /\ j # Idle => SoFar(j, l, s, saved, tmp, kept)

\* While nothing overlaps, one request at most is under way, and what it has done so far is accounted for.
Together ==
    ~disturbed =>
        /\ script = Idle
        /\ \A t, o \in SetupThread : job[t] # Idle /\ job[o] # Idle => t = o
        /\ \A t \in SetupThread : job[t] # Idle => Alone(job[t], live, conf, calFile, temp, Setup!StoredSettings)
        /\ (\A t \in SetupThread : job[t] = Idle) => Alone(Idle, live, conf, calFile, temp, Setup!StoredSettings)
SetupInv == SetupTypes /\ disturbed \in BOOLEAN /\ Together

LEMMA TogetherAgain ==
    ASSUME SetupTypes, ~disturbed => script' = Idle, NEW t \in SetupThread,
           ~disturbed' => ~disturbed /\ \A o \in SetupThread \ {t} : job[o] = Idle,
           \A o \in SetupThread \ {t} : job'[o] = job[o],
           ~disturbed' => Alone(job'[t], live', conf', calFile', temp', Setup!StoredSettings')
    PROVE  Together'
<1> SUFFICES ASSUME ~disturbed'
             PROVE  /\ script' = Idle
                    /\ \A p, o \in SetupThread : job'[p] # Idle /\ job'[o] # Idle => p = o
                    /\ \A p \in SetupThread :
                         job'[p] # Idle => Alone(job'[p], live', conf', calFile', temp', Setup!StoredSettings')
                    /\ (\A p \in SetupThread : job'[p] = Idle) =>
                         Alone(Idle, live', conf', calFile', temp', Setup!StoredSettings')
  BY DEF Together
<1>1. \A o \in SetupThread \ {t} : job'[o] = Idle
  OBVIOUS
<1>2. Alone(job'[t], live', conf', calFile', temp', Setup!StoredSettings')
  OBVIOUS
<1>3. job'[t] = Idle => Alone(Idle, live', conf', calFile', temp', Setup!StoredSettings')
  BY <1>2
<1> QED BY <1>1, <1>2, <1>3

LEMMA NoJobIsIdle == ASSUME SetupSound, NEW j \in Setup!Jobs PROVE j # Idle
  BY DEF SetupSound, Setup!NothingIsAValue

LEMMA PlainStart ==
    ASSUME SetupTypes, calFile \in Setup!Cal => Plain(calFile), NEW s \in AllSettings
    PROVE  Setup!CalLoaded(calFile, s) \in Setup!Cal /\ Plain(Setup!CalLoaded(calFile, s))
<1>1. Setup!DefaultCal(s) \in Setup!Cal /\ Plain(Setup!DefaultCal(s))
  BY AllSettingsHold, DefaultCalIs DEF Plain
<1> QED BY <1>1 DEF SetupTypes, FilesTyped, Setup!CalLoaded

\* Where a request begins, and where one goes on.
LEMMA Begins ==
    ASSUME SetupInv, NEW t \in SetupThread, job[t] = Idle, Setup!Overlaps(t)
    PROVE  /\ disturbed' \in BOOLEAN
           /\ ~disturbed' => /\ ~disturbed /\ \A o \in SetupThread \ {t} : job[o] = Idle
                             /\ script = Idle /\ Alone(Idle, live, conf, calFile, temp, Setup!StoredSettings)
<1>1. disturbed' = (disturbed \/ \E o \in SetupThread \ {t} : job[o] # Idle)
  BY DEF Setup!Overlaps
<1> QED BY <1>1 DEF SetupInv, Together

LEMMA GoesOn ==
    ASSUME SetupSound, SetupInv, NEW t \in SetupThread, job[t] # Idle, disturbed' = disturbed
    PROVE  /\ disturbed' \in BOOLEAN /\ SomeJob(job[t]) /\ job[t] \in Setup!Jobs
           /\ ~disturbed' => /\ ~disturbed /\ \A o \in SetupThread \ {t} : job[o] = Idle
                             /\ script = Idle /\ Alone(job[t], live, conf, calFile, temp, Setup!StoredSettings)
  BY DEF SetupInv, Together, SetupTypes, JobsTyped, SomeJob

\* What has become of a job, by its fields.
LEMMA JobGone ==
    ASSUME SetupTypes, NEW t \in SetupThread, job[t] # Idle, NEW step \in Stages, Setup!Go(t, step)
    PROVE  /\ job'[t] \in Setup!Jobs /\ job'[t].at = step /\ job'[t].kind = job[t].kind
           /\ job[t].kind = "settings" => job'[t].set = job[t].set /\ job'[t].u = job[t].u
           /\ job[t].kind = "calibration" => job'[t].old = job[t].old /\ job'[t].cal = job[t].cal
           /\ \A o \in SetupThread \ {t} : job'[o] = job[o]
<1> DEFINE j == job[t]  k == [j EXCEPT !.at = step]
<1>1. job \in [SetupThread -> {Idle} \cup Setup!Jobs] /\ j \in Setup!Jobs
  BY DEF SetupTypes, JobsTyped
<1>2. job' = [job EXCEPT ![t] = k]
  BY DEF Setup!Go
<1>3. /\ k \in Setup!Jobs /\ k.at = step /\ DOMAIN k = DOMAIN j
      /\ \A x \in DOMAIN j \ {"at"} : k[x] = j[x]
  BY <1>1, JobMoves
<1> HIDE DEF k
<1>4. /\ "kind" \in DOMAIN j /\ j.kind = "settings" => {"set", "u"} \subseteq DOMAIN j
      /\ j.kind = "calibration" => {"old", "cal"} \subseteq DOMAIN j
  BY <1>1, JobsAre
<1>5. "kind" \in DOMAIN j
  BY <1>1, JobsAre
<1>6. job'[t] = k /\ \A o \in SetupThread \ {t} : job'[o] = job[o]
  BY <1>1, <1>2
<1>7. k["kind"] = j["kind"]
  BY <1>3, <1>5
<1>8. j.kind = "settings" => k["set"] = j["set"] /\ k["u"] = j["u"]
  <2>1. j.kind = "settings" => {"set", "u"} \subseteq DOMAIN j
    BY <1>1, JobsAre
  <2> QED BY <1>3, <2>1
<1>9. j.kind = "calibration" => k["old"] = j["old"] /\ k["cal"] = j["cal"]
  <2>1. j.kind = "calibration" => {"old", "cal"} \subseteq DOMAIN j
    BY <1>1, JobsAre
  <2> QED BY <1>3, <2>1
<1> QED BY <1>3, <1>6, <1>7, <1>8, <1>9

LEMMA JobEnded ==
    ASSUME SetupTypes, NEW t \in SetupThread, Setup!End(t)
    PROVE  job'[t] = Idle /\ \A o \in SetupThread \ {t} : job'[o] = job[o]
  BY DEF SetupTypes, JobsTyped, Setup!End

LEMMA PostedTogether ==
    ASSUME SetupSound, SetupInv, NEW t \in SetupThread, NEW r \in SettingsRequests, Setup!SettingsPosted(t, r)
    PROVE  disturbed' \in BOOLEAN /\ Together'
<1> DEFINE s == Setup!Merged(conf, r.set)  u == Setup!CalUpdate(r.cal)
           j == [at |-> "renew", kind |-> "settings", set |-> s, u |-> u]
<1>1. /\ job[t] = Idle /\ Setup!Overlaps(t) /\ UNCHANGED <<live, conf, calFile, setFile, temp, script>>
      /\ (Setup!Accepted(s, u, r.junk) /\ job' = [job EXCEPT ![t] = j]) \/ job' = job
  BY Zenon DEF Setup!SettingsPosted, Setup!Serving, Setup!memory, Setup!files
<1>2. Setup!StoredSettings' = Setup!StoredSettings
  BY <1>1 DEF Setup!StoredSettings
<1>3. u \in Setup!FullUpdate
  BY CalUpdateIs DEF SetupInv, SetupTypes, MemoryTyped, SetupSound, Setup!RequestsSound
<1>4. \A o \in SetupThread \ {t} : job'[o] = job[o]
  <2> HIDE DEF j
  <2> QED BY <1>1 DEF SetupInv, SetupTypes, JobsTyped
<1>5. ASSUME ~disturbed' PROVE Alone(job'[t], live, conf, calFile, temp, Setup!StoredSettings)
  <2>1. Alone(Idle, live, conf, calFile, temp, Setup!StoredSettings)
    BY <1>1, <1>5, Begins
  <2>2. CASE job' = job
    BY <1>1, <2>1, <2>2
  <2>3. CASE Setup!Accepted(s, u, r.junk) /\ job' = [job EXCEPT ![t] = j]
    <3>1. Setup!SomeUpdate(u) /\ {"ox", "oy", "sx", "sy", "dead"} \subseteq DOMAIN u
      BY <1>3, FullUpdateSays
    <3>2. Setup!CalLoaded(calFile, conf).split = NoSplit
      BY <2>1, PlainStart DEF Alone, Plain, SetupInv, SetupTypes, MemoryTyped
    <3>3. Usably(u) /\ MatrixFits(MatrixOf(u), u.dead, Setup!Limits(s))
      BY <2>3, <3>1, <3>2, AcceptedIs DEF SetupInv
    <3>4. job'[t] = j
      <4> HIDE DEF j
      <4> QED BY <2>3 DEF SetupInv, SetupTypes, JobsTyped
    <3> HIDE DEF s, u
    <3>5. j.at = "renew" /\ j.u = u /\ j.set = s
      OBVIOUS
    <3> HIDE DEF j
    <3>6. SoFar(j, live, conf, calFile, temp, Setup!StoredSettings)
      BY <3>3, <3>5 DEF SoFar
    <3> QED BY <2>1, <3>4, <3>5, <3>6 DEF Alone, Among
  <2> QED BY <1>1, <2>2, <2>3
<1>6. disturbed' \in BOOLEAN /\ (~disturbed' => ~disturbed /\ \A o \in SetupThread \ {t} : job[o] = Idle)
  BY <1>1, Begins
<1>7. ~disturbed => script' = Idle
  BY <1>1 DEF SetupInv, Together
<1>8. ~disturbed' => Alone(job'[t], live', conf', calFile', temp', Setup!StoredSettings')
  BY <1>1, <1>2, <1>5
<1>9. SetupTypes
  BY DEF SetupInv
<1> HIDE DEF s, u, j
<1> QED BY <1>4, <1>6, <1>7, <1>8, <1>9, TogetherAgain

LEMMA RenewedTogether ==
    ASSUME SetupSound, SetupInv, NEW t \in SetupThread, Setup!Renewed(t)
    PROVE  disturbed' \in BOOLEAN /\ Together'
<1> DEFINE u == job[t].u  res == Setup!Updated(live, u)
           n == [live EXCEPT !.ox = u.ox, !.oy = u.oy, !.sx = u.sx, !.sy = u.sy, !.dead = u.dead, !.affine = MatrixOf(u)]
<1>1. /\ job[t] # Idle /\ job[t].at = "renew" /\ live' = res.cal
      /\ IF res.ok THEN Setup!Go(t, "open") ELSE Setup!End(t)
      /\ UNCHANGED <<conf, calFile, setFile, temp, script, disturbed>>
  BY Zenon DEF Setup!Renewed, Setup!Doing, Setup!files
<1>2. Setup!StoredSettings' = Setup!StoredSettings
  BY <1>1 DEF Setup!StoredSettings
<1>3. SetupTypes
  BY DEF SetupInv
<1>4. SomeJob(job[t]) /\ job[t] \in Setup!Jobs /\ disturbed' \in BOOLEAN
  BY <1>1, GoesOn
<1>5. job[t].kind = "settings" /\ u \in Setup!FullUpdate
  BY <1>1, <1>4, JobsAre DEF SomeJob, StageOf
<1>6. ASSUME ~disturbed' PROVE Alone(job'[t], live', conf, calFile, temp, Setup!StoredSettings)
  <2>1. Alone(job[t], live, conf, calFile, temp, Setup!StoredSettings)
    BY <1>1, <1>6, GoesOn
  <2>2. Usably(u) /\ MatrixFits(MatrixOf(u), u.dead, Setup!Limits(job[t].set))
    BY <1>1, <2>1 DEF Alone, SoFar
  <2>3. live \in Setup!Cal /\ live.split = NoSplit
    BY <1>3, <2>1 DEF SetupTypes, MemoryTyped, Alone
  <2>4. Setup!SomeUpdate(u) /\ {"ox", "oy", "sx", "sy", "dead"} \subseteq DOMAIN u
    BY <1>5, FullUpdateSays
  <2>5. res.ok /\ res.cal = n
    BY <2>2, <2>3, <2>4, FullUpdateIs
  <2>6. Setup!Go(t, "open") /\ live' = n
    BY <1>1, <2>5, Zenon
  <2> HIDE DEF u, res
  <2>7. n.split = NoSplit /\ n.affine = MatrixOf(u) /\ n.dead = u.dead /\ n.sx = u.sx /\ n.sy = u.sy
    BY <2>3 DEF Setup!Cal
  <2> HIDE DEF n
  <2>8. Usable(n)
    BY <2>2, <2>7 DEF Usable, Usably
  <2>9. Fits(n, Setup!Limits(job[t].set))
    BY <2>2, <2>7, FitIs
  <2>10. job'[t].at = "open" /\ job'[t].kind = "settings" /\ job'[t].set = job[t].set
    BY <1>1, <1>3, <1>5, <2>6, JobGone DEF Stages
  <2>11. SoFar(job'[t], n, conf, calFile, temp, Setup!StoredSettings)
    BY <2>9, <2>10 DEF SoFar, LimitsFor
  <2> QED BY <1>1, <2>1, <2>6, <2>7, <2>8, <2>10, <2>11 DEF Alone, Among
<1>7. \A o \in SetupThread \ {t} : job'[o] = job[o]
  BY <1>1, <1>3, JobGone, JobEnded DEF Stages
<1>8. ~disturbed' => ~disturbed /\ \A o \in SetupThread \ {t} : job[o] = Idle
  BY <1>1, GoesOn
<1>9. ~disturbed => script' = Idle
  BY <1>1 DEF SetupInv, Together
<1>10. ~disturbed' => Alone(job'[t], live', conf', calFile', temp', Setup!StoredSettings')
  BY <1>1, <1>2, <1>6
<1> HIDE DEF u, res
<1> QED BY <1>3, <1>4, <1>7, <1>8, <1>9, <1>10, TogetherAgain

\* A step of a request under way, when nothing else is.
LEMMA CarriedOn ==
    ASSUME SetupSound, SetupInv, NEW t \in SetupThread, job[t] # Idle, disturbed' = disturbed, script' = script,
           \A o \in SetupThread \ {t} : job'[o] = job[o],
           ~disturbed /\ Alone(job[t], live, conf, calFile, temp, Setup!StoredSettings)
             => Alone(job'[t], live', conf', calFile', temp', Setup!StoredSettings')
    PROVE  disturbed' \in BOOLEAN /\ Together'
<1>1. /\ disturbed' \in BOOLEAN
      /\ ~disturbed' => /\ ~disturbed /\ \A o \in SetupThread \ {t} : job[o] = Idle
                        /\ script = Idle /\ Alone(job[t], live, conf, calFile, temp, Setup!StoredSettings)
  BY GoesOn
<1>2. SetupTypes /\ (~disturbed => script' = Idle)
  BY DEF SetupInv, Together
<1>3. ~disturbed' => Alone(job'[t], live', conf', calFile', temp', Setup!StoredSettings')
  BY <1>1
<1> QED BY <1>1, <1>2, <1>3, TogetherAgain

LEMMA OpenedTogether ==
    ASSUME SetupSound, SetupInv, NEW t \in SetupThread, Setup!FileOpened(t)
    PROVE  disturbed' \in BOOLEAN /\ Together'
<1> DEFINE j == job[t]  k == Setup!Over([at |-> "write", content |-> live], j)
<1>1. /\ j # Idle /\ j.at = "open" /\ calFile' = Torn /\ job' = [job EXCEPT ![t] = k]
      /\ UNCHANGED <<live, conf, setFile, temp, script, disturbed>>
  BY Zenon DEF Setup!FileOpened, Setup!Doing, Setup!memory
<1>2. Setup!StoredSettings' = Setup!StoredSettings
  BY <1>1 DEF Setup!StoredSettings
<1>3. SetupTypes /\ live \in Setup!Cal /\ j \in Setup!Jobs /\ job \in [SetupThread -> {Idle} \cup Setup!Jobs]
  BY <1>1 DEF SetupInv, SetupTypes, MemoryTyped, JobsTyped
<1>4. /\ k.at = "write" /\ k.content = live /\ k \in Setup!Jobs
      /\ \A x \in DOMAIN j \ {"at", "content"} : k[x] = j[x]
  BY <1>3, JobWrites
<1>5. "kind" \in DOMAIN j /\ (j.kind = "settings" => "set" \in DOMAIN j)
  BY <1>3, JobsAre
<1> HIDE DEF k
<1>6. k["kind"] = j["kind"] /\ (j.kind = "settings" => k["set"] = j["set"])
  BY <1>4, <1>5
<1>7. job'[t] = k /\ \A o \in SetupThread \ {t} : job'[o] = job[o]
  BY <1>1, <1>3
<1>8. ASSUME Alone(j, live, conf, calFile, temp, Setup!StoredSettings)
      PROVE  Alone(k, live, conf, Torn, temp, Setup!StoredSettings)
  <2>1. Torn \notin Setup!Cal
    BY DEF SetupSound, Setup!NothingIsAValue
  <2>2. Plain(live) /\ Fits(live, LimitsFor(j, conf))
    BY <1>1, <1>8 DEF Alone, Among, Plain, SoFar
  <2>3. LimitsFor(k, conf) = LimitsFor(j, conf)
    BY <1>6 DEF LimitsFor
  <2>4. SoFar(k, live, conf, Torn, temp, Setup!StoredSettings)
    BY <1>4, <2>2, <2>3 DEF SoFar
  <2>5. k # Idle
    BY <1>4, NoJobIsIdle
  <2> QED BY <1>1, <1>4, <1>8, <2>1, <2>2, <2>4, <2>5 DEF Alone, Among, Plain
<1> HIDE DEF j
<1>9. ~disturbed /\ Alone(job[t], live, conf, calFile, temp, Setup!StoredSettings)
        => Alone(job'[t], live', conf', calFile', temp', Setup!StoredSettings')
  BY <1>1, <1>2, <1>7, <1>8 DEF j
<1> QED BY <1>1, <1>7, <1>9, CarriedOn DEF j

LEMMA WrittenTogether ==
    ASSUME SetupSound, SetupInv, NEW t \in SetupThread, Setup!FileWritten(t)
    PROVE  disturbed' \in BOOLEAN /\ Together'
<1>1. /\ job[t] # Idle /\ job[t].at = "write"
      /\ calFile' \in {job[t].content} \cup (IF disturbed THEN {Torn} ELSE {})
      /\ IF job[t].kind = "settings" THEN Setup!Go(t, "stage") ELSE Setup!End(t)
      /\ UNCHANGED <<live, conf, setFile, temp, script, disturbed>>
  BY Zenon DEF Setup!FileWritten, Setup!Doing, Setup!memory
<1>2. Setup!StoredSettings' = Setup!StoredSettings
  BY <1>1 DEF Setup!StoredSettings
<1>3. SetupTypes /\ SomeJob(job[t]) /\ job[t] \in Setup!Jobs
  BY <1>1 DEF SetupInv, SetupTypes, JobsTyped, SomeJob
<1>4. job[t].content \in Setup!Cal
  BY <1>1, <1>3, JobsAre DEF SomeJob
<1>5. \A o \in SetupThread \ {t} : job'[o] = job[o]
  BY <1>1, <1>3, JobGone, JobEnded DEF Stages
<1>6. ASSUME ~disturbed, Alone(job[t], live, conf, calFile, temp, Setup!StoredSettings)
      PROVE  Alone(job'[t], live, conf, calFile', temp, Setup!StoredSettings)
  <2>1. calFile' = job[t].content
    BY <1>1, <1>6
  <2>2. Plain(calFile') /\ Fits(calFile', LimitsFor(job[t], conf)) /\ calFile' \in Setup!Cal
    BY <1>1, <1>4, <1>6, <2>1 DEF Alone, SoFar
  <2>3. CASE job[t].kind = "settings"
    <3>1. job'[t].at = "stage" /\ job'[t].set = job[t].set /\ job'[t] # Idle
      BY <1>1, <1>3, <2>3, JobGone, NoJobIsIdle DEF Stages
    <3>2. Fits(calFile', Setup!Limits(job'[t].set))
      BY <2>2, <2>3, <3>1 DEF LimitsFor
    <3>3. SoFar(job'[t], live, conf, calFile', temp, Setup!StoredSettings)
      BY <2>2, <3>1, <3>2 DEF SoFar
    <3> QED BY <1>1, <1>6, <2>2, <3>1, <3>3 DEF Alone, Among
  <2>4. CASE job[t].kind # "settings"
    <3>1. job'[t] = Idle
      BY <1>1, <1>3, <2>4, JobEnded
    <3>2. Setup!CalLoaded(calFile', Load(Setup!StoredSettings)) = calFile'
      <4>1. Torn \notin Setup!Cal /\ Missing \notin Setup!Cal
        BY DEF SetupSound, Setup!NothingIsAValue
      <4> QED BY <2>2, <4>1 DEF Setup!CalLoaded
    <3>3. ~Setup!Overruled(Setup!StoredSettings) => Setup!Limits(conf) = Setup!Limits(Load(Setup!StoredSettings))
      BY <1>1, <1>6 DEF Alone, Among
    <3>4. Fits(calFile', Setup!Limits(conf))
      BY <2>2, <2>4 DEF LimitsFor
    <3> QED BY <1>1, <1>6, <2>2, <3>1, <3>2, <3>3, <3>4 DEF Alone, Among
  <2> QED BY <2>3, <2>4
<1>7. ~disturbed /\ Alone(job[t], live, conf, calFile, temp, Setup!StoredSettings)
        => Alone(job'[t], live', conf', calFile', temp', Setup!StoredSettings')
  BY <1>1, <1>2, <1>6
<1> QED BY <1>1, <1>5, <1>7, CarriedOn

LEMMA StagedTogether ==
    ASSUME SetupSound, SetupInv, NEW t \in SetupThread, Setup!Staged(t)
    PROVE  disturbed' \in BOOLEAN /\ Together'
<1>1. /\ job[t] # Idle /\ job[t].at = "stage" /\ Setup!Go(t, "replace")
      /\ temp' = Setup!Over(Setup!Persisted(job[t].set), Setup!StoredSettings)
      /\ UNCHANGED <<live, conf, calFile, setFile, script, disturbed>>
  BY Zenon DEF Setup!Staged, Setup!Doing, Setup!memory
<1>2. Setup!StoredSettings' = Setup!StoredSettings
  BY <1>1 DEF Setup!StoredSettings
<1>3. SetupTypes /\ SomeJob(job[t]) /\ job[t] \in Setup!Jobs
  BY <1>1 DEF SetupInv, SetupTypes, JobsTyped, SomeJob
<1>4. job[t].kind = "settings"
  BY <1>1, <1>3 DEF SomeJob, StageOf
<1>5. job[t].set \in AllSettings
  BY <1>3, <1>4, JobsAre DEF SomeJob, AllSettings
<1>6. /\ job'[t].at = "replace" /\ job'[t].set = job[t].set /\ job'[t] # Idle
      /\ \A o \in SetupThread \ {t} : job'[o] = job[o]
  BY <1>1, <1>3, <1>4, JobGone, NoJobIsIdle DEF Stages
<1>7. temp' \in StoredFiles /\ (~Setup!Overruled(temp') => Setup!Limits(Load(temp')) = Setup!Limits(job[t].set))
  <2>1. Setup!Storable(Setup!StoredSettings)
    BY <1>3, StoredIs DEF SetupTypes
  <2> QED BY <1>1, <1>5, <2>1, PersistedIs, ReadBack DEF SetupSound
<1>8. ASSUME Alone(job[t], live, conf, calFile, temp, Setup!StoredSettings)
      PROVE  Alone(job'[t], live, conf, calFile, temp', Setup!StoredSettings)
  <2>1. SoFar(job'[t], live, conf, calFile, temp', Setup!StoredSettings)
    BY <1>1, <1>6, <1>7, <1>8 DEF Alone, SoFar
  <2> QED BY <1>1, <1>6, <1>8, <2>1 DEF Alone, Among
<1>9. ~disturbed /\ Alone(job[t], live, conf, calFile, temp, Setup!StoredSettings)
        => Alone(job'[t], live', conf', calFile', temp', Setup!StoredSettings')
  BY <1>1, <1>2, <1>8
<1> QED BY <1>1, <1>6, <1>9, CarriedOn

LEMMA ReplacedTogether ==
    ASSUME SetupSound, SetupInv, NEW t \in SetupThread, Setup!Replaced(t)
    PROVE  disturbed' \in BOOLEAN /\ Together'
<1>1. /\ job[t] # Idle /\ job[t].at = "replace"
      /\ IF temp = NoTemp
         THEN Setup!End(t) /\ UNCHANGED <<setFile, temp>>
         ELSE Setup!Go(t, "apply") /\ setFile' = temp /\ temp' = NoTemp
      /\ UNCHANGED <<live, conf, calFile, script, disturbed>>
  BY Zenon DEF Setup!Replaced, Setup!Doing, Setup!memory
<1>2. SetupTypes /\ SomeJob(job[t]) /\ job[t] \in Setup!Jobs
  BY <1>1 DEF SetupInv, SetupTypes, JobsTyped, SomeJob
<1>3. job[t].kind = "settings"
  BY <1>1, <1>2 DEF SomeJob, StageOf
<1>4. \A o \in SetupThread \ {t} : job'[o] = job[o]
  BY <1>1, <1>2, JobGone, JobEnded DEF Stages
<1>5. ASSUME Alone(job[t], live, conf, calFile, temp, Setup!StoredSettings)
      PROVE  Alone(job'[t], live, conf, calFile, temp', Setup!StoredSettings')
  <2>1. /\ temp \in StoredFiles /\ (~Setup!Overruled(temp) => Setup!Limits(Load(temp)) = Setup!Limits(job[t].set))
        /\ calFile \in Setup!Cal /\ Fits(calFile, Setup!Limits(job[t].set))
    BY <1>1, <1>5 DEF Alone, SoFar
  <2>2. temp # NoTemp /\ temp # Torn
    BY <2>1 DEF StoredFiles, SetupSound, Setup!NothingIsAValue
  <2>3. Setup!Go(t, "apply") /\ setFile' = temp
    BY <1>1, <2>2
  <2>4. Setup!StoredSettings' = temp
    BY <2>2, <2>3 DEF Setup!StoredSettings
  <2>5. job'[t].at = "apply" /\ job'[t].set = job[t].set /\ job'[t] # Idle
    BY <1>1, <1>2, <1>3, <2>3, JobGone, NoJobIsIdle DEF Stages
  <2>6. Setup!CalLoaded(calFile, Load(temp)) = calFile
    <3>1. Torn \notin Setup!Cal /\ Missing \notin Setup!Cal
      BY DEF SetupSound, Setup!NothingIsAValue
    <3> QED BY <2>1, <3>1 DEF Setup!CalLoaded
  <2>7. ~Setup!Overruled(temp) => Fits(Setup!CalLoaded(calFile, Load(temp)), Setup!Limits(Load(temp)))
    BY <2>1, <2>6
  <2>8. SoFar(job'[t], live, conf, calFile, temp', temp)
    BY <2>1, <2>5 DEF SoFar
  <2>9. live.split = NoSplit /\ Plain(calFile) /\ Usable(live)
    BY <1>1, <1>5, <2>1 DEF Alone, Among
  <2>10. Alone(job'[t], live, conf, calFile, temp', temp)
    BY <2>5, <2>7, <2>8, <2>9 DEF Alone, Among
  <2> QED BY <2>4, <2>10
<1>6. ~disturbed /\ Alone(job[t], live, conf, calFile, temp, Setup!StoredSettings)
        => Alone(job'[t], live', conf', calFile', temp', Setup!StoredSettings')
  BY <1>1, <1>5
<1> QED BY <1>1, <1>4, <1>6, CarriedOn

LEMMA AppliedTogether ==
    ASSUME SetupSound, SetupInv, NEW t \in SetupThread, Setup!Applied(t)
    PROVE  disturbed' \in BOOLEAN /\ Together'
<1>1. /\ job[t] # Idle /\ job[t].at = "apply" /\ Setup!Go(t, "mark") /\ conf' = job[t].set
      /\ UNCHANGED <<live, calFile, setFile, temp, script, disturbed>>
  BY Zenon DEF Setup!Applied, Setup!Doing, Setup!files
<1>2. Setup!StoredSettings' = Setup!StoredSettings
  BY <1>1 DEF Setup!StoredSettings
<1>3. SetupTypes
  BY DEF SetupInv
<1>4. job'[t].at = "mark" /\ \A o \in SetupThread \ {t} : job'[o] = job[o]
  BY <1>1, <1>3, JobGone DEF Stages
<1>5. ASSUME Alone(job[t], live, conf, calFile, temp, Setup!StoredSettings)
      PROVE  Alone(job'[t], live, conf', calFile, temp, Setup!StoredSettings)
  <2>1. ~Setup!Overruled(Setup!StoredSettings) => Setup!Limits(conf') = Setup!Limits(Load(Setup!StoredSettings))
    BY <1>1, <1>5 DEF Alone, SoFar
  <2>2. SoFar(job'[t], live, conf', calFile, temp, Setup!StoredSettings)
    BY <1>4 DEF SoFar
  <2> QED BY <1>1, <1>4, <1>5, <2>1, <2>2 DEF Alone, Among
<1>6. ~disturbed /\ Alone(job[t], live, conf, calFile, temp, Setup!StoredSettings)
        => Alone(job'[t], live', conf', calFile', temp', Setup!StoredSettings')
  BY <1>1, <1>2, <1>5
<1> QED BY <1>1, <1>4, <1>6, CarriedOn

LEMMA MarkedTogether ==
    ASSUME SetupSound, SetupInv, NEW t \in SetupThread, Setup!Marked(t)
    PROVE  disturbed' \in BOOLEAN /\ Together'
<1>1. /\ job[t] # Idle /\ job[t].at = "mark" /\ Setup!End(t)
      /\ UNCHANGED <<live, conf, calFile, setFile, temp, script, disturbed>>
  BY Zenon DEF Setup!Marked, Setup!Doing, Setup!files, Setup!memory
<1>2. Setup!StoredSettings' = Setup!StoredSettings
  BY <1>1 DEF Setup!StoredSettings
<1>3. job'[t] = Idle /\ \A o \in SetupThread \ {t} : job'[o] = job[o]
  BY <1>1, JobEnded DEF SetupInv
<1>4. ~disturbed /\ Alone(job[t], live, conf, calFile, temp, Setup!StoredSettings)
        => Alone(job'[t], live', conf', calFile', temp', Setup!StoredSettings')
  BY <1>1, <1>2, <1>3 DEF Alone, Among
<1> QED BY <1>1, <1>3, <1>4, CarriedOn

LEMMA AskedTogether ==
    ASSUME SetupSound, SetupInv, NEW t \in SetupThread, NEW r \in CalRequests, Setup!CalibrationPosted(t, r)
    PROVE  disturbed' \in BOOLEAN /\ Together'
<1> DEFINE res == Setup!Changed(live, r)
           j == [at |-> IF res.ok THEN "validate" ELSE "restore", kind |-> "calibration", old |-> live, cal |-> res.cal,
                 persist |-> r.persist]
<1>1. /\ job[t] = Idle /\ Setup!Overlaps(t) /\ job' = [job EXCEPT ![t] = j] /\ live' = res.cal
      /\ UNCHANGED <<conf, calFile, setFile, temp, script>>
  BY Zenon DEF Setup!CalibrationPosted, Setup!Serving, Setup!files
<1>2. Setup!StoredSettings' = Setup!StoredSettings
  BY <1>1 DEF Setup!StoredSettings
<1>3. ChangeOf(res.cal, live)
  BY ChangedIs DEF SetupSound, SetupInv, SetupTypes, MemoryTyped
<1> HIDE DEF res
<1>4. j.at \in {"validate", "restore"} /\ j.old = live /\ j.cal = res.cal
  OBVIOUS
<1> HIDE DEF j
<1>5. job'[t] = j /\ \A o \in SetupThread \ {t} : job'[o] = job[o]
  BY <1>1 DEF SetupInv, SetupTypes, JobsTyped
<1>6. ASSUME ~disturbed' PROVE Alone(job'[t], live', conf, calFile, temp, Setup!StoredSettings)
  <2>1. Alone(Idle, live, conf, calFile, temp, Setup!StoredSettings)
    BY <1>1, <1>6, Begins
  <2>2. Plain(live) /\ live'.split = NoSplit
    BY <1>1, <1>3, <2>1 DEF Alone, Among, Plain, ChangeOf
  <2>3. j # Idle
    <3>1. job'[t] \in Setup!Jobs
      <4>1. live \in Setup!Cal /\ res.cal \in Setup!Cal /\ r.persist \in BOOLEAN
        BY <1>3 DEF ChangeOf, SetupInv, SetupTypes, MemoryTyped, SetupSound, Setup!RequestsSound
      <4> QED BY <1>5, <4>1 DEF j, Setup!Jobs
    <3> QED BY <1>5, <3>1, NoJobIsIdle
  <2>4. SoFar(j, live', conf, calFile, temp, Setup!StoredSettings)
    BY <1>1, <1>4, <2>2 DEF SoFar
  <2> QED BY <1>4, <1>5, <2>1, <2>2, <2>3, <2>4 DEF Alone, Among
<1>7. disturbed' \in BOOLEAN /\ (~disturbed' => ~disturbed /\ \A o \in SetupThread \ {t} : job[o] = Idle)
  BY <1>1, Begins
<1>8. SetupTypes /\ (~disturbed => script' = Idle)
  BY <1>1 DEF SetupInv, Together
<1>9. ~disturbed' => Alone(job'[t], live', conf', calFile', temp', Setup!StoredSettings')
  BY <1>1, <1>2, <1>6
<1> QED BY <1>5, <1>7, <1>8, <1>9, TogetherAgain

LEMMA ValidatedTogether ==
    ASSUME SetupSound, SetupInv, NEW t \in SetupThread, Setup!Validated(t)
    PROVE  disturbed' \in BOOLEAN /\ Together'
<1> DEFINE c == job[t].cal
           u == [k \in {"ox", "oy", "sx", "sy", "dead", "affine"} |-> c[k]]
<1>1. /\ job[t] # Idle /\ job[t].at = "validate"
      /\ IF ~Setup!Accepted(conf, u, {}) THEN Setup!Go(t, "restore")
         ELSE IF job[t].persist THEN Setup!Go(t, "open")
         ELSE Setup!End(t)
      /\ UNCHANGED <<live, conf, calFile, setFile, temp, script, disturbed>>
  <2>1. Setup!Doing(t, "validate")
    BY Zenon DEF Setup!Validated
  <2> QED BY <2>1, Zenon DEF Setup!Validated, Setup!Doing, Setup!memory, Setup!files
<1>2. Setup!StoredSettings' = Setup!StoredSettings
  BY <1>1 DEF Setup!StoredSettings
<1>3. SetupTypes /\ SomeJob(job[t]) /\ job[t] \in Setup!Jobs
  BY <1>1 DEF SetupInv, SetupTypes, JobsTyped, SomeJob
<1>4. job[t].kind = "calibration"
  BY <1>1, <1>3 DEF SomeJob, StageOf
<1>5. Setup!Go(t, "restore") \/ (Setup!Accepted(conf, u, {}) /\ (Setup!Go(t, "open") \/ Setup!End(t)))
  BY <1>1, Zenon
<1>6. \A o \in SetupThread \ {t} : job'[o] = job[o]
  BY <1>1, <1>3, <1>5, JobGone, JobEnded DEF Stages
<1>7. ASSUME Alone(job[t], live, conf, calFile, temp, Setup!StoredSettings)
      PROVE  Alone(job'[t], live, conf, calFile, temp, Setup!StoredSettings)
  <2>1. /\ live = c /\ live.split = NoSplit /\ Plain(job[t].old) /\ live \in Setup!Cal
    BY <1>1, <1>3, <1>7 DEF Alone, SoFar, SetupTypes, MemoryTyped
  <2>2. CASE Setup!Go(t, "restore")
    <3>1. job'[t].at = "restore" /\ job'[t].old = job[t].old
      BY <1>1, <1>3, <1>4, <2>2, JobGone DEF Stages
    <3>2. SoFar(job'[t], live, conf, calFile, temp, Setup!StoredSettings)
      BY <2>1, <3>1 DEF SoFar
    <3>3. job'[t] # Idle
      BY <1>1, <1>3, <2>2, JobGone, NoJobIsIdle DEF Stages
    <3> QED BY <1>1, <1>7, <3>1, <3>2, <3>3 DEF Alone, Among
  <2>3. CASE Setup!Accepted(conf, u, {}) /\ (Setup!Go(t, "open") \/ Setup!End(t))
    <3>1. Setup!SomeUpdate(u) /\ {"ox", "oy", "sx", "sy", "dead"} \subseteq DOMAIN u
      BY <2>1 DEF Setup!SomeUpdate, Setup!Cal
    <3>2. Setup!CalLoaded(calFile, conf).split = NoSplit
      BY <1>3, <1>7, PlainStart DEF Alone, Plain, SetupTypes, MemoryTyped
    <3>3. Usably(u) /\ MatrixFits(MatrixOf(u), u.dead, Setup!Limits(conf))
      BY <1>3, <2>3, <3>1, <3>2, AcceptedIs
    <3>4. MatrixOf(u) = live.affine /\ u.dead = live.dead /\ u.sx = live.sx /\ u.sy = live.sy
      BY <2>1 DEF MatrixOf
    <3>5. Usable(live) /\ Fits(live, Setup!Limits(conf))
      BY <2>1, <3>3, <3>4, FitIs DEF Usable, Usably
    <3>6. CASE Setup!Go(t, "open")
      <4>1. job'[t].at = "open" /\ job'[t].kind = "calibration"
        BY <1>1, <1>3, <1>4, <3>6, JobGone DEF Stages
      <4>2. SoFar(job'[t], live, conf, calFile, temp, Setup!StoredSettings)
        BY <3>5, <4>1 DEF SoFar, LimitsFor
      <4> QED BY <1>1, <1>7, <3>5, <4>1, <4>2 DEF Alone, Among
    <3>7. CASE Setup!End(t)
      <4>1. job'[t] = Idle
        BY <1>3, <3>7, JobEnded
      <4> QED BY <1>1, <1>7, <3>5, <4>1 DEF Alone, Among
    <3> QED BY <2>3, <3>6, <3>7
  <2> QED BY <1>5, <2>2, <2>3
<1>8. ~disturbed /\ Alone(job[t], live, conf, calFile, temp, Setup!StoredSettings)
        => Alone(job'[t], live', conf', calFile', temp', Setup!StoredSettings')
  BY <1>1, <1>2, <1>7
<1> QED BY <1>1, <1>6, <1>8, CarriedOn

\* What is set back is what was there, all of it.
LEMMA RestoredExactly ==
    ASSUME NEW c \in Setup!Cal, NEW old \in Setup!Cal, c.split = NoSplit, Plain(old)
    PROVE  Setup!RestoredTo(c, old) = old
<1> DEFINE u == [k \in {"ox", "oy", "sx", "sy", "dead", "affine"} |-> old[k]]
           res == Setup!Updated(c, u)
           n == [c EXCEPT !.ox = u.ox, !.oy = u.oy, !.sx = u.sx, !.sy = u.sy, !.dead = u.dead, !.affine = MatrixOf(u)]
<1>1. Setup!RestoredTo(c, old) = IF res.ok THEN [res.cal EXCEPT !.image = old.image] ELSE res.cal
  BY Zenon DEF Setup!RestoredTo
<1>2. Setup!SomeUpdate(u) /\ {"ox", "oy", "sx", "sy", "dead"} \subseteq DOMAIN u
  BY DEF Setup!SomeUpdate, Setup!Cal
<1>3. /\ u.ox = old.ox /\ u.oy = old.oy /\ u.sx = old.sx /\ u.sy = old.sy /\ u.dead = old.dead
      /\ MatrixOf(u) = old.affine
  BY DEF MatrixOf
<1>4. Usably(u)
  BY <1>3 DEF Plain, Usable, Usably
<1>5. res.ok /\ res.cal = n
  <2> HIDE DEF u
  <2> QED BY <1>2, <1>4, FullUpdateIs
<1> HIDE DEF u, res
<1>6. [n EXCEPT !.image = old.image] = old
  BY <1>3 DEF Setup!Cal, Plain
<1> QED BY <1>1, <1>5, <1>6

LEMMA RestoredTogether ==
    ASSUME SetupSound, SetupInv, NEW t \in SetupThread, Setup!Restored(t)
    PROVE  /\ disturbed' \in BOOLEAN /\ Together'
           /\ ~disturbed => live' = job[t].old
<1>1. /\ job[t] # Idle /\ job[t].at = "restore" /\ Setup!End(t) /\ live' = Setup!RestoredTo(live, job[t].old)
      /\ UNCHANGED <<conf, calFile, setFile, temp, script, disturbed>>
  BY Zenon DEF Setup!Restored, Setup!Doing, Setup!files
<1>2. Setup!StoredSettings' = Setup!StoredSettings
  BY <1>1 DEF Setup!StoredSettings
<1>3. SetupTypes /\ SomeJob(job[t]) /\ job[t] \in Setup!Jobs
  BY <1>1 DEF SetupInv, SetupTypes, JobsTyped, SomeJob
<1>4. job[t].old \in Setup!Cal /\ live \in Setup!Cal
  BY <1>1, <1>3, JobsAre DEF SomeJob, StageOf, SetupTypes, MemoryTyped
<1>5. job'[t] = Idle /\ \A o \in SetupThread \ {t} : job'[o] = job[o]
  BY <1>1, JobEnded DEF SetupInv
<1>6. ASSUME Alone(job[t], live, conf, calFile, temp, Setup!StoredSettings)
      PROVE  live' = job[t].old /\ Alone(job'[t], live', conf, calFile, temp, Setup!StoredSettings)
  <2>1. live.split = NoSplit /\ Plain(job[t].old)
    BY <1>1, <1>6 DEF Alone, SoFar
  <2>2. live' = job[t].old
    BY <1>1, <1>4, <2>1, RestoredExactly
  <2> QED BY <1>1, <1>5, <1>6, <2>1, <2>2 DEF Alone, Among, Plain
<1>7. ~disturbed /\ Alone(job[t], live, conf, calFile, temp, Setup!StoredSettings)
        => Alone(job'[t], live', conf', calFile', temp', Setup!StoredSettings')
  BY <1>1, <1>2, <1>6
<1>8. disturbed' \in BOOLEAN /\ Together'
  BY <1>1, <1>5, <1>7, CarriedOn
<1>9. ~disturbed => live' = job[t].old
  BY <1>1, <1>6, GoesOn
<1> QED BY <1>8, <1>9

\* A request that only looks, and the calibration script.
LEMMA LookedTogether ==
    ASSUME SetupInv, NEW t \in SetupThread,
           \/ \E q \in Tests : Setup!HardwareTested(t, q)
           \/ Setup!Preflight(t)
    PROVE  disturbed' \in BOOLEAN /\ Together'
<1>1. job[t] = Idle /\ Setup!Overlaps(t) /\ UNCHANGED <<live, conf, calFile, setFile, temp, job, script>>
  BY Zenon DEF Setup!HardwareTested, Setup!Preflight, Setup!Serving, Setup!memory, Setup!files
<1>2. Setup!StoredSettings' = Setup!StoredSettings
  BY <1>1 DEF Setup!StoredSettings
<1>3. /\ disturbed' \in BOOLEAN
      /\ ~disturbed' => /\ ~disturbed /\ \A o \in SetupThread \ {t} : job[o] = Idle
                        /\ script = Idle /\ Alone(Idle, live, conf, calFile, temp, Setup!StoredSettings)
  BY <1>1, Begins
<1> QED BY <1>1, <1>2, <1>3, TogetherAgain DEF SetupInv, Together

LEMMA ScriptTogether ==
    ASSUME SetupInv,
           \/ \E i \in ScriptInputs : Setup!ScriptStarts(i)
           \/ Setup!ScriptCalibrates \/ Setup!ScriptOpensSettings \/ Setup!ScriptWritesSettings
    PROVE  disturbed' \in BOOLEAN /\ Together'
<1>1. disturbed' = TRUE \/ (disturbed' = disturbed /\ script # Idle)
  BY Zenon DEF Setup!ScriptStarts, Setup!ScriptCalibrates, Setup!ScriptOpensSettings, Setup!ScriptWritesSettings
<1> QED BY <1>1 DEF SetupInv, Together

LEMMA RestartTogether ==
    ASSUME SetupSound, SetupInv, Setup!Restart
    PROVE  disturbed' \in BOOLEAN /\ Together'
<1>1. /\ conf' = Setup!ConfLoaded /\ live' = Setup!CalLoaded(calFile, Setup!ConfLoaded)
      /\ job' = [t \in SetupThread |-> Idle] /\ disturbed' = (disturbed \/ \E t \in SetupThread : job[t] # Idle)
      /\ UNCHANGED <<calFile, setFile, temp, script>>
  BY Zenon DEF Setup!Restart, Setup!files
<1>2. Setup!StoredSettings' = Setup!StoredSettings
  BY <1>1 DEF Setup!StoredSettings
<1>3. Setup!ConfLoaded = Load(Setup!StoredSettings) /\ Setup!ConfLoaded \in AllSettings
  BY ConfLoadedIs DEF SetupInv, SetupTypes
<1>4. ASSUME ~disturbed'
      PROVE  script = Idle /\ Alone(Idle, live', conf', calFile, temp, Setup!StoredSettings)
  <2>1. script = Idle /\ Alone(Idle, live, conf, calFile, temp, Setup!StoredSettings)
    BY <1>1, <1>4 DEF SetupInv, Together
  <2>2. Plain(live')
    BY <1>1, <1>3, <2>1, PlainStart DEF SetupInv, Alone
  <2> QED BY <1>1, <1>3, <2>1, <2>2 DEF Alone, Among, Plain
<1>5. disturbed' \in BOOLEAN
  BY <1>1 DEF SetupInv
<1> QED BY <1>1, <1>2, <1>4, <1>5 DEF Together

LEMMA SetupInvInit == ASSUME SetupSound, Setup!Init PROVE SetupInv
<1>1. /\ calFile = Missing /\ setFile = << >> /\ temp = NoTemp /\ conf = Load(<< >>) /\ live = Setup!DefaultCal(conf)
      /\ job = [t \in SetupThread |-> Idle] /\ script = Idle /\ disturbed = FALSE
  BY Zenon DEF Setup!Init, Load
<1>2. SetupTypes
  BY SetupInit
<1>3. Missing \notin Setup!Cal
  BY DEF SetupSound, Setup!NothingIsAValue
<1>4. Setup!StoredSettings = << >>
  BY <1>1 DEF Setup!StoredSettings, SetupSound, Setup!NothingIsAValue
<1>5. Setup!CalLoaded(calFile, Load(<< >>)) = live
  BY <1>1 DEF Setup!CalLoaded
<1>6. Fits(live, Setup!Limits(conf))
  BY <1>1, Zenon DEF SetupSound, Setup!DefaultsFit, Load, Fits
<1>7. Plain(live)
  BY <1>2, <1>1, AllSettingsHold, DefaultCalIs DEF SetupTypes, MemoryTyped, Plain
<1>8. Alone(Idle, live, conf, calFile, temp, Setup!StoredSettings)
  BY <1>1, <1>3, <1>4, <1>5, <1>6, <1>7 DEF Alone, Among, Plain
<1> QED BY <1>1, <1>2, <1>8 DEF SetupInv, Together

LEMMA SetupInvStep ==
    ASSUME SetupSound, SetupInv, [Setup!Next]_(Setup!vars)
    PROVE  SetupInv'
<1>1. SetupTypes'
  BY SetupStep DEF SetupInv
<1>2. CASE UNCHANGED Setup!vars
  <2>1. UNCHANGED <<live, conf, calFile, setFile, temp, job, script, disturbed>>
    BY <1>2 DEF Setup!vars
  <2>2. Setup!StoredSettings' = Setup!StoredSettings
    BY <2>1 DEF Setup!StoredSettings
  <2> QED BY <1>1, <2>1, <2>2 DEF SetupInv, Together
<1>3. CASE Setup!Next
  <2>1. disturbed' \in BOOLEAN /\ Together'
    BY <1>3, PostedTogether, AskedTogether, LookedTogether, RenewedTogether, OpenedTogether, WrittenTogether,
       StagedTogether, ReplacedTogether, AppliedTogether, MarkedTogether, ValidatedTogether, RestoredTogether,
       ScriptTogether, RestartTogether, Zenon DEF Setup!Next
  <2> QED BY <1>1, <2>1 DEF SetupInv
<1> QED BY <1>2, <1>3

\* What holds of the two files, and of a request that is refused.
LEMMA SetupHolds == ASSUME SetupSound, SetupInv PROVE Setup!SavedPairStaysTogether
<1> SUFFICES ASSUME ~disturbed, \A t \in SetupThread : job[t] = Idle, ~Setup!Overruled(Setup!StoredSettings)
             PROVE  Fits(Setup!CalLoaded(calFile, Setup!ConfLoaded), Setup!Limits(Setup!ConfLoaded))
  BY Zenon DEF Setup!SavedPairStaysTogether, Setup!SavedPairFits, Fits
<1>1. Setup!ConfLoaded = Load(Setup!StoredSettings)
  BY ConfLoadedIs DEF SetupInv, SetupTypes
<1>2. Alone(Idle, live, conf, calFile, temp, Setup!StoredSettings)
  BY DEF SetupInv, Together
<1> QED BY <1>1, <1>2 DEF Alone, Among

LEMMA StepRefusal ==
    ASSUME SetupSound, SetupInv, [Setup!Next]_(Setup!vars)
    PROVE  Setup!RefusalUndone
<1> SUFFICES ASSUME NEW t \in SetupThread, job[t] # Idle, job[t].at = "restore", job'[t] = Idle, up',
                    restarts' = restarts, ~disturbed
             PROVE  live' = job[t].old
  BY Zenon DEF Setup!RefusalUndone
<1>0. SetupTypes /\ job \in [SetupThread -> {Idle} \cup Setup!Jobs] /\ restarts \in Nat /\ script = Idle
  BY DEF SetupInv, SetupTypes, JobsTyped, Together
<1>1. job' # job
  OBVIOUS
<1>2. Setup!Next
  BY <1>1 DEF Setup!vars
<1>3. ~Setup!Restart
  <2>1. restarts + 1 # restarts
    BY <1>0
  <2> QED BY <2>1, Zenon DEF Setup!Restart
<1>4. ~(\/ \E i \in ScriptInputs : Setup!ScriptStarts(i)
        \/ Setup!ScriptCalibrates \/ Setup!ScriptOpensSettings \/ Setup!ScriptWritesSettings)
  BY <1>1, Zenon DEF Setup!ScriptStarts, Setup!ScriptCalibrates, Setup!ScriptOpensSettings, Setup!ScriptWritesSettings
<1>5. ASSUME NEW o \in SetupThread \ {t}, job[o] # Idle PROVE FALSE
  BY <1>5 DEF SetupInv, Together
<1>6. ASSUME NEW o \in SetupThread, NEW step \in Stages \ {"restore"}, Setup!Doing(o, step) PROVE FALSE
  <2>1. job[o] # Idle /\ job[o].at = step
    BY <1>6 DEF Setup!Doing
  <2>2. o = t
    BY <1>5, <2>1
  <2> QED BY <2>1, <2>2
<1>7. ASSUME NEW o \in SetupThread, Setup!Serving(o), \A p \in SetupThread \ {o} : job'[p] = job[p] PROVE FALSE
  <2>1. o # t
    BY <1>7 DEF Setup!Serving
  <2> QED BY <1>7, <2>1
<1>8. ASSUME NEW o \in SetupThread, NEW r \in SettingsRequests, Setup!SettingsPosted(o, r) PROVE FALSE
  <2>1. PICK j : job' = [job EXCEPT ![o] = j] \/ job' = job
    BY <1>8, Zenon DEF Setup!SettingsPosted
  <2>2. \A p \in SetupThread \ {o} : job'[p] = job[p]
    BY <1>0, <2>1
  <2>3. Setup!Serving(o)
    BY <1>8, Zenon DEF Setup!SettingsPosted
  <2> QED BY <1>7, <2>2, <2>3
<1>9. ASSUME NEW o \in SetupThread, NEW r \in CalRequests, Setup!CalibrationPosted(o, r) PROVE FALSE
  <2>1. PICK j : job' = [job EXCEPT ![o] = j]
    BY <1>9, Zenon DEF Setup!CalibrationPosted
  <2>2. \A p \in SetupThread \ {o} : job'[p] = job[p]
    BY <1>0, <2>1
  <2>3. Setup!Serving(o)
    BY <1>9, Zenon DEF Setup!CalibrationPosted
  <2> QED BY <1>7, <2>2, <2>3
<1>10. ASSUME NEW o \in SetupThread, \/ \E q \in Tests : Setup!HardwareTested(o, q)
                                     \/ Setup!Preflight(o)
       PROVE  FALSE
  BY <1>1, <1>10, Zenon DEF Setup!HardwareTested, Setup!Preflight
<1>11. ASSUME NEW o \in SetupThread,
              \/ Setup!Renewed(o) \/ Setup!FileOpened(o) \/ Setup!FileWritten(o) \/ Setup!Staged(o)
              \/ Setup!Replaced(o) \/ Setup!Applied(o) \/ Setup!Marked(o) \/ Setup!Validated(o)
       PROVE  FALSE
  <2>1. \E step \in {"renew", "open", "write", "stage", "replace", "apply", "mark", "validate"} : Setup!Doing(o, step)
    BY <1>11, Zenon DEF Setup!Renewed, Setup!FileOpened, Setup!FileWritten, Setup!Staged, Setup!Replaced,
       Setup!Applied, Setup!Marked, Setup!Validated
  <2>2. {"renew", "open", "write", "stage", "replace", "apply", "mark", "validate"} \subseteq Stages \ {"restore"}
    BY DEF Stages
  <2> QED BY <1>6, <2>1, <2>2
<1>12. ASSUME NEW o \in SetupThread, Setup!Restored(o) PROVE live' = job[t].old
  <2>1. o = t
    BY <1>5, <1>12 DEF Setup!Restored, Setup!Doing
  <2> QED BY <1>12, <2>1, RestoredTogether
<1> QED BY <1>2, <1>3, <1>4, <1>8, <1>9, <1>10, <1>11, <1>12, Zenon DEF Setup!Next

\* Kinematics stays invertible whatever requests, crashes and script runs come between (kinematics.py), and every
\* setting, calibration and request under way is of its kind.
THEOREM MappingInvertible ==
    ASSUME SetupSound
    PROVE  Setup!Spec => [](Setup!TypeOK /\ Setup!MappingStaysInvertible)
<1>1. Setup!Init => SetupTypes
  BY SetupInit
<1>2. SetupTypes /\ [Setup!Next]_(Setup!vars) => SetupTypes'
  BY SetupStep
<1>3. SetupTypes => Setup!TypeOK /\ Setup!MappingStaysInvertible
  BY SetupTypesHold
<1> QED BY <1>1, <1>2, <1>3, PTL DEF Setup!Spec

\* The stored calibration fits the stored limits, unless requests overlapped, one was cut short or the script wrote
\* the files (setup_routes.py, setup_settings.py).
THEOREM SavedPair ==
    ASSUME SetupSound
    PROVE  Setup!Spec => []Setup!SavedPairStaysTogether
<1>1. Setup!Init => SetupInv
  BY SetupInvInit
<1>2. SetupInv /\ [Setup!Next]_(Setup!vars) => SetupInv'
  BY SetupInvStep
<1>3. SetupInv => Setup!SavedPairStaysTogether
  BY SetupHolds
<1> QED BY <1>1, <1>2, <1>3, PTL DEF Setup!Spec

\* A calibration that is refused leaves the one in memory as it was (robot_routes.py, _restore_calibration).
THEOREM RefusalLeavesNoTrace ==
    ASSUME SetupSound
    PROVE  Setup!Spec => Setup!RefusedLeavesNoTrace
<1>1. Setup!Init => SetupInv
  BY SetupInvInit
<1>2. SetupInv /\ [Setup!Next]_(Setup!vars) => SetupInv'
  BY SetupInvStep
<1>3. SetupInv /\ [Setup!Next]_(Setup!vars) => Setup!RefusalUndone
  BY StepRefusal
<1> QED BY <1>1, <1>2, <1>3, PTL DEF Setup!Spec, Setup!RefusedLeavesNoTrace
-----------------------------------------------------------------------------
(* Measured points.                                                        *)

\* What a recursion over the parts of a set of three comes to.
OfThree(v, a, b, c) == a # b /\ a # c /\ b # c /\ DOMAIN v = {a, b, c} /\ \A q \in {a, b, c} : v[q] \in Int

LEMMA TotalOfThree ==
    ASSUME NEW v, NEW a, NEW b, NEW c, OfThree(v, a, b, c)
    PROVE  Setup!Total(v) = v[a] + v[b] + v[c]
<1> DEFINE S == {a, b, c}
           Any(T) == CHOOSE q \in T : TRUE
           Solves(t) == t = [T \in SUBSET S |-> IF T = {} THEN 0 ELSE v[Any(T)] + t[T \ {Any(T)}]]
           g == [T \in SUBSET S |-> (IF a \in T THEN v[a] ELSE 0) + (IF b \in T THEN v[b] ELSE 0)
                                    + (IF c \in T THEN v[c] ELSE 0)]
           t == CHOOSE t : Solves(t)
<1> USE DEF OfThree
<1>1. ASSUME NEW T \in SUBSET S, T # {} PROVE Any(T) \in T
  BY <1>1
<1>2. ASSUME NEW T \in SUBSET S, NEW q \in T PROVE g[T] = v[q] + g[T \ {q}]
  <2>1. T \ {q} \in SUBSET S /\ q \in S
    OBVIOUS
  <2>2. /\ g[T] = (IF a \in T THEN v[a] ELSE 0) + (IF b \in T THEN v[b] ELSE 0) + (IF c \in T THEN v[c] ELSE 0)
        /\ g[T \ {q}] = (IF a \in T \ {q} THEN v[a] ELSE 0) + (IF b \in T \ {q} THEN v[b] ELSE 0)
                        + (IF c \in T \ {q} THEN v[c] ELSE 0)
    BY <2>1
  <2> HIDE DEF g
  <2>3. CASE q = a
    BY <2>2, <2>3, SMT
  <2>4. CASE q = b
    BY <2>2, <2>4, SMT
  <2>5. CASE q = c
    BY <2>2, <2>5, SMT
  <2> QED BY <2>1, <2>3, <2>4, <2>5
<1>3. g[{}] = 0
  OBVIOUS
<1>4. Solves(g)
  <2> DEFINE h == [T \in SUBSET S |-> IF T = {} THEN 0 ELSE v[Any(T)] + g[T \ {Any(T)}]]
  <2>1. ASSUME NEW T \in SUBSET S PROVE g[T] = h[T]
    <3>1. CASE T = {}
      BY <3>1, <1>3
    <3>2. CASE T # {}
      <4> HIDE DEF g, Any
      <4> QED BY <3>2, <1>1, <1>2
    <3> QED BY <3>1, <3>2
  <2>2. g = [T \in SUBSET S |-> g[T]] /\ h = [T \in SUBSET S |-> h[T]]
    OBVIOUS
  <2>3. g = h
    <3> HIDE DEF g, h
    <3> QED BY <2>1, <2>2, Zenon
  <2> HIDE DEF g, Any
  <2> QED BY <2>3
<1>5. Solves(t)
  <2> HIDE DEF Solves, g
  <2> QED BY <1>4
<1>6. /\ t[{}] = 0
      /\ \A T \in SUBSET S : T # {} => t[T] = v[Any(T)] + t[T \ {Any(T)}]
  <2> HIDE DEF t, Any
  <2> QED BY <1>5
<1> HIDE DEF t, Any, g, Solves
<1>7. ASSUME NEW T \in SUBSET S, T # {}, \A q \in T : t[T \ {q}] = g[T \ {q}] PROVE t[T] = g[T]
  BY <1>1, <1>2, <1>6, <1>7
<1>8. ASSUME NEW x \in S PROVE t[{x}] = g[{x}]
  <2>1. {x} \ {x} = {} /\ {x} \in SUBSET S /\ {x} # {}
    OBVIOUS
  <2> QED BY <2>1, <1>3, <1>6, <1>7
<1>9. ASSUME NEW x \in S, NEW y \in S, x # y PROVE t[{x, y}] = g[{x, y}]
  <2>1. {x, y} \ {x} = {y} /\ {x, y} \ {y} = {x} /\ {x, y} \in SUBSET S /\ {x, y} # {}
    BY <1>9
  <2> QED BY <2>1, <1>7, <1>8
<1>10. t[S] = g[S]
  <2>1. S \ {a} = {b, c} /\ S \ {b} = {a, c} /\ S \ {c} = {a, b} /\ S \in SUBSET S /\ S # {}
    OBVIOUS
  <2> QED BY <2>1, <1>7, <1>9
<1>11. g[S] = v[a] + v[b] + v[c]
  BY DEF g
<1>12. Setup!Total(v) = t[S]
  BY DEF Setup!Total, t, Solves, Any
<1> QED BY <1>10, <1>11, <1>12

LEMMA ExactQuotient == ASSUME NEW m \in Int, NEW d \in Nat \ {0} PROVE (m * d) \div d = m
<1> DEFINE q == (m * d) \div d
<1>1. q \in Int /\ d * q <= m * d /\ m * d < d * q + d
  BY SMT
<1> HIDE DEF q
<1>2. CASE q <= m - 1
  <2>1. d * q <= d * (m - 1)
    BY <1>1, <1>2, SMT
  <2> QED BY <1>1, <2>1, SMT
<1>3. CASE q >= m + 1
  <2>1. d * q >= d * (m + 1)
    BY <1>1, <1>3, SMT
  <2> QED BY <1>1, <2>1, SMT
<1> QED BY <1>1, <1>2, <1>3 DEF q

\* Three values at three points that are not in line, and a map of whole numbers that gives them.
Mapped(f1, f2, f3, r1, r2, r3, w1, w2, w3, k, l, o) ==
    /\ {f1, f2, f3, r1, r2, r3, k, l, o} \subseteq Int
    /\ (f2 - f1) * (r3 - r1) - (r2 - r1) * (f3 - f1) # 0
    /\ w1 = (k * f1) + (l * r1) + o /\ w2 = (k * f2) + (l * r2) + o /\ w3 = (k * f3) + (l * r3) + o

\* Their least squares are that map.
LEMMA ExactRow ==
    ASSUME NEW f1, NEW f2, NEW f3, NEW r1, NEW r2, NEW r3, NEW w1, NEW w2, NEW w3, NEW k, NEW l, NEW o,
           Mapped(f1, f2, f3, r1, r2, r3, w1, w2, w3, k, l, o)
    PROVE  LET F == f1 + f2 + f3
               R == r1 + r2 + r3
               W == w1 + w2 + w3
           IN  Setup!Row(3, F, R, W,
                   (3 * ((f1 * f1) + (f2 * f2) + (f3 * f3))) - (F * F),
                   (3 * ((r1 * r1) + (r2 * r2) + (r3 * r3))) - (R * R),
                   (3 * ((f1 * r1) + (f2 * r2) + (f3 * r3))) - (F * R),
                   (3 * ((w1 * f1) + (w2 * f2) + (w3 * f3))) - (W * F),
                   (3 * ((w1 * r1) + (w2 * r2) + (w3 * r3))) - (W * R)) = << k, l, o >>
<1> DEFINE F == f1 + f2 + f3
           R == r1 + r2 + r3
           W == w1 + w2 + w3
           ff == (3 * ((f1 * f1) + (f2 * f2) + (f3 * f3))) - (F * F)
           rr == (3 * ((r1 * r1) + (r2 * r2) + (r3 * r3))) - (R * R)
           fr == (3 * ((f1 * r1) + (f2 * r2) + (f3 * r3))) - (F * R)
           wf == (3 * ((w1 * f1) + (w2 * f2) + (w3 * f3))) - (W * F)
           wr == (3 * ((w1 * r1) + (w2 * r2) + (w3 * r3))) - (W * R)
           A == (f2 - f1) * (r3 - r1) - (r2 - r1) * (f3 - f1)
           d == (ff * rr) - (fr * fr)
<1>0. /\ f1 \in Int /\ f2 \in Int /\ f3 \in Int /\ r1 \in Int /\ r2 \in Int /\ r3 \in Int
      /\ k \in Int /\ l \in Int /\ o \in Int /\ A # 0
      /\ w1 = (k * f1) + (l * r1) + o /\ w2 = (k * f2) + (l * r2) + o /\ w3 = (k * f3) + (l * r3) + o
  BY DEF Mapped
<1>1. /\ w1 \in Int /\ w2 \in Int /\ w3 \in Int /\ F \in Int /\ R \in Int /\ W \in Int
      /\ ff \in Int /\ rr \in Int /\ fr \in Int /\ wf \in Int /\ wr \in Int /\ A \in Int
  BY <1>0, SMT
<1>2. wf = (k * ff) + (l * fr)
  BY <1>0, <1>1, SMT
<1>3. wr = (k * fr) + (l * rr)
  BY <1>0, <1>1, SMT
<1>4. d = 3 * (A * A)
  BY <1>0, <1>1, SMT
<1>5. W - (k * F) - (l * R) = 3 * o
  BY <1>0, <1>1, SMT
<1>6. d \in Nat \ {0}
  <2> HIDE DEF A
  <2>1. A * A \in Nat \ {0}
    BY <1>0, <1>1, SMT
  <2> HIDE DEF d
  <2> QED BY <1>4, <2>1, SMT
<1> HIDE DEF A
<1>7. (wf * rr) - (wr * fr) = k * d
  <2> HIDE DEF F, R, W, ff, rr, fr, wf, wr
  <2> QED BY <1>0, <1>1, <1>2, <1>3, SMT DEF d
<1>8. (wr * ff) - (wf * fr) = l * d
  <2> HIDE DEF F, R, W, ff, rr, fr, wf, wr
  <2> QED BY <1>0, <1>1, <1>2, <1>3, SMT DEF d
<1>9. ((wf * rr) - (wr * fr)) \div d = k /\ ((wr * ff) - (wf * fr)) \div d = l
  <2> HIDE DEF d
  <2> QED BY <1>0, <1>6, <1>7, <1>8, ExactQuotient
<1>10. (W - (k * F) - (l * R)) \div 3 = o
  <2> HIDE DEF F, R, W
  <2> QED BY <1>0, <1>5, SMT
<1>11. Setup!Row(3, F, R, W, ff, rr, fr, wf, wr)
       = << ((wf * rr) - (wr * fr)) \div d, ((wr * ff) - (wf * fr)) \div d,
            (W - ((((wf * rr) - (wr * fr)) \div d) * F) - ((((wr * ff) - (wf * fr)) \div d) * R)) \div 3 >>
  BY Zenon DEF Setup!Row
<1> HIDE DEF d, A, F, R, W, ff, rr, fr, wf, wr
<1>12. Setup!Row(3, F, R, W, ff, rr, fr, wf, wr) = << k, l, o >>
  BY <1>9, <1>10, <1>11
<1> QED BY <1>12 DEF F, R, W, ff, rr, fr, wf, wr

\* A measured point: a board point and where the robot was.
Sample == [f : Setup!FileIds, r : Setup!RankIds, x : Int, y : Int]

LEMMA SampleIs == ASSUME NEW q \in Sample PROVE q.f \in Int /\ q.r \in Int /\ q.x \in Int /\ q.y \in Int
  BY DEF Sample, Setup!FileIds, Setup!RankIds

LEMMA NotInLine ==
    ASSUME NEW a \in Sample, NEW b \in Sample, NEW c \in Sample, Setup!Area(a, b, c) # 0
    PROVE  a # b /\ a # c /\ b # c
<1>1. (b.f - a.f) * (c.r - a.r) - (b.r - a.r) * (c.f - a.f) # 0
  BY DEF Setup!Area
<1>2. \A q \in {a, b, c} : q.f \in Int /\ q.r \in Int
  BY DEF Sample, Setup!FileIds, Setup!RankIds
<1>3. ASSUME a = b PROVE FALSE
  BY <1>1, <1>2, <1>3, SMT
<1>4. ASSUME a = c PROVE FALSE
  BY <1>1, <1>2, <1>4, SMT
<1>5. ASSUME b = c PROVE FALSE
  BY <1>1, <1>2, <1>5, SMT
<1> QED BY <1>3, <1>4, <1>5

LEMMA ThreeAreThree == ASSUME NEW a, NEW b, NEW c, a # b, a # c, b # c PROVE Setup!Cardinality({a, b, c}) = 3
<1>1. Setup!Cardinality({a, b, c}) = Cardinality({a, b, c})
  BY Zenon DEF Setup!Cardinality, Cardinality
<1>2. Cardinality({a}) = 1 /\ IsFiniteSet({a})
  BY FS_Singleton
<1>3. Cardinality({a} \cup {b}) = 2 /\ IsFiniteSet({a} \cup {b})
  BY <1>2, FS_AddElement
<1>4. Cardinality(({a} \cup {b}) \cup {c}) = 3
  BY <1>3, FS_AddElement
<1>5. ({a} \cup {b}) \cup {c} = {a, b, c}
  OBVIOUS
<1> QED BY <1>1, <1>4, <1>5

\* Three points that are not in line, and a map of whole numbers that gives their x or y.
Fitted(a, b, c, v, k, l, o) ==
    /\ {a, b, c} \subseteq Sample /\ Setup!Area(a, b, c) # 0
    /\ v \in {"x", "y"} /\ {k, l, o} \subseteq Int
    /\ \A q \in {a, b, c} : q[v] = (k * q.f) + (l * q.r) + o

LEMMA FitOfThree ==
    ASSUME NEW a, NEW b, NEW c, NEW v, NEW k, NEW l, NEW o, Fitted(a, b, c, v, k, l, o)
    PROVE  Setup!Fit({a, b, c}, v) = << k, l, o >>
<1> DEFINE S == {a, b, c}
<1>0. /\ a \in Sample /\ b \in Sample /\ c \in Sample /\ Setup!Area(a, b, c) # 0
      /\ v \in {"x", "y"} /\ k \in Int /\ l \in Int /\ o \in Int
      /\ \A q \in S : q[v] = (k * q.f) + (l * q.r) + o
  BY DEF Fitted
<1>1. \A q \in S : q.f \in Int /\ q.r \in Int /\ q[v] \in Int
  <2> TAKE q \in S
  <2>1. q.f \in Int /\ q.r \in Int /\ q.x \in Int /\ q.y \in Int
    BY <1>0, SampleIs
  <2>2. q[v] = q.x \/ q[v] = q.y
    BY <1>0
  <2> QED BY <2>1, <2>2
<1>2. (b.f - a.f) * (c.r - a.r) - (b.r - a.r) * (c.f - a.f) # 0
  BY <1>0 DEF Setup!Area
<1>3. a # b /\ a # c /\ b # c
  BY <1>0, NotInLine
<1>4. Setup!Cardinality(S) = 3
  BY <1>3, ThreeAreThree
<1>5. ASSUME NEW h, DOMAIN h = S, \A q \in S : h[q] \in Int PROVE Setup!Total(h) = h[a] + h[b] + h[c]
  <2>1. OfThree(h, a, b, c)
    BY <1>3, <1>5 DEF OfThree
  <2> QED BY <2>1, TotalOfThree
<1> DEFINE F == Setup!Total([q \in S |-> q.f])
           R == Setup!Total([q \in S |-> q.r])
           W == Setup!Total([q \in S |-> q[v]])
           FF == Setup!Total([q \in S |-> q.f * q.f])
           RR == Setup!Total([q \in S |-> q.r * q.r])
           FR == Setup!Total([q \in S |-> q.f * q.r])
           WF == Setup!Total([q \in S |-> q[v] * q.f])
           WR == Setup!Total([q \in S |-> q[v] * q.r])
<1>6. F = a.f + b.f + c.f
  BY <1>1, <1>5
<1>7. R = a.r + b.r + c.r
  BY <1>1, <1>5
<1>8. W = a[v] + b[v] + c[v]
  BY <1>1, <1>5
<1>9. FF = (a.f * a.f) + (b.f * b.f) + (c.f * c.f)
  <2>1. \A q \in S : q.f * q.f \in Int
    BY <1>1
  <2> QED BY <2>1, <1>5
<1>10. RR = (a.r * a.r) + (b.r * b.r) + (c.r * c.r)
  <2>1. \A q \in S : q.r * q.r \in Int
    BY <1>1
  <2> QED BY <2>1, <1>5
<1>11. FR = (a.f * a.r) + (b.f * b.r) + (c.f * c.r)
  <2>1. \A q \in S : q.f * q.r \in Int
    BY <1>1
  <2> QED BY <2>1, <1>5
<1>12. WF = (a[v] * a.f) + (b[v] * b.f) + (c[v] * c.f)
  <2>1. \A q \in S : q[v] * q.f \in Int
    BY <1>1
  <2> QED BY <2>1, <1>5
<1>13. WR = (a[v] * a.r) + (b[v] * b.r) + (c[v] * c.r)
  <2>1. \A q \in S : q[v] * q.r \in Int
    BY <1>1
  <2> QED BY <2>1, <1>5
<1> HIDE DEF F, R, W, FF, RR, FR, WF, WR
<1>14. Setup!Fit(S, v) = Setup!Row(3, F, R, W, (3 * FF) - (F * F), (3 * RR) - (R * R), (3 * FR) - (F * R),
                                   (3 * WF) - (W * F), (3 * WR) - (W * R))
  BY <1>4, Zenon DEF Setup!Fit, Setup!Centred, F, R, W, FF, RR, FR, WF, WR
<1>15. /\ a.f \in Int /\ b.f \in Int /\ c.f \in Int /\ a.r \in Int /\ b.r \in Int /\ c.r \in Int
       /\ a[v] = (k * a.f) + (l * a.r) + o
       /\ b[v] = (k * b.f) + (l * b.r) + o
       /\ c[v] = (k * c.f) + (l * c.r) + o
  BY <1>0, <1>1
<1>16. Mapped(a.f, b.f, c.f, a.r, b.r, c.r, a[v], b[v], c[v], k, l, o)
  BY <1>0, <1>2, <1>15 DEF Mapped
<1>17. Setup!Row(3, F, R, W, (3 * FF) - (F * F), (3 * RR) - (R * R), (3 * FR) - (F * R), (3 * WF) - (W * F),
                 (3 * WR) - (W * R)) = << k, l, o >>
  <2> DEFINE f == a.f + b.f + c.f
             r == a.r + b.r + c.r
             w == a[v] + b[v] + c[v]
  <2>1. Setup!Row(3, f, r, w,
            (3 * ((a.f * a.f) + (b.f * b.f) + (c.f * c.f))) - (f * f),
            (3 * ((a.r * a.r) + (b.r * b.r) + (c.r * c.r))) - (r * r),
            (3 * ((a.f * a.r) + (b.f * b.r) + (c.f * c.r))) - (f * r),
            (3 * ((a[v] * a.f) + (b[v] * b.f) + (c[v] * c.f))) - (w * f),
            (3 * ((a[v] * a.r) + (b[v] * b.r) + (c[v] * c.r))) - (w * r)) = << k, l, o >>
    BY <1>16, ExactRow
  <2>2. F = f /\ R = r /\ W = w
    BY <1>6, <1>7, <1>8
  <2> HIDE DEF f, r, w
  <2> QED BY <2>1, <2>2, <1>9, <1>10, <1>11, <1>12, <1>13, Zenon
<1> QED BY <1>14, <1>17

\* A request's points are three that are not in line, and a map of whole numbers that can be inverted fits them.
ThreeFit(S) ==
    \E a, b, c \in Sample :
        /\ S = {a, b, c} /\ Setup!Area(a, b, c) # 0
        /\ \E m \in Setup!Matrix :
               /\ Setup!Det(m) # 0
               /\ \A q \in S : Setup!At(m, q.f, q.r) = [x |-> q.x, y |-> q.y]
PointsFit == \A r \in CalRequests : r.kind = "points" /\ Setup!NonCollinear(r.samples) => ThreeFit(r.samples)

LEMMA FitIsExact ==
    ASSUME NEW S, ThreeFit(S)
    PROVE  /\ Setup!FitAffine(S) \in Setup!Matrix /\ Setup!Det(Setup!FitAffine(S)) # 0
           /\ Setup!Cardinality(S) = 3
           /\ \A q \in S : q \in Sample /\ Setup!At(Setup!FitAffine(S), q.f, q.r) = [x |-> q.x, y |-> q.y]
<1>1. PICK a \in Sample, b \in Sample, c \in Sample, m \in Setup!Matrix :
        /\ S = {a, b, c} /\ Setup!Area(a, b, c) # 0
        /\ Setup!Det(m) # 0
        /\ \A q \in S : Setup!At(m, q.f, q.r) = [x |-> q.x, y |-> q.y]
  BY DEF ThreeFit
<1> DEFINE k == m[1][1]  l == m[1][2]  o == m[1][3]
           g == m[2][1]  h == m[2][2]  p == m[2][3]
<1>2. /\ k \in Int /\ l \in Int /\ o \in Int /\ g \in Int /\ h \in Int /\ p \in Int
      /\ m = << << k, l, o >>, << g, h, p >> >>
  BY DEF Setup!Matrix
<1>3. \A q \in S : q.x = (k * q.f) + (l * q.r) + o /\ q.y = (g * q.f) + (h * q.r) + p
  <2> TAKE q \in S
  <2>1. [x |-> (k * q.f) + (l * q.r) + o, y |-> (g * q.f) + (h * q.r) + p] = [x |-> q.x, y |-> q.y]
    BY <1>1 DEF Setup!At
  <2> QED BY <2>1
<1> HIDE DEF k, l, o, g, h, p
<1>4. Setup!Fit(S, "x") = << k, l, o >>
  <2>0. "x" \in {"x", "y"}
    OBVIOUS
  <2>1. \A q \in {a, b, c} : q["x"] = (k * q.f) + (l * q.r) + o
    BY <1>1, <1>3
  <2>2. Fitted(a, b, c, "x", k, l, o)
    BY <1>1, <1>2, <2>0, <2>1 DEF Fitted
  <2>3. Setup!Fit({a, b, c}, "x") = << k, l, o >>
    BY <2>2, FitOfThree
  <2> QED BY <1>1, <2>3
<1>5. Setup!Fit(S, "y") = << g, h, p >>
  <2>0. "y" \in {"x", "y"}
    OBVIOUS
  <2>1. \A q \in {a, b, c} : q["y"] = (g * q.f) + (h * q.r) + p
    BY <1>1, <1>3
  <2>2. Fitted(a, b, c, "y", g, h, p)
    BY <1>1, <1>2, <2>0, <2>1 DEF Fitted
  <2>3. Setup!Fit({a, b, c}, "y") = << g, h, p >>
    BY <2>2, FitOfThree
  <2> QED BY <1>1, <2>3
<1>6. Setup!FitAffine(S) = m
  BY <1>2, <1>4, <1>5 DEF Setup!FitAffine
<1>7. Setup!Cardinality(S) = 3
  BY <1>1, NotInLine, ThreeAreThree
<1>8. \A q \in S : q \in Sample
  BY <1>1
<1> QED BY <1>1, <1>6, <1>7, <1>8

\* What a request with such points makes of a calibration maps them to where they were measured.
LEMMA MeasuredIsExact ==
    ASSUME NEW c \in Setup!Cal, NEW r, r.kind = "points", Setup!NonCollinear(r.samples), ThreeFit(r.samples),
           NEW d, d = Setup!Changed(c, r).cal, d.split = NoSplit
    PROVE  \A q \in r.samples : Setup!GridToRobot(d, q.f, q.r) = [x |-> q.x, y |-> q.y]
<1> DEFINE S == r.samples
           m == Setup!FitAffine(S)
           free == [c EXCEPT !.affine = m, !.ox = m[1][3], !.oy = m[2][3],
                             !.sx = Setup!Length(m[1][1], m[2][1]), !.sy = Setup!Length(m[1][2], m[2][2])]
           res == [cal |-> [free EXCEPT !.dead = Setup!DefaultDead(free)], ok |-> TRUE]
<1>1. /\ m \in Setup!Matrix /\ Setup!Det(m) # 0 /\ Setup!Cardinality(S) = 3
      /\ \A q \in S : q \in Sample /\ Setup!At(m, q.f, q.r) = [x |-> q.x, y |-> q.y]
  BY FitIsExact
<1>2. Setup!Measured(c, S) = res
  <2>1. ~(Setup!Cardinality(S) < 2)
    BY <1>1
  <2> QED BY <1>1, <2>1, Zenon DEF Setup!Measured
<1>3. res.cal.affine = m /\ res.ok = TRUE
  <2>1. {"affine", "dead"} \subseteq DOMAIN c
    BY DEF Setup!Cal
  <2> QED BY <2>1
<1>4. Setup!Changed(c, r) = IF res.ok /\ "dead" \in DOMAIN r THEN [res EXCEPT !.cal.dead = r.dead] ELSE res
  BY <1>2, Zenon DEF Setup!Changed
<1>5. d.affine = m
  <2>1. CASE "dead" \in DOMAIN r
    <3>1. Setup!Changed(c, r) = [res EXCEPT !.cal.dead = r.dead]
      BY <1>3, <1>4, <2>1
    <3>2. [res EXCEPT !.cal.dead = r.dead].cal = [res.cal EXCEPT !.dead = r.dead]
      OBVIOUS
    <3>3. [res.cal EXCEPT !.dead = r.dead].affine = res.cal.affine
      <4>1. "affine" \in DOMAIN c
        BY DEF Setup!Cal
      <4> QED BY <4>1
    <3> HIDE DEF res
    <3> QED BY <1>3, <3>1, <3>2, <3>3
  <2>2. CASE "dead" \notin DOMAIN r
    <3> HIDE DEF res
    <3> QED BY <1>3, <1>4, <2>2
  <2> QED BY <2>1, <2>2
<1> TAKE q \in S
<1>6. q.f \in Setup!FileIds /\ q.r \in Setup!RankIds
  BY <1>1 DEF Sample
<1>7. Setup!GridToRobot(d, q.f, q.r) = Setup!At(d.affine, q.f, q.r)
  BY <1>6 DEF Setup!GridToRobot
<1> HIDE DEF m, res
<1> QED BY <1>1, <1>5, <1>7

LEMMA StepMeasured ==
    ASSUME PointsFit, SetupTypes, [Setup!Next]_(Setup!vars)
    PROVE  Setup!MeasuredPointsHold
<1> SUFFICES ASSUME NEW t \in SetupThread, NEW r \in CalRequests,
                    job[t] # Idle, job[t].at = "validate",
                    r.kind = "points", Setup!NonCollinear(r.samples),
                    job[t].cal = Setup!Changed(job[t].old, r).cal, job[t].cal.split = NoSplit,
                    NEW q \in r.samples
             PROVE  Setup!GridToRobot(job[t].cal, q.f, q.r) = [x |-> q.x, y |-> q.y]
  BY Zenon DEF Setup!MeasuredPointsHold
<1>1. job[t] \in Setup!Jobs /\ SomeJob(job[t])
  BY DEF SetupTypes, JobsTyped
<1>2. job[t].kind = "calibration"
  BY <1>1, JobsAre DEF SomeJob, StageOf
<1>3. job[t].old \in Setup!Cal
  BY <1>1, <1>2, JobsAre
<1>4. ThreeFit(r.samples)
  BY DEF PointsFit
<1> QED BY <1>3, <1>4, MeasuredIsExact

\* For any requests whose points are three that a map of whole numbers fits, the transform that is taken
\* from points that are not in line maps each of them to where it was measured (kinematics.py).
THEOREM MeasuredPoints ==
    ASSUME SetupSound, PointsFit
    PROVE  Setup!Spec => [][Setup!MeasuredPointsHold]_(Setup!vars)
<1>1. Setup!Init => SetupTypes
  BY SetupInit
<1>2. SetupTypes /\ [Setup!Next]_(Setup!vars) => SetupTypes'
  BY SetupStep
<1>3. SetupTypes /\ [Setup!Next]_(Setup!vars) => [Setup!MeasuredPointsHold]_(Setup!vars)
  BY StepMeasured
<1> QED BY <1>1, <1>2, <1>3, PTL DEF Setup!Spec

-----------------------------------------------------------------------------
(* What the camera sees on the board.                                      *)
Sight == INSTANCE BoardSight WITH Cols <- BoardCols, Rows <- BoardRows, frame <- detected, board <- occupied

Detection == [box : Boxes, label : Labels, confidence : Confidences]
SightSound ==
    /\ BoardCols \in Nat \ {0} /\ BoardRows \in Nat \ {0} /\ Unit \in Nat \ {0} /\ MaxDetections \in Nat
    /\ Anchor \in Int \X Int
    /\ Boxes \subseteq [x1 : Int, y1 : Int, x2 : Int, y2 : Int]
    /\ Confidences \subseteq Int

\* Along a line of n intersections none is nearer, and of two that are as near the later one is taken.
LEMMA NearestIsNearest ==
    ASSUME NEW v \in Int, NEW n \in Nat \ {0}, NEW j \in 0..(n - 1), Unit \in Nat \ {0}
    PROVE  LET i == Sight!Nearest(v, n)
           IN  /\ i \in 0..(n - 1)
               /\ \/ (v - i * Unit) * (v - i * Unit) < (v - j * Unit) * (v - j * Unit)
                  \/ (v - i * Unit) * (v - i * Unit) = (v - j * Unit) * (v - j * Unit) /\ j <= i
<1> DEFINE i == Sight!Nearest(v, n)
           q == (2 * v + Unit) \div (2 * Unit)
<1>1. q \in Int /\ 2 * Unit * q <= 2 * v + Unit /\ 2 * v + Unit < 2 * Unit * q + 2 * Unit
  <2> DEFINE w == 2 * v + Unit
             e == 2 * Unit
  <2>1. w \in Int /\ e \in Nat \ {0}
    BY SMT
  <2>2. \A a \in Int, b \in Nat \ {0} : (a \div b) \in Int /\ b * (a \div b) <= a /\ a < b * (a \div b) + b
    BY SMT
  <2>3. (w \div e) \in Int /\ e * (w \div e) <= w /\ w < e * (w \div e) + e
    BY <2>1, <2>2
  <2> QED BY <2>3
<1> HIDE DEF q
<1>2. i = IF q < 0 THEN 0 ELSE IF q > n - 1 THEN n - 1 ELSE q
  BY DEF Sight!Nearest, q
<1>3. i \in 0..(n - 1)
  BY <1>1, <1>2
<1> HIDE DEF i
<1>4. i \in Int /\ j \in Int
  BY <1>3
<1>5. (v - j * Unit) * (v - j * Unit) - (v - i * Unit) * (v - i * Unit) = (i - j) * (Unit * (2 * v - (i + j) * Unit))
  BY <1>4, SMT
<1>6. (v - j * Unit) * (v - j * Unit) \in Int /\ (v - i * Unit) * (v - i * Unit) \in Int
  BY <1>4, SMT
<1>7. \A a, b \in Int : /\ a >= 0 /\ b >= 0 => a * b >= 0
                        /\ a > 0 /\ b > 0 => a * b > 0
                        /\ a < 0 /\ b < 0 => a * b > 0
  BY SMT
<1>8. CASE j < i
  <2>1. i <= q
    BY <1>1, <1>2, <1>4, <1>8
  <2>2. 2 * Unit * i <= 2 * Unit * q /\ (i + j) * Unit <= (2 * i - 1) * Unit
    <3>1. \A a, b \in Int, u \in Nat : a <= b => a * u <= b * u
      BY SMT
    <3>2. i * (2 * Unit) <= q * (2 * Unit) /\ (i + j) * Unit <= (2 * i - 1) * Unit
      BY <3>1, <2>1, <1>1, <1>4, <1>8
    <3> QED BY <3>2, <1>1, <1>4, SMT
  <2>3. 2 * v - (i + j) * Unit >= 0
    BY <2>2, <1>1, <1>4, SMT
  <2>4. 2 * v - (i + j) * Unit \in Int
    BY <1>4
  <2>5. Unit * (2 * v - (i + j) * Unit) >= 0 /\ Unit * (2 * v - (i + j) * Unit) \in Int
    BY <2>3, <2>4, <1>7
  <2>6. (i - j) * (Unit * (2 * v - (i + j) * Unit)) >= 0
    BY <2>5, <1>4, <1>7, <1>8
  <2> DEFINE X == (v - j * Unit) * (v - j * Unit)
             Y == (v - i * Unit) * (v - i * Unit)
  <2>7. X \in Int /\ Y \in Int /\ X - Y >= 0
    BY <2>6, <1>5, <1>6
  <2> HIDE DEF X, Y
  <2>8. Y < X \/ (Y = X /\ j <= i)
    BY <2>7, <1>4, <1>8
  <2> QED BY <2>8, <1>3 DEF i, X, Y
<1>9. CASE j = i
  BY <1>3, <1>4, <1>9 DEF i
<1>10. CASE j > i
  <2>1. q <= i
    BY <1>1, <1>2, <1>4, <1>10
  <2>2. 2 * Unit * q <= 2 * Unit * i /\ (2 * i + 1) * Unit <= (i + j) * Unit
    <3>1. \A a, b \in Int, u \in Nat : a <= b => a * u <= b * u
      BY SMT
    <3>2. q * (2 * Unit) <= i * (2 * Unit) /\ (2 * i + 1) * Unit <= (i + j) * Unit
      BY <3>1, <2>1, <1>1, <1>4, <1>10
    <3> QED BY <3>2, <1>1, <1>4, SMT
  <2>3. 2 * v - (i + j) * Unit < 0
    BY <2>2, <1>1, <1>4, SMT
  <2>4. 2 * v - (i + j) * Unit \in Int
    BY <1>4
  <2>5. Unit * (2 * v - (i + j) * Unit) < 0 /\ Unit * (2 * v - (i + j) * Unit) \in Int
    <3>1. \A a, b \in Int : a > 0 /\ b < 0 => a * b < 0
      BY SMT
    <3> QED BY <2>3, <2>4, <3>1
  <2>6. (i - j) * (Unit * (2 * v - (i + j) * Unit)) > 0
    BY <2>5, <1>4, <1>7, <1>10
  <2> QED BY <2>6, <1>3, <1>5, <1>6 DEF i
<1> QED BY <1>4, <1>8, <1>9, <1>10

LEMMA AnchorIsPoint ==
    ASSUME SightSound, NEW d \in Detection
    PROVE  Sight!AnchorOf(d.box)[1] \in Int /\ Sight!AnchorOf(d.box)[2] \in Int
<1>1. d.box \in [x1 : Int, y1 : Int, x2 : Int, y2 : Int]
  BY DEF SightSound, Detection
<1>2. Anchor[1] \in Int /\ Anchor[2] \in Int
  BY DEF SightSound
<1> QED BY <1>1, <1>2, SMT DEF Sight!AnchorOf

\* A detection reaches the intersection it is mapped to, when it is on the grid, and no other.
LEMMA ReachesItsCell ==
    ASSUME SightSound, NEW d \in Detection, NEW cell \in Sight!Intersections
    PROVE  /\ Sight!Reaches(d, cell) <=> cell = Sight!CellOf(d) /\ Sight!OnGrid(Sight!AnchorOf(d.box))
           /\ Sight!CellOf(d) \in Sight!Intersections
           /\ Sight!Rank(d).confidence \in Int /\ Sight!Rank(d).distance \in Int
           /\ Sight!Rank(d).confidence = d.confidence
<1> DEFINE p == Sight!AnchorOf(d.box)
           c == Sight!CellOf(d)
           D(x) == Sight!DistanceSq(p, x)
<1>1. p[1] \in Int /\ p[2] \in Int
  BY AnchorIsPoint
<1> HIDE DEF p
<1>2. c = << Sight!Nearest(p[1], BoardCols), Sight!Nearest(p[2], BoardRows) >>
  BY Zenon DEF Sight!CellOf, Sight!CellAt, p
<1>3. BoardCols \in Nat \ {0} /\ BoardRows \in Nat \ {0} /\ Unit \in Nat \ {0}
  BY DEF SightSound
<1>4. c \in Sight!Intersections
  <2>1. 0 \in 0..(BoardCols - 1) /\ 0 \in 0..(BoardRows - 1)
    BY <1>3
  <2>2. Sight!Nearest(p[1], BoardCols) \in 0..(BoardCols - 1) /\ Sight!Nearest(p[2], BoardRows) \in 0..(BoardRows - 1)
    BY <1>1, <1>3, <2>1, NearestIsNearest
  <2> QED BY <1>2, <2>2 DEF Sight!Intersections
<1> DEFINE S(k, x) == (p[k] - x[k] * Unit) * (p[k] - x[k] * Unit)
<1>5. \A o \in Sight!Intersections :
        /\ o[1] \in 0..(BoardCols - 1) /\ o[2] \in 0..(BoardRows - 1) /\ o = << o[1], o[2] >>
        /\ S(1, o) \in Int /\ S(2, o) \in Int /\ D(o) = S(1, o) + S(2, o)
  <2> TAKE o \in Sight!Intersections
  <2>1. o[1] \in 0..(BoardCols - 1) /\ o[2] \in 0..(BoardRows - 1) /\ o = << o[1], o[2] >>
    BY DEF Sight!Intersections
  <2>2. o[1] \in Int /\ o[2] \in Int
    BY <2>1, <1>3
  <2>3. D(o) = S(1, o) + S(2, o)
    BY Zenon DEF Sight!DistanceSq
  <2>4. S(1, o) \in Int /\ S(2, o) \in Int
    BY <1>1, <1>3, <2>2, SMT
  <2> QED BY <2>1, <2>3, <2>4
<1>6. \A o \in Sight!Intersections :
        /\ S(1, c) < S(1, o) \/ (S(1, c) = S(1, o) /\ o[1] <= c[1])
        /\ S(2, c) < S(2, o) \/ (S(2, c) = S(2, o) /\ o[2] <= c[2])
  <2> TAKE o \in Sight!Intersections
  <2>1. o[1] \in 0..(BoardCols - 1) /\ o[2] \in 0..(BoardRows - 1)
    BY <1>5
  <2>2. c[1] = Sight!Nearest(p[1], BoardCols) /\ c[2] = Sight!Nearest(p[2], BoardRows)
    BY <1>2
  <2>3. S(1, c) < S(1, o) \/ (S(1, c) = S(1, o) /\ o[1] <= c[1])
    <3> DEFINE v == p[1]  j == o[1]  i == Sight!Nearest(v, BoardCols)
    <3>1. v \in Int /\ BoardCols \in Nat \ {0} /\ j \in 0..(BoardCols - 1) /\ Unit \in Nat \ {0}
      BY <2>1, <1>1, <1>3
    <3> HIDE DEF v, j
    <3>2. \/ (v - i * Unit) * (v - i * Unit) < (v - j * Unit) * (v - j * Unit)
          \/ (v - i * Unit) * (v - i * Unit) = (v - j * Unit) * (v - j * Unit) /\ j <= i
      BY <3>1, NearestIsNearest
    <3>3. c[1] = i
      BY <2>2 DEF v
    <3> HIDE DEF c, i
    <3> QED BY <3>2, <3>3 DEF v, j
  <2>4. S(2, c) < S(2, o) \/ (S(2, c) = S(2, o) /\ o[2] <= c[2])
    <3> DEFINE v == p[2]  j == o[2]  i == Sight!Nearest(v, BoardRows)
    <3>1. v \in Int /\ BoardRows \in Nat \ {0} /\ j \in 0..(BoardRows - 1) /\ Unit \in Nat \ {0}
      BY <2>1, <1>1, <1>3
    <3> HIDE DEF v, j
    <3>2. \/ (v - i * Unit) * (v - i * Unit) < (v - j * Unit) * (v - j * Unit)
          \/ (v - i * Unit) * (v - i * Unit) = (v - j * Unit) * (v - j * Unit) /\ j <= i
      BY <3>1, NearestIsNearest
    <3>3. c[2] = i
      BY <2>2 DEF v
    <3> HIDE DEF c, i
    <3> QED BY <3>2, <3>3 DEF v, j
  <2> QED BY <2>3, <2>4
<1> HIDE DEF S, c
<1>7. \A o \in Sight!Intersections : D(c) < D(o) \/ (D(c) = D(o) /\ o[1] <= c[1] /\ o[2] <= c[2])
  <2> TAKE o \in Sight!Intersections
  <2>1. S(1, c) \in Int /\ S(2, c) \in Int /\ S(1, o) \in Int /\ S(2, o) \in Int
    BY <1>4, <1>5
  <2>2. D(c) = S(1, c) + S(2, c) /\ D(o) = S(1, o) + S(2, o)
    BY <1>4, <1>5
  <2> HIDE DEF D
  <2> QED BY <1>6, <2>1, <2>2
<1>8. \A o \in Sight!Intersections : D(o) \in Int
  BY <1>5
<1> HIDE DEF D
<1>9. Sight!Reaches(d, cell) <=>
        /\ \A other \in Sight!Intersections :
             \/ D(cell) < D(other)
             \/ D(cell) = D(other) /\ other[1] <= cell[1] /\ other[2] <= cell[2]
        /\ 20 * 20 * D(cell) <= 13 * 13 * Unit * Unit
  BY Zenon DEF Sight!Reaches, D, p
<1>10. Sight!OnGrid(p) <=> 400 * D(c) <= 169 * Unit * Unit
  BY Zenon DEF Sight!OnGrid, D, c, p, Sight!CellOf
<1>11. 20 * 20 = 400 /\ 13 * 13 = 169
  OBVIOUS
<1>12. ASSUME Sight!Reaches(d, cell) PROVE cell = c
  <2>1. D(cell) < D(c) \/ (D(cell) = D(c) /\ c[1] <= cell[1] /\ c[2] <= cell[2])
    BY <1>4, <1>9, <1>12
  <2>2. D(c) < D(cell) \/ (D(c) = D(cell) /\ cell[1] <= c[1] /\ cell[2] <= c[2])
    BY <1>7
  <2>3. c[1] = cell[1] /\ c[2] = cell[2]
    BY <2>1, <2>2, <1>3, <1>4, <1>5, <1>8
  <2> QED BY <2>3, <1>4, <1>5
<1>13. Sight!Reaches(d, cell) <=> cell = c /\ Sight!OnGrid(p)
  BY <1>7, <1>9, <1>10, <1>11, <1>12
<1>14. /\ Sight!Rank(d).confidence = d.confidence /\ Sight!Rank(d).distance = D(c)
       /\ d.confidence \in Int
  BY DEF Sight!Rank, D, c, p, Detection, SightSound
<1> QED BY <1>4, <1>8, <1>13, <1>14 DEF c, p

\* A detection that counts for an intersection, and the order of two that do.
Shows(d, cell) == cell = Sight!CellOf(d) /\ Sight!Status(d) = "mapped"
Before(i, j) ==
    \/ detected[i].confidence > detected[j].confidence
    \/ /\ detected[i].confidence = detected[j].confidence
       /\ \/ Sight!Rank(detected[i]).distance < Sight!Rank(detected[j]).distance
          \/ Sight!Rank(detected[i]).distance = Sight!Rank(detected[j]).distance /\ i <= j
Best(i, cell) ==
    /\ i \in DOMAIN detected /\ Shows(detected[i], cell)
    /\ \A j \in DOMAIN detected : Shows(detected[j], cell) => Before(i, j)

LEMMA ShowsWhatReaches ==
    ASSUME SightSound, NEW d \in Detection, NEW cell \in Sight!Intersections
    PROVE  Sight!Reaches(d, cell) /\ d.label.kind # "unknown" <=> Shows(d, cell)
<1>1. Sight!Status(d) = "mapped" <=> Sight!OnGrid(Sight!AnchorOf(d.box)) /\ d.label.kind # "unknown"
  BY DEF Sight!Status
<1> QED BY <1>1, ReachesItsCell, Zenon DEF Shows

\* What the board shows is the best so far, and its rank is remembered.
SightInv ==
    /\ detected \in Seq(Detection) /\ Sight!TypeOK
    /\ \A cell \in Sight!Intersections :
         IF cell \in DOMAIN occupied
         THEN \E i \in DOMAIN detected :
                 Best(i, cell) /\ occupied[cell] = Sight!PieceOf(detected[i].label) /\ best[cell] = Sight!Rank(detected[i])
         ELSE \A i \in DOMAIN detected : ~Shows(detected[i], cell)

LEMMA SightInit == ASSUME SightSound, Sight!Init PROVE SightInv
<1>1. detected = << >> /\ DOMAIN occupied = {} /\ DOMAIN best = {} /\ DOMAIN detected = {}
  BY DEF Sight!Init
<1>2. Sight!TypeOK
  BY <1>1 DEF Sight!TypeOK, SightSound
<1> QED BY <1>1, <1>2 DEF SightInv

LEMMA SightStep == ASSUME SightSound, SightInv, [Sight!Next]_(Sight!vars) PROVE SightInv'
<1>1. CASE UNCHANGED Sight!vars
  BY <1>1, Zenon DEF Sight!vars, SightInv, Sight!TypeOK, Best, Before
<1>2. CASE Sight!Next
  <2>1. PICK d \in Detection : Sight!MapDetection(d)
    BY <1>2 DEF Sight!Next, Detection
  <2>0. \E m, x : m = Len(detected) /\ x = Sight!CellOf(d)
    OBVIOUS
  <2>1a. PICK n, c : n = Len(detected) /\ c = Sight!CellOf(d)
    BY <2>0
  <2>2. /\ n \in Nat /\ n + 1 <= MaxDetections /\ detected' = Append(detected, d) /\ detected' \in Seq(Detection)
        /\ DOMAIN detected = 1..n /\ DOMAIN detected' = 1..(n + 1) /\ Len(detected') = n + 1
        /\ detected'[n + 1] = d /\ \A i \in 1..n : detected'[i] = detected[i] /\ detected[i] \in Detection
    BY <2>1, <2>1a DEF SightInv, Sight!MapDetection, SightSound
  <2>3. c \in Sight!Intersections
    <3>1. << 0, 0 >> \in Sight!Intersections
      BY DEF SightSound, Sight!Intersections
    <3> QED BY <3>1, <2>1a, ReachesItsCell
  <2>4. \A e \in Detection : /\ e.confidence \in Int /\ Sight!Rank(e).distance \in Int
                             /\ Sight!Rank(e).confidence = e.confidence
    BY <2>3, ReachesItsCell
  <2>5. ASSUME NEW cell \in Sight!Intersections, cell # c \/ Sight!Status(d) # "mapped",
               cell \in DOMAIN occupied <=> cell \in DOMAIN occupied', occupied'[cell] = occupied[cell], best'[cell] = best[cell]
        PROVE  IF cell \in DOMAIN occupied'
               THEN \E i \in DOMAIN detected' :
                       Best(i, cell)' /\ occupied'[cell] = Sight!PieceOf(detected'[i].label)
                                      /\ best'[cell] = Sight!Rank(detected'[i])
               ELSE \A i \in DOMAIN detected' : ~Shows(detected'[i], cell)
    <3>1. ~Shows(d, cell)
      BY <2>1a, <2>5 DEF Shows
    <3>2. CASE cell \in DOMAIN occupied
      <4>1. PICK i \in DOMAIN detected : /\ Best(i, cell) /\ occupied[cell] = Sight!PieceOf(detected[i].label)
                                         /\ best[cell] = Sight!Rank(detected[i])
        BY <3>2 DEF SightInv
      <4>2. i \in 1..n /\ i \in DOMAIN detected' /\ detected'[i] = detected[i]
        BY <2>2, <4>1
      <4>3. \A j \in DOMAIN detected' : Shows(detected'[j], cell) => j \in 1..n /\ detected'[j] = detected[j]
        BY <2>2, <3>1
      <4>4. \A j \in 1..n : detected'[j] = detected[j] /\ Before(i, j) => Before(i, j)'
        BY <4>2, Zenon DEF Before
      <4>5. Best(i, cell)'
        BY <2>2, <4>1, <4>2, <4>3, <4>4, Zenon DEF Best
      <4> QED BY <2>5, <3>2, <4>1, <4>2, <4>5, Zenon
    <3>3. CASE cell \notin DOMAIN occupied
      BY <2>2, <2>5, <3>1, <3>3 DEF SightInv
    <3> QED BY <3>2, <3>3
  <2>6. Sight!TypeOK' /\ (\A cell \in Sight!Intersections :
          IF cell \in DOMAIN occupied'
          THEN \E i \in DOMAIN detected' : /\ Best(i, cell)' /\ occupied'[cell] = Sight!PieceOf(detected'[i].label)
                                           /\ best'[cell] = Sight!Rank(detected'[i])
          ELSE \A i \in DOMAIN detected' : ~Shows(detected'[i], cell))
    <3>1. CASE Sight!Status(d) = "mapped" /\ (c \in DOMAIN occupied => Sight!Better(Sight!Rank(d), best[c]))
      <4>1. occupied' = Sight!Put(occupied, c, Sight!PieceOf(d.label)) /\ best' = Sight!Put(best, c, Sight!Rank(d))
        BY <2>1a, <2>1, <3>1, Zenon DEF Sight!MapDetection
      <4>2. /\ DOMAIN occupied' = DOMAIN occupied \cup {c} /\ DOMAIN best' = DOMAIN best \cup {c}
            /\ occupied'[c] = Sight!PieceOf(d.label) /\ best'[c] = Sight!Rank(d)
            /\ \A x \in DOMAIN occupied : x # c => occupied'[x] = occupied[x]
            /\ \A x \in DOMAIN best : x # c => best'[x] = best[x]
        <5>1. /\ DOMAIN occupied' = DOMAIN occupied \cup {c} /\ occupied'[c] = Sight!PieceOf(d.label)
              /\ \A x \in DOMAIN occupied : x # c => occupied'[x] = occupied[x]
          BY <4>1 DEF Sight!Put
        <5>2. /\ DOMAIN best' = DOMAIN best \cup {c} /\ best'[c] = Sight!Rank(d)
              /\ \A x \in DOMAIN best : x # c => best'[x] = best[x]
          BY <4>1 DEF Sight!Put
        <5> QED BY <5>1, <5>2
      <4>3. Sight!TypeOK'
        BY <2>2, <2>3, <4>2 DEF SightInv, Sight!TypeOK
      <4>4. Shows(d, c)
        BY <2>1a, <3>1 DEF Shows
      <4>5. ASSUME NEW j \in 1..n, Shows(detected[j], c)
            PROVE  \/ d.confidence > detected[j].confidence
                   \/ d.confidence = detected[j].confidence /\ Sight!Rank(d).distance < Sight!Rank(detected[j]).distance
        <5>1. c \in DOMAIN occupied
          BY <2>2, <2>3, <4>5 DEF SightInv
        <5>2. PICK i \in DOMAIN detected : Best(i, c) /\ best[c] = Sight!Rank(detected[i])
          BY <2>3, <5>1 DEF SightInv
        <5>3. Before(i, j)
          BY <2>2, <4>5, <5>2 DEF Best
        <5>4. Sight!Better(Sight!Rank(d), Sight!Rank(detected[i]))
          BY <3>1, <5>1, <5>2
        <5>5. detected[i] \in Detection /\ detected[j] \in Detection
          BY <2>2, <5>2
        <5>6. \/ d.confidence > detected[i].confidence
              \/ d.confidence = detected[i].confidence /\ Sight!Rank(d).distance < Sight!Rank(detected[i]).distance
          BY <2>4, <5>4, <5>5 DEF Sight!Better
        <5>7. /\ d.confidence \in Int /\ detected[i].confidence \in Int /\ detected[j].confidence \in Int
              /\ Sight!Rank(d).distance \in Int /\ Sight!Rank(detected[i]).distance \in Int
              /\ Sight!Rank(detected[j]).distance \in Int
          BY <2>4, <5>5
        <5> QED BY <5>3, <5>6, <5>7 DEF Before
      <4>6. Best(n + 1, c)'
        <5>1. n + 1 \in DOMAIN detected' /\ Shows(detected'[n + 1], c)
          BY <2>2, <4>4
        <5>2. ASSUME NEW j \in DOMAIN detected', Shows(detected'[j], c) PROVE Before(n + 1, j)'
          <6>1. CASE j = n + 1
            BY <2>2, <2>4, <6>1 DEF Before
          <6>2. CASE j \in 1..n
            BY <2>2, <4>5, <5>2, <6>2 DEF Before
          <6> QED BY <2>2, <6>1, <6>2
        <5> QED BY <5>1, <5>2 DEF Best
      <4>7. ASSUME NEW cell \in Sight!Intersections
            PROVE  IF cell \in DOMAIN occupied'
                   THEN \E i \in DOMAIN detected' : /\ Best(i, cell)' /\ occupied'[cell] = Sight!PieceOf(detected'[i].label)
                                                    /\ best'[cell] = Sight!Rank(detected'[i])
                   ELSE \A i \in DOMAIN detected' : ~Shows(detected'[i], cell)
        <5>1. CASE cell = c
          <6>1. n + 1 \in DOMAIN detected' /\ detected'[n + 1] = d
            BY <2>2
          <6> QED BY <4>2, <4>6, <5>1, <6>1
        <5>2. CASE cell # c /\ cell \in DOMAIN occupied
          <6>1. cell \in DOMAIN best
            BY <5>2 DEF SightInv, Sight!TypeOK
          <6> QED BY <2>5, <4>2, <5>2, <6>1
        <5>3. CASE cell # c /\ cell \notin DOMAIN occupied
          <6>1. \A i \in DOMAIN detected : ~Shows(detected[i], cell)
            BY <5>3 DEF SightInv
          <6>2. ~Shows(d, cell)
            BY <2>1a, <5>3 DEF Shows
          <6> QED BY <2>2, <4>2, <5>3, <6>1, <6>2
        <5> QED BY <5>1, <5>2, <5>3
      <4> QED BY <4>3, <4>7
    <3>2. CASE ~(Sight!Status(d) = "mapped" /\ (c \in DOMAIN occupied => Sight!Better(Sight!Rank(d), best[c])))
      <4>1. occupied' = occupied /\ best' = best
        BY <2>1a, <2>1, <3>2, Zenon DEF Sight!MapDetection
      <4>2. Sight!TypeOK'
        BY <2>2, <4>1 DEF SightInv, Sight!TypeOK
      <4>3. ASSUME NEW cell \in Sight!Intersections
            PROVE  IF cell \in DOMAIN occupied'
                   THEN \E i \in DOMAIN detected' : /\ Best(i, cell)' /\ occupied'[cell] = Sight!PieceOf(detected'[i].label)
                                                    /\ best'[cell] = Sight!Rank(detected'[i])
                   ELSE \A i \in DOMAIN detected' : ~Shows(detected'[i], cell)
        <5>1. CASE cell # c \/ Sight!Status(d) # "mapped"
          BY <2>5, <4>1, <5>1
        <5>2. CASE cell = c /\ Sight!Status(d) = "mapped"
          <6>1. c \in DOMAIN occupied /\ ~Sight!Better(Sight!Rank(d), best[c])
            BY <3>2, <5>2
          <6>2. PICK i \in DOMAIN detected : /\ Best(i, c) /\ occupied[c] = Sight!PieceOf(detected[i].label)
                                             /\ best[c] = Sight!Rank(detected[i])
            BY <2>3, <6>1 DEF SightInv
          <6>3. i \in 1..n /\ i \in DOMAIN detected' /\ detected'[i] = detected[i] /\ detected[i] \in Detection /\ i <= n + 1
            BY <2>2, <6>2
          <6>4. /\ d.confidence \in Int /\ detected[i].confidence \in Int
                /\ Sight!Rank(d).distance \in Int /\ Sight!Rank(detected[i]).distance \in Int
                /\ Sight!Rank(d).confidence = d.confidence /\ Sight!Rank(detected[i]).confidence = detected[i].confidence
            BY <2>4, <6>3
          <6>5. ~Sight!Better(Sight!Rank(d), Sight!Rank(detected[i]))
            BY <6>1, <6>2
          <6>6. ASSUME NEW j \in DOMAIN detected', Shows(detected'[j], c) PROVE Before(i, j)'
            <7>1. CASE j = n + 1
              BY <2>2, <6>3, <6>4, <6>5, <7>1 DEF Before, Sight!Better
            <7>2. CASE j \in 1..n
              BY <2>2, <6>2, <6>3, <6>6, <7>2, Zenon DEF Before, Best
            <7> QED BY <2>2, <7>1, <7>2
          <6>7. Best(i, c)'
            BY <6>2, <6>3, <6>6, Zenon DEF Best
          <6> QED BY <4>1, <5>2, <6>1, <6>2, <6>3, <6>7
        <5> QED BY <5>1, <5>2
      <4> QED BY <4>2, <4>3
    <3> QED BY <3>1, <3>2
  <2> QED BY <2>2, <2>6, Zenon DEF SightInv, Sight!Intersections
<1> QED BY <1>1, <1>2

LEMMA SightHolds == ASSUME SightSound, SightInv PROVE Sight!BestDetectionWins
<1>1. \A i \in DOMAIN detected : detected[i] \in Detection
  BY DEF SightInv
<1>2. ASSUME NEW cell \in Sight!Intersections, NEW i \in DOMAIN detected PROVE Sight!Wins(i, cell) <=> Best(i, cell)
  <2>1. \A j \in DOMAIN detected :
          Sight!Reaches(detected[j], cell) /\ detected[j].label.kind # "unknown" <=> Shows(detected[j], cell)
    BY <1>1, ShowsWhatReaches
  <2> QED BY <2>1, <1>2, Zenon DEF Sight!Wins, Best, Before
<1> SUFFICES ASSUME NEW cell \in Sight!Intersections
             PROVE  IF cell \in DOMAIN occupied
                    THEN \E i \in DOMAIN detected : Sight!Wins(i, cell) /\ Sight!PieceOf(detected[i].label) = occupied[cell]
                    ELSE ~\E i \in DOMAIN detected : Sight!Wins(i, cell)
  BY Zenon DEF Sight!BestDetectionWins
<1>3. CASE cell \in DOMAIN occupied
  BY <1>2, <1>3 DEF SightInv
<1>4. CASE cell \notin DOMAIN occupied
  BY <1>2, <1>4 DEF SightInv, Best
<1> QED BY <1>3, <1>4

\* The occupied shows on every intersection the piece of the surest detection within reach of it, of
\* those the nearest, of those the first, in whatever order they come (board_mapper.py).
THEOREM BestIsKept == ASSUME SightSound PROVE Sight!Spec => []Sight!BestDetectionWins
<1>1. Sight!Init => SightInv
  BY SightInit
<1>2. SightInv /\ [Sight!Next]_(Sight!vars) => SightInv'
  BY SightStep
<1>3. SightInv => Sight!BestDetectionWins
  BY SightHolds
<1> QED BY <1>1, <1>2, <1>3, PTL DEF Sight!Spec

-----------------------------------------------------------------------------
(* The game, its rules and what the validator takes for a move.            *)
Xiangqi == INSTANCE XiangqiPlay WITH Starts <- Positions, Window <- Fusing, known <- position, method <- verdict

XiangqiSound ==
    /\ Xiangqi!StartsInPlay
    /\ Ghosts \subseteq Xiangqi!Cells \X Xiangqi!Pieces
    /\ Fusing \in Nat \ {0} /\ MaxPly \in Nat

Methods == {"none", "collecting", "unchanged", "no_legal_match", "legal_move_repair", "ambiguous"}

\* What the validator knows and what stands on the board are positions of a game.
XiangqiInv ==
    /\ Xiangqi!Standing(truth)
    /\ {"board", "turn"} \subseteq DOMAIN position /\ Xiangqi!InPlay(position.board, position.turn)
    /\ ply \in 0..MaxPly /\ verdict \in Methods
    /\ Len(history) \in 0..Fusing /\ DOMAIN history = 1..Len(history)
    /\ \A i \in DOMAIN history : DOMAIN history[i].seen \subseteq Xiangqi!Cells

LEMMA XiangqiTyped == ASSUME XiangqiInv PROVE Xiangqi!TypeOK
  BY DEF XiangqiInv, Xiangqi!InPlay, Xiangqi!Standing, Xiangqi!Sides, Methods, Xiangqi!TypeOK

LEMMA XiangqiInit == ASSUME XiangqiSound, Xiangqi!Init PROVE XiangqiInv
  BY DEF XiangqiSound, Xiangqi!StartsInPlay, Xiangqi!Init, XiangqiInv, Xiangqi!InPlay, Methods

-----------------------------------------------------------------------------
LEMMA OtherSide == \A turn \in Xiangqi!Sides : Xiangqi!Other(turn) \in Xiangqi!Sides /\ Xiangqi!Other(turn) # turn /\ Xiangqi!Other(Xiangqi!Other(turn)) = turn
  BY DEF Xiangqi!Sides, Xiangqi!Other

LEMMA MovedIs ==
    ASSUME NEW b, NEW s \in DOMAIN b, NEW t
    PROVE  LET c == Xiangqi!Moved(b, <<s, t>>)
           IN  /\ DOMAIN c = (DOMAIN b \ {s}) \cup {t} /\ c[t] = b[s]
               /\ \A q \in DOMAIN b \ {s, t} : c[q] = b[q]
  BY DEF Xiangqi!Moved, Xiangqi!With, Xiangqi!Restrict

\* Wherever a piece may go is a cell that holds none of its own.
LEMMA ReachIsOnBoard ==
    ASSUME NEW b, NEW s, NEW turn, Xiangqi!Standing(b), s \in DOMAIN b
    PROVE  /\ Xiangqi!PseudoMoves(b, s, turn) \subseteq Xiangqi!Cells
           /\ \A t \in Xiangqi!PseudoMoves(b, s, turn) : ~Xiangqi!Own(b, t, turn)
<1> DEFINE k == b[s][2]
           C == Xiangqi!Cells
<1>1. k \in Xiangqi!Kinds /\ s \in C
  BY DEF Xiangqi!Standing, Xiangqi!Pieces
<1>2. \A D : Xiangqi!Steps(s, D) \subseteq C
  BY DEF Xiangqi!Steps
<1>3. Xiangqi!PawnReach(b, s, turn) \subseteq C
  BY <1>2 DEF Xiangqi!PawnReach
<1>4. Xiangqi!KingReach(b, s, turn) \subseteq C
  BY <1>2 DEF Xiangqi!KingReach, Xiangqi!Standing, Xiangqi!Taken
<1>5. Xiangqi!Lines(s) \subseteq C
  BY <1>1 DEF Xiangqi!Lines, Xiangqi!Cells
<1>6. Xiangqi!RookReach(b, s) \subseteq C /\ Xiangqi!CannonReach(b, s) \subseteq C
  BY <1>5 DEF Xiangqi!RookReach, Xiangqi!CannonReach
<1>7. Xiangqi!HorseReach(b, s) \subseteq C /\ Xiangqi!ElephantReach(b, s, turn) \subseteq C /\ Xiangqi!AdvisorReach(s, turn) \subseteq C
  BY <1>2 DEF Xiangqi!HorseReach, Xiangqi!ElephantReach, Xiangqi!AdvisorReach
<1> QED BY <1>1, <1>3, <1>4, <1>6, <1>7 DEF Xiangqi!PseudoMoves, Xiangqi!Kinds

LEMMA LegalIs ==
    ASSUME NEW b, NEW turn, NEW m \in Xiangqi!LegalMoves(b, turn), Xiangqi!Standing(b)
    PROVE  /\ m = <<m[1], m[2]>> /\ m[1] \in DOMAIN b /\ b[m[1]][1] = turn
           /\ m[2] \in Xiangqi!PseudoMoves(b, m[1], turn) /\ m[2] \in Xiangqi!Cells
           /\ ~Xiangqi!GeneralsFace(Xiangqi!Moved(b, m)) /\ ~Xiangqi!InCheck(Xiangqi!Moved(b, m), turn)
<1>1. PICK s \in DOMAIN b : m \in {s} \X Xiangqi!PseudoMoves(b, s, turn) /\ b[s][1] = turn
  BY DEF Xiangqi!LegalMoves
<1>2. ~Xiangqi!LeavesInCheck(b, m, turn)
  BY DEF Xiangqi!LegalMoves
<1> QED BY <1>1, <1>2, ReachIsOnBoard DEF Xiangqi!LeavesInCheck

\* A legal move leaves a position in which the other side is to move: it takes no general, moves none out of its
\* palace, and does not leave its own in check.
LEMMA MoveKeepsQuiet ==
    ASSUME NEW b, NEW turn, Xiangqi!InPlay(b, turn), NEW m \in Xiangqi!LegalMoves(b, turn)
    PROVE  Xiangqi!InPlay(Xiangqi!Moved(b, m), Xiangqi!Other(turn))
<1> DEFINE c == Xiangqi!Moved(b, m)
           s == m[1]
           t == m[2]
           other == Xiangqi!Other(turn)
<1>1. Xiangqi!Standing(b) /\ turn \in Xiangqi!Sides /\ other \in Xiangqi!Sides /\ other # turn /\ Xiangqi!Other(other) = turn
  BY OtherSide DEF Xiangqi!InPlay
<1>2. /\ m = <<s, t>> /\ s \in DOMAIN b /\ b[s][1] = turn /\ t \in Xiangqi!PseudoMoves(b, s, turn) /\ t \in Xiangqi!Cells
      /\ ~Xiangqi!InCheck(c, turn)
  BY <1>1, LegalIs
<1>3. /\ DOMAIN c = (DOMAIN b \ {s}) \cup {t} /\ c[t] = b[s]
      /\ \A q \in DOMAIN b \ {s, t} : c[q] = b[q]
  BY <1>2, MovedIs
<1>4. t \notin Xiangqi!Generals(b, other)
  BY <1>1, <1>2 DEF Xiangqi!InPlay, Xiangqi!InCheck
<1> HIDE DEF c, s, t, other
<1>5. Xiangqi!Standing(c)
  BY <1>1, <1>2, <1>3 DEF Xiangqi!Standing
<1>6. Xiangqi!Generals(c, turn) # {}
  BY <1>2 DEF Xiangqi!InCheck
<1>7. Xiangqi!Generals(c, other) # {}
  <2>1. PICK g \in DOMAIN b : b[g] = <<other, "k">>
    BY <1>1 DEF Xiangqi!InPlay, Xiangqi!Generals
  <2>2. g # t /\ g # s
    BY <2>1, <1>1, <1>2, <1>4 DEF Xiangqi!Generals
  <2> QED BY <2>1, <2>2, <1>3 DEF Xiangqi!Generals
<1>8. ASSUME NEW side \in Xiangqi!Sides, NEW g \in Xiangqi!Generals(c, side) PROVE g \in Xiangqi!Palace(side)
  <2>1. CASE g # t
    BY <1>1, <1>3, <2>1 DEF Xiangqi!Generals, Xiangqi!InPlay
  <2>2. CASE g = t
    <3>1. b[s] = <<side, "k">> /\ side = turn
      BY <1>2, <1>3, <2>2 DEF Xiangqi!Generals
    <3>2. t \in Xiangqi!KingReach(b, s, turn)
      BY <1>2, <3>1 DEF Xiangqi!PseudoMoves
    <3>3. ~(Xiangqi!Taken(b, t) /\ b[t] = <<other, "k">>)
      BY <1>4 DEF Xiangqi!Taken, Xiangqi!Generals
    <3> QED BY <2>2, <3>1, <3>2, <3>3 DEF Xiangqi!KingReach, other
  <2> QED BY <2>1, <2>2
<1>9. Xiangqi!Sides = {turn, other}
  BY <1>1 DEF Xiangqi!Sides
<1>10. ~Xiangqi!InCheck(c, Xiangqi!Other(other))
  BY <1>1, <1>2
<1> QED BY <1>1, <1>5, <1>6, <1>7, <1>8, <1>9, <1>10 DEF Xiangqi!InPlay, c, other

-----------------------------------------------------------------------------
LEMMA XiangqiCardinality == \A S : Xiangqi!Cardinality(S) = Cardinality(S)
  BY DEF Xiangqi!Cardinality, Cardinality

LEMMA CellsFinite == IsFiniteSet(Xiangqi!Cells)
<1>1. IsFiniteSet(0..9) /\ IsFiniteSet(0..8)
  BY 0 \in Int, 8 \in Int, 9 \in Int, FS_Interval
<1> QED BY <1>1, FS_Product DEF Xiangqi!Cells, Xiangqi!Rows, Xiangqi!Cols

LEMMA MatchesCount ==
    ASSUME NEW c, NEW seen, DOMAIN seen \subseteq Xiangqi!Cells
    PROVE  Xiangqi!Matches(c, seen) \in Nat
<1> DEFINE S == {s \in DOMAIN seen : Xiangqi!Taken(c, s) /\ c[s] = seen[s]}
<1>1. IsFiniteSet(S)
  BY CellsFinite, FS_Subset
<1>2. Xiangqi!Matches(c, seen) = Cardinality(S)
  BY XiangqiCardinality DEF Xiangqi!Matches
<1> HIDE DEF S
<1> QED BY <1>1, <1>2, FS_CardinalityType

\* The score of a candidate is bounded, so that one is the best.
LEMMA ScoreBounded ==
    ASSUME NEW b, NEW seen, NEW m, DOMAIN seen \subseteq Xiangqi!Cells
    PROVE  Xiangqi!Score(b, seen, m) \in 150..182
<1> DEFINE M == Xiangqi!Matches(Xiangqi!Moved(b, m), seen)
<1>1. M \in Nat
  BY MatchesCount
<1>2. Xiangqi!Score(b, seen, m) = 150 + (IF M > 32 THEN 32 ELSE M)
  BY DEF Xiangqi!Score
<1> HIDE DEF M
<1> QED BY <1>1, <1>2

\* Of some candidates there is one whose score no other exceeds.
LEMMA BestExists ==
    ASSUME NEW b, NEW seen, DOMAIN seen \subseteq Xiangqi!Cells, NEW M, M # {}
    PROVE  \E m \in M : \A o \in M : Xiangqi!Score(b, seen, m) >= Xiangqi!Score(b, seen, o)
<1> DEFINE f(m) == 182 - Xiangqi!Score(b, seen, m)
           S == {f(m) : m \in M}
<1>1. \A m : Xiangqi!Score(b, seen, m) \in 150..182
  BY ScoreBounded
<1>2. S \in SUBSET Nat /\ S # {}
  BY <1>1
<1>3. PICK n \in S : \A k \in S : n <= k
  BY <1>2, LeastNatural
<1>4. PICK m \in M : n = f(m)
  BY <1>3
<1>5. \A o \in M : f(m) <= f(o)
  BY <1>3, <1>4
<1> QED BY <1>1, <1>5

\* A repaired position is what a legal move makes of the one that was position.
LEMMA RepairIsLegal ==
    ASSUME NEW b, NEW seen, NEW turn, Xiangqi!InPlay(b, turn), DOMAIN seen \subseteq Xiangqi!Cells
    PROVE  LET r == Xiangqi!Reconcile(b, seen, turn)
           IN  /\ r.method \in Methods
               /\ r.method = "legal_move_repair" => \E m \in Xiangqi!LegalMoves(b, turn) : r.board = Xiangqi!Moved(b, m)
<1> DEFINE moves == {m \in Xiangqi!LegalMoves(b, turn) : Xiangqi!Confirmed(b, seen, m)}
           chosen == CHOOSE m \in moves : \A o \in moves : Xiangqi!Score(b, seen, m) >= Xiangqi!Score(b, seen, o)
           Clear == \A o \in moves \ {chosen} : Xiangqi!Score(b, seen, chosen) - Xiangqi!Score(b, seen, o) >= Xiangqi!MinMargin
           r == Xiangqi!Reconcile(b, seen, turn)
<1>1. moves # {} => chosen \in moves
  <2> HIDE DEF moves
  <2> QED BY BestExists
<1>2. moves \subseteq Xiangqi!LegalMoves(b, turn)
  OBVIOUS
<1>3. DOMAIN b # {}
  BY DEF Xiangqi!InPlay, Xiangqi!Sides, Xiangqi!Generals
<1>4. \E repaired \in BOOLEAN :
        /\ repaired => moves # {}
        /\ r = IF seen = b THEN [accepted |-> TRUE, board |-> b, method |-> "unchanged"]
               ELSE IF moves = {} THEN [accepted |-> FALSE, board |-> seen, method |-> "no_legal_match"]
               ELSE IF repaired THEN [accepted |-> TRUE, board |-> Xiangqi!Moved(b, chosen), method |-> "legal_move_repair"]
               ELSE [accepted |-> FALSE, board |-> seen, method |-> "ambiguous"]
  <2> DEFINE repaired == (moves # {} /\ Xiangqi!Score(b, seen, chosen) >= Xiangqi!MinScore /\ Clear)
  <2>1. repaired \in BOOLEAN /\ (repaired => moves # {})
    OBVIOUS
  <2>2. r = IF DOMAIN b = {} THEN [accepted |-> FALSE, board |-> seen, method |-> "no_previous"]
            ELSE IF seen = b THEN [accepted |-> TRUE, board |-> b, method |-> "unchanged"]
            ELSE IF moves = {} THEN [accepted |-> FALSE, board |-> seen, method |-> "no_legal_match"]
            ELSE IF repaired THEN [accepted |-> TRUE, board |-> Xiangqi!Moved(b, chosen), method |-> "legal_move_repair"]
            ELSE [accepted |-> FALSE, board |-> seen, method |-> "ambiguous"]
    BY Zenon DEF Xiangqi!Reconcile
  <2> HIDE DEF repaired, moves, chosen, Clear, r
  <2> QED BY <1>3, <2>1, <2>2
<1> HIDE DEF moves, chosen, Clear, r
<1> QED BY <1>1, <1>2, <1>4 DEF Methods, r

LEMMA FusedOnBoard ==
    ASSUME NEW frames, \A i \in DOMAIN frames : DOMAIN frames[i] \subseteq Xiangqi!Cells
    PROVE  DOMAIN Xiangqi!Fused(frames) \subseteq Xiangqi!Cells
  BY DEF Xiangqi!Fused

LEMMA FramesOnBoard ==
    ASSUME XiangqiSound, XiangqiInv, NEW f \in Xiangqi!Frames
    PROVE  DOMAIN f.seen \subseteq Xiangqi!Cells
<1>1. DOMAIN truth \subseteq Xiangqi!Cells
  BY DEF XiangqiInv, Xiangqi!Standing
<1>2. \A S : DOMAIN Xiangqi!Restrict(truth, S) = S
  BY DEF Xiangqi!Restrict
<1>3. \A s, p : DOMAIN Xiangqi!With(truth, s, p) = DOMAIN truth \cup {s}
  BY DEF Xiangqi!With
<1>4. \A g \in Ghosts : g[1] \in Xiangqi!Cells
  BY DEF XiangqiSound
<1>5. CASE f = [seen |-> truth, fault |-> "none", ply |-> ply]
  BY <1>1, <1>5
<1>6. ASSUME NEW s \in DOMAIN truth \cap Dim,
             f \in {[seen |-> Xiangqi!Restrict(truth, DOMAIN truth \ {s}), fault |-> "miss", ply |-> ply],
                   [seen |-> Xiangqi!With(truth, s, Xiangqi!Mislabels[truth[s][1]]), fault |-> "mistake", ply |-> ply]}
      PROVE  DOMAIN f.seen \subseteq Xiangqi!Cells
  <2>1. f.seen = Xiangqi!Restrict(truth, DOMAIN truth \ {s}) \/ f.seen = Xiangqi!With(truth, s, Xiangqi!Mislabels[truth[s][1]])
    BY <1>6
  <2>2. DOMAIN Xiangqi!Restrict(truth, DOMAIN truth \ {s}) = DOMAIN truth \ {s}
    BY <1>2
  <2>3. DOMAIN Xiangqi!With(truth, s, Xiangqi!Mislabels[truth[s][1]]) = DOMAIN truth \cup {s}
    BY <1>3
  <2> QED BY <1>1, <2>1, <2>2, <2>3
<1>7. ASSUME NEW g \in Ghosts, f = [seen |-> Xiangqi!With(truth, g[1], g[2]), fault |-> "mistake", ply |-> ply]
      PROVE  DOMAIN f.seen \subseteq Xiangqi!Cells
  <2>1. f.seen = Xiangqi!With(truth, g[1], g[2])
    BY <1>7
  <2>2. DOMAIN Xiangqi!With(truth, g[1], g[2]) = DOMAIN truth \cup {g[1]}
    BY <1>3
  <2> QED BY <1>1, <1>4, <2>1, <2>2
<1> QED BY <1>5, <1>6, <1>7, Zenon DEF Xiangqi!Frames

LEMMA KeptFits ==
    ASSUME XiangqiSound, XiangqiInv, NEW f, DOMAIN f.seen \subseteq Xiangqi!Cells
    PROVE  LET k == Xiangqi!Kept(f)
           IN  /\ Len(k) \in 0..Fusing /\ DOMAIN k = 1..Len(k)
               /\ \A i \in DOMAIN k : DOMAIN k[i].seen \subseteq Xiangqi!Cells
<1> DEFINE n == Len(history)
           all == Append(history, f)
<1>1. n \in 0..Fusing /\ Fusing \in Nat \ {0} /\ DOMAIN history = 1..n
  BY DEF XiangqiInv, XiangqiSound
<1>2. \A i \in 1..n : DOMAIN history[i].seen \subseteq Xiangqi!Cells
  BY <1>1 DEF XiangqiInv
<1>3. Len(all) = n + 1 /\ \A i \in 1..(n + 1) : DOMAIN all[i].seen \subseteq Xiangqi!Cells
  BY <1>1, <1>2
<1> HIDE DEF all
<1>4. Xiangqi!Kept(f) = SubSeq(all, IF n + 1 > Fusing THEN 2 ELSE 1, n + 1)
  BY <1>3 DEF Xiangqi!Kept, all
<1> HIDE DEF n
<1> QED BY <1>1, <1>3, <1>4

LEMMA XiangqiStep == ASSUME XiangqiSound, XiangqiInv, [Xiangqi!Next]_(Xiangqi!vars) PROVE XiangqiInv'
<1>1. CASE UNCHANGED Xiangqi!vars
  BY <1>1 DEF Xiangqi!vars, XiangqiInv, Xiangqi!InPlay, Xiangqi!Standing
<1>2. CASE Xiangqi!Play
  <2>1. PICK m \in Xiangqi!LegalMoves(position.board, position.turn) :
          truth' = Xiangqi!ApplyMove(position.board, m, position.turn).board
    BY <1>2 DEF Xiangqi!Play
  <2>2. Xiangqi!InPlay(position.board, position.turn)
    BY DEF XiangqiInv
  <2>3. Xiangqi!Standing(position.board) /\ Xiangqi!Standing(Xiangqi!Moved(position.board, m))
    BY <2>2, MoveKeepsQuiet DEF Xiangqi!InPlay
  <2>4. truth' = position.board \/ truth' = Xiangqi!Moved(position.board, m)
    BY <2>1 DEF Xiangqi!ApplyMove
  <2>5. Xiangqi!Standing(truth)'
    BY <2>3, <2>4 DEF Xiangqi!Standing
  <2> QED BY <1>2, <2>2, <2>5 DEF Xiangqi!Play, XiangqiInv, XiangqiSound
<1>3. ASSUME NEW f \in Xiangqi!Frames, Xiangqi!Look(f) PROVE XiangqiInv'
  <2> DEFINE frames == Xiangqi!Kept(f)
             fused == Xiangqi!Fused(Xiangqi!Seen(frames))
             r == Xiangqi!Reconcile(position.board, fused, position.turn)
  <2>1. Len(frames) \in 0..Fusing /\ DOMAIN frames = 1..Len(frames)
        /\ \A i \in DOMAIN frames : DOMAIN frames[i].seen \subseteq Xiangqi!Cells
    BY <1>3, FramesOnBoard, KeptFits
  <2> HIDE DEF frames
  <2>2. DOMAIN fused \subseteq Xiangqi!Cells
    <3>1. \A i \in DOMAIN Xiangqi!Seen(frames) : DOMAIN Xiangqi!Seen(frames)[i] \subseteq Xiangqi!Cells
      BY <2>1 DEF Xiangqi!Seen
    <3> QED BY <3>1, FusedOnBoard
  <2>3. Xiangqi!InPlay(position.board, position.turn)
    BY DEF XiangqiInv
  <2> HIDE DEF fused
  <2>4. /\ r.method \in Methods
        /\ r.method = "legal_move_repair" =>
              \E m \in Xiangqi!LegalMoves(position.board, position.turn) : r.board = Xiangqi!Moved(position.board, m)
    BY <2>2, <2>3, RepairIsLegal
  <2> HIDE DEF r
  <2>5. /\ history' = frames
        /\ verdict' = IF Len(frames) < Fusing THEN "collecting" ELSE r.method
        /\ position' = IF verdict' = "legal_move_repair"
                       THEN [board |-> r.board, turn |-> Xiangqi!Other(position.turn)] ELSE position
        /\ UNCHANGED <<truth, ply>>
    BY <1>3 DEF Xiangqi!Look, frames, fused, r
  <2>6. verdict' \in Methods
    BY <2>4, <2>5 DEF Methods
  <2>7. {"board", "turn"} \subseteq DOMAIN position' /\ Xiangqi!InPlay(position'.board, position'.turn)
    <3>1. CASE verdict' = "legal_move_repair"
      <4>1. PICK m \in Xiangqi!LegalMoves(position.board, position.turn) : r.board = Xiangqi!Moved(position.board, m)
        BY <2>4, <2>5, <3>1
      <4>2. Xiangqi!InPlay(r.board, Xiangqi!Other(position.turn))
        BY <2>3, <4>1, MoveKeepsQuiet
      <4> QED BY <2>5, <3>1, <4>2
    <3>2. CASE verdict' # "legal_move_repair"
      BY <2>5, <3>2 DEF XiangqiInv
    <3> QED BY <3>1, <3>2
  <2>8. Xiangqi!Standing(truth)' /\ ply' \in 0..MaxPly
    BY <2>5 DEF Xiangqi!Standing, XiangqiInv
  <2> QED BY <2>1, <2>5, <2>6, <2>7, <2>8 DEF XiangqiInv
<1> QED BY <1>1, <1>2, <1>3 DEF Xiangqi!Next

LEMMA CellIs == \A q \in Xiangqi!Cells : q = <<q[1], q[2]>> /\ q[1] \in 0..9 /\ q[2] \in 0..8
  BY DEF Xiangqi!Cells, Xiangqi!Rows, Xiangqi!Cols

LEMMA OffIs == \A q, i, j : Xiangqi!Off(q, i, j) = <<q[1] + i, q[2] + j>>
  BY DEF Xiangqi!Off

LEMMA OffEquals ==
    ASSUME NEW p, NEW q, NEW i \in Int, NEW j \in Int, p = <<p[1], p[2]>>
    PROVE  p = Xiangqi!Off(q, i, j) <=> p[1] = q[1] + i /\ p[2] = q[2] + j
  BY OffIs

LEMMA StepsAre == \A s, D, t : t \in Xiangqi!Steps(s, D) <=> t \in Xiangqi!Cells /\ \E d \in D : t = Xiangqi!Off(s, d[1], d[2])
  BY DEF Xiangqi!Steps

LEMMA ScreensBothWays ==
    ASSUME NEW b, NEW s \in Xiangqi!Cells, NEW t \in Xiangqi!Cells, s[1] = t[1] \/ s[2] = t[2]
    PROVE  Xiangqi!Screens(b, s, t) = Xiangqi!Screens(b, t, s)
<1>1. \A i, j \in Int : Xiangqi!Inner(i, j) = Xiangqi!Inner(j, i)
  BY DEF Xiangqi!Inner
<1>2. s[1] \in Int /\ s[2] \in Int /\ t[1] \in Int /\ t[2] \in Int
  BY CellIs
<1>3. Xiangqi!Inner(s[1], t[1]) = Xiangqi!Inner(t[1], s[1]) /\ Xiangqi!Inner(s[2], t[2]) = Xiangqi!Inner(t[2], s[2])
  BY <1>1, <1>2
<1>4. Xiangqi!Between(s, t) = Xiangqi!Between(t, s)
  BY <1>3 DEF Xiangqi!Between
<1> QED BY <1>4 DEF Xiangqi!Screens

LEMMA LinesBothWays ==
    ASSUME NEW s \in Xiangqi!Cells, NEW t \in Xiangqi!Cells
    PROVE  t \in Xiangqi!Lines(s) <=> s # t /\ (s[1] = t[1] \/ s[2] = t[2])
  BY CellIs DEF Xiangqi!Lines, Xiangqi!Rows, Xiangqi!Cols

\* How a piece is seen that stands on s, from a general on g.
SeenAlong(b, g, s) == b[s][2] \in {"r", "k"} /\ s \in Xiangqi!Lines(g) /\ Xiangqi!Screens(b, g, s) = 0 /\ (b[s][2] = "r" \/ s[2] = g[2])
SeenOver(b, g, s) == b[s][2] = "c" /\ s \in Xiangqi!Lines(g) /\ Xiangqi!Screens(b, g, s) = 1
SeenByHorse(b, g, s) ==
    /\ b[s][2] = "n"
    /\ \E d \in {-1, 1} \X {-1, 1} :
         /\ ~Xiangqi!Taken(b, Xiangqi!Off(g, d[1], d[2]))
         /\ s \in {Xiangqi!Off(g, 2 * d[1], d[2]), Xiangqi!Off(g, d[1], 2 * d[2])}
SeenByPawn(b, g, s, turn) ==
    /\ b[s][2] = "p"
    /\ LET ahead == IF turn = "w" THEN -1 ELSE 1
       IN  s \in {Xiangqi!Off(g, ahead, 0), Xiangqi!Off(g, 0, 1), Xiangqi!Off(g, 0, -1)}

\* A general in its palace, and an enemy's piece on another cell.
Threat(b, turn, g, s) ==
    /\ Xiangqi!Standing(b) /\ turn \in Xiangqi!Sides /\ g \in DOMAIN b /\ b[g] = <<turn, "k">> /\ g \in Xiangqi!Palace(turn)
    /\ s \in DOMAIN b /\ b[s][1] = Xiangqi!Other(turn)

LEMMA ThreatIs ==
    ASSUME NEW b, NEW turn, NEW g, NEW s, Threat(b, turn, g, s)
    PROVE  /\ g \in Xiangqi!Cells /\ s \in Xiangqi!Cells /\ g # s /\ b[s][1] # turn /\ ~Xiangqi!Own(b, g, Xiangqi!Other(turn))
           /\ Xiangqi!Taken(b, g) /\ g \notin Xiangqi!Palace(Xiangqi!Other(turn)) /\ g \notin Xiangqi!Bank(Xiangqi!Other(turn))
           /\ b[s][2] \in Xiangqi!Kinds /\ b[s] = <<b[s][1], b[s][2]>>
  BY CellIs, OtherSide DEF Threat, Xiangqi!Standing, Xiangqi!Sides, Xiangqi!Other, Xiangqi!Own, Xiangqi!Taken, Xiangqi!Palace, Xiangqi!Bank, Xiangqi!Pieces

LEMMA RookSeen ==
    ASSUME NEW b, NEW turn, NEW g, NEW s, Threat(b, turn, g, s), b[s][2] = "r"
    PROVE  g \in Xiangqi!RookReach(b, s) <=> SeenAlong(b, g, s)
  BY ThreatIs, ScreensBothWays, LinesBothWays DEF Xiangqi!RookReach, SeenAlong

LEMMA CannonSeen ==
    ASSUME NEW b, NEW turn, NEW g, NEW s, Threat(b, turn, g, s), b[s][2] = "c"
    PROVE  g \in Xiangqi!CannonReach(b, s) <=> SeenOver(b, g, s)
  BY ThreatIs, ScreensBothWays, LinesBothWays DEF Xiangqi!CannonReach, SeenOver

LEMMA KingSeen ==
    ASSUME NEW b, NEW turn, NEW g, NEW s, Threat(b, turn, g, s), b[s][2] = "k"
    PROVE  g \in Xiangqi!KingReach(b, s, Xiangqi!Other(turn)) <=> SeenAlong(b, g, s)
<1>1. g \in Xiangqi!KingReach(b, s, Xiangqi!Other(turn)) <=> g \in Xiangqi!Rows \X {s[2]} /\ Xiangqi!Screens(b, s, g) = 0
  BY ThreatIs, OtherSide DEF Xiangqi!KingReach, Threat
<1>2. g \in Xiangqi!Rows \X {s[2]} <=> g \in Xiangqi!Lines(s) /\ s[2] = g[2]
  BY ThreatIs, LinesBothWays, CellIs DEF Xiangqi!Rows
<1> QED BY <1>1, <1>2, ThreatIs, ScreensBothWays, LinesBothWays DEF SeenAlong

LEMMA PawnSeen ==
    ASSUME NEW b, NEW turn, NEW g, NEW s, Threat(b, turn, g, s), b[s][2] = "p"
    PROVE  g \in Xiangqi!PawnReach(b, s, Xiangqi!Other(turn)) <=> SeenByPawn(b, g, s, turn)
<1> DEFINE e == IF Xiangqi!Other(turn) = "w" THEN -1 ELSE 1
           a == IF turn = "w" THEN -1 ELSE 1
<1>1. e \in Int /\ a = -e /\ a \in Int
  BY DEF Threat, Xiangqi!Sides, Xiangqi!Other
<1>2. g \in Xiangqi!PawnReach(b, s, Xiangqi!Other(turn)) <=>
        \/ g = Xiangqi!Off(s, e, 0)
        \/ s \notin Xiangqi!Bank(Xiangqi!Other(turn)) /\ (g = Xiangqi!Off(s, 0, -1) \/ g = Xiangqi!Off(s, 0, 1))
  <2>2. g \in Xiangqi!Steps(s, {<<e, 0>>}) <=> g = Xiangqi!Off(s, e, 0)
    BY ThreatIs DEF Xiangqi!Steps
  <2>3. g \in Xiangqi!Steps(s, {<<0, -1>>, <<0, 1>>}) <=> g = Xiangqi!Off(s, 0, -1) \/ g = Xiangqi!Off(s, 0, 1)
    BY ThreatIs DEF Xiangqi!Steps
  <2> QED BY <2>2, <2>3 DEF Xiangqi!PawnReach
<1>3. SeenByPawn(b, g, s, turn) <=> s = Xiangqi!Off(g, a, 0) \/ s = Xiangqi!Off(g, 0, 1) \/ s = Xiangqi!Off(g, 0, -1)
  BY DEF SeenByPawn
<1> HIDE DEF e, a
<1>4. /\ s = <<s[1], s[2]>> /\ s[1] \in Int /\ s[2] \in 0..8 /\ s[1] \in 0..9
      /\ g = <<g[1], g[2]>> /\ g[1] \in Int /\ g[2] \in Int
  BY ThreatIs, CellIs
<1>5. g = Xiangqi!Off(s, e, 0) <=> s = Xiangqi!Off(g, a, 0)
  <2>1. g = Xiangqi!Off(s, e, 0) <=> g[1] = s[1] + e /\ g[2] = s[2] + 0
    BY <1>1, <1>4 DEF Xiangqi!Off
  <2>2. s = Xiangqi!Off(g, a, 0) <=> s[1] = g[1] + a /\ s[2] = g[2] + 0
    BY <1>1, <1>4 DEF Xiangqi!Off
  <2> QED BY <1>1, <1>4, <2>1, <2>2
<1>6. /\ g = Xiangqi!Off(s, 0, -1) <=> s = Xiangqi!Off(g, 0, 1)
      /\ g = Xiangqi!Off(s, 0, 1) <=> s = Xiangqi!Off(g, 0, -1)
  BY <1>4, OffIs
<1>7. s[1] = g[1] => s \notin Xiangqi!Bank(Xiangqi!Other(turn))
  <2>1. turn \in Xiangqi!Sides /\ g \in Xiangqi!Palace(turn)
    BY DEF Threat
  <2> QED BY <1>4, <2>1 DEF Xiangqi!Bank, Xiangqi!Palace, Xiangqi!Other, Xiangqi!Sides
<1>8. s = Xiangqi!Off(g, 0, 1) \/ s = Xiangqi!Off(g, 0, -1) => s[1] = g[1]
  BY <1>4, OffIs
<1> QED BY <1>2, <1>3, <1>5, <1>6, <1>7, <1>8

LEMMA HorseSeen ==
    ASSUME NEW b, NEW turn, NEW g, NEW s, Threat(b, turn, g, s), b[s][2] = "n"
    PROVE  g \in Xiangqi!HorseReach(b, s) <=> SeenByHorse(b, g, s)
<1>1. g \in Xiangqi!HorseReach(b, s) <=>
        \E d \in Xiangqi!Jumps : ~Xiangqi!Taken(b, Xiangqi!Leg(s, d)) /\ g = Xiangqi!Off(s, d[1], d[2])
  BY ThreatIs, StepsAre DEF Xiangqi!HorseReach
<1>2. /\ s = <<s[1], s[2]>> /\ s[1] \in Int /\ s[2] \in Int
      /\ g = <<g[1], g[2]>> /\ g[1] \in Int /\ g[2] \in Int
  BY ThreatIs, CellIs
<1>3. \A i, j \in {-1, 1} : /\ (2 * i) \div 2 = i
                            /\ Xiangqi!Leg(s, <<2 * i, j>>) = Xiangqi!Off(s, i, 0)
                            /\ Xiangqi!Leg(s, <<j, 2 * i>>) = Xiangqi!Off(s, 0, i)
  BY DEF Xiangqi!Leg
<1>4. Xiangqi!Jumps = {<<2 * i, j>> : i, j \in {-1, 1}} \cup {<<j, 2 * i>> : i, j \in {-1, 1}}
  BY DEF Xiangqi!Jumps
<1>5. g \in Xiangqi!HorseReach(b, s) <=>
        \E i, j \in {-1, 1} : \/ ~Xiangqi!Taken(b, Xiangqi!Off(s, i, 0)) /\ g = Xiangqi!Off(s, 2 * i, j)
                              \/ ~Xiangqi!Taken(b, Xiangqi!Off(s, 0, i)) /\ g = Xiangqi!Off(s, j, 2 * i)
  BY <1>1, <1>3, <1>4
<1>6. SeenByHorse(b, g, s) <=>
        \E i, j \in {-1, 1} : ~Xiangqi!Taken(b, Xiangqi!Off(g, i, j)) /\ (s = Xiangqi!Off(g, 2 * i, j) \/ s = Xiangqi!Off(g, i, 2 * j))
  <2>1. SeenByHorse(b, g, s) <=> \E d \in {-1, 1} \X {-1, 1} : /\ ~Xiangqi!Taken(b, Xiangqi!Off(g, d[1], d[2]))
                     /\ (s = Xiangqi!Off(g, 2 * d[1], d[2]) \/ s = Xiangqi!Off(g, d[1], 2 * d[2]))
    BY DEF SeenByHorse
  <2>2. \A i, j \in {-1, 1} : <<i, j>> \in {-1, 1} \X {-1, 1} /\ <<i, j>>[1] = i /\ <<i, j>>[2] = j
    OBVIOUS
  <2>3. \A d \in {-1, 1} \X {-1, 1} : d[1] \in {-1, 1} /\ d[2] \in {-1, 1}
    OBVIOUS
  <2> DEFINE P(i, j) == ~Xiangqi!Taken(b, Xiangqi!Off(g, i, j)) /\ (s = Xiangqi!Off(g, 2 * i, j) \/ s = Xiangqi!Off(g, i, 2 * j))
             D == {-1, 1} \X {-1, 1}
             I == {-1, 1}
  <2>4. SeenByHorse(b, g, s) <=> \E d \in D : P(d[1], d[2])
    BY <2>1
  <2>5. (\A i, j \in I : <<i, j>> \in D /\ <<i, j>>[1] = i /\ <<i, j>>[2] = j) /\ (\A d \in D : d[1] \in I /\ d[2] \in I)
    BY <2>2, <2>3
  <2> HIDE DEF P, D, I
  <2>6. (\E d \in D : P(d[1], d[2])) <=> \E i, j \in I : P(i, j)
    BY <2>5
  <2> QED BY <2>4, <2>6 DEF P, I
<1>7. \A i \in {-1, 1} : -i \in {-1, 1} /\ -i \in Int /\ i \in Int /\ 2 * i \in Int /\ 2 * (-i) \in Int
  OBVIOUS
<1>8. ASSUME NEW i \in {-1, 1}, NEW j \in {-1, 1},
             \/ ~Xiangqi!Taken(b, Xiangqi!Off(s, i, 0)) /\ g = Xiangqi!Off(s, 2 * i, j)
             \/ ~Xiangqi!Taken(b, Xiangqi!Off(s, 0, i)) /\ g = Xiangqi!Off(s, j, 2 * i)
      PROVE  SeenByHorse(b, g, s)
  <2>2. CASE ~Xiangqi!Taken(b, Xiangqi!Off(s, i, 0)) /\ g = Xiangqi!Off(s, 2 * i, j)
    <3>1. s = Xiangqi!Off(g, 2 * (-i), -j) /\ Xiangqi!Off(s, i, 0) = Xiangqi!Off(g, -i, -j)
      BY <1>2, <2>2, OffIs
    <3> QED BY <1>6, <1>7, <2>2, <3>1
  <2>3. CASE ~Xiangqi!Taken(b, Xiangqi!Off(s, 0, i)) /\ g = Xiangqi!Off(s, j, 2 * i)
    <3>1. s = Xiangqi!Off(g, -j, 2 * (-i)) /\ Xiangqi!Off(s, 0, i) = Xiangqi!Off(g, -j, -i)
      BY <1>2, <2>3, OffIs
    <3> QED BY <1>6, <1>7, <2>3, <3>1
  <2> QED BY <1>8, <2>2, <2>3
<1>9. ASSUME NEW i \in {-1, 1}, NEW j \in {-1, 1}, ~Xiangqi!Taken(b, Xiangqi!Off(g, i, j)),
             s = Xiangqi!Off(g, 2 * i, j) \/ s = Xiangqi!Off(g, i, 2 * j)
      PROVE  g \in Xiangqi!HorseReach(b, s)
  <2>1. -i \in {-1, 1} /\ -j \in {-1, 1}
    BY <1>7
  <2>2. CASE s = Xiangqi!Off(g, 2 * i, j)
    <3>1. g = Xiangqi!Off(s, 2 * (-i), -j) /\ Xiangqi!Off(s, -i, 0) = Xiangqi!Off(g, i, j)
      BY <1>2, <2>2, OffIs
    <3> QED BY <1>5, <1>9, <2>1, <3>1
  <2>3. CASE s = Xiangqi!Off(g, i, 2 * j)
    <3>1. g = Xiangqi!Off(s, -i, 2 * (-j)) /\ Xiangqi!Off(s, 0, -j) = Xiangqi!Off(g, i, j)
      BY <1>2, <2>3, OffIs
    <3> QED BY <1>5, <1>9, <2>1, <3>1
  <2> QED BY <1>9, <2>2, <2>3
<1> QED BY <1>5, <1>6, <1>8, <1>9

\* The moves of each kind of piece.
LEMMA PseudoMovesAre ==
    ASSUME NEW b, NEW s, NEW turn
    PROVE  /\ b[s][2] = "p" => Xiangqi!PseudoMoves(b, s, turn) = {t \in Xiangqi!PawnReach(b, s, turn) : ~Xiangqi!Own(b, t, turn)}
           /\ b[s][2] = "k" => Xiangqi!PseudoMoves(b, s, turn) = {t \in Xiangqi!KingReach(b, s, turn) : ~Xiangqi!Own(b, t, turn)}
           /\ b[s][2] = "r" => Xiangqi!PseudoMoves(b, s, turn) = {t \in Xiangqi!RookReach(b, s) : ~Xiangqi!Own(b, t, turn)}
           /\ b[s][2] = "c" => Xiangqi!PseudoMoves(b, s, turn) = {t \in Xiangqi!CannonReach(b, s) : ~Xiangqi!Own(b, t, turn)}
           /\ b[s][2] = "n" => Xiangqi!PseudoMoves(b, s, turn) = {t \in Xiangqi!HorseReach(b, s) : ~Xiangqi!Own(b, t, turn)}
           /\ b[s][2] = "b" => Xiangqi!PseudoMoves(b, s, turn) = {t \in Xiangqi!ElephantReach(b, s, turn) : ~Xiangqi!Own(b, t, turn)}
           /\ b[s][2] = "a" => Xiangqi!PseudoMoves(b, s, turn) = {t \in Xiangqi!AdvisorReach(s, turn) : ~Xiangqi!Own(b, t, turn)}
  BY DEF Xiangqi!PseudoMoves

LEMMA PieceSeen ==
    ASSUME NEW b, NEW turn, NEW g, NEW s, Threat(b, turn, g, s)
    PROVE  g \in Xiangqi!PseudoMoves(b, s, Xiangqi!Other(turn)) <=>
             SeenAlong(b, g, s) \/ SeenOver(b, g, s) \/ SeenByHorse(b, g, s) \/ SeenByPawn(b, g, s, turn)
<1> DEFINE k == b[s][2]
           foe == Xiangqi!Other(turn)
<1>1. k \in Xiangqi!Kinds /\ ~Xiangqi!Own(b, g, foe) /\ g \notin Xiangqi!AdvisorReach(s, foe) /\ g \notin Xiangqi!ElephantReach(b, s, foe)
  BY ThreatIs DEF Xiangqi!AdvisorReach, Xiangqi!ElephantReach
<1>2. g \in Xiangqi!PseudoMoves(b, s, foe) <=>
        \/ k = "p" /\ g \in Xiangqi!PawnReach(b, s, foe)
        \/ k = "k" /\ g \in Xiangqi!KingReach(b, s, foe)
        \/ k = "r" /\ g \in Xiangqi!RookReach(b, s)
        \/ k = "c" /\ g \in Xiangqi!CannonReach(b, s)
        \/ k = "n" /\ g \in Xiangqi!HorseReach(b, s)
  <2>1. /\ k = "p" => Xiangqi!PseudoMoves(b, s, foe) = {t \in Xiangqi!PawnReach(b, s, foe) : ~Xiangqi!Own(b, t, foe)}
        /\ k = "k" => Xiangqi!PseudoMoves(b, s, foe) = {t \in Xiangqi!KingReach(b, s, foe) : ~Xiangqi!Own(b, t, foe)}
        /\ k = "r" => Xiangqi!PseudoMoves(b, s, foe) = {t \in Xiangqi!RookReach(b, s) : ~Xiangqi!Own(b, t, foe)}
        /\ k = "c" => Xiangqi!PseudoMoves(b, s, foe) = {t \in Xiangqi!CannonReach(b, s) : ~Xiangqi!Own(b, t, foe)}
        /\ k = "n" => Xiangqi!PseudoMoves(b, s, foe) = {t \in Xiangqi!HorseReach(b, s) : ~Xiangqi!Own(b, t, foe)}
        /\ k = "b" => Xiangqi!PseudoMoves(b, s, foe) = {t \in Xiangqi!ElephantReach(b, s, foe) : ~Xiangqi!Own(b, t, foe)}
        /\ k = "a" => Xiangqi!PseudoMoves(b, s, foe) = {t \in Xiangqi!AdvisorReach(s, foe) : ~Xiangqi!Own(b, t, foe)}
    BY PseudoMovesAre
  <2> HIDE DEF k, foe
  <2>2. \A X : g \in {t \in X : ~Xiangqi!Own(b, t, foe)} <=> g \in X
    BY <1>1
  <2>3. /\ k = "p" => (g \in Xiangqi!PseudoMoves(b, s, foe) <=> g \in Xiangqi!PawnReach(b, s, foe))
        /\ k = "k" => (g \in Xiangqi!PseudoMoves(b, s, foe) <=> g \in Xiangqi!KingReach(b, s, foe))
        /\ k = "r" => (g \in Xiangqi!PseudoMoves(b, s, foe) <=> g \in Xiangqi!RookReach(b, s))
        /\ k = "c" => (g \in Xiangqi!PseudoMoves(b, s, foe) <=> g \in Xiangqi!CannonReach(b, s))
        /\ k = "n" => (g \in Xiangqi!PseudoMoves(b, s, foe) <=> g \in Xiangqi!HorseReach(b, s))
        /\ k \in {"a", "b"} => g \notin Xiangqi!PseudoMoves(b, s, foe)
    BY <1>1, <2>1, <2>2
  <2> QED BY <1>1, <2>3 DEF Xiangqi!Kinds
<1>3. /\ SeenAlong(b, g, s) => k \in {"r", "k"}
      /\ SeenOver(b, g, s) => k = "c"
      /\ SeenByHorse(b, g, s) => k = "n"
      /\ SeenByPawn(b, g, s, turn) => k = "p"
  BY DEF SeenAlong, SeenOver, SeenByHorse, SeenByPawn
<1>4. /\ k = "r" => (g \in Xiangqi!RookReach(b, s) <=> SeenAlong(b, g, s))
      /\ k = "c" => (g \in Xiangqi!CannonReach(b, s) <=> SeenOver(b, g, s))
      /\ k = "k" => (g \in Xiangqi!KingReach(b, s, foe) <=> SeenAlong(b, g, s))
      /\ k = "n" => (g \in Xiangqi!HorseReach(b, s) <=> SeenByHorse(b, g, s))
      /\ k = "p" => (g \in Xiangqi!PawnReach(b, s, foe) <=> SeenByPawn(b, g, s, turn))
  BY RookSeen, CannonSeen, KingSeen, HorseSeen, PawnSeen
<1> HIDE DEF k
<1> QED BY <1>2, <1>3, <1>4

\* A side is in check by the moves of the enemy's pieces exactly when its general sees one of them.
LEMMA CheckIsSeen ==
    ASSUME NEW b, NEW t, Xiangqi!InPlay(b, t), NEW turn \in Xiangqi!Sides
    PROVE  Xiangqi!InCheck(b, turn) = Xiangqi!Attacked(b, turn)
<1> DEFINE Sees(g, s) == SeenAlong(b, g, s) \/ SeenOver(b, g, s) \/ SeenByHorse(b, g, s) \/ SeenByPawn(b, g, s, turn)
<1>1. \A s \in DOMAIN b : b[s][1] # turn <=> b[s][1] = Xiangqi!Other(turn)
  BY DEF Xiangqi!InPlay, Xiangqi!Standing, Xiangqi!Sides, Xiangqi!Other, Xiangqi!Pieces
<1>2. Xiangqi!InCheck(b, turn) <=>
        \E s \in DOMAIN b : b[s][1] # turn /\ Xiangqi!PseudoMoves(b, s, Xiangqi!Other(turn)) \cap Xiangqi!Generals(b, turn) # {}
  BY DEF Xiangqi!InPlay, Xiangqi!InCheck
<1>3. Xiangqi!Attacked(b, turn) <=> \E g \in Xiangqi!Generals(b, turn), s \in DOMAIN b : b[s][1] # turn /\ Sees(g, s)
  BY Zenon DEF Xiangqi!Attacked, SeenAlong, SeenOver, SeenByHorse, SeenByPawn
<1>4. \A g \in Xiangqi!Generals(b, turn), s \in DOMAIN b :
        b[s][1] # turn => (g \in Xiangqi!PseudoMoves(b, s, Xiangqi!Other(turn)) <=> Sees(g, s))
  <2> SUFFICES ASSUME NEW g \in Xiangqi!Generals(b, turn), NEW s \in DOMAIN b, b[s][1] # turn
               PROVE  g \in Xiangqi!PseudoMoves(b, s, Xiangqi!Other(turn)) <=> Sees(g, s)
    BY Zenon
  <2>1. Threat(b, turn, g, s)
    BY <1>1 DEF Threat, Xiangqi!InPlay, Xiangqi!Generals
  <2> QED BY <2>1, PieceSeen
<1>5. Xiangqi!InCheck(b, turn) <=> Xiangqi!Attacked(b, turn)
  <2> HIDE DEF Sees
  <2> QED BY <1>2, <1>3, <1>4
<1>6. Xiangqi!InCheck(b, turn) \in BOOLEAN /\ Xiangqi!Attacked(b, turn) \in BOOLEAN
  BY DEF Xiangqi!InCheck, Xiangqi!Attacked
<1> QED BY <1>5, <1>6

\* Where a cell comes to lie when the board is turned.
Turned(q) == Xiangqi!Turned(q)

LEMMA TurnedIs ==
    /\ \A q : Turned(q) = <<9 - q[1], 8 - q[2]>>
    /\ \A q \in Xiangqi!Cells : Turned(q) \in Xiangqi!Cells /\ Turned(Turned(q)) = q
  BY CellIs DEF Turned, Xiangqi!Turned, Xiangqi!Cells, Xiangqi!Rows, Xiangqi!Cols

\* Two boards of which one is the other turned, with the colours exchanged.
Mirror(b, c) ==
    /\ Xiangqi!Standing(b) /\ Xiangqi!Standing(c)
    /\ \A q \in Xiangqi!Cells : q \in DOMAIN b <=> Turned(q) \in DOMAIN c
    /\ \A q \in DOMAIN b : c[Turned(q)] = <<Xiangqi!Other(b[q][1]), b[q][2]>>

LEMMA PieceIs == \A p \in Xiangqi!Pieces : p = <<p[1], p[2]>> /\ p[1] \in Xiangqi!Sides /\ p[2] \in Xiangqi!Kinds
  BY DEF Xiangqi!Pieces, Xiangqi!Sides

LEMMA MirrorBack == ASSUME NEW b, NEW c, Mirror(b, c) PROVE Mirror(c, b)
<1>1. \A q \in Xiangqi!Cells : q \in DOMAIN c <=> Turned(q) \in DOMAIN b
  BY TurnedIs DEF Mirror
<1>2. ASSUME NEW q \in DOMAIN c PROVE b[Turned(q)] = <<Xiangqi!Other(c[q][1]), c[q][2]>>
  <2>1. q \in Xiangqi!Cells /\ Turned(q) \in DOMAIN b /\ Turned(Turned(q)) = q
    BY <1>1, TurnedIs DEF Mirror, Xiangqi!Standing
  <2> DEFINE p == b[Turned(q)]
  <2>2. c[q] = <<Xiangqi!Other(p[1]), p[2]>>
    BY <2>1 DEF Mirror
  <2>3. p \in Xiangqi!Pieces
    BY <2>1 DEF Mirror, Xiangqi!Standing
  <2> HIDE DEF p
  <2>4. p = <<p[1], p[2]>> /\ p[1] \in Xiangqi!Sides
    BY <2>3, PieceIs
  <2> QED BY <2>2, <2>4, OtherSide DEF p
<1> QED BY <1>1, <1>2 DEF Mirror

LEMMA MirrorTaken ==
    ASSUME NEW b, NEW c, Mirror(b, c), NEW i \in Int, NEW j \in Int
    PROVE  Xiangqi!Taken(b, <<i, j>>) <=> Xiangqi!Taken(c, <<9 - i, 8 - j>>)
<1>1. <<i, j>> \in Xiangqi!Cells <=> <<9 - i, 8 - j>> \in Xiangqi!Cells
  BY DEF Xiangqi!Cells, Xiangqi!Rows, Xiangqi!Cols
<1>2. Turned(<<i, j>>) = <<9 - i, 8 - j>>
  BY TurnedIs
<1> QED BY <1>1, <1>2 DEF Mirror, Xiangqi!Standing, Xiangqi!Taken

LEMMA MirrorPiece ==
    ASSUME NEW b, NEW c, Mirror(b, c), NEW s \in DOMAIN b
    PROVE  /\ s \in Xiangqi!Cells /\ Turned(s) \in DOMAIN c /\ Turned(s) \in Xiangqi!Cells /\ Turned(Turned(s)) = s
           /\ c[Turned(s)][1] = Xiangqi!Other(b[s][1]) /\ c[Turned(s)][2] = b[s][2] /\ b[s][1] \in Xiangqi!Sides /\ b[s][2] \in Xiangqi!Kinds
  BY TurnedIs, PieceIs DEF Mirror, Xiangqi!Standing

LEMMA MirrorOwn ==
    ASSUME NEW b, NEW c, Mirror(b, c), NEW t \in Xiangqi!Cells, NEW turn \in Xiangqi!Sides
    PROVE  Xiangqi!Own(b, t, turn) <=> Xiangqi!Own(c, Turned(t), Xiangqi!Other(turn))
<1>1. t \in DOMAIN b <=> Turned(t) \in DOMAIN c
  BY DEF Mirror
<1>2. t \in DOMAIN b => (b[t][1] = turn <=> c[Turned(t)][1] = Xiangqi!Other(turn))
  BY MirrorPiece, OtherSide
<1> QED BY <1>1, <1>2 DEF Xiangqi!Own, Xiangqi!Taken

LEMMA InnerIs == \A i, j, k \in Int : k \in Xiangqi!Inner(i, j) <=> (i < k /\ k < j) \/ (j < k /\ k < i)
  BY DEF Xiangqi!Inner

LEMMA BetweenIs ==
    ASSUME NEW s \in Xiangqi!Cells, NEW t \in Xiangqi!Cells, NEW q \in Xiangqi!Cells
    PROVE  q \in Xiangqi!Between(s, t) <=>
             IF s[1] = t[1] THEN q[1] = s[1] /\ q[2] \in Xiangqi!Inner(s[2], t[2])
                            ELSE q[2] = s[2] /\ q[1] \in Xiangqi!Inner(s[1], t[1])
  BY CellIs DEF Xiangqi!Between

LEMMA BetweenTurned ==
    ASSUME NEW s \in Xiangqi!Cells, NEW t \in Xiangqi!Cells, NEW q \in Xiangqi!Cells
    PROVE  q \in Xiangqi!Between(s, t) <=> Turned(q) \in Xiangqi!Between(Turned(s), Turned(t))
<1>1. /\ Turned(s) \in Xiangqi!Cells /\ Turned(t) \in Xiangqi!Cells /\ Turned(q) \in Xiangqi!Cells
      /\ Turned(s)[1] = 9 - s[1] /\ Turned(s)[2] = 8 - s[2] /\ Turned(t)[1] = 9 - t[1] /\ Turned(t)[2] = 8 - t[2]
      /\ Turned(q)[1] = 9 - q[1] /\ Turned(q)[2] = 8 - q[2]
  BY TurnedIs
<1>2. /\ s[1] \in Int /\ s[2] \in Int /\ t[1] \in Int /\ t[2] \in Int /\ q[1] \in Int /\ q[2] \in Int
  BY CellIs
<1>3. /\ q[2] \in Xiangqi!Inner(s[2], t[2]) <=> 8 - q[2] \in Xiangqi!Inner(8 - s[2], 8 - t[2])
      /\ q[1] \in Xiangqi!Inner(s[1], t[1]) <=> 9 - q[1] \in Xiangqi!Inner(9 - s[1], 9 - t[1])
  BY <1>2, InnerIs
<1>4. /\ s[1] = t[1] <=> 9 - s[1] = 9 - t[1]
      /\ q[1] = s[1] <=> 9 - q[1] = 9 - s[1]
      /\ q[2] = s[2] <=> 8 - q[2] = 8 - s[2]
  BY <1>2
<1>5. q \in Xiangqi!Between(s, t) <=>
             IF s[1] = t[1] THEN q[1] = s[1] /\ q[2] \in Xiangqi!Inner(s[2], t[2])
                            ELSE q[2] = s[2] /\ q[1] \in Xiangqi!Inner(s[1], t[1])
  BY BetweenIs
<1>6. Turned(q) \in Xiangqi!Between(Turned(s), Turned(t)) <=>
             IF Turned(s)[1] = Turned(t)[1] THEN Turned(q)[1] = Turned(s)[1] /\ Turned(q)[2] \in Xiangqi!Inner(Turned(s)[2], Turned(t)[2])
                            ELSE Turned(q)[2] = Turned(s)[2] /\ Turned(q)[1] \in Xiangqi!Inner(Turned(s)[1], Turned(t)[1])
  BY <1>1, BetweenIs
<1> QED BY <1>1, <1>3, <1>4, <1>5, <1>6

LEMMA MirrorScreens ==
    ASSUME NEW b, NEW c, Mirror(b, c), NEW s \in Xiangqi!Cells, NEW t \in Xiangqi!Cells
    PROVE  Xiangqi!Screens(b, s, t) = Xiangqi!Screens(c, Turned(s), Turned(t))
<1> DEFINE A == Xiangqi!Between(s, t) \cap DOMAIN b
           B == Xiangqi!Between(Turned(s), Turned(t)) \cap DOMAIN c
           f == [q \in A |-> Turned(q)]
<1>1. A \subseteq Xiangqi!Cells /\ B \subseteq Xiangqi!Cells
  BY DEF Mirror, Xiangqi!Standing
<1>2. \A q \in Xiangqi!Cells : q \in A <=> Turned(q) \in B
  BY BetweenTurned DEF Mirror
<1> HIDE DEF A, B
<1>3. IsFiniteSet(A)
  BY <1>1, CellsFinite, FS_Subset
<1>4. f \in Bijection(A, B)
  <2>1. f \in [A -> B]
    BY <1>1, <1>2
  <2>2. \A x, y \in A : f[x] = f[y] => x = y
    BY <1>1, TurnedIs
  <2>3. \A y \in B : \E x \in A : f[x] = y
    <3> SUFFICES ASSUME NEW y \in B PROVE \E x \in A : f[x] = y
      OBVIOUS
    <3>1. Turned(y) \in Xiangqi!Cells /\ Turned(Turned(y)) = y
      BY <1>1, TurnedIs
    <3>2. Turned(y) \in A
      BY <1>2, <3>1
    <3> QED BY <3>1, <3>2
  <2> QED BY <2>1, <2>2, <2>3 DEF Bijection, Injection, Surjection, IsInjective
<1>5. Cardinality(A) = Cardinality(B)
  BY <1>3, <1>4, FS_Bijection DEF ExistsBijection
<1> QED BY <1>5, XiangqiCardinality DEF Xiangqi!Screens, A, B

LEMMA OffTurned ==
    ASSUME NEW s \in Xiangqi!Cells, NEW i \in Int, NEW j \in Int
    PROVE  Turned(Xiangqi!Off(s, i, j)) = Xiangqi!Off(Turned(s), -i, -j)
<1>1. s[1] \in Int /\ s[2] \in Int
  BY CellIs
<1> QED BY <1>1, TurnedIs, OffIs

LEMMA StepTurned ==
    ASSUME NEW s \in Xiangqi!Cells, NEW t \in Xiangqi!Cells, NEW i \in Int, NEW j \in Int, t = Xiangqi!Off(s, i, j)
    PROVE  Turned(t) \in Xiangqi!Cells /\ Turned(t) = Xiangqi!Off(Turned(s), -i, -j)
  BY OffTurned, TurnedIs

LEMMA OffTaken ==
    ASSUME NEW b, NEW c, Mirror(b, c), NEW s \in Xiangqi!Cells, NEW i \in Int, NEW j \in Int
    PROVE  Xiangqi!Taken(b, Xiangqi!Off(s, i, j)) <=> Xiangqi!Taken(c, Xiangqi!Off(Turned(s), -i, -j))
<1>1. s[1] + i \in Int /\ s[2] + j \in Int /\ s[1] \in Int /\ s[2] \in Int
  BY CellIs
<1>2. Xiangqi!Taken(b, <<s[1] + i, s[2] + j>>) <=> Xiangqi!Taken(c, <<9 - (s[1] + i), 8 - (s[2] + j)>>)
  BY <1>1, MirrorTaken
<1>3. Xiangqi!Off(s, i, j) = <<s[1] + i, s[2] + j>> /\ Xiangqi!Off(Turned(s), -i, -j) = <<9 - (s[1] + i), 8 - (s[2] + j)>>
  BY <1>1, TurnedIs, OffIs
<1> QED BY <1>2, <1>3

LEMMA PlaceTurned ==
    ASSUME NEW t \in Xiangqi!Cells, NEW turn \in Xiangqi!Sides
    PROVE  /\ t \in Xiangqi!Palace(turn) <=> Turned(t) \in Xiangqi!Palace(Xiangqi!Other(turn))
           /\ t \in Xiangqi!Bank(turn) <=> Turned(t) \in Xiangqi!Bank(Xiangqi!Other(turn))
<1>1. t = <<t[1], t[2]>> /\ t[1] \in 0..9 /\ t[2] \in 0..8 /\ Turned(t) = <<9 - t[1], 8 - t[2]>>
  BY CellIs, TurnedIs
<1> QED BY <1>1 DEF Xiangqi!Sides, Xiangqi!Other, Xiangqi!Palace, Xiangqi!Bank, Xiangqi!Cols

LEMMA LinesTurned ==
    ASSUME NEW s \in Xiangqi!Cells, NEW t \in Xiangqi!Cells
    PROVE  t \in Xiangqi!Lines(s) <=> Turned(t) \in Xiangqi!Lines(Turned(s))
<1>1. /\ Turned(t) \in Xiangqi!Cells /\ Turned(s) \in Xiangqi!Cells /\ Turned(Turned(t)) = t /\ Turned(Turned(s)) = s
      /\ Turned(t) = <<9 - t[1], 8 - t[2]>> /\ Turned(s) = <<9 - s[1], 8 - s[2]>>
  BY TurnedIs
<1>2. t[1] \in Int /\ t[2] \in Int /\ s[1] \in Int /\ s[2] \in Int
  BY CellIs
<1>3. Turned(s)[1] = Turned(t)[1] <=> s[1] = t[1]
  BY <1>1, <1>2
<1>4. Turned(s)[2] = Turned(t)[2] <=> s[2] = t[2]
  BY <1>1, <1>2
<1>5. Turned(s) # Turned(t) <=> s # t
  BY <1>1
<1> QED BY <1>1, <1>3, <1>4, <1>5, LinesBothWays

\* A piece on s, a cell t, and the board turned.
Turning(b, c, s, t, turn) == Mirror(b, c) /\ s \in DOMAIN b /\ t \in Xiangqi!Cells /\ turn \in Xiangqi!Sides

LEMMA RookTurned ==
    ASSUME NEW b, NEW c, NEW s, NEW t, NEW turn, Turning(b, c, s, t, turn), t \in Xiangqi!RookReach(b, s)
    PROVE  Turned(t) \in Xiangqi!RookReach(c, Turned(s))
  BY LinesTurned, MirrorScreens, MirrorPiece DEF Turning, Xiangqi!RookReach

LEMMA CannonTurned ==
    ASSUME NEW b, NEW c, NEW s, NEW t, NEW turn, Turning(b, c, s, t, turn), t \in Xiangqi!CannonReach(b, s)
    PROVE  Turned(t) \in Xiangqi!CannonReach(c, Turned(s))
<1>1. Xiangqi!Taken(b, t) <=> Xiangqi!Taken(c, Turned(t))
  BY DEF Turning, Mirror, Xiangqi!Taken
<1>2. Turned(t) \in Xiangqi!Lines(Turned(s)) /\ Xiangqi!Screens(b, s, t) = Xiangqi!Screens(c, Turned(s), Turned(t))
  BY LinesTurned, MirrorScreens, MirrorPiece DEF Turning, Xiangqi!CannonReach
<1> QED BY <1>1, <1>2 DEF Xiangqi!CannonReach

LEMMA KingTurned ==
    ASSUME NEW b, NEW c, NEW s, NEW t, NEW turn, Turning(b, c, s, t, turn), t \in Xiangqi!KingReach(b, s, turn)
    PROVE  Turned(t) \in Xiangqi!KingReach(c, Turned(s), Xiangqi!Other(turn))
<1>1. s \in Xiangqi!Cells /\ t \in Xiangqi!Cells /\ turn \in Xiangqi!Sides /\ Turned(s) \in Xiangqi!Cells /\ Turned(t) \in Xiangqi!Cells
  BY MirrorPiece, TurnedIs DEF Turning
<1>2. CASE t \in Xiangqi!Steps(s, Xiangqi!Straight) \cap Xiangqi!Palace(turn)
  <2>1. PICK d \in Xiangqi!Straight : t = Xiangqi!Off(s, d[1], d[2])
    BY <1>2, StepsAre
  <2>2. d[1] \in Int /\ d[2] \in Int /\ <<-d[1], -d[2]>> \in Xiangqi!Straight
    BY DEF Xiangqi!Straight
  <2>3. Turned(t) = Xiangqi!Off(Turned(s), -d[1], -d[2])
    BY <1>1, <2>1, <2>2, StepTurned
  <2>4. Turned(t) \in Xiangqi!Steps(Turned(s), Xiangqi!Straight)
    BY <1>1, <2>2, <2>3, StepsAre
  <2> QED BY <1>1, <1>2, <2>4, PlaceTurned DEF Xiangqi!KingReach
<1>3. CASE t \in Xiangqi!Rows \X {s[2]} /\ Xiangqi!Taken(b, t) /\ b[t] = <<Xiangqi!Other(turn), "k">> /\ Xiangqi!Screens(b, s, t) = 0
  <2>1. Turned(t) \in Xiangqi!Rows \X {Turned(s)[2]}
    BY <1>1, <1>3, CellIs, TurnedIs DEF Xiangqi!Rows
  <2>2. Xiangqi!Taken(c, Turned(t)) /\ c[Turned(t)] = <<Xiangqi!Other(Xiangqi!Other(turn)), "k">>
    BY <1>1, <1>3 DEF Turning, Mirror, Xiangqi!Taken
  <2>3. Xiangqi!Screens(c, Turned(s), Turned(t)) = 0
    BY <1>1, <1>3, MirrorScreens DEF Turning
  <2> QED BY <2>1, <2>2, <2>3 DEF Xiangqi!KingReach
<1> QED BY <1>2, <1>3 DEF Xiangqi!KingReach

LEMMA PawnTurned ==
    ASSUME NEW b, NEW c, NEW s, NEW t, NEW turn, Turning(b, c, s, t, turn), t \in Xiangqi!PawnReach(b, s, turn)
    PROVE  Turned(t) \in Xiangqi!PawnReach(c, Turned(s), Xiangqi!Other(turn))
<1> DEFINE e == IF turn = "w" THEN -1 ELSE 1
           a == IF Xiangqi!Other(turn) = "w" THEN -1 ELSE 1
<1>1. s \in Xiangqi!Cells /\ t \in Xiangqi!Cells /\ turn \in Xiangqi!Sides /\ Turned(s) \in Xiangqi!Cells /\ Turned(t) \in Xiangqi!Cells
  BY MirrorPiece, TurnedIs DEF Turning
<1>2. e \in Int /\ a = -e
  BY <1>1 DEF Xiangqi!Sides, Xiangqi!Other
<1>3. /\ \A x : x \in Xiangqi!PawnReach(b, s, turn) <=>
              \/ x \in Xiangqi!Steps(s, {<<e, 0>>})
              \/ s \notin Xiangqi!Bank(turn) /\ x \in Xiangqi!Steps(s, {<<0, -1>>, <<0, 1>>})
      /\ \A x : x \in Xiangqi!PawnReach(c, Turned(s), Xiangqi!Other(turn)) <=>
              \/ x \in Xiangqi!Steps(Turned(s), {<<a, 0>>})
              \/ Turned(s) \notin Xiangqi!Bank(Xiangqi!Other(turn)) /\ x \in Xiangqi!Steps(Turned(s), {<<0, -1>>, <<0, 1>>})
  BY DEF Xiangqi!PawnReach
<1> HIDE DEF e, a
<1>4. CASE t \in Xiangqi!Steps(s, {<<e, 0>>})
  <2>1. t = Xiangqi!Off(s, e, 0)
    BY <1>4 DEF Xiangqi!Steps
  <2>2. Turned(t) = Xiangqi!Off(Turned(s), -e, -0)
    BY <1>1, <1>2, <2>1, 0 \in Int, StepTurned
  <2>3. Turned(t) = Xiangqi!Off(Turned(s), a, 0)
    BY <1>2, <2>2
  <2>4. Turned(t) \in Xiangqi!Steps(Turned(s), {<<a, 0>>})
    BY <1>1, <2>3 DEF Xiangqi!Steps
  <2> QED BY <1>3, <2>4
<1>5. CASE s \notin Xiangqi!Bank(turn) /\ t \in Xiangqi!Steps(s, {<<0, -1>>, <<0, 1>>})
  <2>1. PICK i \in {-1, 1} : t = Xiangqi!Off(s, 0, i)
    BY <1>5 DEF Xiangqi!Steps
  <2>2. Turned(t) = Xiangqi!Off(Turned(s), -0, -i)
    BY <1>1, <2>1, 0 \in Int, i \in Int, StepTurned
  <2>3. Turned(t) = Xiangqi!Off(Turned(s), 0, -i) /\ -i \in {-1, 1}
    BY <2>2
  <2>4. Turned(t) \in Xiangqi!Steps(Turned(s), {<<0, -1>>, <<0, 1>>})
    BY <1>1, <2>3 DEF Xiangqi!Steps
  <2> QED BY <1>1, <1>3, <1>5, <2>4, PlaceTurned
<1> QED BY <1>3, <1>4, <1>5

LEMMA HorseTurned ==
    ASSUME NEW b, NEW c, NEW s, NEW t, NEW turn, Turning(b, c, s, t, turn), t \in Xiangqi!HorseReach(b, s)
    PROVE  Turned(t) \in Xiangqi!HorseReach(c, Turned(s))
<1>1. s \in Xiangqi!Cells /\ t \in Xiangqi!Cells /\ turn \in Xiangqi!Sides /\ Turned(s) \in Xiangqi!Cells /\ Turned(t) \in Xiangqi!Cells
  BY MirrorPiece, TurnedIs DEF Turning
<1>2. PICK d \in Xiangqi!Jumps : ~Xiangqi!Taken(b, Xiangqi!Leg(s, d)) /\ t = Xiangqi!Off(s, d[1], d[2])
  BY StepsAre DEF Xiangqi!HorseReach
<1>3. d[1] \in Int /\ d[2] \in Int /\ <<-d[1], -d[2]>> \in Xiangqi!Jumps
  BY DEF Xiangqi!Jumps
<1>4. Turned(t) = Xiangqi!Off(Turned(s), -d[1], -d[2])
  BY <1>1, <1>2, <1>3, StepTurned
<1>5. PICK i \in Int, j \in Int : /\ Xiangqi!Leg(s, d) = Xiangqi!Off(s, i, j)
                                  /\ Xiangqi!Leg(Turned(s), <<-d[1], -d[2]>>) = Xiangqi!Off(Turned(s), -i, -j)
  <2>1. CASE d[1] \in {-2, 2}
    <3>1. /\ Xiangqi!Leg(s, d) = Xiangqi!Off(s, d[1] \div 2, 0)
          /\ Xiangqi!Leg(Turned(s), <<-d[1], -d[2]>>) = Xiangqi!Off(Turned(s), -(d[1] \div 2), -0)
          /\ d[1] \div 2 \in Int
      BY <2>1 DEF Xiangqi!Leg
    <3> QED BY <3>1, 0 \in Int
  <2>2. CASE d[1] \notin {-2, 2}
    <3>1. d[2] \in {-2, 2} /\ -d[1] \notin {-2, 2}
      BY <2>2 DEF Xiangqi!Jumps
    <3>2. /\ Xiangqi!Leg(s, d) = Xiangqi!Off(s, 0, d[2] \div 2)
          /\ Xiangqi!Leg(Turned(s), <<-d[1], -d[2]>>) = Xiangqi!Off(Turned(s), -0, -(d[2] \div 2))
          /\ d[2] \div 2 \in Int
      BY <2>2, <3>1 DEF Xiangqi!Leg
    <3> QED BY <3>2, 0 \in Int
  <2> QED BY <2>1, <2>2
<1>6. ~Xiangqi!Taken(c, Xiangqi!Leg(Turned(s), <<-d[1], -d[2]>>))
  BY <1>1, <1>2, <1>5, OffTaken DEF Turning
<1>7. <<-d[1], -d[2]>> \in {x \in Xiangqi!Jumps : ~Xiangqi!Taken(c, Xiangqi!Leg(Turned(s), x))}
  BY <1>3, <1>6
<1> QED BY <1>1, <1>4, <1>7, StepsAre DEF Xiangqi!HorseReach

LEMMA ElephantTurned ==
    ASSUME NEW b, NEW c, NEW s, NEW t, NEW turn, Turning(b, c, s, t, turn), t \in Xiangqi!ElephantReach(b, s, turn)
    PROVE  Turned(t) \in Xiangqi!ElephantReach(c, Turned(s), Xiangqi!Other(turn))
<1>1. s \in Xiangqi!Cells /\ t \in Xiangqi!Cells /\ turn \in Xiangqi!Sides /\ Turned(s) \in Xiangqi!Cells /\ Turned(t) \in Xiangqi!Cells
  BY MirrorPiece, TurnedIs DEF Turning
<1>2. PICK d \in {-2, 2} \X {-2, 2} : /\ ~Xiangqi!Taken(b, Xiangqi!Off(s, d[1] \div 2, d[2] \div 2))
                                      /\ t = Xiangqi!Off(s, d[1], d[2])
  BY StepsAre DEF Xiangqi!ElephantReach
<1>3. /\ d[1] \in Int /\ d[2] \in Int /\ <<-d[1], -d[2]>> \in {-2, 2} \X {-2, 2}
      /\ d[1] \div 2 \in Int /\ d[2] \div 2 \in Int
      /\ (-d[1]) \div 2 = -(d[1] \div 2) /\ (-d[2]) \div 2 = -(d[2] \div 2)
  <2>1. d[1] \in {-2, 2} /\ d[2] \in {-2, 2}
    OBVIOUS
  <2> QED BY <2>1
<1>4. Turned(t) = Xiangqi!Off(Turned(s), -d[1], -d[2])
  BY <1>1, <1>2, <1>3, StepTurned
<1>5. ~Xiangqi!Taken(c, Xiangqi!Off(Turned(s), (-d[1]) \div 2, (-d[2]) \div 2))
  BY <1>1, <1>2, <1>3, OffTaken DEF Turning
<1>6. <<-d[1], -d[2]>> \in {x \in {-2, 2} \X {-2, 2} : ~Xiangqi!Taken(c, Xiangqi!Off(Turned(s), x[1] \div 2, x[2] \div 2))}
  BY <1>3, <1>5
<1> QED BY <1>1, <1>4, <1>6, StepsAre, PlaceTurned DEF Xiangqi!ElephantReach

LEMMA AdvisorTurned ==
    ASSUME NEW b, NEW c, NEW s, NEW t, NEW turn, Turning(b, c, s, t, turn), t \in Xiangqi!AdvisorReach(s, turn)
    PROVE  Turned(t) \in Xiangqi!AdvisorReach(Turned(s), Xiangqi!Other(turn))
<1>1. s \in Xiangqi!Cells /\ t \in Xiangqi!Cells /\ turn \in Xiangqi!Sides /\ Turned(s) \in Xiangqi!Cells /\ Turned(t) \in Xiangqi!Cells
  BY MirrorPiece, TurnedIs DEF Turning
<1>2. PICK d \in {-1, 1} \X {-1, 1} : t = Xiangqi!Off(s, d[1], d[2])
  BY StepsAre DEF Xiangqi!AdvisorReach
<1>3. d[1] \in Int /\ d[2] \in Int /\ <<-d[1], -d[2]>> \in {-1, 1} \X {-1, 1}
  <2>1. d[1] \in {-1, 1} /\ d[2] \in {-1, 1}
    OBVIOUS
  <2> QED BY <2>1
<1>4. Turned(t) = Xiangqi!Off(Turned(s), -d[1], -d[2])
  BY <1>1, <1>2, <1>3, StepTurned
<1> QED BY <1>1, <1>3, <1>4, StepsAre, PlaceTurned DEF Xiangqi!AdvisorReach

\* Turning the board turns the moves of its pieces.
LEMMA MirrorReach ==
    ASSUME NEW b, NEW c, Mirror(b, c), NEW s \in DOMAIN b, NEW turn \in Xiangqi!Sides, NEW t \in Xiangqi!PseudoMoves(b, s, turn)
    PROVE  Turned(t) \in Xiangqi!PseudoMoves(c, Turned(s), Xiangqi!Other(turn))
<1> DEFINE k == b[s][2]
           foe == Xiangqi!Other(turn)
           X == Xiangqi!PseudoMoves(c, Turned(s), foe)
<1>1. t \in Xiangqi!Cells /\ ~Xiangqi!Own(b, t, turn)
  BY ReachIsOnBoard DEF Mirror
<1>2. Turning(b, c, s, t, turn)
  BY <1>1 DEF Turning
<1>3. ~Xiangqi!Own(c, Turned(t), foe)
  BY <1>1, MirrorOwn
<1>4. c[Turned(s)][2] = k /\ k \in Xiangqi!Kinds
  BY MirrorPiece
<1>5. /\ k = "p" => t \in Xiangqi!PawnReach(b, s, turn) /\ X = {x \in Xiangqi!PawnReach(c, Turned(s), foe) : ~Xiangqi!Own(c, x, foe)}
      /\ k = "k" => t \in Xiangqi!KingReach(b, s, turn) /\ X = {x \in Xiangqi!KingReach(c, Turned(s), foe) : ~Xiangqi!Own(c, x, foe)}
      /\ k = "r" => t \in Xiangqi!RookReach(b, s) /\ X = {x \in Xiangqi!RookReach(c, Turned(s)) : ~Xiangqi!Own(c, x, foe)}
      /\ k = "c" => t \in Xiangqi!CannonReach(b, s) /\ X = {x \in Xiangqi!CannonReach(c, Turned(s)) : ~Xiangqi!Own(c, x, foe)}
      /\ k = "n" => t \in Xiangqi!HorseReach(b, s) /\ X = {x \in Xiangqi!HorseReach(c, Turned(s)) : ~Xiangqi!Own(c, x, foe)}
      /\ k = "b" => t \in Xiangqi!ElephantReach(b, s, turn) /\ X = {x \in Xiangqi!ElephantReach(c, Turned(s), foe) : ~Xiangqi!Own(c, x, foe)}
      /\ k = "a" => t \in Xiangqi!AdvisorReach(s, turn) /\ X = {x \in Xiangqi!AdvisorReach(Turned(s), foe) : ~Xiangqi!Own(c, x, foe)}
  BY <1>4, PseudoMovesAre
<1>6. /\ t \in Xiangqi!PawnReach(b, s, turn) => Turned(t) \in Xiangqi!PawnReach(c, Turned(s), foe)
      /\ t \in Xiangqi!KingReach(b, s, turn) => Turned(t) \in Xiangqi!KingReach(c, Turned(s), foe)
      /\ t \in Xiangqi!RookReach(b, s) => Turned(t) \in Xiangqi!RookReach(c, Turned(s))
      /\ t \in Xiangqi!CannonReach(b, s) => Turned(t) \in Xiangqi!CannonReach(c, Turned(s))
      /\ t \in Xiangqi!HorseReach(b, s) => Turned(t) \in Xiangqi!HorseReach(c, Turned(s))
      /\ t \in Xiangqi!ElephantReach(b, s, turn) => Turned(t) \in Xiangqi!ElephantReach(c, Turned(s), foe)
      /\ t \in Xiangqi!AdvisorReach(s, turn) => Turned(t) \in Xiangqi!AdvisorReach(Turned(s), foe)
  BY <1>2, PawnTurned, KingTurned, RookTurned, CannonTurned, HorseTurned, ElephantTurned, AdvisorTurned
<1> HIDE DEF k, foe, X
<1>7. Turned(t) \in X
  BY <1>3, <1>4, <1>5, <1>6 DEF Xiangqi!Kinds
<1> QED BY <1>7 DEF X, foe

LEMMA MirrorMoved ==
    ASSUME NEW b, NEW c, Mirror(b, c), NEW s \in DOMAIN b, NEW t \in Xiangqi!Cells
    PROVE  Mirror(Xiangqi!Moved(b, <<s, t>>), Xiangqi!Moved(c, <<Turned(s), Turned(t)>>))
<1> DEFINE d == Xiangqi!Moved(b, <<s, t>>)
           e == Xiangqi!Moved(c, <<Turned(s), Turned(t)>>)
<1>1. /\ s \in Xiangqi!Cells /\ Turned(s) \in DOMAIN c /\ Turned(s) \in Xiangqi!Cells /\ Turned(t) \in Xiangqi!Cells
      /\ Turned(Turned(s)) = s /\ Turned(Turned(t)) = t /\ Xiangqi!Standing(b) /\ Xiangqi!Standing(c)
  BY MirrorPiece, TurnedIs DEF Mirror
<1>2. /\ DOMAIN d = (DOMAIN b \ {s}) \cup {t} /\ d[t] = b[s]
      /\ \A q \in DOMAIN b \ {s, t} : d[q] = b[q]
  BY MovedIs
<1>3. /\ DOMAIN e = (DOMAIN c \ {Turned(s)}) \cup {Turned(t)} /\ e[Turned(t)] = c[Turned(s)]
      /\ \A q \in DOMAIN c \ {Turned(s), Turned(t)} : e[q] = c[q]
  <2> DEFINE u == Turned(s)
             v == Turned(t)
  <2>1. u \in DOMAIN c
    BY <1>1
  <2> HIDE DEF u, v
  <2>2. LET a == Xiangqi!Moved(c, <<u, v>>)
        IN  DOMAIN a = (DOMAIN c \ {u}) \cup {v} /\ a[v] = c[u] /\ \A q \in DOMAIN c \ {u, v} : a[q] = c[q]
    BY <2>1, MovedIs
  <2> QED BY <2>2, Zenon DEF u, v
<1> HIDE DEF d, e
<1>4. Xiangqi!Standing(d) /\ Xiangqi!Standing(e)
  BY <1>1, <1>2, <1>3 DEF Xiangqi!Standing
<1>5. \A q \in Xiangqi!Cells : /\ Turned(q) = Turned(s) <=> q = s
                               /\ Turned(q) = Turned(t) <=> q = t
  BY <1>1, TurnedIs
<1>0. \A q \in Xiangqi!Cells : q \in DOMAIN b <=> Turned(q) \in DOMAIN c
  BY DEF Mirror
<1>6. ASSUME NEW q \in Xiangqi!Cells PROVE q \in DOMAIN d <=> Turned(q) \in DOMAIN e
  <2>1. (Turned(q) = Turned(s) <=> q = s) /\ (Turned(q) = Turned(t) <=> q = t) /\ (q \in DOMAIN b <=> Turned(q) \in DOMAIN c)
    BY <1>0, <1>5
  <2>2. q \in DOMAIN d <=> (q \in DOMAIN b /\ q # s) \/ q = t
    BY <1>2
  <2>3. Turned(q) \in DOMAIN e <=> (Turned(q) \in DOMAIN c /\ Turned(q) # Turned(s)) \/ Turned(q) = Turned(t)
    BY <1>3
  <2> QED BY <2>1, <2>2, <2>3
<1>7. ASSUME NEW q \in DOMAIN d PROVE e[Turned(q)] = <<Xiangqi!Other(d[q][1]), d[q][2]>>
  <2>1. CASE q = t
    BY <1>2, <1>3, <2>1 DEF Mirror
  <2>2. CASE q # t
    <3>1. q \in DOMAIN b \ {s, t} /\ q \in Xiangqi!Cells
      BY <1>1, <1>2, <2>2 DEF Xiangqi!Standing
    <3>2. Turned(q) \in DOMAIN c \ {Turned(s), Turned(t)}
      <4>1. Turned(q) # Turned(s) /\ Turned(q) # Turned(t) /\ Turned(q) \in DOMAIN c
        BY <1>0, <1>5, <3>1
      <4> QED BY <4>1
    <3> QED BY <1>2, <1>3, <3>1, <3>2 DEF Mirror
  <2> QED BY <2>1, <2>2
<1> QED BY <1>4, <1>6, <1>7 DEF Mirror, d, e

LEMMA MirrorGenerals ==
    ASSUME NEW b, NEW c, Mirror(b, c), NEW turn \in Xiangqi!Sides, NEW g \in Xiangqi!Generals(b, turn)
    PROVE  Turned(g) \in Xiangqi!Generals(c, Xiangqi!Other(turn)) /\ g \in Xiangqi!Cells /\ Turned(Turned(g)) = g
  BY MirrorPiece DEF Mirror, Xiangqi!Generals

LEMMA MirrorFace ==
    ASSUME NEW b, NEW c, Mirror(b, c), Xiangqi!GeneralsFace(b)
    PROVE  Xiangqi!GeneralsFace(c)
<1>1. PICK s \in Xiangqi!Generals(b, "w"), t \in Xiangqi!Generals(b, "b") : s[2] = t[2] /\ Xiangqi!Screens(b, s, t) = 0
  BY DEF Xiangqi!GeneralsFace
<1>2. /\ Turned(s) \in Xiangqi!Generals(c, "b") /\ Turned(t) \in Xiangqi!Generals(c, "w") /\ s \in Xiangqi!Cells /\ t \in Xiangqi!Cells
  BY MirrorGenerals DEF Xiangqi!Sides, Xiangqi!Other
<1>3. Turned(s)[2] = Turned(t)[2] /\ Turned(s) \in Xiangqi!Cells /\ Turned(t) \in Xiangqi!Cells
  BY <1>1, <1>2, TurnedIs
<1>4. Xiangqi!Screens(c, Turned(t), Turned(s)) = 0
  BY <1>1, <1>2, <1>3, MirrorScreens, ScreensBothWays
<1> QED BY <1>2, <1>3, <1>4 DEF Xiangqi!GeneralsFace

LEMMA MirrorCheck ==
    ASSUME NEW b, NEW c, Mirror(b, c), NEW turn \in Xiangqi!Sides, Xiangqi!InCheck(b, turn)
    PROVE  Xiangqi!InCheck(c, Xiangqi!Other(turn))
<1>1. Xiangqi!Other(turn) \in Xiangqi!Sides /\ Xiangqi!Other(Xiangqi!Other(turn)) = turn /\ Xiangqi!Other(turn) # turn
  BY OtherSide
<1>2. CASE Xiangqi!Generals(b, turn) = {}
  <2>1. ASSUME NEW g \in Xiangqi!Generals(c, Xiangqi!Other(turn)) PROVE FALSE
    <3>1. Turned(g) \in Xiangqi!Generals(b, turn)
      BY <1>1, MirrorBack, MirrorGenerals
    <3> QED BY <1>2, <3>1
  <2> QED BY <2>1 DEF Xiangqi!InCheck
<1>3. ASSUME NEW s \in DOMAIN b, b[s][1] # turn, NEW g \in Xiangqi!PseudoMoves(b, s, Xiangqi!Other(turn)), g \in Xiangqi!Generals(b, turn)
      PROVE  Xiangqi!InCheck(c, Xiangqi!Other(turn))
  <2>1. Turned(g) \in Xiangqi!Generals(c, Xiangqi!Other(turn))
    BY <1>3, MirrorGenerals
  <2>2. Turned(g) \in Xiangqi!PseudoMoves(c, Turned(s), Xiangqi!Other(Xiangqi!Other(turn)))
    BY <1>1, MirrorReach
  <2>3. Turned(s) \in DOMAIN c /\ c[Turned(s)][1] # Xiangqi!Other(turn)
    <3>1. Turned(s) \in DOMAIN c /\ c[Turned(s)][1] = Xiangqi!Other(b[s][1]) /\ b[s][1] \in Xiangqi!Sides
      BY MirrorPiece
    <3> QED BY <1>3, <3>1 DEF Xiangqi!Sides, Xiangqi!Other
  <2> QED BY <2>1, <2>2, <2>3 DEF Xiangqi!InCheck
<1> QED BY <1>2, <1>3 DEF Xiangqi!InCheck

LEMMA MirrorLegal ==
    ASSUME NEW b, NEW c, Mirror(b, c), NEW turn \in Xiangqi!Sides, NEW m \in Xiangqi!LegalMoves(b, turn)
    PROVE  <<Turned(m[1]), Turned(m[2])>> \in Xiangqi!LegalMoves(c, Xiangqi!Other(turn))
<1> DEFINE s == m[1]
           t == m[2]
           n == <<Turned(s), Turned(t)>>
           foe == Xiangqi!Other(turn)
<1>1. /\ m = <<s, t>> /\ s \in DOMAIN b /\ b[s][1] = turn /\ t \in Xiangqi!PseudoMoves(b, s, turn) /\ t \in Xiangqi!Cells
      /\ ~Xiangqi!GeneralsFace(Xiangqi!Moved(b, m)) /\ ~Xiangqi!InCheck(Xiangqi!Moved(b, m), turn)
  BY LegalIs DEF Mirror
<1> HIDE DEF s, t
<1>2. Mirror(Xiangqi!Moved(b, m), Xiangqi!Moved(c, n))
  BY <1>1, MirrorMoved
<1>3. Mirror(Xiangqi!Moved(c, n), Xiangqi!Moved(b, m))
  BY <1>2, MirrorBack
<1>4. foe \in Xiangqi!Sides /\ Xiangqi!Other(foe) = turn
  BY OtherSide
<1>5. ~Xiangqi!GeneralsFace(Xiangqi!Moved(c, n)) /\ ~Xiangqi!InCheck(Xiangqi!Moved(c, n), foe)
  BY <1>1, <1>3, <1>4, MirrorFace, MirrorCheck
<1>6. Turned(s) \in DOMAIN c /\ c[Turned(s)][1] = foe
  BY <1>1, MirrorPiece
<1>7. Turned(t) \in Xiangqi!PseudoMoves(c, Turned(s), foe)
  BY <1>1, MirrorReach
<1> HIDE DEF foe
<1>8. n \in UNION {{q} \X Xiangqi!PseudoMoves(c, q, foe) : q \in {p \in DOMAIN c : c[p][1] = foe}}
  BY <1>6, <1>7
<1>9. n \in Xiangqi!LegalMoves(c, foe)
  BY <1>5, <1>8 DEF Xiangqi!LegalMoves, Xiangqi!LeavesInCheck
<1> QED BY <1>9 DEF foe, s, t

LEMMA BoardTurned == ASSUME NEW b, Xiangqi!Standing(b) PROVE Mirror(b, Xiangqi!TurnedBoard(b))
<1> DEFINE c == Xiangqi!TurnedBoard(b)
<1>1. DOMAIN c = {Turned(q) : q \in DOMAIN b} /\ \A s \in DOMAIN c : c[s] = <<Xiangqi!Other(b[Turned(s)][1]), b[Turned(s)][2]>>
  BY DEF Xiangqi!TurnedBoard, Turned
<1>2. \A q \in DOMAIN b : q \in Xiangqi!Cells /\ Turned(q) \in Xiangqi!Cells /\ Turned(Turned(q)) = q /\ b[q][1] \in Xiangqi!Sides /\ b[q][2] \in Xiangqi!Kinds
  BY TurnedIs, PieceIs DEF Xiangqi!Standing
<1> HIDE DEF c
<1>3. \A q \in DOMAIN b : c[Turned(q)] = <<Xiangqi!Other(b[q][1]), b[q][2]>>
  BY <1>1, <1>2
<1>4. Xiangqi!Standing(c)
  <2>1. ASSUME NEW s \in DOMAIN c PROVE s \in Xiangqi!Cells /\ c[s] \in Xiangqi!Pieces
    <3>1. PICK q \in DOMAIN b : s = Turned(q)
      BY <1>1
    <3>2. Xiangqi!Other(b[q][1]) \in Xiangqi!Sides
      BY <1>2, OtherSide
    <3> QED BY <1>2, <1>3, <3>1, <3>2 DEF Xiangqi!Pieces, Xiangqi!Sides
  <2> QED BY <2>1 DEF Xiangqi!Standing
<1>5. ASSUME NEW q \in Xiangqi!Cells PROVE q \in DOMAIN b <=> Turned(q) \in DOMAIN c
  <2>1. ASSUME Turned(q) \in DOMAIN c PROVE q \in DOMAIN b
    <3>1. PICK p \in DOMAIN b : Turned(q) = Turned(p)
      BY <1>1, <2>1
    <3>2. q = p
      BY <1>2, <3>1, TurnedIs
    <3> QED BY <3>2
  <2> QED BY <1>1, <2>1
<1> QED BY <1>3, <1>4, <1>5 DEF Mirror, c

\* The rules treat both sides alike.
LEMMA LegalMovesTurned ==
    ASSUME NEW b, Xiangqi!Standing(b), NEW turn \in Xiangqi!Sides
    PROVE  Xiangqi!LegalMoves(Xiangqi!TurnedBoard(b), Xiangqi!Other(turn))
             = {<<Xiangqi!Turned(m[1]), Xiangqi!Turned(m[2])>> : m \in Xiangqi!LegalMoves(b, turn)}
<1> DEFINE c == Xiangqi!TurnedBoard(b)
           foe == Xiangqi!Other(turn)
<1>1. Mirror(b, c) /\ Mirror(c, b) /\ Xiangqi!Standing(c)
  BY BoardTurned, MirrorBack DEF Mirror
<1>2. foe \in Xiangqi!Sides /\ Xiangqi!Other(foe) = turn
  BY OtherSide
<1> HIDE DEF c, foe
<1>3. \A m \in Xiangqi!LegalMoves(b, turn) : <<Turned(m[1]), Turned(m[2])>> \in Xiangqi!LegalMoves(c, foe)
  BY <1>1, MirrorLegal DEF foe
<1>4. ASSUME NEW n \in Xiangqi!LegalMoves(c, foe)
      PROVE  \E m \in Xiangqi!LegalMoves(b, turn) : n = <<Turned(m[1]), Turned(m[2])>>
  <2>1. <<Turned(n[1]), Turned(n[2])>> \in Xiangqi!LegalMoves(b, turn)
    BY <1>1, <1>2, MirrorLegal
  <2>2. n = <<n[1], n[2]>> /\ n[1] \in Xiangqi!Cells /\ n[2] \in Xiangqi!Cells
    BY <1>1, LegalIs DEF Xiangqi!Standing
  <2>3. Turned(Turned(n[1])) = n[1] /\ Turned(Turned(n[2])) = n[2]
    BY <2>2, TurnedIs
  <2> DEFINE m == <<Turned(n[1]), Turned(n[2])>>
  <2>4. m[1] = Turned(n[1]) /\ m[2] = Turned(n[2])
    OBVIOUS
  <2>5. n = <<Turned(m[1]), Turned(m[2])>>
    BY <2>2, <2>3, <2>4
  <2> HIDE DEF m
  <2> QED BY <2>1, <2>5 DEF m
<1>5. Xiangqi!LegalMoves(c, foe) = {<<Turned(m[1]), Turned(m[2])>> : m \in Xiangqi!LegalMoves(b, turn)}
  BY <1>3, <1>4
<1> QED BY <1>5 DEF c, foe, Turned

\* A position is check by the moves of the enemy's pieces exactly when it is seen from the general, and turning the
\* board and the colours turns the legal moves (rule_engine.py).
LEMMA RulesAlwaysAgree == ASSUME XiangqiInv PROVE Xiangqi!RulesAgree
<1>1. Xiangqi!InPlay(position.board, position.turn) /\ Xiangqi!Standing(position.board) /\ position.turn \in Xiangqi!Sides
  BY DEF XiangqiInv, Xiangqi!InPlay
<1>2. \A turn \in {"w", "b"} : Xiangqi!InCheck(position.board, turn) = Xiangqi!Attacked(position.board, turn)
  BY <1>1, CheckIsSeen DEF Xiangqi!Sides
<1>3. Xiangqi!LegalMoves(Xiangqi!TurnedBoard(position.board), Xiangqi!Other(position.turn))
        = {<<Xiangqi!Turned(m[1]), Xiangqi!Turned(m[2])>> : m \in Xiangqi!LegalMoves(position.board, position.turn)}
  BY <1>1, LegalMovesTurned
<1> QED BY <1>2, <1>3 DEF Xiangqi!RulesAgree

=============================================================================
