----------------------------- MODULE PlayerPage -----------------------------
(***************************************************************************)
(* The player's page and the button that sends the AI's move to the arm.   *)
(* The page shows a copy of the store: snapshots pushed over the socket,   *)
(* and the answers of requests, applied in the order they arrive and       *)
(* without looking at their age.  A click locks the button until the arm   *)
(* was seen busy and idle again, or a timer says so.                       *)
(*                                                                         *)
(* Positions are numbered; black, the AI, is to move in the odd ones.      *)
(* AUTO_EXECUTE_ROBOT is off.  The camera and the arm are external.        *)
(***************************************************************************)
EXTENDS Naturals, Sequences

CONSTANTS
    None,
    MaxPos,    \* bound: moves made on the board
    MaxQueue,  \* bound: events on the loop, besides one of the status worker
    MaxWire    \* bound: messages in the socket

VARIABLES
    store,      \* position, bestmove (the position it was computed for), busy, status, result
    events,     \* what the bus has handed to the loop
    engine,     \* is the polling worker enabled?
    arm,        \* the job: none, accepted, moving or verify
    beat,       \* RobotStatusWorker: the busy flag it has read
    wire,       \* what the socket carries to the page
    late,       \* a snapshot read for a request or a new connection, not applied yet, or None
    http,       \* POST /robot/execute-ready-move: none, sent, or its answer
    page,       \* started; the lock of the button and its timers
    view        \* what the page reads of state.snapshot: ready, busy, ended

vars == <<store, events, engine, arm, beat, wire, late, http, page, view>>
server == <<store, events, engine, arm, beat>>
net == <<wire, late>>

Fresh == [pos |-> 0, best |-> None, busy |-> FALSE, over |-> FALSE, result |-> FALSE]
\* isRobotMoveReady, isRobotBusy and isGameEnded of a snapshot: black is to move and
\* there is a best move, for whichever position it is.
Seen(s) == [ready |-> s.pos % 2 = 1 /\ s.best # None, busy |-> s.busy, ended |-> s.over \/ s.result]
Unlocked == [active |-> FALSE, accepted |-> FALSE, sawBusy |-> FALSE, grace |-> FALSE, timer |-> FALSE]

Init ==
    /\ store = Fresh /\ events = <<>>
    /\ engine = FALSE
    /\ arm = "none" /\ beat = None
    /\ wire = <<>> /\ late = None
    /\ http = "none"
    /\ page = [started |-> FALSE, lock |-> Unlocked]
    /\ view = Seen(Fresh)

-----------------------------------------------------------------------------
(* The store: events are reduced on the loop, one after another *)

Publish(kind, n) ==
    /\ Len(events) < MaxQueue
    /\ events' = Append(events, [kind |-> kind, n |-> n])

Reduced(s, e) ==
    CASE e.kind = "analysis" -> [s EXCEPT !.best = e.n, !.over = FALSE]
      [] e.kind = "started"  -> [s EXCEPT !.busy = TRUE, !.over = FALSE]
      [] e.kind = "completed" -> [s EXCEPT !.busy = FALSE, !.over = FALSE]
      [] e.kind = "status"   -> [s EXCEPT !.busy = (e.n = 1)]
      [] e.kind = "over"     -> [s EXCEPT !.over = TRUE, !.result = TRUE]
      [] e.kind = "move"     -> IF s.over THEN s ELSE [s EXCEPT !.pos = e.n, !.result = FALSE]

\* Mutant: only a change of a field is broadcast.
BroadcastsChanges(s, e) == Reduced(s, e) # s
\* A reducer builds a new state even when no field has changed; only a move after
\* the end leaves the old one.
Broadcasts(s, e) == ~(e.kind = "move" /\ s.over)
Reduce ==
    /\ events # <<>> /\ Len(wire) < MaxWire
    /\ store' = Reduced(store, Head(events))
    /\ wire' = IF Broadcasts(store, Head(events)) THEN Append(wire, Seen(store')) ELSE wire
    /\ events' = Tail(events)
    /\ UNCHANGED <<engine, arm, beat, late, http, page, view>>

Outside == UNCHANGED <<store, net, http, page, view>>

\* A stable recognition, asked for by the player.
PlayerMoves ==
    /\ page.started /\ arm = "none" /\ store.pos % 2 = 0 /\ store.pos < MaxPos
    /\ \A i \in DOMAIN events : events[i].kind # "move"
    /\ Publish("move", store.pos + 1)
    /\ UNCHANGED <<engine, arm, beat>> /\ Outside

\* One poll of EngineWorker; its answer is reduced later, to whatever the store is then.
EnginePolls ==
    /\ engine /\ engine' = ~store.over
    /\ IF store.over THEN UNCHANGED events ELSE Publish("analysis", store.pos)
    /\ UNCHANGED <<arm, beat>> /\ Outside

\* The actuation worker; a command that fails publishes ROBOT_MOVE_COMPLETED too.
ArmStarts == arm = "accepted" /\ arm' = "moving" /\ Publish("started", 0)
ArmCompletes == arm = "moving" /\ arm' \in {"verify", "none"} /\ Publish("completed", 0)
Verified == /\ arm = "verify" /\ arm' = "none"
            /\ IF store.pos < MaxPos THEN Publish("move", store.pos + 1) ELSE UNCHANGED events
VerificationFails == arm = "verify" /\ arm' = "none" /\ UNCHANGED events
Arm == /\ ArmStarts \/ ArmCompletes \/ Verified \/ VerificationFails
       /\ UNCHANGED <<engine, beat>> /\ Outside

\* RobotStatusWorker, once a second: what it read may be old when it is published.
BeatReads ==
    /\ beat = None /\ beat' = (IF arm = "moving" THEN 1 ELSE 0)
    /\ UNCHANGED <<events, engine, arm>> /\ Outside
BeatPublishes ==
    /\ beat # None /\ beat' = None
    /\ \A i \in DOMAIN events : events[i].kind # "status"   \* a place of its own on the loop
    /\ events' = Append(events, [kind |-> "status", n |-> beat])
    /\ UNCHANGED <<engine, arm>> /\ Outside

-----------------------------------------------------------------------------
(* The requests of the page *)

\* execute_ready_robot_move: nothing but the shape of the best move is checked.
Accepts == arm = "none" /\ store.best # None
ExecuteReadyMove ==
    /\ http = "sent" /\ http' = (IF Accepts THEN "yes" ELSE "no")
    /\ arm' = (IF Accepts THEN "accepted" ELSE arm)
    /\ UNCHANGED <<store, events, engine, beat, net, page, view>>

\* GET /player/state, and the snapshot for a new connection: read now, applied later
\* or lost.  One of them is on its way at a time.
Answers(s) == late = None /\ late' = Seen(s)
LateLost == late # None /\ late' = None
            /\ UNCHANGED <<server, wire, http, page, view>>

\* The connection breaks and is made again: what was sent meanwhile is lost, and the
\* new connection is sent the state.
Reconnect ==
    /\ wire' = <<>> /\ Answers(store)
    /\ UNCHANGED <<server, http, page, view>>

-----------------------------------------------------------------------------
(* The page *)

\* updateRobotStartButton
Startable(p, v) ==
    p.started /\ ~v.ended /\ ~v.busy /\ v.ready /\ ~p.lock.active

Shows(p, v) == page' = p /\ view' = v

\* releaseRobotPlayRequest; how long the cooldown lasts is left open.
Released(p) == [p EXCEPT !.lock = Unlocked]
\* syncRobotPlayRequestWithRobotStatus
Synced(p, v) ==
    IF ~(p.lock.active /\ p.lock.accepted) THEN p
    ELSE IF v.busy THEN [p EXCEPT !.lock.sawBusy = TRUE]
    ELSE IF p.lock.sawBusy \/ p.lock.grace THEN Released(p) ELSE p

\* commit("STATE_UPDATE"): from the socket, or the answer of a request.
Receive ==
    /\ wire # <<>> /\ wire' = Tail(wire)
    /\ Shows(Synced(page, Head(wire)), Head(wire))
    /\ UNCHANGED <<server, late, http>>
LateArrives ==
    /\ late # None /\ late' = None
    /\ Shows(Synced(page, late), late)
    /\ UNCHANGED <<server, wire, http>>

\* startPlayerGame; a failed preflight changes nothing.
StartPlayerGame ==
    /\ ~page.started
    /\ Shows([page EXCEPT !.started = TRUE], view)
    /\ engine' = TRUE
    /\ Answers(store)
    /\ UNCHANGED <<store, events, arm, beat, wire, http>>

\* endPlayerGame and player_end_game: the answer tells the game has ended, before
\* the store does.
EndPlayerGame ==
    /\ page.started /\ ~view.ended
    /\ Publish("over", 0)
    /\ engine' = FALSE
    /\ Answers([store EXCEPT !.over = TRUE, !.result = TRUE])
    /\ UNCHANGED <<store, arm, beat, wire, http, page, view>>

\* startRobotArmFlow, confirmed: nothing but the button keeps a second request back.
StartRobotArmFlow ==
    /\ Startable(page, view) /\ http = "none"
    /\ http' = "sent"
    /\ Shows([page EXCEPT !.lock = [Unlocked EXCEPT !.active = TRUE, !.sawBusy = view.busy]], view)
    /\ UNCHANGED <<server, net>>

Locked(p, v, timer) ==
    [p EXCEPT !.lock.accepted = TRUE, !.lock.sawBusy = v.busy, !.lock.grace = FALSE,
              !.lock.timer = timer]
\* Mutant: the lock's timer is not set.
AnsweredUntimed ==
    /\ http \in {"yes", "no"} /\ http' = "none"
    /\ Shows(IF http = "yes" THEN Locked(page, view, FALSE) ELSE Released(page), view)
    /\ UNCHANGED <<server, net>>
\* markRobotPlayAccepted, or an error.
Answered ==
    /\ http \in {"yes", "no"} /\ http' = "none"
    /\ Shows(IF http = "yes" THEN Locked(page, view, TRUE) ELSE Released(page), view)
    /\ UNCHANGED <<server, net>>

\* apiFetch aborts after nine seconds, whether the server has served the request or not.
RequestTimesOut ==
    /\ http # "none" /\ http' = "none"
    /\ Shows(Released(page), view)
    /\ UNCHANGED <<server, net>>

GraceElapses ==
    /\ page.lock.accepted /\ ~page.lock.grace
    /\ page' = [page EXCEPT !.lock.grace = TRUE]
    /\ UNCHANGED <<server, net, http, view>>

ReleaseTimeout ==
    /\ page.lock.timer
    /\ Shows(Released(page), view)
    /\ UNCHANGED <<server, net, http>>

-----------------------------------------------------------------------------

Next ==
    \/ Reduce \/ PlayerMoves \/ EnginePolls \/ Arm \/ BeatReads \/ BeatPublishes
    \/ ExecuteReadyMove \/ LateLost \/ Reconnect
    \/ Receive \/ LateArrives \/ StartPlayerGame \/ EndPlayerGame \/ StartRobotArmFlow
    \/ Answered \/ RequestTimesOut \/ GraceElapses \/ ReleaseTimeout

\* The loop, the status worker and the browser's timers keep running, and what is in
\* the socket arrives.
Fair ==
    /\ WF_vars(Reduce) /\ WF_vars(BeatReads) /\ WF_vars(BeatPublishes)
    /\ WF_vars(Receive) /\ WF_vars(LateArrives \/ LateLost)
    /\ WF_vars(RequestTimesOut \/ Answered) /\ WF_vars(ReleaseTimeout)
Spec == Init /\ [][Next]_vars
FairSpec == Spec /\ Fair

-----------------------------------------------------------------------------

States == [pos : 0..MaxPos, best : (0..MaxPos) \cup {None}, busy : BOOLEAN, over : BOOLEAN,
           result : BOOLEAN]
Views == [ready : BOOLEAN, busy : BOOLEAN, ended : BOOLEAN]

TypeOK ==
    /\ store \in States /\ view \in Views /\ late \in Views \cup {None}
    /\ wire \in Seq(Views) /\ Len(wire) <= MaxWire /\ Len(events) <= MaxQueue + 1
    /\ arm \in {"none", "accepted", "moving", "verify"} /\ beat \in {None, 0, 1}
    /\ http \in {"none", "sent", "yes", "no"}
    /\ page.lock.timer => page.lock.accepted
    /\ page.lock.accepted => page.lock.active

\* The lock of the arm's button ends: a request refused, timed out, accepted and
\* carried out, or accepted and never heard of again (syncRobotPlayRequestWithRobotStatus,
\* scheduleRobotPlayReleaseTimeout, the finally of startRobotArmFlow).
ArmLockEnds == page.lock.active ~> ~page.lock.active

\* The page settles: once the connection holds and the arm is done, the page, and with
\* it the button (updateRobotStartButton), follows the store, whatever old snapshot came
\* last
\* (commit in state_manager.js; the status worker's beat brings the next one).
PageSettles == <>[](arm = "none") /\ <>[][~Reconnect]_vars => <>[](view = Seen(store))

\* The move sent to the arm is the AI's answer to the board as it stands: "Start the
\* latest AI move after an operator has confirmed the robot area is clear."
\* (execute_ready_robot_move, which startRobotArmFlow asks only when isRobotMoveReady)
ReadyMoveIsForThisBoard ==
    [][arm = "none" /\ arm' = "accepted" => store.best = store.pos]_vars
=============================================================================
