----------------------------- MODULE TMflowLink -----------------------------
(* The JSON link to the robot: tmflow_json_adapter.py over tmflow_json_client *)
(* .py and the messages of tmflow_json_protocol.py.  Threads of the robot     *)
(* service share one adapter: its re-entrant lock covers one exchange, from   *)
(* the command sent to its last answer, and ping() does not wait for it.  The *)
(* robot answers late or not at all, and the socket can close at any point.   *)
(* Payloads, wire formats and wording are left out.  A command's id holds the *)
(* second it was made in and a count modulo 999, so it is taken as fresh.     *)
EXTENDS Naturals, Sequences

CONSTANTS Caller,       \* the threads that call the adapter
          MaxCommands,  \* bound: no call begins after so many commands
          MaxSockets,   \* bound on the sockets opened
          RequireHello  \* ROBOT_TMFLOW_REQUIRE_HELLO

NoOne == "no caller"
Refusals == {"ERROR", "REJECTED", "BUSY"}
Final == Refusals \cup {"DONE"}

VARIABLES fake,       \* FAKE_ROBOT
          connected,  \* what the adapter believes of the link
          socket,     \* [nr, open]: the client's socket and whether its peer holds it
          inbox,      \* answers on their way, or in _rx_buffer
          seq,        \* the last command id
          lock,       \* the caller inside the adapter's lock
          call,       \* per caller [op, at, rest, id]: the call it makes
          claimed,    \* ids of the motions for which a call returned True
          robot,      \* [todo, doing]: the commands the robot holds
          carried     \* ids of the motions the robot has carried out

vars == <<fake, connected, socket, inbox, seq, lock, call, claimed, robot, carried>>

Idle == [op |-> "none", at |-> "idle", rest |-> <<>>, id |-> 0]
NoTask == [id |-> 0, name |-> "none", nr |-> 0]

TypeOK ==
  /\ fake \in BOOLEAN /\ connected \in BOOLEAN
  /\ socket \in [nr : 0..MaxSockets, open : BOOLEAN]
  /\ \A i \in DOMAIN inbox : inbox[i] \in [id : 1..seq, status : Final \cup {"ACK"}]
  /\ seq \in Nat
  /\ lock \in Caller \cup {NoOne}
  /\ \A c \in Caller : call[c].at \in {"idle", "connect", "request", "send", "ack", "final"}
  /\ \A c \in Caller : (lock = c) <=> (call[c].at \in {"send", "ack", "final"})
  /\ carried \cup claimed \subseteq 1..seq

Init ==
  /\ fake \in BOOLEAN /\ connected = FALSE
  /\ socket = [nr |-> 0, open |-> FALSE] /\ inbox = <<>> /\ seq = 0 /\ lock = NoOne
  /\ call = [c \in Caller |-> Idle]
  /\ claimed = {}
  /\ robot = [todo |-> <<>>, doing |-> NoTask] /\ carried = {}

Robot == <<robot, carried>>
Link == <<connected, socket, inbox, seq>>

(* connect(): HELLO when it is required, then GET_STATE; neither answer's     *)
(* status is looked at                                                        *)
Greeting == (IF RequireHello THEN <<"HELLO">> ELSE <<>>) \o <<"GET_STATE">>

Enter(c, op, at, rest) ==
  call' = [call EXCEPT ![c] = [op |-> op, at |-> at, rest |-> rest, id |-> 0]]

Return(c, v) ==
  /\ call' = [call EXCEPT ![c] = Idle]
  /\ claimed' = IF v /\ call[c].op = "motion" THEN claimed \cup {call[c].id} ELSE claimed

(* send_motion(), set_gripper(): connect first when there is no link *)
MotionBegins(c) ==
  /\ call[c].at = "idle" /\ seq < MaxCommands
  /\ IF fake
       THEN connected' = TRUE /\ UNCHANGED <<call, claimed>>
       ELSE /\ IF connected THEN Enter(c, "motion", "request", <<"MOVE">>)
                            ELSE Enter(c, "motion", "connect", Greeting)
            /\ UNCHANGED <<connected, claimed>>
  /\ UNCHANGED <<fake, socket, inbox, seq, lock, Robot>>

ConnectBegins(c) ==
  /\ call[c].at = "idle" /\ seq < MaxCommands
  /\ IF fake THEN connected' = TRUE /\ UNCHANGED call
             ELSE Enter(c, "connect", "connect", Greeting) /\ UNCHANGED connected
  /\ UNCHANGED <<fake, socket, inbox, seq, lock, claimed, Robot>>

(* halt() gives up without a word when there is no link, and otherwise waits  *)
(* for the exchange under way                                                 *)
HaltBegins(c) ==
  /\ call[c].at = "idle" /\ connected /\ ~fake /\ seq < MaxCommands
  /\ Enter(c, "halt", "request", <<"STOP">>)
  /\ UNCHANGED <<fake, lock, claimed, Link, Robot>>

(* ping(): no link is a no, a lock that is held a yes *)
PingBegins(c) ==
  /\ call[c].at = "idle" /\ seq < MaxCommands
  /\ IF connected /\ ~fake /\ lock = NoOne
       THEN Enter(c, "ping", "send", <<"PING">>) /\ lock' = c
       ELSE UNCHANGED <<call, lock>>
  /\ UNCHANGED <<fake, claimed, Link, Robot>>

Disconnect(c) ==
  /\ call[c].at = "idle" /\ lock = NoOne /\ connected
  /\ connected' = FALSE /\ socket' = [socket EXCEPT !.open = FALSE] /\ inbox' = <<>>
  /\ UNCHANGED <<fake, seq, lock, call, claimed, Robot>>

(* connect() under the lock: a new client with an empty buffer *)
Open(c) ==
  /\ call[c].at = "connect" /\ lock = NoOne
  /\ \/ /\ socket.nr < MaxSockets
        /\ socket' = [nr |-> socket.nr + 1, open |-> TRUE] /\ connected' = TRUE
        /\ lock' = c /\ call' = [call EXCEPT ![c].at = "send"] /\ UNCHANGED claimed
     \/ /\ socket' = [socket EXCEPT !.open = FALSE] /\ connected' = FALSE
        /\ Return(c, FALSE) /\ UNCHANGED lock
  /\ inbox' = <<>>
  /\ UNCHANGED <<fake, seq, Robot>>

Acquire(c) ==
  /\ call[c].at = "request" /\ lock = NoOne
  /\ lock' = c /\ call' = [call EXCEPT ![c].at = "send"]
  /\ UNCHANGED <<fake, claimed, Link, Robot>>

(* an exception: connect() closes the client and ping() drops the link; a     *)
(* motion and a halt leave the link as it is                                  *)
Fails(c) ==
  LET greets == call[c].rest # <<>> /\ call[c].rest[1] \in {"HELLO", "GET_STATE"}
  IN /\ lock' = NoOne
     /\ connected' = (connected /\ ~greets /\ call[c].op # "ping")
     /\ socket' = IF greets THEN [socket EXCEPT !.open = FALSE] ELSE socket
     /\ inbox' = IF greets THEN <<>> ELSE inbox
     /\ Return(c, FALSE)
     /\ UNCHANGED <<fake, seq, Robot>>

(* transact(): the next id, and the command on the wire.  A socket whose peer *)
(* is gone takes it or raises.                                                *)
Send(c) ==
  LET name == Head(call[c].rest)
  IN /\ call[c].at = "send"
     /\ \/ /\ seq' = seq + 1
           /\ call' = [call EXCEPT ![c].id = seq + 1,
                                   ![c].at = IF name = "MOVE" THEN "ack" ELSE "final"]
           /\ robot' = IF socket.open
                         THEN [robot EXCEPT !.todo = Append(@, [id |-> seq + 1,
                                               name |-> name, nr |-> socket.nr])]
                         ELSE robot
           /\ UNCHANGED <<fake, connected, socket, inbox, lock, claimed, carried>>
        \/ ~socket.open /\ Fails(c)

(* the end of an exchange; connect() goes on to its next request, and a       *)
(* motion that had to connect gives the lock back in between                  *)
Answered(c, status) ==
  LET rest == Tail(call[c].rest)
      value == IF call[c].op = "motion" THEN status = "DONE" ELSE status \notin Refusals
      greeted == call[c].rest = <<"GET_STATE">>
  IN IF rest # <<>>
       THEN call' = [call EXCEPT ![c].rest = rest, ![c].at = "send"] /\ UNCHANGED <<lock, claimed>>
     ELSE IF greeted /\ call[c].op = "motion"
       THEN Enter(c, "motion", "request", <<"MOVE">>) /\ lock' = NoOne /\ UNCHANGED claimed
     ELSE Return(c, greeted \/ value) /\ lock' = NoOne

(* _read_matching_response() *)
Matches(c, m) == m.id = call[c].id

(* An answer is read.  One with another id is thrown away; DONE before ACK is *)
(* an error.                                                                  *)
Hear(c) ==
  LET m == Head(inbox)
  IN /\ call[c].at \in {"ack", "final"} /\ inbox # <<>>
     /\ IF call[c].at = "ack" /\ Matches(c, m) /\ m.status = "DONE"
          THEN \* the exception leaves what is on the wire where it is
               /\ lock' = NoOne /\ inbox' = Tail(inbox) /\ Return(c, FALSE)
          ELSE /\ inbox' = Tail(inbox)
               /\ IF ~Matches(c, m) THEN UNCHANGED <<call, lock, claimed>>
                  ELSE IF m.status = "ACK"
                    THEN call' = [call EXCEPT ![c].at = "final"] /\ UNCHANGED <<lock, claimed>>
                  ELSE Answered(c, m.status)
     /\ UNCHANGED <<fake, connected, socket, seq, Robot>>

(* the acknowledgement's deadline, then the last answer's, or a closed socket *)
AckTimeout(c) == call[c].at = "ack" /\ Fails(c)

\* Mutant: the deadline is looked at only when something was read.
DoneTimeoutOnMessage(c) == call[c].at = "final" /\ inbox # <<>> /\ Fails(c)

DoneTimeout(c) == call[c].at = "final" /\ Fails(c)
PeerGone(c) ==
  /\ call[c].at \in {"ack", "final"} /\ ~socket.open /\ inbox = <<>>
  /\ Fails(c)

(* --- the robot (TMflow's listener), as the client and its tests use it ---- *)
Posted(t, status) ==
  IF t.nr = socket.nr /\ socket.open THEN Append(inbox, [id |-> t.id, status |-> status])
                                     ELSE inbox

RobotTakes ==
  LET t == Head(robot.todo)
  IN /\ robot.todo # <<>> /\ ~(t.name = "MOVE" /\ robot.doing # NoTask)
     /\ \E s \in {"ACK", "DONE", "REJECTED"} :
          /\ s = "ACK" => t.name = "MOVE"
          /\ inbox' = Posted(t, s)
          /\ robot' = [todo |-> Tail(robot.todo),
                       doing |-> IF s = "ACK" THEN t
                                 ELSE IF t.name = "STOP" /\ s = "DONE" THEN NoTask
                                 ELSE robot.doing]
          /\ carried' = IF s = "DONE" /\ t.name = "MOVE" THEN carried \cup {t.id} ELSE carried
     /\ UNCHANGED <<fake, connected, socket, seq, lock, call, claimed>>

RobotEnds ==
  /\ robot.doing # NoTask
  /\ \E s \in {"DONE", "ERROR"} :
       /\ inbox' = Posted(robot.doing, s)
       /\ carried' = IF s = "DONE" THEN carried \cup {robot.doing.id} ELSE carried
  /\ robot' = [robot EXCEPT !.doing = NoTask]
  /\ UNCHANGED <<fake, connected, socket, seq, lock, call, claimed>>

RobotDrops ==
  /\ socket.open /\ socket' = [socket EXCEPT !.open = FALSE]
  /\ UNCHANGED <<fake, connected, inbox, seq, lock, call, claimed, Robot>>

Begins(c) == MotionBegins(c) \/ ConnectBegins(c) \/ HaltBegins(c) \/ PingBegins(c) \/ Disconnect(c)
Goes(c) == Open(c) \/ Acquire(c) \/ Send(c) \/ Hear(c)
GivesUp(c) == AckTimeout(c) \/ DoneTimeout(c) \/ PeerGone(c)

Next ==
  \/ \E c \in Caller : Begins(c) \/ Goes(c) \/ GivesUp(c)
  \/ RobotTakes \/ RobotEnds \/ RobotDrops

Spec == Init /\ [][Next]_vars

(* Every thread runs on, and the deadlines pass. *)
Fair == \A c \in Caller : WF_vars(Goes(c)) /\ WF_vars(AckTimeout(c)) /\ WF_vars(DoneTimeout(c))

(* A motion that returns True is one the robot has carried out, whatever      *)
(* answers of earlier commands were still on the wire                         *)
(* (tmflow_json_client.py:115).                                               *)
SuccessMeansDone == claimed \subseteq carried

(* A stop that was asked for while the link was up is not held up for ever    *)
(* behind the motion that holds the lock: every call comes back               *)
(* (tmflow_json_adapter.py:192).                                              *)
CallsReturn == \A c \in Caller : call[c].at # "idle" ~> call[c].at = "idle"

=============================================================================
