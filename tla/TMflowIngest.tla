---------------------------- MODULE TMflowIngest ----------------------------
(* The PC side of TMflow's Socket Send: tmflow_socket_ingest_server.py        *)
(* accepts connections, cuts what it receives into messages, parses and       *)
(* authorises them, and keeps the last one in tmflow_ingest_state.py, which   *)
(* the robot status shows over its own.  Each connection has a thread.        *)
(* Text is abstracted to the tokens the cutting tells apart: the first two    *)
(* characters of a pose or JSON line ("lead") and the rest of it ("body"), a  *)
(* status tag with its digits, a newline, and the two characters \n a TMflow  *)
(* string may hold instead ("lit").                                           *)
EXTENDS Naturals, Sequences, SequencesExt

CONSTANTS Client,     \* connections
          Scripts,    \* what a peer may send: sequences of tokens
          MaxStarts,  \* bound on the server's starts
          MaxAge      \* TMFLOW_INGEST_TELEMETRY_MAX_AGE_SEC, in ticks

Near == {"loopback", "lab", "stranger"}

VARIABLES policy,    \* [key, production, lab]: ingest_key, IS_PRODUCTION, ALLOW_TRUSTED_LAB_IPS
          server,    \* [running, stop, open, thread]: the flags and the accepting thread
          starts,    \* server starts so far
          active,    \* active_connections
          client,    \* per connection [at, wire, buffer, todo, from, closes]
          snapshot,  \* [pose, status, age]: what the last message told, and when
          published, \* payloads of ROBOT_STATUS_UPDATED
          failures   \* parse_failures and auth_failures, together

vars == <<policy, server, starts, active, client, snapshot, published, failures>>

Nothing == [pose |-> <<>>, status |-> <<>>, age |-> 0]

TypeOK ==
  /\ policy \in [key : BOOLEAN, production : BOOLEAN, lab : BOOLEAN]
  /\ server \in [running : BOOLEAN, stop : BOOLEAN, open : BOOLEAN, thread : BOOLEAN]
  /\ starts \in 0..MaxStarts /\ active \in Nat /\ failures \in Nat
  /\ \A c \in Client : /\ client[c].at \in {"away", "reads", "gone"}
                       /\ client[c].from \in Near
                       /\ client[c].todo # <<>> => client[c].at # "away"
  /\ snapshot.age \in 0..(MaxAge + 1)

\* What may be configured: without a key nothing is accepted in production.
Policies == [key : {FALSE}, production : {FALSE}, lab : BOOLEAN] \cup [key : {TRUE}, production : BOOLEAN, lab : {TRUE}]

Init ==
  /\ policy \in Policies
  /\ server = [running |-> FALSE, stop |-> FALSE, open |-> FALSE, thread |-> FALSE]
  /\ starts = 0 /\ active = 0 /\ failures = 0
  /\ client \in [Client -> {[at |-> "away", wire |-> w, buffer |-> <<>>, todo |-> <<>>,
                             from |-> n] : w \in Scripts, n \in Near}]
  /\ snapshot = Nothing /\ published = <<>>

(* --- cutting the buffer (_ready_socket_messages) -------------------------- *)
Newline == <<"nl", 0>>
Literal == <<"lit", 0>>
IsDigit(t) == t[1] = "digit"
IsTag(t) == t[1] = "DONE"

(* the pieces between separators; the last one is what follows the last       *)
Pieces(s, sep) ==
  LET cuts == SetToSortSeq({i \in DOMAIN s : s[i] = sep}, <)
      edge(k) == IF k = 0 THEN 0 ELSE IF k > Len(cuts) THEN Len(s) + 1 ELSE cuts[k]
  IN [k \in 1..(Len(cuts) + 1) |-> SubSeq(s, edge(k - 1) + 1, edge(k) - 1)]

(* _status_csv_records(): a new record begins at every line and every tag     *)
Records(s) ==
  LET starting == {i \in DOMAIN s : IsTag(s[i])}
      lines == SelectSeq(Pieces([i \in DOMAIN s |-> IF s[i] = Literal THEN Newline ELSE s[i]],
                                Newline), LAMBDA l : l # <<>>)
      split(l) ==
        LET tags == SetToSortSeq({i \in DOMAIN l : IsTag(l[i])}, <)
        IN IF tags = <<>> THEN <<l>>
           ELSE [k \in DOMAIN tags |->
                   SubSeq(l, tags[k], IF k = Len(tags) THEN Len(l) ELSE tags[k + 1] - 1)]
  IN IF starting = {} THEN lines ELSE FlattenSeq([k \in DOMAIN lines |-> split(lines[k])])

(* _status_record_complete(): DONE and a number after it                      *)
Complete(r) == IsTag(r[1]) /\ Len(r) >= 2 /\ \A i \in 2..Len(r) : IsDigit(r[i])

StatusReady(s) ==
  /\ \E i \in DOMAIN s : IsTag(s[i])
  /\ \A k \in DOMAIN Records(s) : Complete(Records(s)[k])

(* _split_literal_newline_messages(): the buffer is taken to end with a       *)
(* separator when its last four characters hold one, with what follows it     *)
EndsWithLiteral(s) ==
  LET n == Len(s)
  IN \/ s[n] = Literal
     \/ n > 1 /\ s[n - 1] = Literal /\ s[n][1] \in {"lead", "digit"}
     \/ n > 2 /\ s[n - 2] = Literal /\ IsDigit(s[n - 1]) /\ IsDigit(s[n])

Cut(s, sep, ends) ==
  LET p == Pieces(s, sep)
      full == SelectSeq(IF ends THEN p ELSE Front(p), LAMBDA m : m # <<>>)
  IN <<full, IF ends THEN <<>> ELSE Last(p)>>

\* Mutant: the unfinished line is handed on with the finished ones.
ReadyWithRemainder(s, force) ==
  IF Contains(s, Newline) THEN <<SelectSeq(Pieces(s, Newline), LAMBDA m : m # <<>>), <<>>>>
                          ELSE <<IF force THEN <<s>> ELSE <<>>, IF force THEN <<>> ELSE s>>

Ready(s, force) ==
  IF s = <<>> THEN <<<<>>, <<>>>>
  ELSE IF StatusReady(s) THEN <<<<s>>, <<>>>>
  ELSE IF Contains(s, Newline) THEN Cut(s, Newline, Last(s) = Newline)
  ELSE IF Contains(s, Literal) /\ Cut(s, Literal, EndsWithLiteral(s))[1] # <<>>
       THEN Cut(s, Literal, EndsWithLiteral(s))
  ELSE IF force THEN <<<<s>>, <<>>>> ELSE <<<<>>, s>>

(* --- parsing and authorising (_parse_messages, _authorized) --------------- *)
(* A pose needs six numbers: its body, with or without what was before it.    *)
(* JSON needs all of it.  Everything else raises.                             *)
Payloads(m) ==
  LET status == SelectSeq(Records(m), LAMBDA r : IsTag(r[1]))
      tail == Last(m)
  IN IF m[1] = <<"lead", "json">>
       THEN IF m = <<<<"lead", "json">>, <<"body", "json">>>> THEN <<m>> ELSE <<>>
     ELSE IF status # <<>> THEN status
     ELSE IF tail[1] = "body" /\ tail[2] # "json" THEN <<m>> ELSE <<>>

(* what a payload tells: _extract_pose() and, for a status record, the tag    *)
(* with its numbers; a JSON object tells both                                 *)
PoseOf(p) == IF IsTag(p[1]) THEN <<>> ELSE p
StatusOf(p) == IF IsTag(p[1]) \/ p[1] = <<"lead", "json">> THEN p ELSE <<>>

(* TMflowIngestState.update(): the snapshot is replaced, not merged, so that  *)
(* a status record forgets the pose                                           *)
Stored(p) == [pose |-> PoseOf(p), status |-> StatusOf(p), age |-> 0]

(* Only JSON carries a key. *)
Authorized(c, p) ==
  IF policy.key THEN p[1] = <<"lead", "json">>
  ELSE /\ ~policy.production
       /\ client[c].from = "loopback" \/ (policy.lab /\ client[c].from = "lab")

(* --- the server ----------------------------------------------------------- *)
Start ==
  /\ ~server.running /\ starts < MaxStarts /\ ~server.open
  /\ server' = [running |-> TRUE, stop |-> FALSE, open |-> TRUE, thread |-> TRUE]
  /\ starts' = starts + 1
  /\ UNCHANGED <<policy, active, client, snapshot, published, failures>>

(* stop() waits two seconds for the accepting thread, which looks up every    *)
(* half second: it has ended when stop() returns                              *)
Stop ==
  /\ server.running
  /\ server' = [running |-> FALSE, stop |-> TRUE, open |-> FALSE, thread |-> FALSE]
  /\ active' = 0
  /\ UNCHANGED <<policy, starts, client, snapshot, published, failures>>

Accept(c) ==
  /\ server.open /\ server.thread /\ client[c].at = "away"
  /\ active' = active + 1
  /\ client' = [client EXCEPT ![c].at = "reads"]
  /\ UNCHANGED <<policy, server, starts, snapshot, published, failures>>

(* --- a connection's thread (_handle_client) ------------------------------- *)
Takes(c, buffer, wire, force) ==
  client' = [client EXCEPT ![c].wire = wire, ![c].buffer = Ready(buffer, force)[2],
                           ![c].todo = Ready(buffer, force)[1]]

(* recv() returns what TCP has put into one segment *)
Receive(c) ==
  LET w == client[c].wire
  IN /\ client[c].at = "reads" /\ client[c].todo = <<>> /\ ~server.stop
     /\ \E n \in DOMAIN w : Takes(c, client[c].buffer \o SubSeq(w, 1, n),
                                  SubSeq(w, n + 1, Len(w)), FALSE)
     /\ UNCHANGED <<policy, server, starts, active, snapshot, published, failures>>

(* nothing came for 0.2 s: what the last cut left is cut again, and now that   *)
(* the lines before it are gone it may be taken for a finished status         *)
Recut(c) ==
  /\ client[c].at = "reads" /\ client[c].todo = <<>> /\ ~server.stop /\ client[c].buffer # <<>>
  /\ Takes(c, client[c].buffer, client[c].wire, FALSE)
  /\ UNCHANGED <<policy, server, starts, active, snapshot, published, failures>>

Leaves(c) == /\ client' = [client EXCEPT ![c].at = "gone", ![c].wire = <<>>, ![c].buffer = <<>>]
             /\ active' = IF active = 0 THEN 0 ELSE active - 1

(* the peer has closed: what is left is cut once more, an unfinished line too  *)
(* when it is all there is; what that leaves over is dropped                  *)
Closed(c) ==
  /\ client[c].at = "reads" /\ client[c].todo = <<>> /\ client[c].wire = <<>>
  /\ IF client[c].buffer # <<>>
       THEN /\ client' = [client EXCEPT ![c].buffer = <<>>, ![c].todo = Ready(client[c].buffer, TRUE)[1]]
            /\ UNCHANGED active
       ELSE Leaves(c)
  /\ UNCHANGED <<policy, server, starts, snapshot, published, failures>>

(* the server stops, or the message is longer than the limit *)
LeavesEarly(c) ==
  /\ client[c].at = "reads" /\ client[c].todo = <<>> /\ server.stop
  /\ Leaves(c)
  /\ UNCHANGED <<policy, server, starts, snapshot, published, failures>>

TooLong(c) ==
  /\ client[c].at = "reads" /\ client[c].todo = <<>> /\ client[c].buffer # <<>>
  /\ Leaves(c) /\ failures' = failures + 1
  /\ UNCHANGED <<policy, server, starts, snapshot, published>>

(* ingest_message(): the payloads one by one, up to the first that may not    *)
(* speak; each replaces the snapshot and is published                         *)
Ingest(c) ==
  LET m == Head(client[c].todo)
      p == Payloads(m)
      heard == SelectSeq(p, LAMBDA x : Authorized(c, x))
  IN /\ client[c].todo # <<>>
     /\ client' = [client EXCEPT ![c].todo = Tail(@)]
     /\ failures' = IF p = <<>> \/ heard # p THEN failures + 1 ELSE failures
     /\ published' = published \o heard
     /\ snapshot' = IF heard = <<>> THEN snapshot ELSE Stored(Last(heard))
     /\ UNCHANGED <<policy, server, starts, active>>

Tick ==
  /\ snapshot # Nothing /\ snapshot.age <= MaxAge
  /\ snapshot' = [snapshot EXCEPT !.age = @ + 1]
  /\ UNCHANGED <<policy, server, starts, active, client, published, failures>>

Next ==
  \/ Start \/ Stop \/ Tick
  \/ \E c \in Client : Accept(c) \/ Receive(c) \/ Recut(c) \/ Closed(c) \/ LeavesEarly(c) \/ TooLong(c) \/ Ingest(c)

Spec == Init /\ [][Next]_vars

(* What a peer sends line by line, and record by record. *)
SentBy(w) == {p \in Range(Pieces(w, Newline)) \cup Range(Pieces(w, Literal)) : p # <<>>}
             \cup Range(SelectSeq(Records(w), LAMBDA r : IsTag(r[1])))

(* Two texts that nobody has sent as they are: the first digits of a number,  *)
(* which _status_record_complete() takes for all of it, and a line without    *)
(* the two characters that were cut off together with the separator before it *)
CutInItsNumber(p) ==
  IsTag(p[1]) /\ Len(p) > 1 /\ \E w \in Scripts : \E r \in SentBy(w) : IsPrefix(p, r)
WithoutItsStart(p) == \E w \in Scripts : Contains(w, Literal) /\ \E q \in SentBy(w) : p = Tail(q)

Whole(p) == \E w \in Scripts : p \in SentBy(w)

(* Whatever way TCP cuts the stream, and whenever a pause lets the rest be    *)
(* cut again, what is published is a message of the peer, whole, but for a    *)
(* status cut inside its number and a line that lost its start after a        *)
(* literal \n (tmflow_socket_ingest_server.py:269, 330, 433-470).              *)
PublishedIsWhole ==
  \A i \in DOMAIN published :
      LET p == published[i] IN Whole(p) \/ CutInItsNumber(p) \/ WithoutItsStart(p)

(* What the docstring promises of a status, DONE,42 (line 42), and of a pose, *)
(* six numbers to a line (line 41): neither holds.                            *)
NumbersAreWhole == \A i \in DOMAIN published : IsTag(published[i][1]) => Whole(published[i])
LinesAreWhole == \A i \in DOMAIN published : ~IsTag(published[i][1]) => Whole(published[i])
=============================================================================
