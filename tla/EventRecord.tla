---------------------------- MODULE EventRecord ----------------------------
(***************************************************************************)
(* What the system keeps of its own events: the bus hands every event, in  *)
(* the thread that publishes it, to the persistence worker, which tags it  *)
(* with the running experiment session and queues it for SQLite.  HTTP     *)
(* threads start and end sessions and export their record; a reader walks  *)
(* the stored events page by page.                                         *)
(*                                                                         *)
(* Event classes: "state" (STATE_UPDATED), "move" (one of the critical     *)
(* event types) and "note" (the runtime-control and drop diagnostics).     *)
(* Nobody publishes MOVE_APPLIED, so RuntimeControl's own move list stays  *)
(* empty and is left out.                                                  *)
(***************************************************************************)
EXTENDS Naturals, Sequences, FiniteSets

CONSTANTS
    Publisher,    \* threads that publish game events
    Console,      \* HTTP threads that start and end sessions
    None,
    QueueSize, CriticalSize, BatchSize,   \* the two queues, PERSISTENCE_BATCH_SIZE
    PageSize,     \* limit of /replay/steps
    MaxEvents,    \* bound: game events published
    MaxSessions   \* bound: sessions started

VARIABLES
    ctl,       \* RuntimeControl: session id, whether it is active, its record's status
    thread,    \* per thread: where it is and the event it is publishing
    console,   \* per HTTP thread: where it is and the session it is about
    queue, critical,
    worker,    \* the async task: where, its batch, the stop flag
    orphan,    \* a batch whose executor thread goes on after the task was cancelled
    table,     \* the rows of the events table, by sequence id
    hist       \* history: events published, the sessions' ends, what stop() found queued
               \* and SQLite did not refuse, and what may disturb the order

vars == <<ctl, thread, console, queue, critical, worker, orphan, table, hist>>

Session == 1..MaxSessions
\* n is the place in the order of publication, 0 for a note
Event == [n : 0..MaxEvents, by : Publisher \cup {None}, kind : {"state", "move", "note"},
          sid : Session \cup {None}]
Note(s) == [n |-> 0, by |-> None, kind |-> "note", sid |-> s]
NoEvent == Note(None)

TypeOK ==
    /\ ctl \in [sid : Session \cup {None}, active : BOOLEAN, started : 0..MaxSessions,
                status : {"", "pending", "saved", "failed"}]
    /\ thread \in [Publisher -> [pc : {"idle", "tag", "put", "diag"}, e : Event]]
    /\ console \in [Console -> [pc : {"idle", "start", "end", "note", "endnote", "delay"},
                                sid : Session \cup {None}]]
    /\ queue \in Seq(Event) /\ Len(queue) <= QueueSize
    /\ critical \in Seq(Event) /\ Len(critical) <= CriticalSize
    /\ worker.pc \in {"off", "loop", "taken", "save", "flush"}
    /\ worker.batch \in Seq(Event) /\ Len(worker.batch) <= BatchSize
    /\ worker.stop \in BOOLEAN
    /\ orphan \in Seq(Event) /\ table \in Seq(Event)
    /\ hist.published \in 0..MaxEvents
    /\ hist.ended \in [Session -> 0..MaxEvents + 1]

Init ==
    /\ ctl = [sid |-> None, active |-> FALSE, started |-> 0, status |-> ""]
    /\ thread = [p \in Publisher |-> [pc |-> "idle", e |-> NoEvent]]
    /\ console = [c \in Console |-> [pc |-> "idle", sid |-> None]]
    /\ queue = <<>> /\ critical = <<>>
    /\ worker = [pc |-> "off", batch |-> <<>>, stop |-> TRUE]
    /\ orphan = <<>> /\ table = <<>>
    /\ hist = [published |-> 0, ended |-> [s \in Session |-> MaxEvents + 1],
               found |-> {}, clean |-> FALSE, cut |-> FALSE, direct |-> FALSE]

\* Only(kinds, seq): the events of some kinds among those of a sequence, in their order
Kept(kinds, seq) ==
    LET kept[k \in 0..Len(seq)] ==
            IF k = 0 THEN <<>>
            ELSE IF seq[k].kind \in kinds THEN Append(kept[k - 1], seq[k]) ELSE kept[k - 1]
    IN  kept
Only(kinds, seq) == Kept(kinds, seq)[Len(seq)]
Game(seq) == Only({"state", "move"}, seq)
Events(seq) == {Game(seq)[i] : i \in DOMAIN Game(seq)}

-----------------------------------------------------------------------------
(* Publishing: EventBus.publish and PersistenceWorker._on_event            *)

ActiveSession == IF ctl.active THEN ctl.sid ELSE None

Publish(p) ==
    /\ thread[p].pc = "idle" /\ hist.published < MaxEvents
    /\ \E k \in {"state", "move"} :
         thread' = [thread EXCEPT ![p] =
            [pc |-> "tag", e |-> [n |-> hist.published + 1, by |-> p, kind |-> k, sid |-> None]]]
    /\ hist' = [hist EXCEPT !.published = @ + 1]
    /\ UNCHANGED <<ctl, console, queue, critical, worker, orphan, table>>

Tag(p) ==
    /\ thread[p].pc = "tag"
    /\ thread' = [thread EXCEPT ![p] =
         [pc |-> "put", e |-> [thread[p].e EXCEPT !.sid = ActiveSession]]]
    /\ UNCHANGED <<ctl, console, queue, critical, worker, orphan, table, hist>>

\* save_events is one transaction: all rows or none.  Rows of notes are left out.
Committed(rows) == table' = table \o Game(rows) /\ UNCHANGED hist
RolledBack(rows) == UNCHANGED table /\ hist' = [hist EXCEPT !.found = @ \ Events(rows)]
SaveEvents(rows) == Committed(rows) \/ RolledBack(rows)

\* A full critical queue makes the publishing thread write the event itself.
PutCritical(e) ==
    IF Len(critical) < CriticalSize
    THEN critical' = Append(critical, e) /\ UNCHANGED <<table, hist>>
    ELSE /\ UNCHANGED critical
         /\ \/ table' = Append(table, e) /\ hist' = [hist EXCEPT !.direct = TRUE]
            \/ RolledBack(<<e>>)

\* A full queue drops the event; the drop diagnostics follow at most every few seconds.
Put(p) ==
    /\ thread[p].pc = "put"
    /\ LET e == thread[p].e
           full == e.kind # "move" /\ Len(queue) = QueueSize
       IN  /\ IF e.kind = "move"
              THEN PutCritical(e) /\ UNCHANGED queue
              ELSE /\ queue' = IF full THEN queue ELSE Append(queue, e)
                   /\ UNCHANGED <<critical, table, hist>>
           /\ \E next \in IF full THEN {"idle", "diag"} ELSE {"idle"} :
                thread' = [thread EXCEPT ![p] = [pc |-> next, e |-> NoEvent]]
    /\ UNCHANGED <<ctl, console, worker, orphan>>

Noted(s) == queue' = IF Len(queue) < QueueSize THEN Append(queue, Note(s)) ELSE queue

PublishDropDiagnostics(p) ==
    /\ thread[p].pc = "diag"
    /\ Noted(ActiveSession)
    /\ thread' = [thread EXCEPT ![p].pc = "idle"]
    /\ UNCHANGED <<ctl, console, critical, worker, orphan, table, hist>>

-----------------------------------------------------------------------------
(* The worker's task                                                       *)

\* start(): a new task is scheduled behind the old one's final flush
WorkerStart ==
    /\ worker.pc = "off" /\ worker.stop
    /\ worker' = [worker EXCEPT !.pc = "loop", !.stop = FALSE]
    /\ hist' = [hist EXCEPT !.found = {}, !.clean = FALSE]
    /\ UNCHANGED <<ctl, thread, console, queue, critical, orphan, table>>

AtMost(n, seq) == SubSeq(seq, 1, IF n < Len(seq) THEN n ELSE Len(seq))
Beyond(n, seq) == SubSeq(seq, n + 1, Len(seq))

\* Take from the critical queue, then from the other, up to a full batch.
Fill(batch) ==
    LET room == BatchSize - Len(batch)
        first == AtMost(room, critical)
        second == AtMost(room - Len(first), queue)
    IN  [batch |-> batch \o first \o second,
         critical |-> Beyond(Len(first), critical), queue |-> Beyond(Len(second), queue)]

LoopEnds ==
    /\ worker.pc = "loop" /\ worker.stop
    /\ worker' = [worker EXCEPT !.pc = "flush"]
    /\ UNCHANGED <<ctl, thread, console, queue, critical, orphan, table, hist>>

\* _collect_batch in an executor thread: the first event ...
CollectFirst ==
    /\ worker.pc = "loop" /\ ~worker.stop
    /\ \/ /\ critical # <<>>
          /\ worker' = [worker EXCEPT !.pc = "taken", !.batch = <<Head(critical)>>]
          /\ critical' = Tail(critical) /\ UNCHANGED queue
       \/ /\ critical = <<>> /\ queue # <<>>
          /\ worker' = [worker EXCEPT !.pc = "taken", !.batch = <<Head(queue)>>]
          /\ queue' = Tail(queue) /\ UNCHANGED critical
    /\ UNCHANGED <<ctl, thread, console, orphan, table, hist>>

\* ... and what else there is by then.
CollectRest ==
    /\ worker.pc = "taken"
    /\ LET f == Fill(worker.batch) IN
         /\ worker' = [worker EXCEPT !.pc = "save", !.batch = f.batch]
         /\ critical' = f.critical /\ queue' = f.queue
    /\ UNCHANGED <<ctl, thread, console, orphan, table, hist>>

SaveBatch ==
    /\ worker.pc = "save"
    /\ SaveEvents(worker.batch)
    /\ worker' = [worker EXCEPT !.pc = "loop", !.batch = <<>>]
    /\ UNCHANGED <<ctl, thread, console, queue, critical, orphan>>

\* Mutant: one flush, however much is queued.
FinalFlushOnce ==
    /\ worker.pc = "flush"
    /\ LET f == Fill(<<>>) IN
         /\ SaveEvents(f.batch)
         /\ critical' = f.critical /\ queue' = f.queue
         /\ worker' = [worker EXCEPT !.pc = "off"]
    /\ UNCHANGED <<ctl, thread, console, orphan>>

\* _drain_nowait and _save_batch_sync until nothing is left
FinalFlush ==
    /\ worker.pc = "flush"
    /\ LET f == Fill(<<>>) IN
         IF f.batch = <<>>
         THEN worker' = [worker EXCEPT !.pc = "off"] /\ UNCHANGED <<table, hist, critical, queue>>
         ELSE /\ SaveEvents(f.batch) /\ UNCHANGED worker
              /\ critical' = f.critical /\ queue' = f.queue
    /\ UNCHANGED <<ctl, thread, console, orphan>>

\* stop(): the flag is set ...
StopRequested ==
    /\ worker.pc # "off" /\ ~worker.stop
    /\ worker' = [worker EXCEPT !.stop = TRUE]
    /\ hist' = [hist EXCEPT !.found = Events(queue) \cup Events(critical) \cup Events(worker.batch),
                            !.clean = TRUE]
    /\ UNCHANGED <<ctl, thread, console, queue, critical, orphan, table>>

\* ... and after five seconds (at once on the runtime's own thread) the task is cancelled.
\* The executor thread that collects or saves for it goes on.
StopCancels ==
    /\ worker.stop /\ worker.pc \in {"taken", "save"} /\ orphan = <<>>
    /\ worker' = [worker EXCEPT !.pc = "flush", !.batch = <<>>]
    /\ orphan' = IF worker.pc = "save" THEN Game(worker.batch) ELSE <<>>
    /\ hist' = [hist EXCEPT !.cut = TRUE, !.clean = FALSE, !.found = {}]
    /\ UNCHANGED <<ctl, thread, console, queue, critical, table>>

OrphanSaves ==
    /\ orphan # <<>>
    /\ SaveEvents(orphan)
    /\ orphan' = <<>>
    /\ UNCHANGED <<ctl, thread, console, queue, critical, worker>>

-----------------------------------------------------------------------------
(* Sessions: /runtime/session/start and /end                               *)

\* The routes look first and act afterwards, without a lock in between.
RouteStart(c) ==
    /\ console[c].pc = "idle" /\ ~ctl.active /\ ctl.started < MaxSessions
    /\ console' = [console EXCEPT ![c].pc = "start"]
    /\ UNCHANGED <<ctl, thread, queue, critical, worker, orphan, table, hist>>

RouteEnd(c) ==
    /\ console[c].pc = "idle" /\ ctl.active
    /\ console' = [console EXCEPT ![c].pc = "end"]
    /\ UNCHANGED <<ctl, thread, queue, critical, worker, orphan, table, hist>>

EndedNow(s) == IF s = None THEN hist ELSE [hist EXCEPT !.ended[s] = hist.published]

StartSession(c) ==
    /\ console[c].pc = "start" /\ ctl.started < MaxSessions
    /\ ctl' = [sid |-> ctl.started + 1, active |-> TRUE, started |-> ctl.started + 1, status |-> ""]
    /\ hist' = EndedNow(ActiveSession)         \* a session started meanwhile is simply replaced
    /\ console' = [console EXCEPT ![c].pc = "note"]
    /\ UNCHANGED <<thread, queue, critical, worker, orphan, table>>

EndSession(c) ==
    /\ console[c].pc = "end"
    /\ IF ctl.active
       THEN /\ ctl' = [ctl EXCEPT !.active = FALSE, !.status = "pending"]
            /\ hist' = EndedNow(ctl.sid)
            /\ console' = [console EXCEPT ![c] = [pc |-> "endnote", sid |-> ctl.sid]]
       ELSE /\ console' = [console EXCEPT ![c].pc = "note"]
            /\ UNCHANGED <<ctl, hist>>
    /\ UNCHANGED <<thread, queue, critical, worker, orphan, table>>

\* _publish_snapshot
PublishSnapshot(c) ==
    /\ console[c].pc \in {"note", "endnote"}
    /\ Noted(ctl.sid)
    /\ console' = [console EXCEPT ![c].pc = IF @ = "note" THEN "idle" ELSE "delay"]
    /\ UNCHANGED <<ctl, thread, critical, worker, orphan, table, hist>>

\* After two flush intervals the record is exported; the outcome is booked on whatever
\* session is current by then.
ExportSessionRecord(c) ==
    /\ console[c].pc = "delay"
    /\ \E outcome \in {"saved", "failed"} : ctl' = [ctl EXCEPT !.status = outcome]
    /\ console' = [console EXCEPT ![c] = [pc |-> "note", sid |-> None]]
    /\ UNCHANGED <<thread, queue, critical, worker, orphan, table, hist>>

-----------------------------------------------------------------------------
(* Reading: query_events behind /replay/steps                              *)

\* Mutant: ordered by the time of the event.
RowsByTime ==
    LET states == {e \in Events(table) : e.kind = "state"}
        before(e) == {f \in states : f.n < e.n}
    IN  [k \in 1..Cardinality(states) |-> CHOOSE e \in states : Cardinality(before(e)) = k - 1]

\* REPLAY_STATE_EVENT_TYPES by sequence id, which AUTOINCREMENT gives in the order of the commits
Rows == Only({"state"}, table)

Page(offset) == AtMost(PageSize, Beyond(offset, Rows))

\* The process dies: memory is gone, the table stays.
Crash ==
    /\ worker.pc # "off"
    /\ ctl' = [ctl EXCEPT !.sid = None, !.active = FALSE, !.status = ""]
    /\ thread' = [p \in Publisher |-> [pc |-> "idle", e |-> NoEvent]]
    /\ console' = [c \in Console |-> [pc |-> "idle", sid |-> None]]
    /\ queue' = <<>> /\ critical' = <<>> /\ orphan' = <<>>
    /\ worker' = [pc |-> "off", batch |-> <<>>, stop |-> TRUE]
    /\ hist' = [hist EXCEPT !.cut = TRUE, !.clean = FALSE, !.found = {}]
    /\ UNCHANGED table

Next ==
    \/ \E p \in Publisher : Publish(p) \/ Tag(p) \/ Put(p) \/ PublishDropDiagnostics(p)
    \/ WorkerStart \/ LoopEnds \/ CollectFirst \/ CollectRest \/ SaveBatch \/ FinalFlush
    \/ StopRequested \/ StopCancels \/ OrphanSaves
    \/ \E c \in Console : \/ RouteStart(c) \/ RouteEnd(c) \/ StartSession(c) \/ EndSession(c)
                          \/ PublishSnapshot(c) \/ ExportSessionRecord(c)
    \/ Crash

Spec == Init /\ [][Next]_vars

-----------------------------------------------------------------------------

\* A stop() whose task was not cancelled leaves nothing behind: what it found queued or in
\* hand is in the table, but for batches SQLite refused.
CleanStopKeepsAll ==
    worker.pc = "off" /\ hist.clean =>
        hist.found \subseteq Events(table)

\* The table shows a thread's state updates in the order it published them, and its moves
\* too as long as no move had to pass a full queue and no task was cancelled.
StoredInOrder ==
    \A i, j \in DOMAIN table :
        /\ i < j /\ table[i].kind = table[j].kind /\ table[i].by = table[j].by
        /\ ~hist.cut /\ ~(table[i].kind = "move" /\ hist.direct)
        => table[i].n < table[j].n

\* No event is filed under a session that had ended before the event was published.
FiledUnderItsSession ==
    \A i \in DOMAIN table :
        table[i].sid # None => table[i].n <= hist.ended[table[i].sid]

\* A reader that pages through the steps meets every stored event once and in its place,
\* whatever is stored meanwhile: a page that was shown only ever grows at its end.
PageStays ==
    \A offset \in 0..Len(Rows) :
        Page(offset) = AtMost(Len(Page(offset)), Page(offset)')
PagesStay == [][PageStays]_vars
=============================================================================
