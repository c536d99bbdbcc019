----------------------------- MODULE Telemetry -----------------------------
(***************************************************************************)
(* What the dashboard is told of the events: TelemetryService classifies   *)
(* every event of the bus by module, status and severity, keeps bounded    *)
(* lists of them and, for each module and each connection of the topology, *)
(* the latest.                                                             *)
(*                                                                         *)
(* An event has the words of its type (the first is its prefix), the words *)
(* of its source and, where the publisher gave them, a module, a status, a *)
(* severity and a trace ("" where not).  A word of a type counts with the  *)
(* words it contains: DISCONNECTED contains CONNECTED.                     *)
(***************************************************************************)
EXTENDS Integers, Sequences, SequencesExt

CONSTANTS
    Events,       \* events that may be published
    MaxEvents, MaxErrors, MaxTraces, MaxTraceEvents,
    MaxRecorded   \* bound: events published

VARIABLES
    events, errors,  \* the latest events, and the latest that warn
    traces,          \* <<trace, its latest events>>, least recently used first
    active,          \* the trace of the latest event that has one
    nodes, edges,    \* the latest event of a module, of a connection, or None
    count            \* recorded, dropped

CONSTANT None
vars == <<events, errors, traces, active, nodes, edges, count>>

Modules == {"vision", "engine", "robot", "state", "queue", "socket", "storage", "health"}
Edges == {"vision_engine", "engine_robot", "robot_state", "state_socket", "health_socket", "queue_robot",
          "state_storage"}

-----------------------------------------------------------------------------
(* Classification: the first rule that fits *)

First(rules, Fits(_)) ==
    LET fitting == {i \in DOMAIN rules : Fits(rules[i])}
    IN  rules[CHOOSE i \in fitting : \A j \in fitting : i <= j]

ModuleAlias == [ai |-> "engine", ai_engine |-> "engine", game_state |-> "state", event_bus |-> "state",
                websocket |-> "socket", socketio |-> "socket", metrics |-> "health"]
KnownModule(m) ==
    IF m \in DOMAIN ModuleAlias THEN ModuleAlias[m] ELSE IF m \in Modules THEN m ELSE "state"

ModuleRules == <<
    [prefix |-> {"VISION"}, word |-> {}, source |-> {"vision"}, is |-> "vision"],
    [prefix |-> {"ENGINE"}, word |-> {}, source |-> {"engine", "pikafish"}, is |-> "engine"],
    [prefix |-> {"ROBOT"}, word |-> {}, source |-> {"robot"}, is |-> "robot"],
    [prefix |-> {"STATE", "BOARD", "GAME"}, word |-> {}, source |-> {}, is |-> "state"],
    [prefix |-> {}, word |-> {"QUEUE"}, source |-> {"queue"}, is |-> "queue"],
    [prefix |-> {}, word |-> {"SOCKET"}, source |-> {"socket"}, is |-> "socket"],
    [prefix |-> {}, word |-> {"PERSIST"}, source |-> {"storage", "database"}, is |-> "storage"],
    [prefix |-> {"DIAGNOSTICS", "HEARTBEAT"}, word |-> {}, source |-> {"monitor", "health"}, is |-> "health"]>>
ModuleOf(e) ==
    LET Fits(r) == \/ e.prefix \in r.prefix
                   \/ e.words \cap r.word # {}
                   \/ e.source \cap r.source # {}
        fallback == [prefix |-> {e.prefix}, word |-> {}, source |-> {}, is |-> "state"]
    IN  IF e.module # "" THEN KnownModule(e.module)
        ELSE First(Append(ModuleRules, fallback), Fits).is

Statuses == {"idle", "running", "processing", "success", "warning", "error", "active", "blocked", "offline"}
StatusAlias == [ok |-> "success", ready |-> "success", connected |-> "success", done |-> "success",
                finished |-> "success", busy |-> "running", active |-> "running", enabled |-> "running",
                starting |-> "running", stopping |-> "running", stopped |-> "offline", disabled |-> "offline",
                degraded |-> "warning", warn |-> "warning", failed |-> "error", disconnected |-> "offline"]
\* A status that is neither an alias nor known reads as idle.
NormalStatus(s) ==
    IF s \in DOMAIN StatusAlias THEN StatusAlias[s] ELSE IF s \in Statuses THEN s ELSE "idle"

StatusRules == <<
    [words |-> {"ERROR", "EXCEPTION", "TIMEOUT", "FAILED"}, is |-> "error"],
    [words |-> {"OFFLINE", "DISCONNECTED"}, is |-> "offline"],
    [words |-> {"BLOCKED"}, is |-> "blocked"],
    [words |-> {"WARNING", "DEGRADED"}, is |-> "warning"],
    [words |-> {"COMPLETED", "FINISHED", "READY", "CONNECTED"}, is |-> "success"],
    [words |-> {"STARTED", "REQUESTED", "MOVING", "ANALYZING", "RUNNING"}, is |-> "running"],
    [words |-> {"FRAME", "DETECTED", "UPDATED", "SYNCHRONIZED"}, is |-> "processing"]>>
StatusOf(e) ==
    LET Fits(r) == e.words \cap r.words # {}
    IN  IF e.status # "" THEN NormalStatus(e.status)
        ELSE First(Append(StatusRules, [words |-> e.words, is |-> "idle"]), Fits).is

SeverityOf(e, status) ==
    IF e.severity \in {"debug", "info", "warning", "error"} THEN e.severity
    ELSE IF e.severity = "critical" \/ status = "error" THEN "error"
    ELSE IF status \in {"warning", "blocked", "offline"} THEN "warning" ELSE "info"

Normalized(e) ==
    LET status == StatusOf(e)
    IN  [n |-> count.recorded + 1, trace |-> e.trace, module |-> ModuleOf(e), status |-> status,
         severity |-> SeverityOf(e, status)]
Warns(t) == t.severity \in {"warning", "error"} \/ t.status = "error"

-----------------------------------------------------------------------------
(* record_event *)

Init ==
    /\ events = <<>> /\ errors = <<>> /\ traces = <<>> /\ active = ""
    /\ nodes = [m \in Modules |-> None] /\ edges = [g \in Edges |-> None]
    /\ count = [recorded |-> 0, dropped |-> 0]

\* A deque of a maximal length.
Latest(s, n) == IF Len(s) <= n THEN s ELSE SubSeq(s, Len(s) - n + 1, Len(s))
Pushed(s, x, max) == Latest(Append(s, x), max)

Used(ts, id) == {i \in DOMAIN ts : ts[i][1] = id}
\* Mutant: a trace keeps the place it had when it was new.
TracedInPlace(ts, t) ==
    IF t.trace = "" THEN ts
    ELSE IF Used(ts, t.trace) # {}
         THEN [i \in DOMAIN ts |-> IF i \in Used(ts, t.trace)
                                   THEN <<t.trace, Pushed(ts[i][2], t, MaxTraceEvents)>> ELSE ts[i]]
         ELSE Pushed(ts, <<t.trace, <<t>>>>, MaxTraces)
\* _update_trace: the trace moves to the end, the least recently used one goes.
Traced(ts, t) ==
    LET used == Used(ts, t.trace)
        place == CHOOSE i \in used : TRUE
        others == IF used = {} THEN ts ELSE RemoveAt(ts, place)
        kept == IF used = {} THEN <<>> ELSE ts[place][2]
    IN  IF t.trace = "" THEN ts
        ELSE Pushed(others, <<t.trace, Pushed(kept, t, MaxTraceEvents)>>, MaxTraces)

\* _update_edge: the connections an event of a module is an event of.
EdgesOf(m) ==
    CASE m = "vision" -> {"vision_engine"}
      [] m = "engine" -> {"engine_robot"}
      [] m = "robot" -> {"engine_robot", "robot_state", "queue_robot"}
      [] m = "state" -> {"robot_state", "state_socket", "state_storage"}
      [] m = "health" -> {"health_socket"}
      [] m = "queue" -> {"health_socket", "queue_robot"}
      [] m = "socket" -> {"state_socket"}
      [] OTHER -> {}
EdgeStatus(t) == IF t.status \in {"error", "blocked", "offline"} THEN t.status ELSE "active"

Record ==
    /\ count.recorded < MaxRecorded
    /\ \E e \in Events :
         LET t == Normalized(e) IN
         /\ events' = Pushed(events, t, MaxEvents)
         /\ errors' = IF Warns(t) THEN Pushed(errors, t, MaxErrors) ELSE errors
         /\ traces' = Traced(traces, t)
         /\ active' = IF t.trace = "" THEN active ELSE t.trace
         /\ nodes' = [nodes EXCEPT ![t.module] = t]
         /\ edges' = [g \in Edges |-> IF g \in EdgesOf(t.module) THEN t ELSE edges[g]]
         /\ count' = [recorded |-> count.recorded + 1,
                      dropped |-> count.dropped + (IF Len(events) >= MaxEvents THEN 1 ELSE 0)]

Next == Record
Spec == Init /\ [][Next]_vars

-----------------------------------------------------------------------------
(* snapshot *)

Timeline == IF Used(traces, active) = {} THEN <<>> ELSE traces[CHOOSE i \in Used(traces, active) : TRUE][2]
\* _pipeline_snapshot_locked, fresh if its last event is of the last ten seconds
PipelineStatus(fresh) ==
    IF Timeline = <<>> THEN "idle"
    ELSE IF Timeline[Len(Timeline)].status = "error" THEN "error"
    ELSE IF fresh THEN "running" ELSE "idle"

\* _topology_snapshot_locked, for the reports of the queues and of the workers
NodeStatus(m, queue, failing) ==
    LET own == IF nodes[m] = None THEN "idle" ELSE nodes[m].status
    IN  IF m = "queue" THEN IF queue.blocked THEN "blocked" ELSE IF queue.full THEN "warning"
                            ELSE IF queue.size > 0 THEN "processing" ELSE own
        ELSE IF m = "health" THEN IF failing THEN "warning" ELSE "running"
        ELSE own
ShownEdge(g, queue, fresh) ==
    IF g = "queue_robot" /\ queue.blocked THEN "blocked"
    ELSE IF edges[g] = None \/ ~fresh THEN "idle" ELSE EdgeStatus(edges[g])

-----------------------------------------------------------------------------

Known == UNION {{events[i] : i \in DOMAIN events}, {errors[i] : i \in DOMAIN errors}}
TypeOK ==
    /\ \A t \in Known : t.module \in Modules /\ t.status \in Statuses
    /\ Len(events) <= MaxEvents /\ Len(errors) <= MaxErrors /\ Len(traces) <= MaxTraces

\* The bounded lists agree with one another: nothing is uncounted; the errors are in order, and
\* a warning that is among the latest events is missing from them only when that many came
\* later; and no trace is forgotten while one used longer ago is kept (record_event, _update_trace).
ListsAgree ==
    /\ count.recorded = count.dropped + Len(events)
    /\ \A i \in DOMAIN errors :
         /\ Warns(errors[i]) /\ \A j \in 1..(i - 1) : errors[j].n < errors[i].n
         /\ errors[i].n > count.dropped => errors[i] = events[errors[i].n - count.dropped]
    /\ \A i \in DOMAIN events : Warns(events[i]) =>
         \/ \E j \in DOMAIN errors : errors[j] = events[i]
         \/ Len(errors) = MaxErrors /\ \A j \in DOMAIN errors : events[i].n < errors[j].n
    /\ \A i \in DOMAIN events : \A j \in 1..(i - 1) :
         /\ events[i].trace # "" /\ Used(traces, events[j].trace) # {}
         /\ \A k \in (i + 1)..Len(events) : events[k].trace # events[j].trace
         => Used(traces, events[i].trace) # {}

\* The picture shows the latest event: a failure of the active trace reddens the pipeline,
\* and of a module its node and its connections, until something newer is heard of it,
\* whatever the queues and workers report (snapshot).
PictureIsLatest ==
    \A i \in DOMAIN events :
        LET t == events[i]
            newer == {events[j] : j \in (i + 1)..Len(events)}
        IN  t.status = "error" =>
              /\ t.trace # "" /\ (\A u \in newer : u.trace = "") =>
                    \A fresh \in BOOLEAN : PipelineStatus(fresh) = "error"
              /\ t.module \notin {"queue", "health"} /\ (\A u \in newer : u.module # t.module) =>
                    NodeStatus(t.module, [blocked |-> FALSE, full |-> TRUE, size |-> 1], TRUE) = "error"
              /\ \A g \in EdgesOf(t.module) : (\A u \in newer : g \notin EdgesOf(u.module)) =>
                    ShownEdge(g, [blocked |-> FALSE], TRUE) = "error"
=============================================================================
