--------------------------- MODULE EngineProcess ---------------------------
(***************************************************************************)
(* The UCI engine behind EngineService: the engine worker, which asks for  *)
(* a best move (compute), the probe that looks for a network the engine    *)
(* accepts, the shutdown hook, and the subprocess with its output queue.   *)
(* Everything but the subprocess runs on one event loop, so a step ends    *)
(* where the code awaits.                                                  *)
(*                                                                         *)
(* The subprocess is external.  It reads its commands in order, answers    *)
(* "isready" during a search, does not read past a "go" while a search     *)
(* runs, and may die, complain or stay silent at any time.                 *)
(***************************************************************************)
EXTENDS Naturals, Sequences

CONSTANTS
    Fen,          \* positions the worker asks about
    None,         \* no position, no answer
    Candidates,   \* number of networks to probe
    QueueSize,    \* ENGINE_OUTPUT_QUEUE_SIZE
    MaxCommands   \* bound: a question is asked, or a search stopped, only while
                  \* the engine has fewer unread commands than this

VARIABLES
    svc,      \* fields of EngineService: status, running, closing, shutdown, error
    proc,     \* self.process: which one, how it is, unread commands, its search
    out,      \* output_queue
    pc,       \* where worker, probe task and shutdown hook are
    holds,    \* per task: the process its close() took hold of
    asked,    \* the worker's question: position, and the older ones the engine still had then
    nth,      \* the candidate being probed
    answer    \* history: the last ENGINE_ANALYSIS_COMPLETED, until the next question

vars == <<svc, proc, out, pc, holds, asked, nth, answer>>

Task == {"worker", "probe", "hook"}
Question == Fen \cup {"warmup"}
Gone == [gen |-> 0, by |-> "hook", state |-> "none", todo |-> <<>>, search |-> None]
NoQuestion == [fen |-> None, overdue |-> {}]
NoAnswer == [fen |-> None, best |-> None, overdue |-> {}]
Opened == {"uci", "ready", "warm"}
Opening == {"exec"} \cup Opened

Line == [kind : {"uciok", "readyok", "info", "best", "nobest"}, q : Question \cup {None}]
Command == [kind : {"uci", "isready", "go", "stop"}, q : Question \cup {None}]

TypeOK ==
    /\ svc \in [status : {"unprobed", "probing", "missing_engine", "matched", "incompatible",
                          "shutdown"},
                running : BOOLEAN, closing : BOOLEAN, shutdown : BOOLEAN, error : BOOLEAN]
    /\ proc.gen \in 0..4 /\ proc.by \in Task /\ proc.state \in {"none", "up", "dead"}
    /\ proc.todo \in Seq(Command) /\ proc.search \in Question \cup {None}
    /\ out \in Seq(Line) /\ Len(out) <= QueueSize
    /\ pc["worker"] \in {"idle", "recycle", "start", "probing", "failed", "ask", "search",
                         "cancelled"} \cup Opening
    /\ pc["probe"] \in {"off", "next", "reject", "accept", "leave"} \cup Opening
    /\ pc["hook"] \in {"off", "worker", "await", "close", "done"}
    /\ holds \in [Task -> 1..4 \cup {None}]
    /\ asked \in [fen : Fen \cup {None}, overdue : SUBSET (Question \cup {None})]
    /\ nth \in 0..Candidates
    /\ answer \in [fen : Fen \cup {None}, best : Question \cup {None}, overdue : SUBSET (Question \cup {None})]

Init ==
    /\ svc = [status |-> "unprobed", running |-> FALSE, closing |-> FALSE,
              shutdown |-> FALSE, error |-> FALSE]
    /\ proc = Gone
    /\ out = <<>>
    \* ENGINE_PROBE_ON_BOOT starts the probe before the worker
    /\ \E p \in {"off", "next"} : pc = [worker |-> "idle", probe |-> p, hook |-> "off"]
    /\ holds = [t \in Task |-> None]
    /\ asked = NoQuestion
    /\ nth = 0
    /\ answer = NoAnswer

-----------------------------------------------------------------------------
(* Talking to the subprocess                                               *)

Goto(t, place) == pc' = [pc EXCEPT ![t] = place]
Alive == proc.state = "up"
Said(kind, q) == [kind |-> kind, q |-> q]

\* send: a closed or dead process swallows the command
Send(cmds) == IF Alive THEN [proc EXCEPT !.todo = @ \o cmds] ELSE proc

\* enqueue_output_line: a full queue loses its oldest line
Enqueued(line) == Append(IF Len(out) < QueueSize THEN out ELSE Tail(out), line)

EngineReads ==
    /\ Alive /\ proc.todo # <<>>
    /\ LET cmd == Head(proc.todo) IN
       \/ /\ cmd.kind = "uci"
          /\ out' = Enqueued(Said("uciok", None))
          /\ proc' = [proc EXCEPT !.todo = Tail(@)]
       \/ /\ cmd.kind = "isready"
          /\ out' = Enqueued(Said("readyok", None))
          /\ proc' = [proc EXCEPT !.todo = Tail(@)]
       \/ /\ cmd.kind = "go" /\ proc.search = None
          /\ proc' = [proc EXCEPT !.todo = Tail(@), !.search = cmd.q]
          /\ UNCHANGED out
       \/ /\ cmd.kind = "stop" /\ proc.search # None
          /\ out' = Enqueued(Said("best", proc.search))
          /\ proc' = [proc EXCEPT !.todo = Tail(@), !.search = None]
       \/ /\ cmd.kind = "stop" /\ proc.search = None
          /\ proc' = [proc EXCEPT !.todo = Tail(@)]
          /\ UNCHANGED out
    /\ UNCHANGED <<svc, pc, holds, asked, nth, answer>>

EngineSearches ==
    /\ Alive /\ proc.search # None
    /\ \/ out' = Enqueued(Said("info", None)) /\ UNCHANGED proc
       \/ /\ \E kind \in {"best", "nobest"} : out' = Enqueued(Said(kind, proc.search))
          /\ proc' = [proc EXCEPT !.search = None]
    /\ UNCHANGED <<svc, pc, holds, asked, nth, answer>>

EngineDies ==
    /\ Alive
    /\ proc' = [proc EXCEPT !.state = "dead", !.todo = <<>>, !.search = None]
    /\ UNCHANGED <<svc, out, pc, holds, asked, nth, answer>>

\* _reader sees a line with "ERROR" in it
EngineComplains ==
    /\ Alive /\ ~svc.error
    /\ svc' = [svc EXCEPT !.error = TRUE]
    /\ UNCHANGED <<proc, out, pc, holds, asked, nth, answer>>

-----------------------------------------------------------------------------
(* close() and _open_engine(), run by any of the tasks                     *)

\* The first half of close(); without a process there is no second half.
CloseBegins(t) ==
    /\ svc' = [svc EXCEPT !.running = FALSE, !.closing = (proc.state # "none")]
    /\ holds' = [holds EXCEPT ![t] = IF proc.state = "none" THEN None ELSE proc.gen]

\* The second half: terminated and waited for, forgotten if it is still self.process.
CloseEnds(t) ==
    /\ holds[t] # None
    /\ holds' = [holds EXCEPT ![t] = None]
    /\ svc' = [svc EXCEPT !.closing = FALSE, !.error = FALSE]
    /\ proc' = IF proc.gen = holds[t] THEN Gone ELSE proc

\* A task that is cancelled inside close() runs its finally clause only, unless it waits there for the
\* reader, where the cancellation is suppressed: then it goes on.
CloseCut(t) ==
    /\ holds' = [holds EXCEPT ![t] = None]
    /\ svc' = [svc EXCEPT !.closing = IF holds[t] = None THEN @ ELSE FALSE]
Swallows(t) == holds[t] # None /\ pc[t] \in {"recycle", "failed", "reject", "accept", "leave"}

\* a process that no close() under way has in hand
FreshGen == CHOOSE g \in 1..4 : \A t \in Task : holds[t] # g

\* _open_engine waits for the operating system to start the process ...
Spawn(t) ==
    /\ svc' = [svc EXCEPT !.error = FALSE, !.status = IF t = "probe" THEN "probing" ELSE @]
    /\ Goto(t, "exec")
    /\ UNCHANGED <<proc, out>>

\* ... and takes it for its own, whatever has happened meanwhile.
Spawned(t) ==
    /\ pc[t] = "exec"
    /\ proc' = [gen |-> FreshGen, by |-> t, state |-> "up", todo |-> <<Said("uci", None)>>,
                search |-> None]
    /\ out' = <<>>
    /\ svc' = [svc EXCEPT !.running = TRUE]
    /\ Goto(t, "uci")
    /\ UNCHANGED <<holds, asked, nth, answer>>

Awaited(place) ==
    CASE place = "uci" -> {"uciok"} [] place = "warm" -> {"best", "nobest"} [] OTHER -> {"readyok"}

\* _wait_for_line takes lines until the awaited one comes.
SkipLine(t) ==
    /\ pc[t] \in Opened \cup {"ask"} /\ holds[t] = None
    /\ svc.running /\ Alive /\ out # <<>> /\ Head(out).kind \notin Awaited(pc[t])
    /\ out' = Tail(out)
    /\ UNCHANGED <<svc, proc, pc, holds, asked, nth, answer>>

GotLine(t) ==
    /\ svc.running /\ Alive /\ out # <<>> /\ Head(out).kind \in Awaited(pc[t])

OpenUci(t) ==
    /\ pc[t] = "uci" /\ GotLine(t)
    /\ out' = Tail(out) /\ proc' = Send(<<Said("isready", None)>>)
    /\ Goto(t, "ready")
    /\ UNCHANGED <<svc, holds, asked, nth, answer>>

\* the warm-up search drains the queue first
OpenReady(t) ==
    /\ pc[t] = "ready" /\ GotLine(t)
    /\ out' = <<>> /\ proc' = Send(<<Said("go", "warmup")>>)
    /\ Goto(t, "warm")
    /\ UNCHANGED <<svc, holds, asked, nth, answer>>

FinishClose(t) == IF holds[t] = None THEN UNCHANGED <<svc, proc, holds>> ELSE CloseEnds(t)

\* No such program, a timeout, the end of the process, its closing by another task, or a failed warm-up.
OpenFails(t) ==
    /\ pc[t] \in Opening
    /\ CloseBegins(t)
    /\ Goto(t, IF t = "probe" THEN "reject" ELSE "failed")
    /\ UNCHANGED <<proc, out, asked, nth, answer>>

-----------------------------------------------------------------------------
(* The probe task: _run_probe, _probe_single_candidate                     *)

ProbeReturns(status) ==
    /\ Goto("probe", "off") /\ nth' = 0
    /\ svc' = [svc EXCEPT !.status = status]

ProbeNext ==
    /\ pc["probe"] = "next"
    /\ \/ /\ nth = 0 /\ ProbeReturns("missing_engine")
          /\ UNCHANGED <<proc, out>>
       \/ /\ nth < Candidates /\ ~svc.shutdown
          /\ Spawn("probe") /\ nth' = nth + 1
       \/ /\ nth < Candidates               \* no such file
          /\ nth' = nth + 1
          /\ svc' = [svc EXCEPT !.status = "probing"]
          /\ UNCHANGED <<proc, out, pc>>
       \/ /\ nth = Candidates /\ ProbeReturns("incompatible")
          /\ UNCHANGED <<proc, out>>
    /\ UNCHANGED <<holds, asked, answer>>

ProbeAccepts ==
    /\ pc["probe"] = "warm" /\ GotLine("probe") /\ Head(out).kind = "best"
    /\ out' = Tail(out)
    /\ CloseBegins("probe") /\ Goto("probe", "accept")
    /\ UNCHANGED <<proc, asked, nth, answer>>

\* The close() after a candidate is over.
ProbeClosed ==
    /\ pc["probe"] \in {"reject", "accept", "leave"}
    /\ IF holds["probe"] # None
       THEN CloseEnds("probe") /\ UNCHANGED <<pc, nth>>
       ELSE /\ \/ pc["probe"] = "leave" /\ ProbeReturns(svc.status)
               \/ pc["probe"] # "leave" /\ svc.shutdown /\ ProbeReturns("shutdown")
               \/ pc["probe"] = "accept" /\ ~svc.shutdown /\ ProbeReturns("matched")
               \/ /\ pc["probe"] = "reject" /\ ~svc.shutdown
                  /\ Goto("probe", "next") /\ UNCHANGED <<svc, nth>>
            /\ UNCHANGED <<proc, holds>>
    /\ UNCHANGED <<out, asked, answer>>

-----------------------------------------------------------------------------
(* The engine worker: compute                                              *)

\* What the engine has not answered yet, the warm-up of a candidate on trial included.
Outstanding ==
    ({proc.search} \ {None})
    \cup {proc.todo[i].q : i \in {j \in DOMAIN proc.todo : proc.todo[j].kind = "go"}}
    \cup (IF pc["probe"] = "off" THEN {} ELSE {"warmup"})

\* Mutant: compute goes on with what is left in the output queue.
AskStale(f) ==
    /\ UNCHANGED out
    /\ proc' = Send(<<Said("isready", None)>>)
    /\ asked' = [fen |-> f, overdue |-> Outstanding]

\* Drain the output, then "isready".
Ask(f) ==
    /\ out' = <<>>
    /\ proc' = Send(<<Said("isready", None)>>)
    /\ asked' = [fen |-> f, overdue |-> Outstanding]

Compute(f) ==
    /\ pc["worker"] = "idle" /\ pc["hook"] = "off" /\ ~svc.shutdown /\ ~svc.closing
    /\ Len(proc.todo) + 2 <= MaxCommands
    /\ IF Alive /\ ~svc.error
       THEN Ask(f) /\ Goto("worker", "ask") /\ UNCHANGED <<svc, holds>>
       ELSE /\ CloseBegins("worker") /\ Goto("worker", "recycle")
            /\ asked' = [fen |-> f, overdue |-> {}]
            /\ UNCHANGED <<proc, out>>
    /\ answer' = NoAnswer
    /\ UNCHANGED nth

WorkerClosed ==
    /\ pc["worker"] \in {"recycle", "failed"}
    /\ FinishClose("worker")
    /\ Goto("worker", IF pc["worker"] = "recycle" THEN "start" ELSE "idle")
    /\ UNCHANGED <<out, asked, nth, answer>>

\* start() has returned: compute goes on if there is a process, whoever opened it.
Started ==
    /\ IF Alive THEN Ask(asked.fen) /\ Goto("worker", "ask")
                ELSE Goto("worker", "idle") /\ UNCHANGED <<proc, out, asked>>
    /\ UNCHANGED <<svc, nth>>

\* start(): nothing while closing or with a process up, else the probed network.
WorkerStart ==
    /\ pc["worker"] = "start"
    /\ CASE svc.shutdown \/ svc.closing \/ Alive -> Started
         [] ~(svc.shutdown \/ svc.closing \/ Alive) /\ svc.status = "matched" ->
              Spawn("worker") /\ UNCHANGED <<asked, nth>>
         [] OTHER ->
              /\ pc' = [pc EXCEPT !["worker"] = "probing",
                                  !["probe"] = IF @ = "off" THEN "next" ELSE @]
              /\ UNCHANGED <<svc, proc, out, asked, nth>>
    /\ UNCHANGED <<holds, answer>>

WorkerProbed ==
    /\ pc["worker"] = "probing" /\ pc["probe"] = "off"
    /\ IF svc.shutdown \/ svc.closing \/ svc.status # "matched"
       THEN Started
       ELSE Spawn("worker") /\ UNCHANGED <<asked, nth>>
    /\ UNCHANGED <<holds, answer>>

WorkerOpened ==
    /\ pc["worker"] = "warm" /\ GotLine("worker") /\ Head(out).kind = "best"
    /\ Started
    /\ UNCHANGED <<holds, answer>>

\* "readyok", or no answer within its timeout: the question is sent all the same.
AskGoesOn ==
    /\ pc["worker"] = "ask"
    /\ \/ GotLine("worker") /\ out' = Tail(out)
       \/ UNCHANGED out
    /\ proc' = Send(<<Said("go", asked.fen)>>)
    /\ Goto("worker", "search")
    /\ UNCHANGED <<svc, holds, asked, nth, answer>>

Publish(best) ==
    /\ answer' = [fen |-> asked.fen, best |-> best, overdue |-> asked.overdue]
    /\ asked' = NoQuestion
    /\ Goto("worker", "idle")

SearchLine ==
    /\ pc["worker"] = "search" /\ Alive /\ out # <<>>
    /\ out' = Tail(out)
    /\ CASE Head(out).kind = "best" -> Publish(Head(out).q)
         [] Head(out).kind = "nobest" -> Publish(None)
         [] OTHER -> UNCHANGED <<asked, answer, pc>>
    /\ UNCHANGED <<svc, proc, holds, nth>>

\* ten seconds and no line: ask the engine to stop
SearchStop ==
    /\ pc["worker"] = "search" /\ Alive /\ out = <<>>
    /\ Len(proc.todo) < MaxCommands
    /\ proc' = Send(<<Said("stop", None)>>)
    /\ UNCHANGED <<svc, out, pc, holds, asked, nth, answer>>

\* fifteen seconds, or the process is gone: the move is "none", and a search may go on
SearchGivesUp ==
    /\ pc["worker"] = "search"
    /\ Publish(None)
    /\ UNCHANGED <<svc, proc, out, holds, nth>>

-----------------------------------------------------------------------------
(* The shutdown hook: the worker is cancelled, then EngineService.shutdown *)

\* Cancelling the probe makes it close its candidate; cancelling it again cuts that short.
ProbeCut(hookTo, workerTo) ==
    LET place == pc["probe"] IN
    /\ pc' = [pc EXCEPT !["hook"] = hookTo, !["worker"] = workerTo,
                        !["probe"] = IF place \in Opening THEN "leave" ELSE "off"]
    /\ IF place \in Opening THEN CloseBegins("probe") /\ UNCHANGED nth
                            ELSE CloseCut("probe") /\ nth' = 0

HookStopsWorker ==
    /\ pc["hook"] = "off"
    /\ \/ /\ Swallows(IF pc["worker"] = "probing" THEN "probe" ELSE "worker")
          /\ Goto("hook", "worker")
          /\ UNCHANGED <<svc, holds, nth>>
       \/ pc["worker"] = "probing" /\ ProbeCut("worker", "cancelled")
       \/ /\ pc["worker"] # "probing"
          /\ pc' = [pc EXCEPT !["hook"] = "worker", !["worker"] = "cancelled"]
          /\ CloseCut("worker") /\ UNCHANGED nth
    /\ UNCHANGED <<proc, out, asked, answer>>

HookRequestsShutdown ==
    /\ pc["hook"] = "worker"
    /\ \/ /\ pc["probe"] = "off" \/ Swallows("probe")
          /\ svc' = [svc EXCEPT !.shutdown = TRUE] /\ Goto("hook", "await")
          /\ UNCHANGED <<holds, nth>>
       \/ /\ pc["probe"] \in Opening
          /\ pc' = [pc EXCEPT !["hook"] = "await", !["probe"] = "leave"]
          /\ holds' = [holds EXCEPT !["probe"] = IF proc.state = "none" THEN None ELSE proc.gen]
          /\ svc' = [svc EXCEPT !.shutdown = TRUE, !.running = FALSE, !.closing = (proc.state # "none")]
          /\ UNCHANGED nth
       \/ /\ pc["probe"] \notin Opening \cup {"off"}
          /\ pc' = [pc EXCEPT !["hook"] = "await", !["probe"] = "off"]
          /\ nth' = 0
          /\ holds' = [holds EXCEPT !["probe"] = None]
          /\ svc' = [svc EXCEPT !.shutdown = TRUE, !.closing = FALSE]
    /\ UNCHANGED <<proc, out, asked, answer>>

HookAwaitsProbe ==
    /\ pc["hook"] = "await" /\ pc["probe"] = "off"
    /\ CloseBegins("hook") /\ Goto("hook", "close")
    /\ UNCHANGED <<proc, out, asked, nth, answer>>

HookClosed ==
    /\ pc["hook"] = "close"
    /\ FinishClose("hook") /\ Goto("hook", "done")
    /\ UNCHANGED <<out, asked, nth, answer>>

Over == pc["hook"] = "done" /\ UNCHANGED vars

-----------------------------------------------------------------------------

Next ==
    \/ EngineReads \/ EngineSearches \/ EngineDies \/ EngineComplains
    \/ \E t \in {"worker", "probe"} : Spawned(t) \/ SkipLine(t) \/ OpenUci(t) \/ OpenReady(t) \/ OpenFails(t)
    \/ ProbeNext \/ ProbeAccepts \/ ProbeClosed
    \/ \E f \in Fen : Compute(f)
    \/ WorkerClosed \/ WorkerStart \/ WorkerProbed \/ WorkerOpened
    \/ AskGoesOn \/ SearchLine \/ SearchStop \/ SearchGivesUp
    \/ HookStopsWorker \/ HookRequestsShutdown \/ HookAwaitsProbe \/ HookClosed \/ Over

Spec == Init /\ [][Next]_vars

\* Every wait has a timeout, so each task goes on; nothing is assumed of the engine.
TaskFairness ==
    /\ \A t \in {"worker", "probe"} : WF_vars(OpenFails(t))
    /\ WF_vars(ProbeNext) /\ WF_vars(ProbeClosed)
    /\ WF_vars(WorkerClosed) /\ WF_vars(WorkerStart) /\ WF_vars(WorkerProbed)
    /\ WF_vars(AskGoesOn) /\ WF_vars(SearchGivesUp)
    /\ WF_vars(HookRequestsShutdown) /\ WF_vars(HookAwaitsProbe) /\ WF_vars(HookClosed)

FairSpec == Spec /\ TaskFairness

-----------------------------------------------------------------------------

\* A published move answers the position it is published for or a question the engine had not
\* answered yet when that was asked: draining the queue and waiting for "readyok" rules every
\* other out.
AnswerFitsQuestion == answer.best \in {None, answer.fen} \cup answer.overdue

\* What the worker and the AI service promise, "triggers analysis for the latest SSOT FEN": the
\* search of a question that outlived its time limit is not stopped, and its move is taken for
\* the next position's.
AnswerIsOfItsQuestion == answer.best \in {None, answer.fen}

\* When EngineService.shutdown has returned no engine process is left, whichever of the
\* worker, the probe and the hook was opening or closing one when it was called, if the
\* worker took its cancellation.
NothingLeftRunning == pc["hook"] = "done" /\ pc["worker"] = "cancelled" => proc.state = "none"

\* "Close any active engine subprocess": a worker whose cancellation was suppressed while it
\* closed an engine may be starting the next one when the hook finds none to close.
ShutdownClosesEngine == pc["hook"] = "done" => proc.state = "none"

\* A candidate on trial is closed before the probe ends: whoever asks it a question asks it
\* while it is still on trial, or the service is shutting down.
CandidatesAreNotAsked ==
    pc["worker"] \in {"ask", "search"} /\ Alive /\ proc.by = "probe" /\ ~svc.shutdown => pc["probe"] # "off"

\* compute returns, whatever the engine does: the worker goes back to its loop.
ComputeReturns == (pc["worker"] # "idle") ~> (pc["worker"] \in {"idle", "cancelled"})

\* A shutdown that has begun ends.
ShutdownEnds == (pc["hook"] # "off") ~> (pc["hook"] = "done")
=============================================================================
