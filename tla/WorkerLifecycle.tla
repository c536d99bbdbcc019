-------------------------- MODULE WorkerLifecycle --------------------------
(***************************************************************************)
(* bootstrap_system, the asyncio runtime, the workers it starts and the    *)
(* process teardown hook.  A "loop" worker (BaseWorker) is a task of the   *)
(* runtime's event loop, a "thread" worker (the robot status worker) has a *)
(* thread of its own.  The main thread boots, and later runs the hook.     *)
(* The robot watchdog listens to what the status worker publishes.         *)
(***************************************************************************)
EXTENDS Naturals, Sequences, SequencesExt

CONSTANTS
    Order,        \* the workers, in the order they are registered
    Camera,       \* the one of them that opens a device and may fail
    Watchdog,     \* the robot watchdog
    StatusWorker, \* the thread worker
    FakeRobot,    \* FAKE_ROBOT
    Timeout,      \* silence, in rounds of the status worker, that the watchdog bears
    None

VARIABLES
    boot,     \* main thread: where bootstrap_system is
    flags,    \* bootstrap_status: the entries that are TRUE
    results,  \* start_all: per worker whether it was reported started, or None
    hook,     \* main thread: where the teardown hook is
    hooked,   \* whether atexit knows the hook
    loop,     \* AsyncRuntime: "none", "running", "stopped"
    work,     \* per worker: its status, is_running, task and whether it is cancelled
    link,     \* whether the robot is connected
    silence,  \* rounds since the last heartbeat
    judged,   \* the watchdog has found the silence too long and not yet said so
    healthy

vars == <<boot, flags, results, hook, hooked, loop, work, link, silence, judged, healthy>>

Worker == ToSet(Order)
LoopWorker == Worker \ {StatusWorker}
Alive == {"called", "queued", "awake", "asleep", "backoff"}
At(stage) == <<stage, 0>>
Stages == {"runtime", "robot", "hook", "vision", "workflow", "persistence", "ready", "up", "failed"}
Flags == {"runtime", "services", "robot", "vision", "workers", "workflow", "persistence", "ready"}

TypeOK ==
    /\ boot \in (Stages \X {0}) \cup ({"start", "wait"} \X (1..Len(Order)))
    /\ flags \subseteq Flags /\ results \in [Worker -> BOOLEAN \cup {None}]
    /\ hook \in ({None, "services", "tasks", "loop", "end"} \X {0}) \cup ({"stop"} \X (1..Len(Order)))
    /\ hooked \in BOOLEAN /\ loop \in {"none", "running", "stopped"}
    /\ work \in [Worker -> [status : {"IDLE", "RUNNING", "STOPPING", "STOPPED", "FAILED"}, running : BOOLEAN,
                            task : Alive \cup {None, "done"}, held : BOOLEAN, cancel : BOOLEAN]]
    /\ link \in BOOLEAN /\ silence \in 0..(Timeout + 1) /\ judged \in BOOLEAN /\ healthy \in BOOLEAN

Init ==
    /\ boot = At("runtime") /\ flags = {} /\ results = [w \in Worker |-> None]
    /\ hook = At(None) /\ hooked = FALSE /\ loop = "none"
    /\ work = [w \in Worker |-> [status |-> "IDLE", running |-> FALSE, task |-> None,
                                 held |-> FALSE, cancel |-> FALSE]]
    /\ link \in BOOLEAN /\ silence = 0 /\ judged = FALSE /\ healthy = TRUE

-----------------------------------------------------------------------------
(* bootstrap_system *)

Quiet == UNCHANGED <<link, silence, judged, healthy>>

\* AsyncRuntime.start, or the error that ends the boot
StartRuntime ==
    /\ boot = At("runtime")
    /\ \/ boot' = At("robot") /\ loop' = "running" /\ flags' = flags \cup {"runtime"}
       \/ boot' = At("failed") /\ UNCHANGED <<loop, flags>>
    /\ UNCHANGED <<results, hook, hooked, work>> /\ Quiet

\* robot.connect() is asked once; a robot that is away is recorded and the boot goes on.
ConnectRobot ==
    /\ boot = At("robot") /\ boot' = At("hook")
    /\ flags' = flags \cup {"services"} \cup (IF link THEN {"robot"} ELSE {})
    /\ UNCHANGED <<results, hook, hooked, loop, work>> /\ Quiet

RegisterHook ==
    /\ boot = At("hook") /\ boot' = At("vision") /\ hooked' = TRUE
    /\ UNCHANGED <<flags, results, hook, loop, work>> /\ Quiet

\* update_vision_bootstrap_status: started for real, or not
StartVision ==
    /\ boot = At("vision") /\ boot' = <<"start", 1>>
    /\ flags' \in {flags, flags \cup {"vision"}}
    /\ UNCHANGED <<results, hook, hooked, loop, work>> /\ Quiet

\* On to the next worker, or to what follows the last one
AfterStart(i) == IF i = Len(Order) THEN At("workflow") ELSE <<"start", i + 1>>

\* start_all: a thread starts at once, a coroutine is handed to the loop and awaited
StartWorker(i) ==
    /\ boot = <<"start", i>>
    /\ LET w == Order[i] IN
       IF w = StatusWorker
       THEN /\ work' = [work EXCEPT ![w] = [@ EXCEPT !.status = "RUNNING", !.running = TRUE,
                                                     !.task = "awake", !.held = TRUE]]
            /\ results' = [results EXCEPT ![w] = TRUE]
            /\ boot' = AfterStart(i)
       ELSE /\ work' = [work EXCEPT ![w].task = "called"]
            /\ boot' = <<"wait", i>> /\ UNCHANGED results
    /\ UNCHANGED <<flags, hook, hooked, loop>> /\ Quiet

\* BaseWorker.start on the loop
StartRuns(w) ==
    /\ loop = "running" /\ w \in LoopWorker /\ work[w].task = "called"
    /\ work' = [work EXCEPT ![w] = [@ EXCEPT !.status = "RUNNING", !.running = TRUE, !.task = "queued",
                                             !.held = TRUE]]
    /\ UNCHANGED <<boot, flags, results, hook, hooked, loop>> /\ Quiet

\* _worker_is_started of what _worker_snapshot shows
Failed(w) == work[w].status = "FAILED"
SnapshotRunning(w) == work[w].running \/ (work[w].held /\ work[w].task \in Alive)
Started(w) == ~Failed(w) /\ work[w].task # "done" /\ SnapshotRunning(w)

\* The call returned, or took longer than two seconds.
WorkerStarted(i) ==
    /\ boot = <<"wait", i>>
    /\ \/ work[Order[i]].task # "called" /\ results' = [results EXCEPT ![Order[i]] = Started(Order[i])]
       \/ results' = [results EXCEPT ![Order[i]] = FALSE]
    /\ boot' = AfterStart(i)
    /\ UNCHANGED <<flags, hook, hooked, loop, work>> /\ Quiet

\* The results of the critical workers are judged; the coordinator starts.
Critical == Worker \ {Camera, Watchdog}
StartWorkflow ==
    /\ boot = At("workflow") /\ boot' = At("persistence")
    /\ flags' = flags \cup {"workflow"} \cup (IF \A w \in Critical : results[w] = TRUE THEN {"workers"} ELSE {})
    /\ UNCHANGED <<results, hook, hooked, loop, work>> /\ Quiet

StartPersistence ==
    /\ boot = At("persistence")
    /\ \/ boot' = At("ready") /\ flags' = flags \cup {"persistence"}
       \/ boot' = At("failed") /\ UNCHANGED flags
    /\ UNCHANGED <<results, hook, hooked, loop, work>> /\ Quiet

\* is_bootstrap_ready, once and for all
ReadyNow ==
    /\ {"runtime", "services", "workers", "workflow", "persistence", "vision"} \subseteq flags
    /\ "robot" \in flags \/ FakeRobot
BootEnds ==
    /\ boot = At("ready") /\ boot' = At("up")
    /\ flags' = IF ReadyNow THEN flags \cup {"ready"} ELSE flags
    /\ UNCHANGED <<results, hook, hooked, loop, work>> /\ Quiet

-----------------------------------------------------------------------------
(* The workers *)

Rest == UNCHANGED <<boot, flags, results, hook, hooked, loop>>

\* What _run_guarded leaves behind: run() returned, or an exception came out of it.
Returned(w) == [w EXCEPT !.status = IF w.running /\ @ \notin {"STOPPING", "STOPPED"} THEN "STOPPED" ELSE @,
                         !.running = FALSE, !.task = "done"]
Cancelled(w) == [w EXCEPT !.running = @ /\ w.status = "RUNNING", !.task = "done"]
Raised(w) == [w EXCEPT !.status = "FAILED", !.running = FALSE, !.task = "done"]

\* The task's first step.  One that is cancelled before it never enters its try.
Begin(w) ==
    /\ loop = "running" /\ w \in LoopWorker /\ work[w].task = "queued"
    /\ \/ /\ work[w].cancel /\ work' = [work EXCEPT ![w].task = "done"]
       \/ /\ ~work[w].cancel
          /\ \/ work' = [work EXCEPT ![w] = IF @.running THEN [@ EXCEPT !.task = "awake"] ELSE Returned(@)]
             \/ w = Camera /\ work' = [work EXCEPT ![w] = Returned(@)]
             \/ w = Camera /\ work' = [work EXCEPT ![w] = Raised(@)]
    /\ Rest /\ Quiet

\* One round of a loop worker: it sleeps after it, longer when the round failed.
Round(w) ==
    /\ loop = "running" /\ w \in LoopWorker /\ work[w].task = "awake"
    /\ \E pause \in {"asleep", "backoff"} : work' = [work EXCEPT ![w].task = pause]
    /\ IF w # Watchdog THEN Quiet
       ELSE /\ judged' = (judged \/ (silence > Timeout /\ healthy))
            /\ UNCHANGED <<link, silence, healthy>>
    /\ Rest

\* The watchdog's verdict, on the loop's thread, after it looked at the silence
Verdict ==
    /\ loop = "running" /\ judged /\ judged' = FALSE /\ healthy' = FALSE
    /\ UNCHANGED <<work, link, silence>> /\ Rest

Wakes(w) ==
    /\ loop = "running" /\ w \in LoopWorker /\ work[w].task \in {"asleep", "backoff"}
    /\ work' = [work EXCEPT ![w] =
         IF ~@.cancel THEN IF @.running THEN [@ EXCEPT !.task = "awake"] ELSE Returned(@)
         ELSE IF @.task = "asleep" THEN Returned(@) ELSE Cancelled(@)]
    /\ Rest /\ Quiet

\* RobotStatusWorker._run: whatever the robot answers is published, a lost connection too; only
\* a get_status that raises or hangs is silent.
StatusRound ==
    /\ work[StatusWorker].task = "awake"
    /\ \/ silence' = 0 /\ healthy' = TRUE
       \/ UNCHANGED <<silence, healthy>>
    /\ work' = [work EXCEPT ![StatusWorker].task = "asleep"]
    /\ UNCHANGED <<link, judged>> /\ Rest

StatusWakes ==
    /\ work[StatusWorker].task = "asleep"
    /\ work' = [work EXCEPT ![StatusWorker] =
                  IF @.running THEN [@ EXCEPT !.task = "awake"] ELSE [@ EXCEPT !.task = "done"]]
    /\ silence' = IF silence > Timeout THEN silence ELSE silence + 1
    /\ UNCHANGED <<link, judged, healthy>> /\ Rest

LinkChanges ==
    /\ boot = At("up") /\ link' = ~link
    /\ UNCHANGED <<work, silence, judged, healthy>> /\ Rest

-----------------------------------------------------------------------------
(* The teardown hook, after the program or the failed boot *)

\* Mutant: the hook goes straight to stopping the runtime.
HookBeginsAtRuntime ==
    /\ boot \in {At("up"), At("failed")} /\ hooked /\ hook = At(None)
    /\ hook' = At("tasks")
    /\ UNCHANGED <<boot, flags, results, hooked, loop, work>> /\ Quiet

HookBegins ==
    /\ boot \in {At("up"), At("failed")} /\ hooked /\ hook = At(None)
    /\ hook' = <<"stop", 1>>
    /\ UNCHANGED <<boot, flags, results, hooked, loop, work>> /\ Quiet

\* _shutdown_sync_via_runtime: request_stop for a loop worker, stop and join for the thread.
\* A join that takes too long leaves the thread to end by itself.
HookStops(i) ==
    /\ hook = <<"stop", i>>
    /\ LET w == Order[i] IN
       work' = [work EXCEPT ![w] =
         IF w = StatusWorker THEN [@ EXCEPT !.status = "STOPPED", !.running = FALSE]
         ELSE [@ EXCEPT !.status = "STOPPED", !.running = FALSE, !.cancel = work[w].cancel \/ work[w].held,
                        !.held = FALSE]]
    /\ hook' = IF i = Len(Order) THEN At("services") ELSE <<"stop", i + 1>>
    /\ UNCHANGED <<boot, flags, results, hooked, loop>> /\ Quiet

\* The engine, the vision system and the ingest server are stopped (they have modules of their own).
HookStopsServices ==
    /\ hook = At("services") /\ hook' = At("tasks")
    /\ UNCHANGED <<boot, flags, results, hooked, loop, work>> /\ Quiet

\* AsyncRuntime.stop: every task is cancelled ...
HookCancels ==
    /\ hook = At("tasks") /\ hook' = At("loop")
    /\ work' = [w \in Worker |->
         IF w # StatusWorker /\ work[w].task \in Alive
         THEN [work[w] EXCEPT !.cancel = TRUE,
                              !.task = IF @ = "called" THEN None ELSE @] ELSE work[w]]
    /\ UNCHANGED <<boot, flags, results, hooked, loop>> /\ Quiet

\* ... and when they have ended the loop stops.  (Two seconds suffice: no task blocks the loop.)
HookStopsLoop ==
    /\ hook = At("loop") /\ hook' = At("end") /\ loop' = "stopped"
    /\ \A w \in LoopWorker : work[w].task \notin Alive
    /\ UNCHANGED <<boot, flags, results, hooked, work>> /\ Quiet

Next ==
    \/ StartRuntime \/ ConnectRobot \/ RegisterHook \/ StartVision
    \/ \E i \in 1..Len(Order) : StartWorker(i) \/ WorkerStarted(i) \/ HookStops(i)
    \/ StartWorkflow \/ StartPersistence \/ BootEnds
    \/ \E w \in LoopWorker : StartRuns(w) \/ Begin(w) \/ Round(w) \/ Wakes(w)
    \/ Verdict \/ StatusRound \/ StatusWakes \/ LinkChanges
    \/ HookBegins \/ HookStopsServices \/ HookCancels \/ HookStopsLoop

Spec == Init /\ [][Next]_vars

-----------------------------------------------------------------------------

\* What the status pages are told is true: a worker that was reported started and whose snapshot
\* says it is running has a task or a thread that is, through every boot, crash and teardown.
\* (One whose start call came too late to be reported may be told to stop before it starts.)
RunningMeansAlive ==
    \A w \in Worker : results[w] = TRUE /\ SnapshotRunning(w) => work[w].task \in Alive

=============================================================================
