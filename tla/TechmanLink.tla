----------------------------- MODULE TechmanLink -----------------------------
(***************************************************************************)
(* TechmanPyAdapter: the arm driven by External Script.  Threads call the  *)
(* adapter; it runs their coroutines on an event loop in a thread of its   *)
(* own, started on demand and stopped by disconnect, and cancels an        *)
(* operation that takes too long.                                          *)
(*                                                                         *)
(* techmanpy and the controller are external.  A script is accepted in the *)
(* Listen node; motions are queued and done in order; told to exit Listen, *)
(* the flow leaves it a little later, runs its Vision node and returns.    *)
(***************************************************************************)
EXTENDS Naturals, Sequences, FiniteSets

CONSTANTS
    Caller,      \* threads that call the adapter
    MaxCalls     \* bound: calls made

VARIABLES
    loops,     \* every loop made: its state
    current,   \* self._loop, 0 for None
    ready,     \* self._loop_ready
    lock,      \* self._loop_lock: its holder, or "free"
    call,      \* per caller: the call it is in, the coroutine it waits for, and (history)
               \* whether a probe of it failed while the flow was in Listen
    connected,
    flow,      \* the controller: in Listen, told to leave, Vision done, motions
    tag,       \* self._queue_tag
    calls      \* counts calls and disconnects

vars == <<loops, current, ready, lock, call, connected, flow, tag, calls>>
adapter == <<loops, current, ready, lock>>

Kinds == {"connect", "motion", "gripper", "vision", "halt"}
NoCall == [kind |-> "none", pc |-> "idle", co |-> "none", loop |-> 0, tag |-> 0,
           seen |-> FALSE, blind |-> FALSE, ok |-> FALSE]

Init ==
    /\ loops = <<>> /\ current = 0 /\ ready = FALSE /\ lock = "free"
    /\ call = [c \in Caller |-> NoCall]
    /\ connected = FALSE
    /\ flow = [listen |-> TRUE, leave |-> FALSE, vision |-> FALSE, queue |-> <<>>, done |-> {}]
    /\ tag = 0 /\ calls = 0

At(c, pc) == call[c].pc = pc
Goto(c, pc) == call' = [call EXCEPT ![c].pc = pc]
Ends(c, ok) == call' = [call EXCEPT ![c].pc = "end", ![c].ok = ok]

\* connect, send_motion, set_gripper, trigger_vision, halt.  A motion or a Vision
\* cycle on an adapter that is not connected connects first; that is a call of its
\* own here.
Begin(c) ==
    /\ At(c, "idle") /\ calls < MaxCalls
    /\ calls' = calls + 1
    /\ \E k \in Kinds :
           /\ k \in {"motion", "vision"} => connected
           /\ \A d \in Caller : call[d].kind # k
           /\ call' = [call EXCEPT ![c] = [NoCall EXCEPT !.kind = k, !.pc = "ensure"]]
    /\ UNCHANGED <<adapter, connected, flow, tag>>

Return(c) ==
    /\ At(c, "end")
    /\ connected' = IF call[c].kind = "connect" THEN call[c].ok ELSE connected
    /\ call' = [call EXCEPT ![c] = NoCall]
    /\ UNCHANGED <<adapter, flow, tag, calls>>

-----------------------------------------------------------------------------
(* _run_async and the event loop *)

IsRunning(g) == g # 0 /\ loops[g] \in {"running", "stopping"}

\* _ensure_loop: a loop that is not running yet is not running.
EnsureLoop(c) ==
    /\ At(c, "ensure") /\ lock = "free"
    /\ IF IsRunning(current)
         THEN /\ call' = [call EXCEPT ![c].pc = "submit", ![c].loop = current]
              /\ UNCHANGED adapter
         ELSE /\ loops' = Append(loops, "starting")
              /\ ready' = FALSE /\ lock' = c
              /\ Goto(c, "ready")
              /\ UNCHANGED current
    /\ UNCHANGED <<connected, flow, tag, calls>>

\* _loop_ready.wait: the loop whatever made it ready, or a TimeoutError.
LoopIsReady(c) ==
    /\ At(c, "ready")
    /\ \/ ready /\ call' = [call EXCEPT ![c].pc = "submit", ![c].loop = current]
       \/ ~ready /\ Ends(c, FALSE)
    /\ lock' = "free"
    /\ UNCHANGED <<loops, current, ready, connected, flow, tag, calls>>

\* _run_loop publishes the loop before run_forever.
LoopPublished(g) ==
    /\ loops[g] = "starting"
    /\ loops' = [loops EXCEPT ![g] = "published"]
    /\ current' = g /\ ready' = TRUE
    /\ UNCHANGED <<lock, call, connected, flow, tag, calls>>

LoopRuns(g) ==
    /\ loops[g] = "published"
    /\ loops' = [loops EXCEPT ![g] = "running"]
    /\ UNCHANGED <<current, ready, lock, call, connected, flow, tag, calls>>

\* run_forever ends: what is pending is cancelled, and a coroutine handed over too
\* late is never run at all.
LoopCloses(g) ==
    /\ loops[g] = "stopping"
    /\ loops' = [loops EXCEPT ![g] = "closed"]
    /\ call' = [c \in Caller |->
          IF At(c, "wait") /\ call[c].loop = g /\ call[c].co # "queued"
            THEN [call[c] EXCEPT !.pc = "end", !.ok = FALSE] ELSE call[c]]
    /\ UNCHANGED <<current, ready, lock, connected, flow, tag, calls>>

\* run_coroutine_threadsafe: refused by a loop that is closed.
Submit(c) ==
    /\ At(c, "submit")
    /\ IF loops[call[c].loop] = "closed" THEN Ends(c, FALSE)
       ELSE call' = [call EXCEPT ![c].pc = "wait", ![c].co = "queued"]
    /\ UNCHANGED <<adapter, connected, flow, tag, calls>>

\* future.result(timeout): the operation is cancelled, wherever it is.
OperationTimesOut(c) ==
    /\ At(c, "wait")
    /\ Ends(c, FALSE)
    /\ UNCHANGED <<adapter, connected, flow, tag, calls>>

\* disconnect and _stop_loop; the join is given up after a second.
Disconnect ==
    /\ lock = "free" /\ calls < MaxCalls
    /\ calls' = calls + 1
    /\ connected' = FALSE
    /\ loops' = IF IsRunning(current) THEN [loops EXCEPT ![current] = "stopping"] ELSE loops
    /\ current' = 0 /\ ready' = FALSE
    /\ UNCHANGED <<lock, call, flow, tag>>

-----------------------------------------------------------------------------
(* The coroutines, on a loop that runs *)

Runs(c, co) == At(c, "wait") /\ call[c].co = co /\ loops[call[c].loop] = "running"
CoKeeps == UNCHANGED <<adapter, connected, calls>>
\* techmanpy raises: no connection, a refused script, an answer that says no.
Raises(c) == Ends(c, FALSE) /\ UNCHANGED <<flow, tag>>

\* _check_listen_node, for connect and before Vision is triggered.
CheckListen(c) ==
    /\ Runs(c, "queued") /\ call[c].kind \in {"connect", "vision"}
    /\ \/ Raises(c)
       \/ /\ IF call[c].kind = "connect" THEN Ends(c, flow.listen)
             ELSE IF flow.listen THEN call' = [call EXCEPT ![c].co = "exit"] ELSE Ends(c, FALSE)
          /\ UNCHANGED <<flow, tag>>
    /\ CoKeeps

\* _send_motion_script: the motion and its tag are queued in the controller.
SendScript(c) ==
    /\ Runs(c, "queued") /\ call[c].kind = "motion"
    /\ \/ Raises(c)
       \/ /\ flow.listen
          /\ tag' = tag + 1
          /\ flow' = [flow EXCEPT !.queue = Append(@, tag')]
          /\ call' = [call EXCEPT ![c].co = "tagged", ![c].tag = tag']
    /\ CoKeeps

Arrived(c) ==
    /\ Runs(c, "tagged") /\ call[c].tag \in flow.done
    /\ Ends(c, TRUE)
    /\ UNCHANGED <<flow, tag>> /\ CoKeeps

\* _send_raw_tm_script and _halt_script: accepted is done.
SendCommand(c) ==
    /\ Runs(c, "queued") /\ call[c].kind \in {"gripper", "halt"}
    /\ \/ Raises(c)
       \/ /\ Ends(c, TRUE)
          /\ flow' = IF call[c].kind = "halt" THEN [flow EXCEPT !.queue = <<>>] ELSE flow
          /\ UNCHANGED tag
    /\ CoKeeps

\* _trigger_vision_cycle leaves Listen once ...
ExitListen(c) ==
    /\ Runs(c, "exit")
    /\ \/ Raises(c)
       \/ /\ flow' = [flow EXCEPT !.leave = flow.listen, !.vision = FALSE]
          /\ call' = [call EXCEPT ![c].co = "poll"]
          /\ UNCHANGED tag
    /\ CoKeeps

\* ... and is done when Listen is active again after it was not; a probe that
\* raises counts as not active.
Probe(c) ==
    /\ Runs(c, "poll")
    /\ \E active \in {flow.listen, FALSE} :
           IF active /\ call[c].seen THEN Ends(c, TRUE)
           ELSE call' = [call EXCEPT ![c].seen = @ \/ ~active, ![c].blind = @ \/ active # flow.listen]
    /\ UNCHANGED <<flow, tag>> /\ CoKeeps

Coroutine(c) == \/ CheckListen(c) \/ SendScript(c) \/ Arrived(c) \/ SendCommand(c)
                \/ ExitListen(c) \/ Probe(c)

-----------------------------------------------------------------------------
(* The controller (external) *)

Leaves == flow.leave /\ flow' = [flow EXCEPT !.listen = FALSE, !.leave = FALSE]
RunsVision == ~flow.listen /\ ~flow.vision /\ flow' = [flow EXCEPT !.vision = TRUE]
Returns == ~flow.listen /\ flow.vision /\ flow' = [flow EXCEPT !.listen = TRUE]
Moves == /\ flow.queue # <<>>
         /\ flow' = [flow EXCEPT !.queue = Tail(@), !.done = @ \cup {Head(flow.queue)}]

Controller == /\ Leaves \/ RunsVision \/ Returns \/ Moves
              /\ UNCHANGED <<adapter, call, connected, tag, calls>>

-----------------------------------------------------------------------------

CallStep(c) == EnsureLoop(c) \/ LoopIsReady(c) \/ Submit(c) \/ OperationTimesOut(c) \/ Return(c)
LoopStep(g) == LoopPublished(g) \/ LoopRuns(g) \/ LoopCloses(g)

Next ==
    \/ \E c \in Caller : Begin(c) \/ CallStep(c) \/ Coroutine(c)
    \/ \E g \in DOMAIN loops : LoopStep(g)
    \/ Disconnect
    \/ Controller

\* A thread goes on, and a timeout passes in time; nothing is assumed of the
\* coroutines, of the loops or of the controller.
Fair == \A c \in Caller : WF_vars(CallStep(c))
Spec == Init /\ [][Next]_vars
FairSpec == Spec /\ Fair

-----------------------------------------------------------------------------

TypeOK ==
    /\ loops \in Seq({"starting", "published", "running", "stopping", "closed"})
    /\ current \in 0..Len(loops) /\ ready \in BOOLEAN /\ lock \in Caller \cup {"free"}
    /\ \A c \in Caller :
           /\ call[c].kind \in Kinds \cup {"none"} /\ call[c].loop \in 0..Len(loops)
           /\ call[c].pc \in {"idle", "ensure", "ready", "submit", "wait", "end"}
           /\ call[c].pc \in {"submit", "wait"} => call[c].loop # 0
           /\ lock = c <=> At(c, "ready")
    /\ connected \in BOOLEAN /\ tag \in Nat /\ calls \in 0..MaxCalls

\* When trigger_vision succeeds, the flow has run its Vision node since it was told to
\* leave Listen, unless a probe that failed meanwhile was taken for the flow being outside.
Triggered(c) == At(c, "end") /\ call[c].kind = "vision" /\ call[c].ok
VisionHasRun == \A c \in Caller : Triggered(c) => flow.vision \/ call[c].blind

\* What the adapter says of itself: "Leave Listen once, let TMflow run its Vision node, then
\* wait for Listen."
TriggeredMeansVision == \A c \in Caller : Triggered(c) => flow.vision

\* Every call of the adapter returns, also when disconnect takes the loop away under
\* it, when the loop never comes up or when the controller never answers (_run_async).
CallsEnd == \A c \in Caller : ~At(c, "idle") ~> At(c, "idle")
=============================================================================
