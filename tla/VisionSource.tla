---------------------------- MODULE VisionSource ----------------------------
(***************************************************************************)
(* Where the camera pictures come from and who takes them: the capture     *)
(* thread of CameraManager, the reader thread of TMflowJsonFrameSource,    *)
(* the passive TMvision source, VisionSourceManager that switches between  *)
(* them, the HTTP handlers that post pictures, and the shared FrameBuffer. *)
(* Its consumers - the inference thread, the MJPEG stream, the snapshot    *)
(* and the calibration all call get_latest_raw - take one queue head per   *)
(* step, in any number.                                                    *)
(*                                                                         *)
(* What is atomic.  Every call on the queue is one step, so put_raw, which *)
(* makes up to three, can interleave with another put_raw.  A blocking call    *)
(* (reading the device, opening it, connecting, a back-off sleep) is a     *)
(* place where a thread waits; stop() gives up joining only a thread that  *)
(* is in one of those.  The pictures themselves do not matter here, only   *)
(* how many are queued.                                                    *)
(***************************************************************************)
EXTENDS Naturals, Sequences, FiniteSets

CONSTANTS
    Size,      \* maxsize of the raw frame queue
    Sources,   \* ids of the source objects built; bounds those alive at once
    Threads,   \* ids of the threads started; bounds those alive at once
    Switches   \* bound: changes of source or camera, and restarts

VARIABLES
    queued,   \* raw_frame_queue.qsize()
    manager,  \* VisionSourceManager: its source object, running, and its caller
    source,   \* the source objects
    thread,   \* their threads
    poster    \* the HTTP handler that stores a picture: where it is in put_raw

vars == <<queued, manager, source, thread, poster>>

Kind == {"opencv", "tmvision_http", "tmflow_json"}
Blocked == {"read", "open", "sleep"}
Writing == {"put", "full", "again"}

NoThread == [of |-> 0, pc |-> "gone", live |-> FALSE]

TypeOK ==
    /\ queued \in 0..Size
    /\ manager \in [at : Sources, running : BOOLEAN, switches : 0..Switches,
                    pc : {"idle", "joining"}, next : Kind \cup {"same"}]
    /\ source \in [Sources -> [kind : Kind, running : BOOLEAN, stop : BOOLEAN,
                               open : BOOLEAN, ref : Threads \cup {0}]]
    /\ thread \in [Threads -> [of : Sources \cup {0}, live : BOOLEAN,
                               pc : {"gone", "top"} \cup Blocked \cup Writing]]
    /\ poster \in {"idle"} \cup Writing

ThreadsOf(s) == {t \in Threads : thread[t].pc # "gone" /\ thread[t].of = s}

\* An id no live thread has, and a source object nothing refers to any more.
FreeThread == {t \in Threads : thread[t].pc = "gone"}
FreeSource == {s \in Sources : s # manager.at /\ ThreadsOf(s) = {}}
AThread == CHOOSE t \in FreeThread : \A u \in FreeThread : t <= u
ASource == CHOOSE s \in FreeSource : \A u \in FreeSource : s <= u

-----------------------------------------------------------------------------
(* FrameBuffer.put_raw.  Its caller is at "put", at "full" after queue.Full, where it
   drops the oldest picture, and at "again" for its second attempt, whose queue.Full
   nobody catches; when another thread emptied the queue meanwhile it gives up. *)

PutNext(pc) ==
    CASE pc = "put"   -> IF queued < Size THEN "done" ELSE "full"
      [] pc = "full"  -> IF queued = 0 THEN "done" ELSE "again"
      [] pc = "again" -> IF queued < Size THEN "done" ELSE "raised"

PutStep(pc) ==
    queued' = CASE pc = "full"                     -> IF queued = 0 THEN 0 ELSE queued - 1
                [] pc # "full" /\ queued < Size    -> queued + 1
                [] OTHER                           -> queued

(* A handler that stores a picture: the TMflow and TMvision posts, the test frame and
   the snapshot's own capture.  An exception ends the request. *)
Post ==
    /\ poster = "idle" /\ poster' = "put"
    /\ UNCHANGED <<queued, manager, source, thread>>

PostStep ==
    LET next == PutNext(poster)
    IN /\ poster \in Writing
       /\ PutStep(poster)
       /\ poster' = IF next \in Writing THEN next ELSE "idle"
       /\ UNCHANGED <<manager, source, thread>>

\* get_latest_raw, by anyone who calls it, takes the head of the queue.
Take ==
    /\ queued > 0 /\ queued' = queued - 1
    /\ UNCHANGED <<manager, source, thread, poster>>

-----------------------------------------------------------------------------
(* Threads of a source. *)

Goto(t, pc) == thread' = [thread EXCEPT ![t].pc = pc]
Mine(t) == source[thread[t].of]
Is(t, kind, pc) == thread[t].pc = pc /\ Mine(t).kind = kind
Quiet == UNCHANGED <<queued, manager, poster>>

\* Who still held the old capture of source s reads from a released one.
Released(s) == [t \in Threads |-> IF thread[t].of = s THEN [thread[t] EXCEPT !.live = FALSE]
                                  ELSE thread[t]]

\* CameraManager._update, the head of its loop: stop, reconnect or read.
CameraTop(t) ==
    /\ Is(t, "opencv", "top")
    /\ thread' = [thread EXCEPT
         ![t] = IF ~Mine(t).running THEN NoThread
                ELSE [@ EXCEPT !.pc = IF Mine(t).open THEN "read" ELSE "open",
                               !.live = Mine(t).open]]
    /\ UNCHANGED source /\ Quiet

\* The reconnect opens the device and installs it, whatever stop() did meanwhile.
CameraReopens(t) ==
    /\ Is(t, "opencv", "open")
    /\ \/ /\ source' = [source EXCEPT ![thread[t].of].open = TRUE]
          /\ thread' = [Released(thread[t].of) EXCEPT ![t].pc = "top"]
       \/ Goto(t, "sleep") /\ UNCHANGED source
    /\ Quiet

CameraWakes(t) == Is(t, "opencv", "sleep") /\ Goto(t, "top") /\ UNCHANGED source /\ Quiet

\* A read gives a picture or fails; after more than ten failures in a row, counted by
\* the thread and not here, the thread releases the capture.
CameraReads(t) ==
    /\ Is(t, "opencv", "read")
    /\ \/ thread[t].live /\ Goto(t, "put") /\ UNCHANGED source
       \/ Goto(t, "top") /\ UNCHANGED source
       \/ /\ source' = [source EXCEPT ![thread[t].of].open = FALSE]
          /\ thread' = [Released(thread[t].of) EXCEPT ![t].pc = "top"]
    /\ Quiet

\* Mutant: the reader does not catch the exception either.
AfterRaiseEnds(t) == "gone"

\* What put_raw's exception does to the thread that called it: it ends the capture
\* thread of a camera; a TMflow reader catches it and connects again.
AfterRaise(t) == IF Mine(t).kind = "opencv" THEN "gone" ELSE "sleep"

Stored(t) == IF Mine(t).kind = "opencv" THEN "top" ELSE "read"

ThreadPuts(t) ==
    LET next == PutNext(thread[t].pc)
        pc == CASE next = "done"   -> Stored(t)
                [] next = "raised" -> AfterRaise(t)
                [] OTHER           -> next
    IN /\ thread[t].pc \in Writing
       /\ PutStep(thread[t].pc)
       /\ thread' = [thread EXCEPT ![t] = IF pc = "gone" THEN NoThread
                                          ELSE [@ EXCEPT !.pc = pc]]
       /\ source' = [source EXCEPT ![thread[t].of].open = @ /\ pc # "sleep"]
       /\ UNCHANGED <<manager, poster>>

\* TMflowJsonFrameSource._run: connect, or wait and try again, until stopped.
StreamTop(t) ==
    /\ Is(t, "tmflow_json", "top")
    /\ thread' = [thread EXCEPT ![t] = IF Mine(t).stop THEN NoThread
                                       ELSE [@ EXCEPT !.pc = "open"]]
    /\ UNCHANGED source /\ Quiet

StreamConnects(t) ==
    /\ Is(t, "tmflow_json", "open")
    /\ \/ /\ source' = [source EXCEPT ![thread[t].of].open = TRUE]
          /\ thread' = [thread EXCEPT ![t].pc = "read", ![t].live = TRUE]
       \/ Goto(t, IF Mine(t).stop THEN "top" ELSE "sleep") /\ UNCHANGED source
    /\ Quiet

\* _read_loop and _handle_line: a picture; a line that is no picture or comes too soon
\* after the last one; or the stream is over, which closes the socket.
StreamReads(t) ==
    /\ Is(t, "tmflow_json", "read")
    /\ \/ ~Mine(t).stop /\ Mine(t).open /\ Goto(t, "put") /\ UNCHANGED source
       \/ /\ source' = [source EXCEPT ![thread[t].of].open = FALSE]
          /\ Goto(t, IF Mine(t).stop THEN "top" ELSE "sleep")
    /\ Quiet

StreamWakes(t) ==
    /\ Is(t, "tmflow_json", "sleep")
    /\ Goto(t, "top")
    /\ UNCHANGED source /\ Quiet

ThreadStep(t) ==
    \/ CameraTop(t) \/ CameraReopens(t) \/ CameraWakes(t) \/ CameraReads(t)
    \/ StreamTop(t) \/ StreamConnects(t) \/ StreamReads(t) \/ StreamWakes(t)
    \/ ThreadPuts(t)

-----------------------------------------------------------------------------
(* VisionSourceManager and the objects it starts and stops, called by the HTTP
   handlers of the setup page and of the camera selection. *)

\* The end of stop(): a camera's capture is released.
Closed == [source EXCEPT ![manager.at].open = FALSE]

\* start(): a camera that cannot be opened, or a stream without an address, is not
\* started; a started one, except the passive source, has a thread of its own.
Started(s, kind, ok) ==
    /\ source' = [Closed EXCEPT ![s] =
         [kind |-> kind, running |-> ok, stop |-> FALSE, open |-> ok /\ kind = "opencv",
          ref |-> IF ok /\ kind # "tmvision_http" THEN AThread ELSE 0]]
    /\ thread' = [t \in Threads |->
         IF ok /\ kind # "tmvision_http" /\ t = AThread
         THEN [of |-> s, pc |-> "top", live |-> FALSE]
         ELSE Released(manager.at)[t]]

Startable(kind, ok) == /\ kind = "tmvision_http" => ok
                       /\ FreeThread # {}

\* stop(), up to the join: the loops are told to end, and the stream is closed.
Stopping(next) ==
    /\ source' = [source EXCEPT ![manager.at] =
         [@ EXCEPT !.running = FALSE, !.stop = TRUE,
                   !.open = source[manager.at].open /\ source[manager.at].kind = "opencv"]]
    /\ manager' = [manager EXCEPT !.pc = "joining", !.next = next, !.switches = @ + 1]
    /\ UNCHANGED <<queued, thread, poster>>

CanSwitch == manager.pc = "idle" /\ manager.switches < Switches

\* set_source: a running source is stopped first; one that is not running is only
\* replaced, and the new one is not started.
SetSource(kind) ==
    /\ CanSwitch
    /\ \/ manager.running /\ Stopping(kind)
       \/ /\ ~manager.running /\ FreeSource # {}
          /\ manager' = [manager EXCEPT !.at = ASource, !.switches = @ + 1]
          /\ source' = [source EXCEPT ![ASource] =
               [kind |-> kind, running |-> FALSE, stop |-> FALSE, open |-> FALSE, ref |-> 0]]
          /\ UNCHANGED <<queued, thread, poster>>

\* set_camera_index: only a camera that runs is stopped and started again.
SetCameraIndex ==
    /\ CanSwitch
    /\ source[manager.at].kind = "opencv" /\ source[manager.at].running
    /\ Stopping("same")

\* join(timeout) returns when the thread is over or, the time being up, while it is in
\* a blocking call.
JoinReturns ==
    LET t == source[manager.at].ref
    IN t \in ThreadsOf(manager.at) => thread[t].pc \in Blocked

\* The rest of stop() and of the switch: the same camera again, whose result the manager
\* does not record, or a new source object.
Switched(ok) ==
    /\ manager.pc = "joining" /\ JoinReturns
    /\ IF manager.next = "same"
       THEN /\ Startable("opencv", ok)
            /\ Started(manager.at, "opencv", ok)
            /\ manager' = [manager EXCEPT !.pc = "idle"]
       ELSE /\ FreeSource # {} /\ Startable(manager.next, ok)
            /\ Started(ASource, manager.next, ok)
            /\ manager' = [manager EXCEPT !.pc = "idle", !.at = ASource, !.running = ok]
    /\ UNCHANGED <<queued, poster>>

-----------------------------------------------------------------------------
Init ==
    /\ queued = 0 /\ poster = "idle"
    /\ \E kind \in Kind, ok \in BOOLEAN, first \in Sources, t \in Threads :
         /\ kind = "tmvision_http" => ok
         /\ \A s \in Sources : first <= s
         /\ \A u \in Threads : t <= u
         /\ manager = [at |-> first, running |-> ok, switches |-> 0,
                       pc |-> "idle", next |-> "same"]
         /\ LET threaded == ok /\ kind # "tmvision_http"
            IN /\ source = [s \in Sources |->
                    IF s = first
                    THEN [kind |-> kind, running |-> ok, stop |-> FALSE,
                          open |-> ok /\ kind = "opencv", ref |-> IF threaded THEN t ELSE 0]
                    ELSE [kind |-> "tmvision_http", running |-> FALSE, stop |-> FALSE,
                          open |-> FALSE, ref |-> 0]]
               /\ thread = [u \in Threads |->
                    IF u = t /\ threaded THEN [of |-> first, pc |-> "top", live |-> FALSE]
                    ELSE NoThread]

Next ==
    \/ Post \/ PostStep \/ Take
    \/ \E t \in Threads : ThreadStep(t)
    \/ \E kind \in Kind : SetSource(kind)
    \/ SetCameraIndex
    \/ \E ok \in BOOLEAN : Switched(ok)

Spec == Init /\ [][Next]_vars

(* Every blocking call of a thread returns: reads and connects have timeouts or fail,
   sleeps end. *)
Fair == \A t \in Threads : WF_vars(ThreadStep(t))
FairSpec == Spec /\ Fair

-----------------------------------------------------------------------------
(* A stream reader outlives queue.Full: while its source runs it has a thread, however
   put_raw, a post and the consumers interleave. *)
StreamReaderSurvives ==
    \A s \in Sources : source[s].kind = "tmflow_json" /\ source[s].running
                          => ThreadsOf(s) # {}

(* No thread outlives its source for ever: a stopped source's threads, including those
   stop() gave up waiting for, come to an end. *)
SourcesEnd == \A s \in Sources : []<>(source[s].running \/ ThreadsOf(s) = {})
=============================================================================
