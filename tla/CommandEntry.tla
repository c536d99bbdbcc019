---------------------------- MODULE CommandEntry ----------------------------
(***************************************************************************)
(* The doors by which a command reaches the event bus: POST /control with  *)
(* the action in its body, POST /control/<action>, the routes of single    *)
(* commands, and the socket event "action".  Each has its own translation  *)
(* of the command into events; the engine worker and the reducers only see *)
(* the events.                                                             *)
(***************************************************************************)
EXTENDS Sequences

VARIABLES request, answer, published
vars == <<request, answer, published>>

\* _CONTROL_ACTION_ALIASES
Meaning == [START |-> "start_engine", START_ENGINE |-> "start_engine", ENGINE_START |-> "start_engine",
            STOP |-> "stop_engine", STOP_ENGINE |-> "stop_engine", ENGINE_STOP |-> "stop_engine",
            SYNC |-> "sync_vision", SYNC_VISION |-> "sync_vision", VISION_SYNC |-> "sync_vision",
            FORCE_SYNC |-> "sync_vision", FORCE_CALIBRATE |-> "sync_vision",
            RESET |-> "reset", PAUSE |-> "pause", UNDO |-> "undo", RESUME |-> "resume"]
Spoken == DOMAIN Meaning \cup {"DANCE"}
Unsaid == "none"

\* mode: what the payload of the request says of the engine's mode, if anything
Request ==
    [door : {"control", "shortcut"}, word : Spoken, mode : {"stop", Unsaid}]
    \cup [door : {"socket"}, word : Spoken, mode : {"stop", Unsaid},
          role : {"admin", "viewer"}, fits : BOOLEAN, full : BOOLEAN]
    \cup [door : {"reset", "stop", "simulation"}]
    \cup [door : {"start"}, ready : BOOLEAN]

Event(type, says) == [type |-> type, says |-> says]
Analysis(mode) == <<Event("ENGINE_ANALYSIS_REQUESTED", mode)>>
Reset == <<Event("SYSTEM_RESET", Unsaid), Event("GAME_RESET", Unsaid)>>
Toast == <<Event("UI_TOAST", Unsaid)>>

\* _dispatch_control_command: the mode of the command replaces the payload's
Dispatched(action) ==
    CASE action \in {"start_engine", "resume"} -> Analysis("start")
      [] action = "stop_engine" -> Analysis("stop")
      [] action = "sync_vision" -> <<Event("UI_ACTION", "SYNC_VISION")>>
      [] action = "reset" -> Reset
      [] action = "pause" -> <<Event("GAME_PAUSE", Unsaid)>>
      [] action = "undo" -> <<Event("GAME_UNDO", Unsaid)>>

\* on_action; for "resume" the payload's mode replaces the command's
SocketDispatched(action, mode) ==
    CASE action = "resume" -> Analysis(IF mode = Unsaid THEN "start" ELSE mode)
      [] action = "start_engine" -> Analysis("start")
      [] action = "stop_engine" -> Analysis("stop")
      [] action = "sync_vision" -> <<Event("UI_ACTION", "SYNC_VISION")>>
      [] action = "reset" -> Reset
      [] action = "pause" -> <<Event("GAME_PAUSE", Unsaid)>> \o Toast
      [] action = "undo" -> <<Event("GAME_UNDO", Unsaid)>> \o Toast

Known(r) == r.word \in DOMAIN Meaning

\* /reset tells nobody but the reducers; /stop pauses; /player/start asks preflight first
RouteAnswer(r) == IF r.door = "start" /\ ~r.ready THEN "player_preflight_failed" ELSE "accepted"
RoutePublished(r) ==
    CASE r.door = "reset" -> <<Event("SYSTEM_RESET", Unsaid)>>
      [] r.door = "stop" -> <<Event("GAME_PAUSE", Unsaid)>>
      [] r.door = "simulation" -> <<Event("UI_ACTION", "simulation")>>
      [] r.door = "start" -> IF r.ready THEN Analysis("start") ELSE <<>>

\* The checks of on_action in their order: require_admin, the payload's size, the rate limit,
\* the schema.  Every known action is on the default allowlist.
SocketAnswer(r) ==
    IF r.role # "admin" THEN "unauthorized"
    ELSE IF ~r.fits THEN "payload_too_large"
    ELSE IF r.full THEN "rate_limited"
    ELSE IF ~Known(r) THEN "invalid_payload"
    ELSE "accepted"

Answer(r) ==
    CASE r.door \in {"control", "shortcut"} -> IF Known(r) THEN "accepted" ELSE "validation_failed"
      [] r.door = "socket" -> SocketAnswer(r)
      [] OTHER -> RouteAnswer(r)

Published(r) ==
    IF Answer(r) # "accepted" THEN <<>>
    ELSE CASE r.door \in {"control", "shortcut"} -> Dispatched(Meaning[r.word])
           [] r.door = "socket" -> SocketDispatched(Meaning[r.word], r.mode)
           [] OTHER -> RoutePublished(r)

Init == request \in Request /\ answer = Unsaid /\ published = <<>>

Handle ==
    /\ answer = Unsaid
    /\ answer' = Answer(request)
    /\ published' = Published(request)
    /\ UNCHANGED request

Spec == Init /\ [][Handle]_vars

-----------------------------------------------------------------------------

\* A command means the same by every door that takes its word: what is published of it is what
\* /control would have published, with at most a toast after it, unless a socket's resume says
\* another mode.  (/reset is a door of its own: it does not tell the engine.)
SameWordSameEvents ==
    (answer = "accepted" /\ "word" \in DOMAIN request /\ request.mode = Unsaid) =>
        LET meant == Dispatched(Meaning[request.word])
        IN  published \in {meant, meant \o Toast}
=============================================================================
