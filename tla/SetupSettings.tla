---------------------------- MODULE SetupSettings ----------------------------
(***************************************************************************)
(* The setup page's settings and the board calibration: in memory, in      *)
(* their two files, and across restarts (setup_routes.py, robot_routes.py, *)
(* setup_settings.py, commissioning_report.py, kinematics.py, and the      *)
(* script calculate_system_calibration.py that writes the same files).     *)
(*                                                                         *)
(* Requests are served by threads.  Flask answers them side by side and    *)
(* nothing locks the calibration or the files, so each handler is cut      *)
(* where it reads or writes a file.  A calibration is changed in memory    *)
(* first and validated after.                                              *)
(***************************************************************************)
EXTENDS BoardGeometry, SettingsRules

CONSTANTS
  Thread,            \* the threads that serve requests
  SettingsRequests,  \* [set |-> fields given, cal |-> calibration fields given, junk |-> fields that do not convert]
  CalRequests,       \* [kind |-> "values" | "points" | "image" | "clear", ..., persist |-> BOOLEAN]
  ScriptInputs,      \* [corners, dead, set]: what config/system_parameters.json may hold
  Tests,             \* [action, live, confirmed]: hardware tests the page may ask for
  Env, Default, Production, Keyed,
  Word,              \* the texts and words that fields hold
  Idle, Torn, Missing, NoTemp,
  MaxRequests, MaxRestarts

VARIABLES
  live,      \* the calibration in memory (the kinematics object)
  conf,      \* the settings in force (the config module)
  calFile,   \* robot/calibration.json: a calibration, Torn or Missing
  setFile,   \* data/setup_settings.json: the stored fields, or Torn
  temp,      \* the temporary file of save_settings
  report,    \* the commissioning report's steps
  job,       \* what each thread does: Idle or a record with its step in "at"
  script,    \* the calibration script: Idle or [at, cal, set]
  up,        \* the server runs
  requests, restarts,
  disturbed  \* history: requests overlapped, one was cut by a crash, or the script wrote the files

vars == <<live, conf, calFile, setFile, temp, report, job, script, up, requests, restarts, disturbed>>
memory == <<live, conf>>
files == <<calFile, setFile, temp>>
others == <<up, restarts>>

Limits(s) == [minX |-> s.min_x, maxX |-> s.max_x, minY |-> s.min_y, maxY |-> s.max_y]

(***************************************************************************)
(* What a field holds, what settings and a calibration are, and what a     *)
(* request may say.                                                        *)
(***************************************************************************)
KindOf(f) == IF f \in Flags THEN BOOLEAN ELSE IF f \in Texts \cup DOMAIN Words THEN Word ELSE Int
SomeSettings(s) == DOMAIN s \subseteq Fields /\ \A f \in DOMAIN s : s[f] \in KindOf(f)
Storable(s) == SomeSettings(s) /\ DOMAIN s \subseteq Fields \ Unstored

Matrix == (Int \X Int \X Int) \X (Int \X Int \X Int)
Halves == [lower : Matrix, upper : Matrix]
CapturedArea == [x : Int, y : Int, w : Int, h : Int, gap : Int, slots : Int]
Picture ==
  {NoMap} \cup [space : {"rectified_board", "camera_frame"},
                points : {r.samples : r \in {q \in CalRequests : q.kind = "image"}}]
Cal == [ox : Int, oy : Int, sx : Int, sy : Int, affine : Matrix, dead : CapturedArea, split : {NoSplit} \cup Halves,
        image : Picture]

SomeUpdate(u) ==
  /\ DOMAIN u \subseteq {"ox", "oy", "sx", "sy", "dead", "affine"}
  /\ \A k \in {"ox", "oy", "sx", "sy"} \cap DOMAIN u : u[k] \in Int
  /\ "dead" \in DOMAIN u => u.dead \in CapturedArea
  /\ "affine" \in DOMAIN u => u.affine \in Matrix
FullUpdate ==
  [ox : Int, oy : Int, sx : Int, sy : Int, dead : CapturedArea]
  \cup [ox : Int, oy : Int, sx : Int, sy : Int, dead : CapturedArea, affine : Matrix]

(* Kinematics(): the defaults, replaced by the file when it can be read. *)
DefaultCal(s) ==
  LET c == [ox |-> 0, oy |-> s.min_y, sx |-> 40, sy |-> 40]
  IN  [ox |-> 0, oy |-> s.min_y, sx |-> 40, sy |-> 40, affine |-> Axes(c), dead |-> DefaultDead(c),
       split |-> NoSplit, image |-> NoMap]
CalLoaded(file, s) == IF file \in {Torn, Missing} THEN DefaultCal(s) ELSE file
StoredSettings == IF setFile = Torn THEN << >> ELSE setFile
ConfLoaded == Loaded(StoredSettings, Env, Default, Production)

(***************************************************************************)
(* normalize_setup_settings: the settings and the calibration update a     *)
(* request asks for.  The matrix is kept only when the request names it.   *)
(***************************************************************************)
CalUpdate(r) ==
  Over([k \in {"ox", "oy", "sx", "sy", "dead"} |-> IF k \in DOMAIN r THEN r[k] ELSE live[k]],
       IF "affine" \in DOMAIN r THEN [affine |-> r.affine] ELSE << >>)

\* The validator maps the board with a calibration of its own, which starts from the file.
Accepted(s, u, junk) ==
  LET mapped == Updated(CalLoaded(calFile, conf), u)
  IN  /\ junk = {} /\ u.dead.slots \in 1..64
      /\ SettingsOk(s)
      /\ mapped.ok
      /\ BoardTolerated(mapped.cal, Limits(s))
      /\ AreaTolerated(u.dead, Limits(s))

Serving(t) == up /\ job[t] = Idle /\ requests < MaxRequests /\ requests' = requests + 1
Overlaps(t) == disturbed' = (disturbed \/ \E o \in Thread \ {t} : job[o] # Idle)
Doing(t, step) == up /\ job[t] # Idle /\ job[t].at = step
Go(t, step) == job' = [job EXCEPT ![t].at = step]
End(t) == job' = [job EXCEPT ![t] = Idle]

Init ==
  /\ calFile = Missing /\ setFile = << >> /\ temp = NoTemp
  /\ conf = Loaded(<< >>, Env, Default, Production) /\ live = DefaultCal(conf)
  /\ report = [saved |-> FALSE, preflight |-> FALSE, hardware |-> FALSE]
  /\ job = [t \in Thread |-> Idle] /\ script = Idle
  /\ up = TRUE /\ requests = 0 /\ restarts = 0 /\ disturbed = FALSE

(***************************************************************************)
(* POST /setup/settings.                                                   *)
(***************************************************************************)
SettingsPosted(t, r) ==
  LET s == Merged(conf, r.set)  u == CalUpdate(r.cal)
  IN  /\ Serving(t) /\ Overlaps(t)
      /\ job' = IF Accepted(s, u, r.junk)
                THEN [job EXCEPT ![t] = [at |-> "renew", kind |-> "settings", set |-> s, u |-> u]]
                ELSE job
      /\ UNCHANGED <<memory, files, report, script, others>>

Renewed(t) ==
  LET res == Updated(live, job[t].u)
  IN  /\ Doing(t, "renew")
      /\ live' = res.cal
      /\ IF res.ok THEN Go(t, "open") ELSE End(t)
      /\ UNCHANGED <<conf, files, report, script, others, requests, disturbed>>

(* save_calibration: what is in memory now, written over the file in place. *)
FileOpened(t) ==
  /\ Doing(t, "open")
  /\ calFile' = Torn
  /\ job' = [job EXCEPT ![t] = Over([at |-> "write", content |-> live], job[t])]
  /\ UNCHANGED <<memory, setFile, temp, report, script, others, requests, disturbed>>

\* Two writers of one file may leave it with the one's content or with a mixture of both.
FileWritten(t) ==
  /\ Doing(t, "write")
  /\ calFile' \in {job[t].content} \cup (IF disturbed THEN {Torn} ELSE {})
  /\ IF job[t].kind = "settings" THEN Go(t, "stage") ELSE End(t)
  /\ UNCHANGED <<memory, setFile, temp, report, script, others, requests, disturbed>>

(* save_settings: a temporary file of one name, renamed over the stored one. *)
Staged(t) ==
  /\ Doing(t, "stage")
  /\ temp' = Over(Persisted(job[t].set), StoredSettings)
  /\ Go(t, "replace")
  /\ UNCHANGED <<memory, calFile, setFile, report, script, others, requests, disturbed>>

\* Another thread's rename may have taken the temporary file: the request fails with the calibration saved.
Replaced(t) ==
  /\ Doing(t, "replace")
  /\ IF temp = NoTemp
     THEN End(t) /\ UNCHANGED <<setFile, temp>>
     ELSE Go(t, "apply") /\ setFile' = temp /\ temp' = NoTemp
  /\ UNCHANGED <<memory, calFile, report, script, others, requests, disturbed>>

Applied(t) ==
  /\ Doing(t, "apply")
  /\ conf' = job[t].set
  /\ Go(t, "mark")
  /\ UNCHANGED <<live, files, report, script, others, requests, disturbed>>

\* The report of preflight and of hardware tests is left as it is.
Marked(t) ==
  /\ Doing(t, "mark")
  /\ report' = [report EXCEPT !.saved = TRUE]
  /\ End(t)
  /\ UNCHANGED <<memory, files, script, others, requests, disturbed>>

(***************************************************************************)
(* POST /robot/calibration: the calibration is changed, then validated.    *)
(***************************************************************************)
Changed(c, r) ==
  CASE r.kind = "values" -> Updated(c, r.u)
    [] r.kind = "points" ->
         LET res == Measured(c, r.samples)
         IN  IF res.ok /\ "dead" \in DOMAIN r THEN [res EXCEPT !.cal.dead = r.dead] ELSE res
    [] r.kind = "image" -> ImageMapped(c, r.samples, r.space)
    [] r.kind = "clear" -> [cal |-> [c EXCEPT !.image = NoMap], ok |-> TRUE]

CalibrationPosted(t, r) ==
  LET res == Changed(live, r)
  IN  /\ Serving(t) /\ Overlaps(t)
      /\ live' = res.cal
      /\ job' = [job EXCEPT ![t] = [at |-> IF res.ok THEN "validate" ELSE "restore", kind |-> "calibration",
                                    old |-> live, cal |-> res.cal, persist |-> r.persist]]
      /\ UNCHANGED <<conf, files, report, script, others>>

Validated(t) ==
  LET c == IF Doing(t, "validate") THEN job[t].cal ELSE live
      u == [k \in {"ox", "oy", "sx", "sy", "dead", "affine"} |-> c[k]]
  IN  /\ Doing(t, "validate")
      /\ IF ~Accepted(conf, u, {}) THEN Go(t, "restore")
         ELSE IF job[t].persist THEN Go(t, "open")
         ELSE End(t)
      /\ UNCHANGED <<memory, files, report, script, others, requests, disturbed>>

(* _restore_calibration: everything the request could change is set back; the matrices of the halves never changed. *)
\* Mutant: the captured-piece area is not set back.
RestoredWithoutArea(c, old) ==
  LET res == Updated(c, [k \in {"ox", "oy", "sx", "sy", "affine"} |-> old[k]])
  IN  IF res.ok THEN [res.cal EXCEPT !.image = old.image] ELSE res.cal
RestoredTo(c, old) ==
  LET res == Updated(c, [k \in {"ox", "oy", "sx", "sy", "dead", "affine"} |-> old[k]])
  IN  IF res.ok THEN [res.cal EXCEPT !.image = old.image] ELSE res.cal

Restored(t) ==
  /\ Doing(t, "restore")
  /\ live' = RestoredTo(live, job[t].old)
  /\ End(t)
  /\ UNCHANGED <<conf, files, report, script, others, requests, disturbed>>

(***************************************************************************)
(* Preflight and the hardware tests, with what they leave in the report.   *)
(***************************************************************************)
RobotStates == [connected : BOOLEAN, heartbeat : BOOLEAN, state : {0}, completed : {0}]
PreflightOk(robot, seen) ==
  /\ ModeOk(conf, robot) /\ CommunicationOk(conf, robot)
  /\ conf.fake_robot \/ seen
  /\ ProfileSafe(conf)
  /\ BoardSafe(live, Limits(conf))

Preflight(t) ==
  /\ Serving(t) /\ Overlaps(t)
  /\ \E robot \in RobotStates, seen \in BOOLEAN : report' = [report EXCEPT !.preflight = PreflightOk(robot, seen)]
  /\ UNCHANGED <<memory, files, job, script, others>>

\* The points a motion test goes to, each within the limits of RobotSafety.
TestPoint == [corner_a0 |-> <<0, 0>>, corner_i0 |-> <<8, 0>>, corner_a9 |-> <<0, 9>>, corner_i9 |-> <<8, 9>>,
              center_e4 |-> <<4, 4>>, grab_z |-> <<4, 4>>, origin |-> <<0, 0>>, safe_z |-> <<0, 0>>, write_pose |-> <<0, 0>>]
TestTarget(action) ==
  IF action = "dead_zone" THEN DeadSlot(live, 1)
  ELSE GridToRobot(live, TestPoint[action][1], TestPoint[action][2])
TestHeight(action) == IF action \in {"origin", "grab_z"} THEN conf.z_grab ELSE conf.z_safe
Confirmed == DOMAIN TestPoint \cup {"dead_zone", "gripper_open", "gripper_close", "one_move"}
Targeted == DOMAIN TestPoint \cup {"dead_zone"}

\* A dry run passes when its target is within the limits; a live test needs its confirmation and may fail.
TestPasses(q, works) ==
  /\ q.action \in Targeted => /\ Safe(Limits(conf), TestTarget(q.action))
                              /\ TestHeight(q.action) \in conf.min_z..conf.max_z
  /\ q.live => works
Refused(q) == q.live /\ q.action \in Confirmed /\ ~q.confirmed

HardwareTested(t, q) ==
  /\ Serving(t) /\ Overlaps(t)
  /\ \E works \in BOOLEAN :
       report' = IF Refused(q) THEN report
                 ELSE [report EXCEPT !.hardware = @ \/ TestPasses(q, works)]
  /\ UNCHANGED <<memory, files, job, script, others>>

(***************************************************************************)
(* The script computes a calibration of two halves and writes the three    *)
(* files, whatever the limits say; nothing tells a server that runs.       *)
(***************************************************************************)
ScriptStarts(i) ==
  /\ script = Idle /\ requests < MaxRequests /\ requests' = requests + 1
  /\ script' = [at |-> "calibration", set |-> i.set,
                cal |-> SplitHalves(CalLoaded(calFile, ConfLoaded), i.corners, i.dead)]
  /\ calFile' = Torn /\ disturbed' = TRUE
  /\ UNCHANGED <<memory, setFile, temp, report, job, others>>

ScriptCalibrates ==
  /\ script # Idle /\ script.at = "calibration"
  /\ calFile' = script.cal
  /\ script' = [script EXCEPT !.at = "settings"]
  /\ UNCHANGED <<memory, setFile, temp, report, job, others, requests, disturbed>>

ScriptOpensSettings ==
  /\ script # Idle /\ script.at = "settings"
  /\ setFile' = Torn
  /\ script' = [at |-> "write", set |-> Over(script.set, StoredSettings)]
  /\ UNCHANGED <<memory, calFile, temp, report, job, others, requests, disturbed>>

ScriptWritesSettings ==
  /\ script # Idle /\ script.at = "write"
  /\ setFile' = script.set
  /\ script' = Idle
  /\ UNCHANGED <<memory, calFile, temp, report, job, others, requests, disturbed>>

(* The process ends, with whatever was under way, and starts again from the files. *)
Restart ==
  /\ up /\ restarts < MaxRestarts /\ restarts' = restarts + 1
  /\ up' = Boots(ConfLoaded, Keyed, Production)
  /\ conf' = ConfLoaded
  /\ live' = CalLoaded(calFile, ConfLoaded)
  /\ disturbed' = (disturbed \/ \E t \in Thread : job[t] # Idle)
  /\ job' = [t \in Thread |-> Idle]
  /\ UNCHANGED <<files, report, script, requests>>

Next ==
  \/ \E t \in Thread :
       \/ \E r \in SettingsRequests : SettingsPosted(t, r)
       \/ \E r \in CalRequests : CalibrationPosted(t, r)
       \/ \E q \in Tests : HardwareTested(t, q)
       \/ Renewed(t) \/ FileOpened(t) \/ FileWritten(t) \/ Staged(t) \/ Replaced(t) \/ Applied(t) \/ Marked(t)
       \/ Validated(t) \/ Restored(t) \/ Preflight(t)
  \/ \E i \in ScriptInputs : ScriptStarts(i)
  \/ ScriptCalibrates \/ ScriptOpensSettings \/ ScriptWritesSettings
  \/ Restart

Spec == Init /\ [][Next]_vars

TypeOK ==
  /\ live \in Cal /\ calFile \in {Torn, Missing} \cup Cal
  /\ SomeSettings(conf) /\ DOMAIN conf = Fields
  /\ setFile # Torn => Storable(setFile)
  /\ temp # NoTemp => Storable(temp)
  /\ \A t \in Thread : job[t] # Idle =>
       /\ job[t].at \in {"renew", "open", "write", "stage", "replace", "apply", "mark", "validate", "restore"}
       /\ IF job[t].kind = "settings"
          THEN SomeSettings(job[t].set) /\ DOMAIN job[t].set = Fields /\ job[t].u \in FullUpdate
          ELSE {job[t].old, job[t].cal} \subseteq Cal
       /\ job[t].at = "write" => job[t].content \in Cal

(***************************************************************************)
(* What the theorems ask of the constants.                                 *)
(***************************************************************************)
\* Fields hold what they are for, each has a default, and a word of a choice is a word.
FieldsSound ==
  /\ SomeSettings(Default) /\ DOMAIN Default = Fields
  /\ SomeSettings(Env)
  /\ \A r \in SettingsRequests : SomeSettings(r.set)
  /\ \A i \in ScriptInputs : Storable(i.set)
  /\ \A f \in DOMAIN Words : Words[f] \subseteq Word

\* The halves of the board can be inverted, and no point of the upper one lies within the ranks of the lower.
HalvesFit(h) ==
  /\ h.lower \in Matrix /\ h.upper \in Matrix
  /\ Det(h.lower) # 0 /\ Det(h.upper) # 0
  /\ \A f \in 0..8, r \in 5..9 : Outside(InverseAt(h.lower, At(h.upper, f, r - 5)), 0, 4) > 0

\* The least squares of a request's points, where they have a solution, are whole numbers.
AxisWhole(P) ==
  /\ Cardinality(P) \in Nat \ {0} /\ Cardinality({q[1] : q \in P}) \in Nat
  /\ Total([q \in P |-> q[1]]) \in Int /\ Total([q \in P |-> q[2]]) \in Int
  /\ Cardinality({q[1] : q \in P}) >= 2 => FitAxis(P, 0).step \in Int
FitsWhole(S) ==
  /\ Cardinality(S) \in Nat
  /\ Cardinality(S) >= 2 =>
       IF NonCollinear(S) THEN FitAffine(S) \in Matrix
       ELSE AxisWhole({<<q.f, q.x>> : q \in S}) /\ AxisWhole({<<q.r, q.y>> : q \in S})

\* A request says what there is to say, and the script's corners give two halves that fit.
RequestsSound ==
  /\ \A r \in SettingsRequests : SomeUpdate(r.cal)
  /\ \A r \in CalRequests :
       /\ r.kind \in {"values", "points", "image", "clear"} /\ r.persist \in BOOLEAN
       /\ r.kind = "values" => SomeUpdate(r.u)
       /\ r.kind = "points" => FitsWhole(r.samples) /\ ("dead" \in DOMAIN r => r.dead \in CapturedArea)
  /\ \A i \in ScriptInputs :
       LET c == SplitHalves(DefaultCal(Default), i.corners, i.dead)
       IN  /\ c.ox \in Int /\ c.oy \in Int /\ c.affine \in Matrix /\ i.dead \in CapturedArea
           /\ c.split # NoSplit /\ HalvesFit(c.split)

\* The values that stand for no value are none.
Jobs ==
  LET Held == [Fields -> Int \cup BOOLEAN \cup Word]
      Step == {"renew", "open", "write", "stage", "replace", "apply", "mark", "validate", "restore"}
  IN  [at : Step, kind : {"settings"}, set : Held, u : FullUpdate]
      \cup [at : Step, kind : {"settings"}, set : Held, u : FullUpdate, content : Cal]
      \cup [at : Step, kind : {"calibration"}, old : Cal, cal : Cal, persist : BOOLEAN]
      \cup [at : Step, kind : {"calibration"}, old : Cal, cal : Cal, persist : BOOLEAN, content : Cal]
NothingIsAValue ==
  /\ NoSplit \notin Halves /\ Torn \notin Cal /\ Missing \notin Cal /\ Torn # Missing
  /\ Torn # << >> /\ {Torn, NoTemp} \cap [Fields \ Unstored -> Int \cup BOOLEAN \cup Word] = {}
  /\ Idle \notin Jobs

\* The defaults fit each other.
DefaultsFit ==
  LET s == Loaded(<< >>, Env, Default, Production)
  IN  BoardTolerated(DefaultCal(s), Limits(s)) /\ AreaTolerated(DefaultCal(s).dead, Limits(s))

(***************************************************************************)
(* Properties.                                                             *)
(***************************************************************************)
\* The calibration in force maps every board point to a robot position that maps back to it, in the middle
\* of a change as well, while a request is refused half-way and after a restart (kinematics.py).
MappingStaysInvertible == RoundTrips(live)

\* The stored calibration fits the limits that the next start puts in force.
SavedPairFits ==
  /\ BoardTolerated(CalLoaded(calFile, ConfLoaded), Limits(ConfLoaded))
  /\ AreaTolerated(CalLoaded(calFile, ConfLoaded).dead, Limits(ConfLoaded))

\* In production the environment goes before the stored file (config.py): it holds another limit than was saved.
LimitFields == {"min_x", "max_x", "min_y", "max_y"}
Overruled(stored) == Production /\ \E f \in LimitFields \cap DOMAIN Env \cap DOMAIN stored : stored[f] # Env[f]

\* Unless requests overlapped, one was cut short, the script wrote the files or the environment overrules a saved
\* limit, a server started from the two files has every board point within reach.
SavedPairStaysTogether ==
  ~disturbed /\ (\A t \in Thread : job[t] = Idle) /\ ~Overruled(StoredSettings) => SavedPairFits

\* What is saved is what the next start uses, the environment notwithstanding: "Read setup JSON before env/YAML when
\* setup settings are enabled." (config.py).
SavedPairIsUsed == ~disturbed /\ (\A t \in Thread : job[t] = Idle) => SavedPairFits

\* A calibration that was refused leaves no trace in memory, when no other request came between (robot_routes.py).
RefusalUndone ==
  \A t \in Thread :
    job[t] # Idle /\ job[t].at = "restore" /\ job'[t] = Idle /\ up' /\ restarts' = restarts /\ ~disturbed
      => live' = job[t].old
RefusedLeavesNoTrace == [][RefusalUndone]_vars

\* Three points that are not in line produce a transform that maps each of them to where it was measured, unless
\* the calibration script's matrices of the two halves are in force, which go before it (kinematics.py).
MeasuredPointsHold ==
  \A t \in Thread, r \in CalRequests :
    /\ job[t] # Idle /\ job[t].at = "validate" /\ job'[t] # Idle /\ job'[t].at = "open"
    /\ r.kind = "points" /\ NonCollinear(r.samples) /\ job[t].cal = Changed(job[t].old, r).cal
    /\ job[t].cal.split = NoSplit
    => \A q \in r.samples : GridToRobot(job[t].cal, q.f, q.r) = [x |-> q.x, y |-> q.y]
=============================================================================
