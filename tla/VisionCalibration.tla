-------------------------- MODULE VisionCalibration --------------------------
(***************************************************************************)
(* The perspective calibration of the camera: four board corners, the warp *)
(* computed from them for the configured size, its inverse, the corners    *)
(* shown and published, and the file.  Requests to POST                    *)
(* /vision/calibration, which the server answers side by side, change them *)
(* while the inference loop warps frames; the program may stop at any      *)
(* moment and start with another size.                                     *)
(*                                                                         *)
(* A warp is what it was computed from: the corners and the size.  The     *)
(* worker's lock covers the corrector and its corners; the rest of a       *)
(* request runs outside it.                                                *)
(***************************************************************************)
EXTENDS Naturals

CONSTANTS
    Request,   \* threads that serve a calibration request
    Corners,   \* corner sets of four finite points that span an area
    Sizes,     \* the values of (WARP_WIDTH, WARP_HEIGHT)
    None,
    MaxStarts  \* bound: starts of the program

VARIABLES
    corrector,  \* PerspectiveCorrector: matrix, inverse, corners, output_size
    published,  \* InferenceWorker._corners
    shown,      \* VisionSystem.board_corners
    file,       \* vision_calibration.json: what was saved, or None: no file, or a torn one
    size,       \* the configured size of this run of the program
    req,        \* per request thread: its place in update_corners
    frame,      \* the frame in work: the warp used, the corners and space reported
    starts,
    mixed       \* history: a request saved its matrix with the corners of another

vars == <<corrector, published, shown, file, size, req, frame, starts, mixed>>

Warp(c, s) == [of |-> c, size |-> s]
Uncalibrated == [matrix |-> None, inverse |-> None, corners |-> None, size |-> None]
NoRequest == [pc |-> "idle", matrix |-> None, corners |-> None]
NoFrame == [pc |-> "idle", warp |-> None, corners |-> None, space |-> "camera_frame", raw |-> None]

-----------------------------------------------------------------------------
(* The corrector and the worker, under the worker's lock *)

\* set_corners with compute_warp_matrix.
WithCorners(c, s) == [matrix |-> Warp(c, s), inverse |-> Warp(c, s), corners |-> c, size |-> s]
\* set_matrix, for a saved warp.
WithMatrix(m, c, s) == [matrix |-> m, inverse |-> m, corners |-> c, size |-> s]

\* _load_calibration: another size needs another warp.
Loaded(f, s) == IF f.size = s THEN WithMatrix(f.matrix, f.corners, s)
                ELSE WithCorners(f.corners, s)

\* VisionSystem.__init__: a file that is missing or cannot be read is no calibration.
StartsWith(f, s) ==
    LET c == IF f = None THEN Uncalibrated ELSE Loaded(f, s)
    IN /\ corrector' = c
       /\ published' = c.corners
       /\ shown' = c.corners

Init ==
    /\ corrector = Uncalibrated /\ published = None /\ shown = None
    /\ file = None /\ size \in Sizes
    /\ req = [r \in Request |-> NoRequest]
    /\ frame = NoFrame /\ starts = 1 /\ mixed = FALSE

-----------------------------------------------------------------------------
(* POST /vision/calibration: VisionSystem.update_corners, by hand or detected *)

\* Mutant: the corners published with a frame are not updated.
UpdateCornersSilent(r) ==
    /\ req[r].pc = "idle"
    /\ \E c \in Corners :
           /\ corrector' = WithCorners(c, size)
           /\ req' = [req EXCEPT ![r] = [pc |-> "show", matrix |-> Warp(c, size), corners |-> None]]
    /\ UNCHANGED <<published, shown, file, size, frame, starts, mixed>>
\* InferenceWorker.update_corners; corners that normalize_corners refuses and a board
\* that is not found in the frame change nothing.
UpdateCorners(r) ==
    /\ req[r].pc = "idle"
    /\ \E c \in Corners :
           /\ corrector' = WithCorners(c, size) /\ published' = c
           /\ req' = [req EXCEPT ![r] = [pc |-> "show", matrix |-> Warp(c, size), corners |-> None]]
    /\ UNCHANGED <<shown, file, size, frame, starts, mixed>>

\* The corners are read back from the corrector without the lock; persist may be off.
Show(r) ==
    /\ req[r].pc = "show"
    /\ shown' = corrector.corners
    /\ \E persist \in BOOLEAN :
           req' = [req EXCEPT ![r] = IF persist THEN [@ EXCEPT !.pc = "save"] ELSE NoRequest]
    /\ UNCHANGED <<corrector, published, file, size, frame, starts, mixed>>

\* save_calibration is given the request's own matrix and the corners shown by now ...
Save(r) ==
    /\ req[r].pc = "save"
    /\ req' = [req EXCEPT ![r].pc = "open", ![r].corners = shown]
    /\ mixed' = (mixed \/ shown # req[r].matrix.of)
    /\ UNCHANGED <<corrector, published, shown, file, size, frame, starts>>

\* ... truncates the file ...
Truncate(r) ==
    /\ req[r].pc = "open"
    /\ file' = None
    /\ req' = [req EXCEPT ![r].pc = "write"]
    /\ UNCHANGED <<corrector, published, shown, size, frame, starts, mixed>>

\* ... and writes it; over what another request has written since, a shorter text leaves
\* a rest of the longer one.
Written(r) ==
    /\ req[r].pc = "write"
    /\ file' \in {[matrix |-> req[r].matrix, corners |-> req[r].corners, size |-> size]}
                \cup (IF file = None THEN {} ELSE {None})
    /\ req' = [req EXCEPT ![r] = NoRequest]
    /\ UNCHANGED <<corrector, published, shown, size, frame, starts, mixed>>

\* ... or fails before or in between.
SaveFails(r) ==
    /\ req[r].pc \in {"save", "open", "write"}
    /\ req' = [req EXCEPT ![r] = NoRequest]
    /\ UNCHANGED <<corrector, published, shown, file, size, frame, starts, mixed>>

-----------------------------------------------------------------------------
(* InferenceWorker.process_frame *)

\* The warp and the corners are taken together; detection follows without the lock.
WarpFrame ==
    /\ frame.pc = "idle"
    /\ frame' = [pc |-> "detect", warp |-> corrector.matrix, corners |-> published, raw |-> None,
                 space |-> IF corrector.matrix = None THEN "camera_frame" ELSE "rectified_board"]
    /\ UNCHANGED <<corrector, published, shown, file, size, req, starts, mixed>>

\* _serialize_detections maps what it found back to the camera's picture with the
\* inverse the corrector has by now.
MapBack ==
    /\ frame.pc = "detect"
    /\ frame' = [frame EXCEPT !.pc = "report",
                              !.raw = IF frame.space = "camera_frame" THEN None ELSE corrector.inverse]
    /\ UNCHANGED <<corrector, published, shown, file, size, req, starts, mixed>>

Report ==
    /\ frame.pc = "report"
    /\ frame' = NoFrame
    /\ UNCHANGED <<corrector, published, shown, file, size, req, starts, mixed>>

-----------------------------------------------------------------------------

Restart ==
    /\ starts < MaxStarts
    /\ starts' = starts + 1
    /\ size' \in Sizes
    /\ StartsWith(file, size')
    /\ req' = [r \in Request |-> NoRequest] /\ frame' = NoFrame
    /\ UNCHANGED <<file, mixed>>

Next ==
    \/ \E r \in Request : \/ UpdateCorners(r) \/ Show(r)
                          \/ Save(r) \/ Truncate(r) \/ Written(r) \/ SaveFails(r)
    \/ WarpFrame \/ MapBack \/ Report
    \/ Restart

Spec == Init /\ [][Next]_vars

-----------------------------------------------------------------------------

Matrix == [of : Corners, size : Sizes]

TypeOK ==
    /\ corrector \in [matrix : Matrix \cup {None}, inverse : Matrix \cup {None},
                      corners : Corners \cup {None}, size : Sizes \cup {None}]
    /\ {published, shown} \subseteq Corners \cup {None}
    /\ file \in [matrix : Matrix, corners : Corners, size : Sizes] \cup {None}
    /\ size \in Sizes /\ starts \in 1..MaxStarts
    /\ \A r \in Request : req[r].pc \in {"idle", "show", "save", "open", "write"}
    /\ mixed \in BOOLEAN
    /\ frame.pc \in {"idle", "detect", "report"}

\* The warp fits the board: through updates, failed saves, stops in the middle of a save
\* and a change of size, the corrector's warp is of the configured size, its inverse is its
\* own, the corners published are the corrector's, and the warp is computed from them, unless
\* a request saved its matrix with the corners of another (_load_calibration, set_corners,
\* set_matrix, update_corners).
WarpFitsBoard ==
    corrector.matrix # None =>
        /\ corrector.inverse = corrector.matrix
        /\ corrector.size = size /\ corrector.matrix.size = size
        /\ published = corrector.corners
        /\ ~mixed => corrector.matrix = Warp(corrector.corners, size)

\* A frame tells its board: the corners reported with the detections of a frame are
\* those it was warped with, whatever request came in between (the lock in
\* process_frame and update_corners), with the same exception.
FrameTellsItsBoard ==
    frame.pc # "idle" =>
        /\ frame.warp = None <=> frame.corners = None
        /\ ~mixed /\ frame.warp # None => frame.corners = frame.warp.of
=============================================================================
