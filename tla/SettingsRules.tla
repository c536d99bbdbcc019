---------------------------- MODULE SettingsRules ----------------------------
(***************************************************************************)
(* The rules of the setup settings (interfaces/api/setup_settings_logic.py)*)
(* and where a setting comes from at start (utils/config.py).              *)
(*                                                                         *)
(* A settings value is a function from field names; a field holds an       *)
(* integer, a flag or a word.  Values with a fraction are in hundredths.   *)
(* A value that does not convert (int(), float(), a flag) is "given" by    *)
(* naming its field in the junk set of a request.                          *)
(***************************************************************************)
EXTENDS Integers, FiniteSets, Functions, TLC

Registers == {"motion_base", "profile_base", "status", "gripper", "command_id", "command_trigger", "command_ack",
              "error_code", "gripper_status", "square_base", "square_from", "square_to", "square_action",
              "square_id", "square_trigger", "square_status", "square_error", "square_completed",
              "square_heartbeat", "square_robot_state", "telemetry_pose", "telemetry_joint", "telemetry_speed"}
Codes == {"status_idle", "status_moving", "status_complete", "status_error", "status_fault", "trigger_value",
          "clear_value", "gripper_close", "gripper_open", "gripper_opened", "gripper_closed", "gripper_error",
          "action_normal", "action_capture", "action_promotion"}

\* The least and the greatest value of a field that is a whole number.
Bounds ==
  [camera_index |-> <<0, 15>>, width |-> <<0, 7680>>, height |-> <<0, 4320>>, buffer_size |-> <<1, 16>>,
   grab_drain |-> <<0, 10>>, capture_interval |-> <<25, 3000>>, capture_timeout |-> <<200, 30000>>,
   image_port |-> <<1, 65535>>, image_max_bytes |-> <<65536, 10485760>>, max_saved_images |-> <<1, 100000>>,
   port |-> <<1, 65535>>, max_retry |-> <<0, 10>>, max_message_bytes |-> <<256, 65536>>,
   gripper_wait_ms |-> <<0, 60000>>, server_port |-> <<1, 65535>>, square_index_base |-> <<0, 65535>>]
BoundOf(f) == IF f \in Registers \cup Codes THEN 0..65535 ELSE Bounds[f][1]..Bounds[f][2]
Bounded == DOMAIN Bounds \cup Registers \cup Codes

\* The words a choice may be, after its aliases are resolved.
Words ==
  [source |-> {"opencv", "tmvision_http", "tmflow_json"}, adapter |-> {"tmflow_json", "techmanpy", "modbus"},
   motion_mode |-> {"ptp", "line"}, wire_format |-> {"envelope", "flat_json"}, stop_mode |-> {"controlled_stop"},
   role |-> {"client", "server"}, payload_mode |-> {"pose", "square_command"},
   addressing |-> {"raw", "zero_based", "holding_40001"}, encoding |-> {"scaled_int16", "scaled_int32"}]
SourceAlias(w) ==
  IF w \in {"usb", "usb_camera", "camera", "opencv_usb"} THEN "opencv"
  ELSE IF w \in {"tmvision", "eih", "eih_http", "external_detection"} THEN "tmvision_http"
  ELSE IF w \in {"tmflow", "tmflow_camera", "tmflow_json_camera"} THEN "tmflow_json"
  ELSE w

\* Texts that must not be empty: each is "given" or "".
Texts == {"image_host", "detect_url", "save_dir", "ip", "pc_ip", "subnet_mask", "tmflow_version",
          "controller_version", "protocol_version", "client_version", "base", "tcp", "server_host"}
Flags == {"save_images", "fake_robot", "auto_execute", "require_listen", "suppress_warnings", "require_hello",
          "verify_status", "handshake", "gripper_feedback", "telemetry", "require_completed"}
\* Floats that only have to be finite, and those that must also be positive.
Positive == {"result_max_age", "image_timeout", "connect_timeout", "acceleration", "motion_timeout",
             "register_scale", "ack_wait", "feedback_wait"}
Finite == {"fps", "thread_fps", "image_fps", "json_ack", "json_done", "json_long", "json_heartbeat",
           "json_reconnect", "z_safe", "z_grab", "place_offset", "tool_rx", "tool_ry", "tool_rz", "min_speed",
           "max_speed", "travel_speed", "lift_speed", "approach_speed", "min_x", "max_x", "min_y", "max_y",
           "min_z", "max_z"} \cup Positive

\* The first of two dictionaries, completed by the second.
Over(f, g) == [x \in DOMAIN f \cup DOMAIN g |-> IF x \in DOMAIN f THEN f[x] ELSE g[x]]

Fields == Bounded \cup DOMAIN Words \cup Texts \cup Flags \cup Finite

\* The sections of the stored file; these fields are in the settings and in no section.
Unstored == {"capture_interval", "capture_timeout", "detect_url", "save_images", "save_dir", "max_saved_images"}
\* Mutant: the lower limit is not among the stored sections.
PersistedWithoutLimit(s) == Restrict(s, Fields \ (Unstored \cup {"min_y"}))
Persisted(s) == Restrict(s, Fields \ Unstored)

(***************************************************************************)
(* _validate_setup_settings, in its named parts.                           *)
(***************************************************************************)
VisionOk(s) ==
  /\ s.fps \in 0..12000 /\ s.thread_fps \in 0..12000
  /\ s.image_fps \in 1..3000
  /\ s.result_max_age > 0 /\ s.image_timeout > 0

PortOk(s) == s.adapter \in {"tmflow_json", "techmanpy"} => s.port = 5890

HeightsOk(s) ==
  /\ s.z_grab < s.z_safe
  /\ s.place_offset >= 0 /\ s.z_grab + s.place_offset < s.z_safe
SpeedsOk(s) ==
  /\ s.min_speed > 0 /\ s.min_speed <= s.max_speed
  /\ \A v \in {s.travel_speed, s.lift_speed, s.approach_speed} : v \in s.min_speed..s.max_speed
  /\ s.acceleration > 0 /\ s.motion_timeout > 0

LimitsOk(s) ==
  /\ s.min_x < s.max_x /\ s.min_y < s.max_y /\ s.min_z < s.max_z
  /\ {s.z_grab, s.z_safe} \subseteq s.min_z..s.max_z

(* Two ranges of registers that are written or read for different things may not overlap. *)
ValueWidth(s) == IF s.encoding = "scaled_int32" THEN 2 ELSE 1
Width(s, f) ==
  IF f \in {"motion_base", "telemetry_pose", "telemetry_joint"} THEN 6 * ValueWidth(s)
  ELSE IF f = "profile_base" THEN 2
  ELSE IF f = "telemetry_speed" THEN ValueWidth(s)
  ELSE 1
Ranged(s) ==
  {"motion_base", "profile_base", "status", "gripper", "command_id", "command_trigger", "command_ack",
   "error_code", "gripper_status"}
  \cup (IF s.telemetry THEN {"telemetry_pose", "telemetry_joint", "telemetry_speed"} ELSE {})
Last(s, f) == s[f] + Width(s, f) - 1
RegistersOk(s) ==
  /\ \A f \in Ranged(s) : Last(s, f) <= 65535
  /\ \A f, g \in Ranged(s) : f # g => Last(s, f) < s[g] \/ Last(s, g) < s[f]

ConvertsOk(s) ==
  /\ \A f \in Bounded : s[f] \in BoundOf(f)
  /\ \A f \in DOMAIN Words : s[f] \in Words[f]
  /\ \A f \in Texts : s[f] # ""

SettingsOk(s) ==
  ConvertsOk(s) /\ VisionOk(s) /\ s.connect_timeout > 0 /\ PortOk(s) /\ HeightsOk(s) /\ SpeedsOk(s)
  /\ LimitsOk(s) /\ s.register_scale > 0 /\ RegistersOk(s) /\ s.ack_wait > 0 /\ s.feedback_wait > 0

(* What a request makes of the settings in force: merged over them, with the alias of the source resolved. *)
Merged(current, delta) ==
  LET s == Over(delta, current) IN [s EXCEPT !.source = SourceAlias(@)]

(***************************************************************************)
(* A start reads each field from the environment in production, else from  *)
(* the stored file when setup settings are enabled, else from the          *)
(* environment, else the configured default.  The adapter is read from the *)
(* file first in every case.                                               *)
(***************************************************************************)
Setting(f, file, env, default, production) ==
  IF production /\ f \in DOMAIN env THEN env[f]
  ELSE IF f \in DOMAIN file THEN file[f]
  ELSE IF f \in DOMAIN env THEN env[f]
  ELSE default[f]

VisionFields == {"source", "camera_index", "width", "height", "fps", "buffer_size", "grab_drain", "thread_fps",
                 "image_host", "image_port", "image_timeout", "image_max_bytes", "image_fps", "detect_url",
                 "save_images", "save_dir", "max_saved_images"}
CaptureFields == {"capture_interval", "capture_timeout", "result_max_age"}
RuntimeFields == {"fake_robot", "auto_execute"}
LinkFields == {"ip", "port", "pc_ip", "subnet_mask", "tmflow_version", "controller_version", "connect_timeout",
               "require_listen", "motion_mode", "suppress_warnings"}
JsonFields == {"protocol_version", "client_version", "wire_format", "require_hello", "json_ack", "json_done",
               "json_long", "json_heartbeat", "json_reconnect", "max_retry", "max_message_bytes", "base", "tcp",
               "gripper_wait_ms", "stop_mode"}
MotionFields == {"z_safe", "z_grab", "place_offset", "tool_rx", "tool_ry", "tool_rz", "min_speed", "max_speed",
                 "travel_speed", "lift_speed", "approach_speed", "acceleration", "motion_timeout", "min_x", "max_x",
                 "min_y", "max_y", "min_z", "max_z"}
SquareFields == {f \in Registers \cup Codes : f \in {"square_base", "square_from", "square_to", "square_action",
                 "square_id", "square_trigger", "square_status", "square_error", "square_completed",
                 "square_heartbeat", "square_robot_state", "action_normal", "action_capture", "action_promotion"}}
                \cup {"require_completed", "square_index_base"}
ModbusFields == (Registers \cup Codes \cup {"role", "server_host", "server_port", "payload_mode", "addressing",
                 "verify_status", "handshake", "gripper_feedback", "telemetry", "register_scale", "encoding",
                 "ack_wait", "feedback_wait"}) \ SquareFields

LoadSection(F, file, env, default, production) ==
  [f \in F |-> Setting(f, file, env, default, production)]

VisionLoaded(file, env, default, production) ==
  LET v == LoadSection(VisionFields, file, env, default, production)
      w == IF v.source \in {"tmflow", "tmflow_camera", "tmflow_json_camera"} THEN v.source ELSE SourceAlias(v.source)
  IN  [v EXCEPT !.source = IF w \in Words.source THEN w ELSE "opencv"]
CaptureLoaded(file, env, default, production) == LoadSection(CaptureFields, file, env, default, production)
RuntimeLoaded(file, env, default, production) == LoadSection(RuntimeFields, file, env, default, production)
LinkLoaded(file, env, default, production) ==
  LET adapter == IF "adapter" \in DOMAIN file THEN file.adapter
                 ELSE IF "adapter" \in DOMAIN env THEN env.adapter ELSE default.adapter
  IN  Over(LoadSection(LinkFields, file, env, default, production),
           [adapter |-> IF adapter \in Words.adapter THEN adapter ELSE "tmflow_json"])
JsonLoaded(file, env, default, production) == LoadSection(JsonFields, file, env, default, production)
ModbusLoaded(file, env, default, production) == LoadSection(ModbusFields, file, env, default, production)
SquareLoaded(file, env, default, production) == LoadSection(SquareFields, file, env, default, production)
MotionLoaded(file, env, default, production) == LoadSection(MotionFields, file, env, default, production)

Loaded(file, env, default, production) ==
  Over(VisionLoaded(file, env, default, production), Over(CaptureLoaded(file, env, default, production),
  Over(RuntimeLoaded(file, env, default, production), Over(LinkLoaded(file, env, default, production),
  Over(JsonLoaded(file, env, default, production), Over(ModbusLoaded(file, env, default, production),
  Over(SquareLoaded(file, env, default, production), MotionLoaded(file, env, default, production))))))))

(* The import of the configuration fails when TMflow images are used, in production or with a real robot, without a key. *)
Boots(s, keyed, production) ==
  s.source \in {"tmvision_http", "tmflow_json"} /\ (production \/ ~s.fake_robot) => keyed

(* system_preflight: the robot's communication and the motion profile. *)
PolledByTMflow(robot) == robot.heartbeat \/ robot.state > 0 \/ robot.completed > 0
CommunicationOk(s, robot) ==
  \/ s.fake_robot
  \/ s.adapter = "modbus" /\ s.role = "server" /\ s.payload_mode = "square_command"
     /\ robot.connected /\ PolledByTMflow(robot)
  \/ ~(s.adapter = "modbus" /\ s.role = "server") /\ robot.connected
ModeOk(s, robot) == s.fake_robot \/ robot.connected
ProfileSafe(s) == HeightsOk(s) /\ SpeedsOk(s)
=============================================================================
