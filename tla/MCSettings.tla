----------------------------- MODULE MCSettings -----------------------------
(***************************************************************************)
(* Values for SetupSettings: defaults of config.py, in hundredths where    *)
(* the code has fractions, and requests that are accepted, refused for     *)
(* each reason, or accepted and then harmful together with another.        *)
(***************************************************************************)
EXTENDS Naturals, Integers, TLC

TextFields == {"image_host", "detect_url", "save_dir", "ip", "pc_ip", "subnet_mask", "tmflow_version",
               "controller_version", "protocol_version", "client_version", "base", "tcp", "server_host"}
FlagsOn == {"fake_robot", "require_listen", "require_hello", "handshake", "gripper_feedback", "require_completed"}
FlagsOff == {"save_images", "auto_execute", "suppress_warnings", "verify_status", "telemetry"}
SettingWords == {"", "given", "opencv", "tmvision_http", "tmflow_json", "techmanpy", "modbus", "ptp", "line", "envelope",
                 "flat_json", "controlled_stop", "client", "server", "pose", "square_command", "raw", "zero_based",
                 "holding_40001", "scaled_int16", "scaled_int32"}
DefaultSettings ==
  [camera_index |-> 0, width |-> 0, height |-> 0, buffer_size |-> 1, grab_drain |-> 0, capture_interval |-> 200,
   capture_timeout |-> 3000, image_port |-> 5891, image_max_bytes |-> 1048576, max_saved_images |-> 500, port |-> 5890,
   max_retry |-> 2, max_message_bytes |-> 4096, gripper_wait_ms |-> 300, server_port |-> 5890, square_index_base |-> 0,
   source |-> "opencv", adapter |-> "tmflow_json", motion_mode |-> "ptp", wire_format |-> "envelope",
   stop_mode |-> "controlled_stop", role |-> "client", payload_mode |-> "pose", addressing |-> "holding_40001",
   encoding |-> "scaled_int32",
   result_max_age |-> 300, image_timeout |-> 200, connect_timeout |-> 300, acceleration |-> 60, motion_timeout |-> 1000,
   register_scale |-> 100, ack_wait |-> 200, feedback_wait |-> 200, fps |-> 0, thread_fps |-> 0, image_fps |-> 200,
   json_ack |-> 200, json_done |-> 3000, json_long |-> 9000, json_heartbeat |-> 100, json_reconnect |-> 200,
   z_safe |-> 150, z_grab |-> 20, place_offset |-> 2, tool_rx |-> 0, tool_ry |-> 0, tool_rz |-> 0, min_speed |-> 1,
   max_speed |-> 80, travel_speed |-> 30, lift_speed |-> 30, approach_speed |-> 15, min_x |-> -600, max_x |-> 600,
   min_y |-> 100, max_y |-> 600, min_z |-> 0, max_z |-> 250,
   motion_base |-> 7000, profile_base |-> 7012, status |-> 7100, gripper |-> 7098, command_id |-> 6998,
   command_trigger |-> 6999, command_ack |-> 7101, error_code |-> 7102, gripper_status |-> 7103,
   square_base |-> 40001, square_from |-> 40001, square_to |-> 40002, square_action |-> 40003, square_id |-> 40004,
   square_trigger |-> 40005, square_status |-> 40006, square_error |-> 40007, square_completed |-> 40008,
   square_heartbeat |-> 40009, square_robot_state |-> 40010, telemetry_pose |-> 7110, telemetry_joint |-> 7122,
   telemetry_speed |-> 7134,
   status_idle |-> 0, status_moving |-> 1, status_complete |-> 2, status_error |-> 3, status_fault |-> 4,
   trigger_value |-> 1, clear_value |-> 0, gripper_close |-> 1, gripper_open |-> 0, gripper_opened |-> 0,
   gripper_closed |-> 1, gripper_error |-> 2, action_normal |-> 0, action_capture |-> 1, action_promotion |-> 3]
  @@ [f \in TextFields |-> "given"] @@ [f \in FlagsOn |-> TRUE] @@ [f \in FlagsOff |-> FALSE]

\* One of the limits .env.example sets, in production: a saved one counts for nothing, the others do.
EnvironmentLimits == [min_y |-> 100]

Plain == [set |-> << >>, cal |-> << >>, junk |-> {}]
SettingsAsked ==
  {[Plain EXCEPT !.cal = [oy |-> 99]],
   [Plain EXCEPT !.set = [telemetry |-> TRUE, min_y |-> 50], !.cal = [oy |-> 60]],
   [Plain EXCEPT !.set = [status |-> 7003]],
   [Plain EXCEPT !.set = [max_y |-> 480], !.cal = [oy |-> 100]],
   [Plain EXCEPT !.junk = {"fps"}]}
CalibrationsAsked ==
  {[kind |-> "values", persist |-> TRUE,
    u |-> [ox |-> 20, dead |-> [x |-> 400, y |-> 100, w |-> 80, h |-> 80, gap |-> 25, slots |-> 4]]],
   [kind |-> "values", u |-> [sx |-> -5], persist |-> TRUE],
   [kind |-> "values", u |-> [oy |-> 300], persist |-> FALSE],
   [kind |-> "points", persist |-> TRUE,
    samples |-> {[f |-> 0, r |-> 0, x |-> 10, y |-> 100], [f |-> 8, r |-> 0, x |-> 330, y |-> 108],
                 [f |-> 0, r |-> 9, x |-> 1, y |-> 460]}],
   [kind |-> "points", persist |-> TRUE, samples |-> {[f |-> 0, r |-> 0, x |-> 10, y |-> 100]}],
   [kind |-> "image", persist |-> FALSE, space |-> "rectified_board",
    samples |-> {<<<<0, 0>>, <<0, 0>>>>, <<<<0, 1>>, <<0, 9>>>>, <<<<1, 0>>, <<9, 0>>>>, <<<<1, 1>>, <<9, 9>>>>}],
   [kind |-> "clear", persist |-> FALSE]}
ScriptFiles ==
  {[corners |-> [a4 |-> [x |-> 0, y |-> 260], i0 |-> [x |-> 320, y |-> 100],
                 a9 |-> [x |-> 0, y |-> 490], i5 |-> [x |-> 320, y |-> 330]],
    dead |-> [x |-> 420, y |-> 100, w |-> 80, h |-> 80, gap |-> 25, slots |-> 4],
    set |-> [source |-> "opencv", fake_robot |-> TRUE, min_y |-> 100, max_y |-> 600]]}
TestsAsked == {[action |-> "corner_a9", live |-> FALSE, confirmed |-> FALSE],
               [action |-> "one_move", live |-> TRUE, confirmed |-> FALSE],
               [action |-> "gripper_open", live |-> TRUE, confirmed |-> TRUE]}
=============================================================================
