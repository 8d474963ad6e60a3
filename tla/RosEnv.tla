-------------------------------- MODULE RosEnv --------------------------------
(***************************************************************************)
(* check_env, which every tool that talks to the robot calls before it     *)
(* sends anything: in a wrong environment the silence of a robot nobody    *)
(* can see looks exactly like a refusal.                                   *)
(***************************************************************************)

Environments ==
  [domain : {"0", "unset"}, rmw : {"rmw_cyclonedds_cpp", "other"}, localhost : {"", "0", "1"}]

EnvOk(env) ==
  /\ env.domain = "0"
  /\ env.rmw = "rmw_cyclonedds_cpp"
  /\ env.localhost \in {"", "0"}
=============================================================================
