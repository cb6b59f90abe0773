---------------------------- MODULE MCHealthcheck ----------------------------
(* Healthcheck with a service under an overridden socket name, or without a  *)
(* server, and clients that name the same socket, another one, or take the   *)
(* password from a file that may not be readable.                            *)
EXTENDS Healthcheck

Overridden ==
  [bms_name |-> "pack", healthcheck_socket |-> "override",
   healthcheck_server |-> TRUE, pass_from |-> {"inline"}]

MCServiceConfigs == {Overridden, [Overridden EXCEPT !.healthcheck_server = FALSE]}

MCClientConfigs ==
  {[Overridden EXCEPT !.bms_name = "other", !.pass_from = {"file"}],
   [Overridden EXCEPT !.healthcheck_socket = "None"]}
=============================================================================
