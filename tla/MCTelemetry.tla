---------------------------- MODULE MCTelemetry ----------------------------
(* Telemetry with two cell slots: a pack of none or two cells, and one that  *)
(* claims -1 cells, which the cast of cell_count makes more than there are   *)
(* slots; equal and unequal voltages; running times around the units.  No    *)
(* switch is requested here: MCCoordinator has the requests.                 *)
EXTENDS Telemetry

Op(v1, v2, secs) ==
  [cell_voltages_v |-> <<v1, v2>>, cell_resistances_ohm |-> <<0, 0>>,
   total_runtime_s |-> secs]

MCReadings ==
  (-1 :> {Op(3, 4, 59)})
    @@ (0 :> {Op(0, 0, 3599)})
    @@ (2 :> {Op(3, 3, 86400), Op(4, 3, 86399)})

(* A described bit with one that is not, one that is not, and none.          *)
MCAlarmWords == {{}, {0, 24}, {24}}
=============================================================================
