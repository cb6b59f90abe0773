--------------------------- MODULE StateAggregator ---------------------------
(***************************************************************************)
(* The computations of the StateAggregator (src/coordinator/aggregator.rs) *)
(* on what it holds, and the decoding of the one field of a frame that     *)
(* they hinge on.  Voltages are integers (mV), a raw alarm word is the set *)
(* of its bits, and an average is kept as the sum and the number of cells. *)
(***************************************************************************)
EXTENDS Integers, Sequences, SequencesExt, FiniteSetsExt

CONSTANTS
  TOTAL_CELL_SLOTS,
  WORD,      (* the number of values of a u32; small here                    *)
  KnownBits  (* those with an entry in ALARM_DESCRIPTIONS                    *)

(* decode_config_options reads cell_count as an i32 and casts it to u32.     *)
CellCount(i) == i % WORD

AllSlots(cell_count) == TOTAL_CELL_SLOTS  (* mutant: slots that are not in use *)

ActiveSlots(cell_count) == Min({cell_count, TOTAL_CELL_SLOTS})

(* compute_cell_aggregates, one voltage after the other.                     *)
Seen(acc, i, v) ==
  [sum      |-> acc.sum + v,
   min_v    |-> IF i = 1 \/ v < acc.min_v THEN v ELSE acc.min_v,
   min_cell |-> IF i = 1 \/ v < acc.min_v THEN i ELSE acc.min_cell,
   max_v    |-> IF i = 1 \/ v > acc.max_v THEN v ELSE acc.max_v,
   max_cell |-> IF i = 1 \/ v > acc.max_v THEN i ELSE acc.max_cell]

compute_cell_aggregates(voltages) ==
  LET first == [sum |-> 0, min_v |-> 0, min_cell |-> 1, max_v |-> 0, max_cell |-> 1]
      acc[i \in 0 .. Len(voltages)] ==
        IF i = 0 THEN first ELSE Seen(acc[i - 1], i, voltages[i])
      last == acc[Len(voltages)]
  IN [average_v |-> <<last.sum, Len(voltages)>>,
      min_v |-> last.min_v, max_v |-> last.max_v, delta_v |-> last.max_v - last.min_v,
      min_cell |-> last.min_cell, max_cell |-> last.max_cell]

(* decode_alarms: the bits that are described, or else the word.             *)
decode_alarms(raw) ==
  IF raw \intersect KnownBits # {} THEN [described |-> raw \intersect KnownBits, word |-> {}]
                                   ELSE [described |-> {}, word |-> raw]

format_iso8601(secs) ==
  [days |-> secs \div 86400, hours |-> (secs % 86400) \div 3600,
   minutes |-> ((secs % 86400) % 3600) \div 60]

(* StateAggregator::snapshot, when the configuration and the operational     *)
(* data are held; raw and cycles are 0 ({}) until they are known.  The       *)
(* coordinator fills in the reconnect counts.                                *)
snapshot(cell_count, op, raw, cycles, switches) ==
  LET n == ActiveSlots(cell_count)
      voltages == SubSeq(op.cell_voltages_v, 1, n)
  IN [operational |-> op,
      battery_capacity_ah |-> "capacity",
      total_runtime_s |-> op.total_runtime_s,
      total_runtime |-> format_iso8601(op.total_runtime_s),
      cell_voltages_v |-> voltages,
      cell_resistances_ohm |-> SubSeq(op.cell_resistances_ohm, 1, n),
      cell_aggregates |-> IF voltages = <<>> THEN <<>>
                                             ELSE <<compute_cell_aggregates(voltages)>>,
      alarm_list |-> decode_alarms(raw),
      power_cycle_count |-> cycles,
      switches |-> switches,
      jkbms_reconnect_count |-> 0,
      mqtt_reconnect_count |-> 0]
=============================================================================
