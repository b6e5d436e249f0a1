---------------------------- MODULE MCFlowTable ----------------------------
(* Small instances of FlowTable for TLC. *)
EXTENDS FlowTable, TLC

CONSTANTS a, b, c

(***************************************************************************)
(* Three flows compete for two entries: a and b probe both, c only the     *)
(* second, and the last probe of a and b overflows a uint32_t.             *)
(***************************************************************************)
MCHash == [f \in Flows |-> IF f = c THEN 7 ELSE 6]
(* A build that saturates out-of-range conversions. *)
MCDoubleOverflow == [x \in 8 .. 10 |-> 7]
MCMinOffset == -2
INT16_MIN == -32768

(* a and b have the same hash. *)
SameHash == Permutations({a, b})

(* The two counters are only ever incremented, and no step depends on them. *)
TableView ==
  <<entries, base_timestamp_seconds, num_elements, flow_log, server, last_seen,
    packets_seen, busy_flows, log_complete>>
=============================================================================
