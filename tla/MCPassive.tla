----------------------------- MODULE MCPassive -----------------------------
(* Small instances of Passive for TLC. *)
EXTENDS Passive, TLC

CONSTANTS a, b, c, arp

(***************************************************************************)
(* Four entries with ids 2 .. 5, of which an update can carry 2 and 3.     *)
(* a and b compete for the first two; c has the last.                      *)
(***************************************************************************)
MCHash == [f \in Flows |-> IF f = c THEN 3 ELSE 0]
MCDoubleOverflow == [x \in 4 .. 6 |-> 0]
MCMinOffset == -1
MCInt32Min == -4
MCEtherTypeIds == arp :> 1

(* Requests with and without TCP options, and data that is no request. *)
MCSegments == {[header |-> 24, gets |-> {24}], [header |-> 20, gets |-> {20}]}

SameHash == Permutations({a, b})

(***************************************************************************)
(* The counters of expired and dropped flows, those of packets in a flow,  *)
(* and the log with its history influence no step and no property of the   *)
(* run.                                                                    *)
(***************************************************************************)
Uncounted(entry) == [entry EXCEPT !.num_packets = 0]

PassiveView ==
  <<[s \in FT!Slots |-> Uncounted(entries[s])], base_timestamp_seconds, num_elements, server, last_seen, series,
    packet_sizes, http_table, phase, current_timestamp, protocols, carried>>
=============================================================================
