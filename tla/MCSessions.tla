----------------------------- MODULE MCSessions -----------------------------
(* Three devices, a table of two, counters of three bits; two sessions. *)
EXTENDS Sessions, TLC

CONSTANTS d1, d2, d3, k1, k2, line

MCDevices == {d1, d2, d3}
MCTexts == {{line, Blank}}
MCSymmetry == Permutations(MCDevices) \cup Permutations({k1, k2})

(***************************************************************************)
(* The files of sessions that ended were checked as they were written, and *)
(* steps of later sessions leave them alone unless they take their names.  *)
(***************************************************************************)
OfSession(names) == {name \in names : name[1] = start_timestamp}
SessionsView ==
  <<table_vars, session_vars, number_vars, failure_vars, step, handler_vars,
    current_update, started, DOMAIN uploads, OfSession(failed_closes),
    [name \in OfSession(DOMAIN uploads) |-> uploads[name]]>>
=============================================================================
