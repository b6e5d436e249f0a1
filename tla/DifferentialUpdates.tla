------------------------- MODULE DifferentialUpdates -------------------------
(***************************************************************************)
(* What the flow table and the address table promise: differential updates *)
(* that tell the server what every id stands for.  The router gives ids to *)
(* things and takes them back; an update says what the ids stand for that  *)
(* were given since the update before it, and nothing else.                *)
(***************************************************************************)
CONSTANTS Ids, Things, Nothing

VARIABLES
  names,      \* id -> the thing the router calls by it, or Nothing
  unsent,     \* ids that no update has explained yet
  server      \* id -> the thing the server resolves it to

vars == <<names, unsent, server>>

Named == {id \in Ids : names[id] # Nothing}

Init ==
  /\ names = [id \in Ids |-> Nothing]
  /\ unsent = {}
  /\ server = [id \in Ids |-> Nothing]

(* An id that needs no explanation afterwards stands for what it stood for. *)
RenameThings ==
  /\ names' \in [Ids -> Things \cup {Nothing}]
  /\ unsent' \subseteq Named'
  /\ \A id \in Named' \ unsent' : id \notin unsent /\ names'[id] = names[id]
  /\ \A id, other \in Named' : names'[id] = names'[other] => id = other
  /\ UNCHANGED server

SendUpdate ==
  /\ server' = [id \in Ids |-> IF id \in unsent THEN names[id] ELSE server[id]]
  /\ unsent' = {}
  /\ UNCHANGED names

Next == RenameThings \/ SendUpdate

Spec == Init /\ [][Next]_vars

=============================================================================
