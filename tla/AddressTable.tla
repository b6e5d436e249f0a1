---------------------------- MODULE AddressTable ----------------------------
(***************************************************************************)
(* The address table of bismark-passive (address_table.c): a ring of the   *)
(* MAC_TABLE_ENTRIES newest (IP, MAC) pairs of the home network.  An id is *)
(* an index into the ring.  Each update sends the pairs added since the    *)
(* previous one, preceded by the id of the first of them; the server       *)
(* numbers the others consecutively and resolves the ids of DNS records.   *)
(*                                                                         *)
(* An address below is such a pair.  server is history: the pair that the  *)
(* server holds for each id.                                               *)
(***************************************************************************)
EXTENDS Integers

CONSTANTS
  Addresses,
  Private,            \* the addresses whose IP is_address_private accepts
  NoAddress,          \* the pair of a zeroed entry
  MAC_TABLE_ENTRIES

ASSUME AddressTableAssumption ==
  /\ Private \subseteq Addresses
  /\ NoAddress \notin Addresses
  /\ MAC_TABLE_ENTRIES \in Nat
  /\ MAC_TABLE_ENTRIES > 1

Ids == 0 .. MAC_TABLE_ENTRIES - 1

(* The macro makes C's signed remainder non-negative. *)
NORM(m) == m % MAC_TABLE_ENTRIES

VARIABLES
  entries,
  first,                    \* id of the oldest mapping
  last,                     \* id of the newest mapping
  length,
  added_since_last_update,
  server

table_vars == <<entries, first, last, length, added_since_last_update>>
vars == <<table_vars, server>>

address_table_init ==
  /\ entries = [id \in Ids |-> NoAddress]
  /\ first = 0
  /\ last = 0
  /\ length = 0
  /\ added_since_last_update = 0

Init == address_table_init /\ server = [id \in Ids |-> NoAddress]

-----------------------------------------------------------------------------
(* The ids that hold a mapping. *)
LiveIds == {NORM(last - idx) : idx \in 0 .. length - 1}

(* Mutant: the search misses the oldest mapping. *)
NewerIds == {NORM(last - idx) : idx \in 0 .. length - 2}

(* The ids that the search looks at. *)
SearchedIds == {NORM(last - idx) : idx \in 0 .. length - 1}

(* A mapping that is in the table keeps its id. *)
find_mapping(address, id) ==
  /\ id \in SearchedIds
  /\ entries[id] = address
  /\ UNCHANGED table_vars

(* Mutant: the position stays at the end of the array. *)
stuck_last == IF length = 0 \/ last = MAC_TABLE_ENTRIES - 1 THEN last ELSE last + 1

(* Only the very first mapping does not move table->last. *)
next_last == IF length = 0 THEN last ELSE NORM(last + 1)

(* Mutant: discarding the oldest mapping leaves table->first alone. *)
kept_first == first

next_first == IF length = MAC_TABLE_ENTRIES THEN NORM(first + 1) ELSE first

(* Mutant: the count of additions never exceeds half the table. *)
undercounted == IF 2 * added_since_last_update < MAC_TABLE_ENTRIES
                THEN added_since_last_update + 1 ELSE added_since_last_update

next_added == IF added_since_last_update < MAC_TABLE_ENTRIES
              THEN added_since_last_update + 1 ELSE added_since_last_update

(* Mutant: a full table still counts the new mapping. *)
overlong == length + 1

next_length == IF length = MAC_TABLE_ENTRIES THEN length ELSE length + 1

(* A new mapping takes the place of the oldest one once the ring is full. *)
add_mapping(address, id) ==
  /\ \A other \in SearchedIds : entries[other] # address
  /\ id = next_last
  /\ first' = next_first
  /\ length' = next_length
  /\ last' = next_last
  /\ entries' = [entries EXCEPT ![next_last] = address]
  /\ added_since_last_update' = next_added

(* id is the value returned. *)
address_table_lookup(address, id) ==
  /\ \/ address \notin Private /\ id = -1 /\ UNCHANGED table_vars
     \/ address \in Private /\ find_mapping(address, id)
     \/ address \in Private /\ add_mapping(address, id)
  /\ UNCHANGED server

(***************************************************************************)
(* The pairs of an update, oldest first, and what the server makes of      *)
(* them: the k-th pair (from 0) gets id (first id + k) modulo the size.    *)
(***************************************************************************)
UpdateFirstId == NORM(last - added_since_last_update + 1)
UpdatePair(k) == entries[NORM(last - (added_since_last_update - k) + 1)]

ServerAfterUpdate ==
  [id \in Ids |->
     LET k == NORM(id - UpdateFirstId)
     IN  IF k < added_since_last_update THEN UpdatePair(k) ELSE server[id]]

address_table_write_update ==
  /\ server' = ServerAfterUpdate
  /\ added_since_last_update' = 0
  /\ UNCHANGED <<entries, first, last, length>>

Next ==
  \/ \E address \in Addresses, id \in Ids \cup {-1} :
       address_table_lookup(address, id)
  \/ address_table_write_update

Spec == Init /\ [][Next]_vars

-----------------------------------------------------------------------------
TypeOK ==
  /\ entries \in [Ids -> Private \cup {NoAddress}]
  /\ first \in Ids
  /\ last \in Ids
  /\ length \in 0 .. MAC_TABLE_ENTRIES
  /\ added_since_last_update \in 0 .. length
  /\ server \in [Ids -> Private \cup {NoAddress}]

(***************************************************************************)
(* The mappings occupy the ring from first to last without a gap.          *)
(***************************************************************************)
RingShape ==
  /\ length = 0 => last = 0
  /\ length > 0 => last = NORM(first + length - 1)
  /\ length < MAC_TABLE_ENTRIES => first = 0
  /\ \A id \in LiveIds : entries[id] # NoAddress

(***************************************************************************)
(* A device has one id at a time: no pair is in the ring twice.            *)
(* KeepsServerInformed below says so too; the proofs name it.              *)
(***************************************************************************)
OneIdPerAddress ==
  \A id, other \in LiveIds : entries[id] = entries[other] => id = other

(***************************************************************************)
(* Apart from the mappings still to be sent, the server holds what the     *)
(* router holds, also when the ring wrapped or the count of additions was  *)
(* capped since the last update.                                           *)
(***************************************************************************)
UnsentIds == {NORM(last - k) : k \in 0 .. added_since_last_update - 1}
ServerMirrors == \A id \in LiveIds \ UnsentIds : server[id] = entries[id]

(***************************************************************************)
(* An id changes its address only when the ring is full, and then it is    *)
(* the oldest id: ids in DNS records stay valid until then.                *)
(***************************************************************************)
OnlyOldestEvicted ==
  [][\A id \in LiveIds :
       entries'[id] # entries[id] => length = MAC_TABLE_ENTRIES /\ id = first]_vars

(***************************************************************************)
(* address_table.c keeps the promise of differential updates: an id        *)
(* changes its pair only together with a pair still to be sent, however    *)
(* often the ring wrapped, and an update sends those pairs and no others.  *)
(***************************************************************************)
Stream == INSTANCE DifferentialUpdates
            WITH Things <- Private, Nothing <- NoAddress,
                 names <- [id \in Ids |-> IF id \in LiveIds THEN entries[id] ELSE NoAddress],
                 unsent <- UnsentIds

KeepsServerInformed == Stream!Spec
=============================================================================
