----------------------------- MODULE FlowTable -----------------------------
(***************************************************************************)
(* The flow table of bismark-passive (flow_table.c): an open addressed     *)
(* hash table of 5-tuple flows.  A slot index plus                         *)
(* FLOW_ID_FIRST_UNRESERVED is the flow id that the packet records of an   *)
(* update carry; the flow's own record is sent once, with the first update *)
(* after its insertion, and the server resolves every later use of the id  *)
(* from it.  A flow's age is a 16-bit offset from base_timestamp_seconds.  *)
(*                                                                         *)
(* Variables and operators keep the names of the C code.  The variables    *)
(* server, last_seen, packets_seen, log_complete and busy_flows are        *)
(* history: what the server has been told, the true age of the flow in     *)
(* each live slot, the true size of the new ones, whether all of the log   *)
(* was written, and the new flows that it was written for.                 *)
(***************************************************************************)
EXTENDS Integers, FiniteSets

CONSTANTS
  Flows,                         \* the 5-tuples that flow_entry_compare compares
  NoFlow,                        \* the 5-tuple of a zeroed entry
  hash,                          \* fnv_hash_32 of each flow
  UINT32_MAX,
  DoubleOverflow,                \* (uint32_t)x for a double x > UINT32_MAX
  FLOW_TABLE_ENTRIES,
  HT_NUM_PROBES,
  FLOW_ID_FIRST_UNRESERVED,
  FLOW_TABLE_EXPIRATION_SECONDS,
  FLOW_TABLE_MIN_UPDATE_OFFSET,  \* INT16_MIN
  FLOW_TABLE_MAX_UPDATE_OFFSET,  \* INT16_MAX
  NUM_PACKETS_MODULUS,           \* 2^4: num_packets is a 4-bit field
  NUM_PACKETS_LIMIT,             \* the 63 that num_packets is compared with
  FLOW_THRESHOLD,
  Timestamps,                    \* packet and wall-clock times, in seconds
  ClockStepBack,                 \* how far the wall clock may lag behind a flow
  MaxPackets                     \* bound on the packets of an unsent flow

Slots == 0 .. FLOW_TABLE_ENTRIES - 1
Probes == 0 .. HT_NUM_PROBES - 1

(***************************************************************************)
(* hash + HT_C1*probe + HT_C2*probe*probe is computed in doubles, exactly. *)
(* Converting a value above UINT32_MAX back to uint32_t is undefined in C; *)
(* a build fixes some result for each value, which DoubleOverflow names.   *)
(***************************************************************************)
ProbeStep(probe) == (probe + probe * probe) \div 2
uint32_of_double(x) == IF x <= UINT32_MAX THEN x ELSE DoubleOverflow[x]

ASSUME FlowTableAssumption ==
  /\ NoFlow \notin Flows
  /\ UINT32_MAX \in Nat
  /\ hash \in [Flows -> 0 .. UINT32_MAX]
  /\ HT_NUM_PROBES \in Nat \ {0}
  /\ \A f \in Flows, probe \in Probes :
       uint32_of_double(hash[f] + ProbeStep(probe)) \in 0 .. UINT32_MAX
  /\ FLOW_TABLE_ENTRIES \in Nat \ {0}
  /\ FLOW_ID_FIRST_UNRESERVED \in Nat \ {0}
  /\ FLOW_TABLE_EXPIRATION_SECONDS \in Nat
  /\ FLOW_TABLE_MIN_UPDATE_OFFSET \in Int
  /\ FLOW_TABLE_MAX_UPDATE_OFFSET \in Nat
  /\ FLOW_TABLE_MIN_UPDATE_OFFSET <= 0
  /\ NUM_PACKETS_MODULUS \in Nat
  /\ NUM_PACKETS_MODULUS > 1
  /\ NUM_PACKETS_LIMIT \in Nat
  /\ FLOW_THRESHOLD \in Nat
  /\ Timestamps \subseteq Int
  /\ ClockStepBack \in Nat
  /\ MaxPackets \in Nat

(* The values of entry->occupied. *)
ENTRY_EMPTY == 0
ENTRY_OCCUPIED_BUT_UNSENT == 1
ENTRY_OCCUPIED == 2
ENTRY_DELETED == 3

FLOW_ID_ERROR == 0
FlowIds == {FLOW_ID_ERROR} \cup {s + FLOW_ID_FIRST_UNRESERVED : s \in Slots}

(* Storing an offset in the int16_t last_update_time_seconds. *)
Int16 == FLOW_TABLE_MIN_UPDATE_OFFSET .. FLOW_TABLE_MAX_UPDATE_OFFSET
to_int16(x) ==
  ((x - FLOW_TABLE_MIN_UPDATE_OFFSET)
     % (FLOW_TABLE_MAX_UPDATE_OFFSET - FLOW_TABLE_MIN_UPDATE_OFFSET + 1))
  + FLOW_TABLE_MIN_UPDATE_OFFSET

VARIABLES
  entries,                 \* slot -> flow_table_entry_t
  base_timestamp_seconds,
  num_elements,
  num_expired_flows,
  num_dropped_flows,
  flow_log,                \* flows listed in FLOW_THRESHOLDING_LOG
  server,                  \* slot -> flow of the last record sent for its id
  last_seen,               \* slot -> time of the last packet of its live flow
  packets_seen,            \* slot -> packets of its unsent flow so far
  log_complete,
  busy_flows               \* if so, new flows of FLOW_THRESHOLD packets or more
                           \* when the log was opened, each with its packets

table_vars ==
  <<entries, base_timestamp_seconds, num_elements, num_expired_flows,
    num_dropped_flows>>
log_vars == <<flow_log, busy_flows, log_complete>>
vars == <<table_vars, log_vars, server, last_seen, packets_seen>>

flow_table_entry_t ==
  [flow: Flows \cup {NoFlow}, occupied: 0 .. 3,
   num_packets: 0 .. NUM_PACKETS_MODULUS - 1, last_update: Int16]

zeroed_entry ==
  [flow |-> NoFlow, occupied |-> ENTRY_EMPTY, num_packets |-> 0, last_update |-> 0]

(* The other fields of a deleted entry are never read: the model forgets them. *)
deleted_entry == [zeroed_entry EXCEPT !.occupied = ENTRY_DELETED]

(* flow_table_init: memset over the whole table. *)
flow_table_init ==
  /\ entries = [s \in Slots |-> zeroed_entry]
  /\ base_timestamp_seconds = 0
  /\ num_elements = 0
  /\ num_expired_flows = 0
  /\ num_dropped_flows = 0

Init ==
  /\ flow_table_init
  /\ flow_log = {}
  /\ server = [s \in Slots |-> NoFlow]
  /\ last_seen = [s \in Slots |-> 0]
  /\ packets_seen = [s \in Slots |-> 0]
  /\ busy_flows = {}
  /\ log_complete = FALSE

-----------------------------------------------------------------------------
Live(s) == entries[s].occupied \in {ENTRY_OCCUPIED, ENTRY_OCCUPIED_BUT_UNSENT}
Unsent(s) == entries[s].occupied = ENTRY_OCCUPIED_BUT_UNSENT
LiveSlots == {s \in Slots : Live(s)}
UnsentSlots == {s \in Slots : Unsent(s)}

(* The slot that probe number `probe' of flow f looks at. *)
probe_table ==
  [f \in Flows |->
     [probe \in Probes |->
        uint32_of_double(hash[f] + ProbeStep(probe)) % FLOW_TABLE_ENTRIES]]
table_idx(f, probe) == probe_table[f][probe]

(* Mutant: a flow expires at the limit, not beyond it. *)
ExpiresEarly(s, ts) ==
  /\ entries[s].occupied = ENTRY_OCCUPIED
  /\ base_timestamp_seconds + entries[s].last_update
       + FLOW_TABLE_EXPIRATION_SECONDS <= ts

(* Only a flow whose record was sent can expire. *)
Expires(s, ts) ==
  /\ entries[s].occupied = ENTRY_OCCUPIED
  /\ base_timestamp_seconds + entries[s].last_update
       + FLOW_TABLE_EXPIRATION_SECONDS < ts

StillLive(s, ts) == Live(s) /\ ~Expires(s, ts)
Matches(f, s, ts) == StillLive(s, ts) /\ entries[s].flow = f

(* Mutant: the search also ends at a deleted entry. *)
StopsAtDeleted(f, probe, ts) ==
  \/ Matches(f, table_idx(f, probe), ts)
  \/ entries[table_idx(f, probe)].occupied \in {ENTRY_EMPTY, ENTRY_DELETED}

(* The probing loop ends at a match or at an entry that was never used. *)
StopsAt(f, probe, ts) ==
  \/ Matches(f, table_idx(f, probe), ts)
  \/ entries[table_idx(f, probe)].occupied = ENTRY_EMPTY

Probed(f, ts) == {p \in Probes : \A q \in 0 .. p - 1 : ~StopsAt(f, q, ts)}
ProbedSlots(f, ts) == {table_idx(f, p) : p \in Probed(f, ts)}
ExpiredSlots(f, ts) == {s \in ProbedSlots(f, ts) : Expires(s, ts)}

(* s is the entry of f that the loop finds. *)
Finds(f, ts, s) == Matches(f, s, ts) /\ s \in ProbedSlots(f, ts)
FindsNothing(f, ts) == \A s \in ProbedSlots(f, ts) : ~Matches(f, s, ts)

(* s is the first probed entry that holds no flow any more. *)
FirstAvailable(f, ts, s) ==
  /\ ~StillLive(s, ts)
  /\ \E p \in Probed(f, ts) :
       /\ s = table_idx(f, p)
       /\ \A q \in 0 .. p - 1 : StillLive(table_idx(f, q), ts)

(* The entries after the loop marked the expired ones it met. *)
Swept(f, ts) ==
  LET expired == ExpiredSlots(f, ts)
  IN  [s \in Slots |-> IF s \in expired THEN deleted_entry ELSE entries[s]]

(* Mutant: removing a flow leaves num_elements alone. *)
KeepCount(S) == num_elements
(* Mutant: a removed flow is counted down twice. *)
CountDownTwice(S) == num_elements - 2 * Cardinality(S)

(* num_elements after one decrement per removed flow. *)
num_elements_without(S) == num_elements - Cardinality(S)

(* Mutant: a new flow starts as already sent. *)
sent_entry(f, last_update) ==
  [flow |-> f, occupied |-> ENTRY_OCCUPIED, num_packets |-> 1,
   last_update |-> last_update]

(* new_entry as flow_table_process_flow stores it. *)
new_entry(f, last_update) ==
  [flow |-> f, occupied |-> ENTRY_OCCUPIED_BUT_UNSENT, num_packets |-> 1,
   last_update |-> last_update]

(* History of a slot that holds no live flow is forgotten. *)
Forget(h, S) ==
  LET forgotten == S IN [s \in Slots |-> IF s \in forgotten THEN 0 ELSE h[s]]

-----------------------------------------------------------------------------
(***************************************************************************)
(* flow_table_process_flow, one action per way it returns.                 *)
(***************************************************************************)

(* Mutant: no bounds check. *)
NeverOutOfBounds(ts) == FALSE

OutOfBounds(ts) ==
  /\ num_elements > 0
  /\ ts - base_timestamp_seconds \notin Int16

drop_out_of_bounds(ts) ==
  /\ OutOfBounds(ts)
  /\ num_dropped_flows' = num_dropped_flows + 1
  /\ UNCHANGED <<entries, base_timestamp_seconds, num_elements,
                 num_expired_flows, log_vars, server, last_seen, packets_seen>>

(* The loop's own updates: every expired entry it met is deleted. *)
CountExpired(f, ts) ==
  num_expired_flows' = num_expired_flows + Cardinality(ExpiredSlots(f, ts))

refresh_flow(f, ts, s) ==
  /\ ~OutOfBounds(ts)
  /\ Finds(f, ts, s)
  /\ entries' =
       [Swept(f, ts) EXCEPT
          ![s].last_update = to_int16(ts - base_timestamp_seconds),
          ![s].num_packets = IF Unsent(s) /\ @ < NUM_PACKETS_LIMIT
                             THEN (@ + 1) % NUM_PACKETS_MODULUS ELSE @]
  /\ num_elements' = num_elements_without(ExpiredSlots(f, ts))
  /\ CountExpired(f, ts)
  /\ last_seen' = [Forget(last_seen, ExpiredSlots(f, ts)) EXCEPT ![s] = ts]
  /\ packets_seen' = IF Unsent(s) THEN [packets_seen EXCEPT ![s] = @ + 1]
                     ELSE packets_seen
  /\ UNCHANGED <<base_timestamp_seconds, num_dropped_flows, log_vars, server>>

drop_no_space(f, ts) ==
  /\ ~OutOfBounds(ts)
  /\ FindsNothing(f, ts)
  /\ \A probe \in Probes : StillLive(table_idx(f, probe), ts)
  /\ num_dropped_flows' = num_dropped_flows + 1
  /\ UNCHANGED <<entries, base_timestamp_seconds, num_elements,
                 num_expired_flows, log_vars, server, last_seen, packets_seen>>

insert_flow(f, ts, s) ==
  /\ ~OutOfBounds(ts)
  /\ FirstAvailable(f, ts, s)
  /\ FindsNothing(f, ts)
  /\ LET left == num_elements_without(ExpiredSlots(f, ts))
         base == IF left = 0 THEN ts ELSE base_timestamp_seconds
     IN  /\ base_timestamp_seconds' = base
         /\ num_elements' = left + 1
         /\ entries' =
              [Swept(f, ts) EXCEPT
                 ![s] = new_entry(f, to_int16(ts - base))]
  /\ CountExpired(f, ts)
  /\ last_seen' = [Forget(last_seen, ExpiredSlots(f, ts)) EXCEPT ![s] = ts]
  /\ packets_seen' = [packets_seen EXCEPT ![s] = 1]
  /\ UNCHANGED <<num_dropped_flows, log_vars, server>>

(* The whole call; id is the value it returns. *)
flow_table_process_flow(f, ts, id) ==
  \/ id = FLOW_ID_ERROR /\ drop_out_of_bounds(ts)
  \/ id = FLOW_ID_ERROR /\ drop_no_space(f, ts)
  \/ \E s \in Slots :
       id = s + FLOW_ID_FIRST_UNRESERVED /\ refresh_flow(f, ts, s)
  \/ \E s \in Slots :
       id = s + FLOW_ID_FIRST_UNRESERVED /\ insert_flow(f, ts, s)

(***************************************************************************)
(* flow_table_advance_base_timestamp: flows too old for the new base are   *)
(* deleted, the others keep their age relative to it.                      *)
(***************************************************************************)
TooOld(s, new_timestamp) ==
  /\ Live(s)
  /\ entries[s].last_update - (new_timestamp - base_timestamp_seconds)
       < FLOW_TABLE_MIN_UPDATE_OFFSET

OldSlots(new_timestamp) == {s \in Slots : TooOld(s, new_timestamp)}

flow_table_advance_base_timestamp(new_timestamp) ==
  LET offset == new_timestamp - base_timestamp_seconds
      old == OldSlots(new_timestamp)
  IN  /\ entries' =
           [s \in Slots |->
              CASE s \in old -> deleted_entry
                [] Live(s) /\ s \notin old ->
                     [entries[s] EXCEPT !.last_update = to_int16(@ - offset)]
                [] OTHER -> entries[s]]
      /\ num_elements' = num_elements_without(old)
      /\ base_timestamp_seconds' = new_timestamp
      /\ last_seen' = Forget(last_seen, old)
      /\ packets_seen' = Forget(packets_seen, old)
      /\ UNCHANGED <<num_expired_flows, num_dropped_flows, log_vars, server>>

(***************************************************************************)
(* flow_table_write_update: every unsent flow gets its record, once.       *)
(***************************************************************************)
flow_table_write_update ==
  /\ entries' =
       [s \in Slots |-> IF Unsent(s)
                        THEN [entries[s] EXCEPT !.occupied = ENTRY_OCCUPIED]
                        ELSE entries[s]]
  /\ server' = [s \in Slots |-> IF Unsent(s) THEN entries[s].flow ELSE server[s]]
  /\ packets_seen' = Forget(packets_seen, UnsentSlots)
  /\ UNCHANGED <<base_timestamp_seconds, num_elements, num_expired_flows,
                 num_dropped_flows, log_vars, last_seen>>

(* Mutant: a flow whose record was sent is listed again. *)
LiveThresholded == {s \in LiveSlots : entries[s].num_packets >= FLOW_THRESHOLD}

Thresholded == {s \in UnsentSlots : entries[s].num_packets >= FLOW_THRESHOLD}

(***************************************************************************)
(* flow_table_write_thresholded_ips rewrites the log, a slot after the     *)
(* other.  If one does not get to the disk, whether fprintf reports it or  *)
(* the last fclose does not, the log ends before it; the caller goes on.   *)
(***************************************************************************)
ListedBefore(end) == {entries[s].flow : s \in {r \in Thresholded : r < end}}

write_thresholds(end) ==
  /\ flow_log' = ListedBefore(end)
  /\ log_complete' = (end = FLOW_TABLE_ENTRIES)
  /\ busy_flows' =
       {<<entries[s].flow, packets_seen[s]>> :
          s \in {r \in UnsentSlots : log_complete' /\ packets_seen[r] >= FLOW_THRESHOLD}}
  /\ UNCHANGED <<table_vars, server, last_seen, packets_seen>>

(* The log cannot be opened: the last one stays. *)
keep_last_log == UNCHANGED vars

flow_table_write_thresholded_ips ==
  \/ \E end \in 0 .. FLOW_TABLE_ENTRIES : write_thresholds(end)
  \/ keep_last_log

-----------------------------------------------------------------------------
(***************************************************************************)
(* Bounds of the model: MaxPackets on an unsent flow.  The wall clock may  *)
(* lag behind the packets already seen by ClockStepBack.                   *)
(***************************************************************************)
WithinBounds(f) ==
  \A s \in UnsentSlots : entries[s].flow = f => packets_seen[s] < MaxPackets

ClockReads(now) == \A s \in LiveSlots : last_seen[s] - now <= ClockStepBack

Next ==
  \/ \E f \in Flows, ts \in Timestamps, id \in FlowIds :
       WithinBounds(f) /\ flow_table_process_flow(f, ts, id)
  \/ \E now \in Timestamps :
       ClockReads(now) /\ flow_table_advance_base_timestamp(now)
  \/ flow_table_write_update
  \/ flow_table_write_thresholded_ips

Spec == Init /\ [][Next]_vars

-----------------------------------------------------------------------------
TypeOK ==
  /\ entries \in [Slots -> flow_table_entry_t]
  /\ base_timestamp_seconds \in Int
  /\ num_elements \in Nat
  /\ num_expired_flows \in Nat
  /\ num_dropped_flows \in Nat
  /\ flow_log \subseteq Flows \cup {NoFlow}
  /\ server \in [Slots -> Flows \cup {NoFlow}]
  /\ last_seen \in [Slots -> Int]
  /\ packets_seen \in [Slots -> Nat]
  /\ busy_flows \subseteq (Flows \cup {NoFlow}) \X Nat
  /\ log_complete \in BOOLEAN

(***************************************************************************)
(* num_elements, which flow_table_process_flow and                         *)
(* flow_table_advance_base_timestamp step up and down, is the number of    *)
(* live entries; so the uint32_t never wraps below zero and `== 0' means   *)
(* that no stored offset depends on the base any more.                     *)
(***************************************************************************)
NumElementsExact == num_elements = Cardinality(LiveSlots)

(***************************************************************************)
(* A live flow stays on the probe path of its own hash, with no            *)
(* never-used entry before it: neither expiry, tombstones nor reuse of a   *)
(* slot by another flow ever hides it from the probing loop.               *)
(***************************************************************************)
OnProbePath(s) ==
  \E p \in Probes :
    /\ table_idx(entries[s].flow, p) = s
    /\ \A q \in 0 .. p - 1 :
         /\ table_idx(entries[s].flow, q) # s
         /\ entries[table_idx(entries[s].flow, q)].occupied # ENTRY_EMPTY

LiveFlowsReachable == \A s \in LiveSlots : entries[s].flow \in Flows /\ OnProbePath(s)

(***************************************************************************)
(* One live slot, hence one flow id, per flow: the probing loop never      *)
(* inserts a second entry for a flow it already tracks.                    *)
(***************************************************************************)
OneSlotPerFlow ==
  \A s, r \in LiveSlots : entries[s].flow = entries[r].flow => s = r

(***************************************************************************)
(* The server resolves the id of every flow marked ENTRY_OCCUPIED to that  *)
(* flow: reuse of a deleted slot always goes through a new record.         *)
(***************************************************************************)
ServerKnowsSentFlows ==
  \A s \in Slots :
    entries[s].occupied = ENTRY_OCCUPIED => server[s] = entries[s].flow

(***************************************************************************)
(* base_timestamp_seconds + last_update_time_seconds is the time of the    *)
(* flow's last packet, whatever rebasing, dropping and expiry came         *)
(* between: no offset was ever stored out of the int16_t range.            *)
(***************************************************************************)
AgesExact ==
  \A s \in LiveSlots :
    base_timestamp_seconds + entries[s].last_update = last_seen[s]

(***************************************************************************)
(* A log that is complete lists the flows that were new in their period    *)
(* and whose packets, counted modulo the width of num_packets, were        *)
(* FLOW_THRESHOLD or more; and, whatever became of slots and flows since   *)
(* they were first seen, no others.                                        *)
(***************************************************************************)
Counted(busy) == busy[2] % NUM_PACKETS_MODULUS

ThresholdLogExact ==
  log_complete =>
    flow_log = {busy[1] : busy \in {b \in busy_flows : Counted(b) >= FLOW_THRESHOLD}}

(***************************************************************************)
(* If a flow exceeds FLOW_THRESHOLD packets during its first period then   *)
(* its addresses are written to FLOW_THRESHOLDING_LOG, unless writing the  *)
(* log fails.                                                              *)
(***************************************************************************)
ExceedingFlowsLogged ==
  log_complete => \A busy \in busy_flows : busy[2] > FLOW_THRESHOLD => busy[1] \in flow_log

(***************************************************************************)
(* flow_table.c keeps the promise of differential updates: through expiry, *)
(* rebasing, drops and reuse, an id changes its flow only together with a  *)
(* record that is still to be sent, and an update sends those and no more. *)
(***************************************************************************)
Stream == INSTANCE DifferentialUpdates
            WITH Ids <- Slots, Things <- Flows, Nothing <- NoFlow,
                 names <- [s \in Slots |-> IF Live(s) THEN entries[s].flow ELSE NoFlow],
                 unsent <- UnsentSlots

KeepsServerInformed == Stream!Spec
=============================================================================
