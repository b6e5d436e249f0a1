-------------------------- MODULE FlowTableProofs --------------------------
(***************************************************************************)
(* Proofs about FlowTable, for every table size, hash function, number of  *)
(* probes and choice of time bounds that FlowTableAssumption allows.       *)
(***************************************************************************)
EXTENDS FlowTable, FiniteSetTheorems, TLAPS

LEMMA SlotsFinite == IsFiniteSet(Slots)
<1>1. 0 \in Int /\ FLOW_TABLE_ENTRIES - 1 \in Int
  BY FlowTableAssumption
<1> QED
  BY <1>1, FS_Interval DEF Slots

(* A stored offset is an int16_t, and one that fits is stored unchanged. *)
LEMMA ModRange ==
  ASSUME NEW a \in Int, NEW n \in Nat \ {0}
  PROVE  /\ a % n \in 0 .. n - 1
         /\ a \in 0 .. n - 1 => a % n = a
  OBVIOUS

LEMMA OffsetIsInt16 ==
  ASSUME NEW x \in Int
  PROVE  /\ to_int16(x) \in Int16
         /\ x \in Int16 => to_int16(x) = x
<1> DEFINE m == x - FLOW_TABLE_MIN_UPDATE_OFFSET
           n == FLOW_TABLE_MAX_UPDATE_OFFSET - FLOW_TABLE_MIN_UPDATE_OFFSET + 1
<1>1. m \in Int /\ n \in Nat \ {0}
  BY FlowTableAssumption
<1>2. m % n \in 0 .. n - 1 /\ (m \in 0 .. n - 1 => m % n = m)
  BY <1>1, ModRange
<1> HIDE DEF m
<1>3. to_int16(x) = (m % n) + FLOW_TABLE_MIN_UPDATE_OFFSET
  BY DEF to_int16, m
<1>4. to_int16(x) \in Int16
  BY <1>1, <1>2, <1>3, FlowTableAssumption DEF Int16
<1>5. x \in Int16 => m \in 0 .. n - 1
  BY <1>1, FlowTableAssumption DEF Int16, m
<1> QED
  BY <1>2, <1>3, <1>4, <1>5, FlowTableAssumption DEF m

LEMMA TableIdxIsSlot ==
  ASSUME NEW f \in Flows, NEW p \in Probes
  PROVE  table_idx(f, p) \in Slots
<1> DEFINE h == uint32_of_double(hash[f] + ProbeStep(p))
<1>1. h \in Int
  BY FlowTableAssumption
<1> HIDE DEF h
<1>2. h % FLOW_TABLE_ENTRIES \in 0 .. FLOW_TABLE_ENTRIES - 1
  BY <1>1, ModRange, FlowTableAssumption
<1> QED
  BY <1>2 DEF table_idx, probe_table, Slots, h

-----------------------------------------------------------------------------
(***************************************************************************)
(* What the steps do to the entries, slot by slot.                         *)
(***************************************************************************)
LEMMA ExpiredSlotsAreSent ==
  ASSUME NEW f \in Flows, NEW ts \in Int
  PROVE  /\ ExpiredSlots(f, ts) \subseteq Slots
         /\ \A r \in ExpiredSlots(f, ts) :
              entries[r].occupied = ENTRY_OCCUPIED /\ ~StillLive(r, ts)
  BY TableIdxIsSlot DEF ExpiredSlots, ProbedSlots, Probed, Expires, StillLive

LEMMA EntryTypes ==
  /\ zeroed_entry \in flow_table_entry_t
  /\ deleted_entry \in flow_table_entry_t
  /\ deleted_entry.occupied = ENTRY_DELETED
  BY FlowTableAssumption DEF zeroed_entry, deleted_entry, flow_table_entry_t,
     Int16, ENTRY_EMPTY, ENTRY_DELETED

LEMMA SweptShape ==
  ASSUME TypeOK, NEW f \in Flows, NEW ts \in Int
  PROVE  /\ Swept(f, ts) \in [Slots -> flow_table_entry_t]
         /\ \A r \in ExpiredSlots(f, ts) : Swept(f, ts)[r] = deleted_entry
         /\ \A r \in Slots \ ExpiredSlots(f, ts) : Swept(f, ts)[r] = entries[r]
  BY EntryTypes, ExpiredSlotsAreSent DEF Swept, TypeOK

LEMMA RefreshEffect ==
  ASSUME TypeOK, NEW f \in Flows, NEW ts \in Int, NEW s \in Slots,
         refresh_flow(f, ts, s)
  PROVE  /\ s \in LiveSlots \ ExpiredSlots(f, ts)
         /\ entries[s].flow = f
         /\ entries' \in [Slots -> flow_table_entry_t]
         /\ \A r \in ExpiredSlots(f, ts) : entries'[r] = deleted_entry
         /\ \A r \in Slots \ ExpiredSlots(f, ts) :
              /\ entries'[r].flow = entries[r].flow
              /\ entries'[r].occupied = entries[r].occupied
              /\ r # s => entries'[r] = entries[r]
         /\ entries'[s].last_update = to_int16(ts - base_timestamp_seconds)
         /\ entries'[s].num_packets =
              IF Unsent(s) /\ entries[s].num_packets < NUM_PACKETS_LIMIT
              THEN (entries[s].num_packets + 1) % NUM_PACKETS_MODULUS
              ELSE entries[s].num_packets
<1> DEFINE E == ExpiredSlots(f, ts)
           lu == to_int16(ts - base_timestamp_seconds)
           np == IF Unsent(s) /\ entries[s].num_packets < NUM_PACKETS_LIMIT
                 THEN (entries[s].num_packets + 1) % NUM_PACKETS_MODULUS
                 ELSE entries[s].num_packets
<1>1. Live(s) /\ StillLive(s, ts) /\ entries[s].flow = f /\ s \notin E
  BY ExpiredSlotsAreSent DEF refresh_flow, Finds, Matches, StillLive
<1>2. Swept(f, ts)[s] = entries[s]
  BY <1>1, SweptShape
<1>3. entries' = [Swept(f, ts) EXCEPT ![s] =
                    [Swept(f, ts)[s] EXCEPT !.last_update = lu,
                                            !.num_packets = np]]
  BY <1>2 DEF refresh_flow
<1>4. entries[s] \in flow_table_entry_t
  BY DEF TypeOK
<1>5. lu \in Int16
  BY OffsetIsInt16 DEF TypeOK
<1>6. np \in 0 .. NUM_PACKETS_MODULUS - 1
  <2>1. entries[s].num_packets \in 0 .. NUM_PACKETS_MODULUS - 1
    BY <1>4 DEF flow_table_entry_t
  <2>2. entries[s].num_packets + 1 \in Int /\ NUM_PACKETS_MODULUS \in Nat \ {0}
    BY <2>1, FlowTableAssumption
  <2>3. (entries[s].num_packets + 1) % NUM_PACKETS_MODULUS
           \in 0 .. NUM_PACKETS_MODULUS - 1
    BY ONLY <2>2, ModRange
  <2> QED
    BY <2>1, <2>3
<1> HIDE DEF lu, np, E
<1>7. entries' = [Swept(f, ts) EXCEPT ![s] =
                    [entries[s] EXCEPT !.last_update = lu, !.num_packets = np]]
  BY <1>2, <1>3
<1>8. [entries[s] EXCEPT !.last_update = lu, !.num_packets = np]
         \in flow_table_entry_t
  BY <1>4, <1>5, <1>6 DEF flow_table_entry_t
<1>9. /\ entries' \in [Slots -> flow_table_entry_t]
      /\ entries'[s] = [entries[s] EXCEPT !.last_update = lu, !.num_packets = np]
      /\ \A r \in Slots \ {s} : entries'[r] = Swept(f, ts)[r]
  BY <1>7, <1>8, SweptShape
<1>10. /\ entries'[s].last_update = lu
       /\ entries'[s].num_packets = np
       /\ entries'[s].flow = entries[s].flow
       /\ entries'[s].occupied = entries[s].occupied
  BY <1>4, <1>9 DEF flow_table_entry_t
<1>11. \A r \in E : entries'[r] = deleted_entry
  BY <1>1, <1>9, SweptShape, ExpiredSlotsAreSent DEF E
<1>12. \A r \in Slots \ E : r # s => entries'[r] = entries[r]
  BY <1>9, SweptShape DEF E
<1> QED
  BY <1>1, <1>9, <1>10, <1>11, <1>12 DEF LiveSlots, lu, np, E

LEMMA InsertEffect ==
  ASSUME TypeOK, NEW f \in Flows, NEW ts \in Int, NEW s \in Slots,
         insert_flow(f, ts, s)
  PROVE  /\ s \notin LiveSlots \ ExpiredSlots(f, ts)
         /\ entries' \in [Slots -> flow_table_entry_t]
         /\ entries'[s] = new_entry(f, to_int16(ts - base_timestamp_seconds'))
         /\ \A r \in ExpiredSlots(f, ts) \ {s} : entries'[r] = deleted_entry
         /\ \A r \in Slots \ (ExpiredSlots(f, ts) \cup {s}) : entries'[r] = entries[r]
         /\ base_timestamp_seconds' \in Int
         /\ num_elements' = num_elements_without(ExpiredSlots(f, ts)) + 1
<1> DEFINE left == num_elements_without(ExpiredSlots(f, ts))
           base == IF left = 0 THEN ts ELSE base_timestamp_seconds
           e == new_entry(f, to_int16(ts - base))
<1>1. s \notin LiveSlots \ ExpiredSlots(f, ts)
  <2>1. ~StillLive(s, ts) /\ s \in ProbedSlots(f, ts)
    BY DEF insert_flow, FirstAvailable, ProbedSlots
  <2> QED
    BY <2>1 DEF StillLive, LiveSlots, ExpiredSlots
<1>2. /\ base_timestamp_seconds' = base
      /\ num_elements' = left + 1
      /\ entries' = [Swept(f, ts) EXCEPT ![s] = e]
  BY DEF insert_flow
<1>3. base \in Int
  BY DEF TypeOK
<1>4. e \in flow_table_entry_t
  <2>1. to_int16(ts - base) \in Int16
    BY <1>3, OffsetIsInt16
  <2> QED
    BY <2>1, FlowTableAssumption
    DEF new_entry, flow_table_entry_t, ENTRY_OCCUPIED_BUT_UNSENT
<1> HIDE DEF base, e
<1>5. /\ entries' \in [Slots -> flow_table_entry_t]
      /\ entries'[s] = e
      /\ \A r \in Slots \ {s} : entries'[r] = Swept(f, ts)[r]
  BY <1>2, <1>4, SweptShape
<1>6. e = new_entry(f, to_int16(ts - base_timestamp_seconds'))
  BY <1>2 DEF e
<1> QED
  BY <1>1, <1>2, <1>3, <1>5, <1>6, SweptShape, ExpiredSlotsAreSent

LEMMA AdvanceEffect ==
  ASSUME TypeOK, NEW now \in Int, flow_table_advance_base_timestamp(now)
  PROVE  /\ entries' \in [Slots -> flow_table_entry_t]
         /\ OldSlots(now) \subseteq LiveSlots
         /\ \A r \in OldSlots(now) : entries'[r] = deleted_entry
         /\ \A r \in LiveSlots \ OldSlots(now) :
              /\ entries'[r].flow = entries[r].flow
              /\ entries'[r].occupied = entries[r].occupied
              /\ entries'[r].num_packets = entries[r].num_packets
              /\ entries'[r].last_update =
                   to_int16(entries[r].last_update - (now - base_timestamp_seconds))
         /\ \A r \in Slots \ LiveSlots : entries'[r] = entries[r]
<1> DEFINE old == OldSlots(now)
           offset == now - base_timestamp_seconds
           moved(r) == [entries[r] EXCEPT
                          !.last_update = to_int16(entries[r].last_update - offset)]
<1>1. old \subseteq LiveSlots
  BY DEF OldSlots, TooOld, LiveSlots
<1>2. entries' = [r \in Slots |->
                    CASE r \in old -> deleted_entry
                      [] Live(r) /\ r \notin old -> moved(r)
                      [] OTHER -> entries[r]]
  BY DEF flow_table_advance_base_timestamp
<1>3. \A r \in Slots : entries[r] \in flow_table_entry_t
  BY DEF TypeOK
<1>4. ASSUME NEW r \in Slots
      PROVE  to_int16(entries[r].last_update - offset) \in Int16
  <2>1. entries[r].last_update \in Int /\ offset \in Int
    BY <1>3, FlowTableAssumption DEF flow_table_entry_t, Int16, TypeOK
  <2> QED
    BY <2>1, OffsetIsInt16
<1>5. ASSUME NEW r \in Slots
      PROVE  /\ moved(r) \in flow_table_entry_t
             /\ moved(r).flow = entries[r].flow
             /\ moved(r).occupied = entries[r].occupied
             /\ moved(r).num_packets = entries[r].num_packets
             /\ moved(r).last_update = to_int16(entries[r].last_update - offset)
  BY <1>3, <1>4 DEF flow_table_entry_t
<1> HIDE DEF moved
<1>6. \A r \in Slots :
        /\ r \in old => entries'[r] = deleted_entry
        /\ r \in LiveSlots \ old => entries'[r] = moved(r)
        /\ r \notin LiveSlots => entries'[r] = entries[r]
  <2> SUFFICES ASSUME NEW r \in Slots
               PROVE  /\ r \in old => entries'[r] = deleted_entry
                      /\ r \in LiveSlots \ old => entries'[r] = moved(r)
                      /\ r \notin LiveSlots => entries'[r] = entries[r]
    OBVIOUS
  <2> HIDE DEF old
  <2>1. CASE r \in old
    BY <2>1, <1>1, <1>2
  <2>2. CASE r \notin old /\ Live(r)
    BY <2>2, <1>2 DEF LiveSlots
  <2>3. CASE r \notin old /\ ~Live(r)
    BY <2>3, <1>2 DEF LiveSlots
  <2> QED
    BY <2>1, <2>2, <2>3
<1>7. entries' \in [Slots -> flow_table_entry_t]
  <2>1. \A r \in Slots : entries'[r] \in flow_table_entry_t
    BY <1>3, <1>5, <1>6, EntryTypes
  <2> HIDE DEF old
  <2> QED
    BY <1>2, <2>1
<1> QED
  BY <1>1, <1>5, <1>6, <1>7 DEF LiveSlots

LEMMA WriteEffect ==
  ASSUME TypeOK, flow_table_write_update
  PROVE  /\ entries' \in [Slots -> flow_table_entry_t]
         /\ \A r \in UnsentSlots :
              /\ entries'[r].flow = entries[r].flow
              /\ entries'[r].occupied = ENTRY_OCCUPIED
              /\ entries'[r].last_update = entries[r].last_update
         /\ \A r \in Slots \ UnsentSlots : entries'[r] = entries[r]
  BY DEF flow_table_write_update, TypeOK, flow_table_entry_t, UnsentSlots,
     ENTRY_OCCUPIED

-----------------------------------------------------------------------------
(***************************************************************************)
(* What the steps do to the sets of live and unsent slots.  No step makes  *)
(* a used entry look as if it had never been used.                         *)
(***************************************************************************)
UsedStaysUsed ==
  \A r \in Slots : entries[r].occupied # ENTRY_EMPTY
                     => entries'[r].occupied # ENTRY_EMPTY

LEMMA RefreshSlots ==
  ASSUME TypeOK, NEW f \in Flows, NEW ts \in Int, NEW s \in Slots,
         refresh_flow(f, ts, s)
  PROVE  /\ LiveSlots' = LiveSlots \ ExpiredSlots(f, ts)
         /\ UnsentSlots' = UnsentSlots
         /\ UsedStaysUsed
  BY RefreshEffect, ExpiredSlotsAreSent, EntryTypes
  DEF LiveSlots, Live, UnsentSlots, Unsent, UsedStaysUsed, ENTRY_EMPTY,
      ENTRY_OCCUPIED, ENTRY_OCCUPIED_BUT_UNSENT, ENTRY_DELETED

LEMMA InsertSlots ==
  ASSUME TypeOK, NEW f \in Flows, NEW ts \in Int, NEW s \in Slots,
         insert_flow(f, ts, s)
  PROVE  /\ LiveSlots' = (LiveSlots \ ExpiredSlots(f, ts)) \cup {s}
         /\ UnsentSlots' = UnsentSlots \cup {s}
         /\ UsedStaysUsed
<1> DEFINE lu == to_int16(ts - base_timestamp_seconds')
<1>1. entries'[s] = new_entry(f, lu)
  BY InsertEffect
<1> HIDE DEF lu
<1>2. /\ entries'[s].flow = f
      /\ entries'[s].occupied = ENTRY_OCCUPIED_BUT_UNSENT
  BY <1>1 DEF new_entry
<1> QED
  BY <1>2, InsertEffect, ExpiredSlotsAreSent, EntryTypes
  DEF LiveSlots, Live, UnsentSlots, Unsent, UsedStaysUsed, ENTRY_EMPTY,
      ENTRY_OCCUPIED, ENTRY_OCCUPIED_BUT_UNSENT, ENTRY_DELETED

LEMMA AdvanceSlots ==
  ASSUME TypeOK, NEW now \in Int, flow_table_advance_base_timestamp(now)
  PROVE  /\ LiveSlots' = LiveSlots \ OldSlots(now)
         /\ UnsentSlots' = UnsentSlots \ OldSlots(now)
         /\ UsedStaysUsed
<1>1. \A r \in Slots : \/ r \in OldSlots(now)
                       \/ r \in LiveSlots \ OldSlots(now)
                       \/ r \in Slots \ LiveSlots
  OBVIOUS
<1> QED
  BY <1>1, AdvanceEffect, EntryTypes
  DEF LiveSlots, Live, UnsentSlots, Unsent, UsedStaysUsed, ENTRY_EMPTY,
      ENTRY_OCCUPIED, ENTRY_OCCUPIED_BUT_UNSENT, ENTRY_DELETED

LEMMA WriteSlots ==
  ASSUME TypeOK, flow_table_write_update
  PROVE  /\ LiveSlots' = LiveSlots
         /\ UnsentSlots' = {}
         /\ UsedStaysUsed
  BY WriteEffect
  DEF LiveSlots, Live, UnsentSlots, Unsent, UsedStaysUsed, ENTRY_EMPTY,
      ENTRY_OCCUPIED, ENTRY_OCCUPIED_BUT_UNSENT

(* The steps of the table, with the choices that Next makes. *)
LEMMA NextSteps ==
  ASSUME [Next]_vars
  PROVE  \/ \E ts \in Timestamps : drop_out_of_bounds(ts)
         \/ \E f \in Flows, ts \in Timestamps : drop_no_space(f, ts)
         \/ \E f \in Flows, ts \in Timestamps, s \in Slots :
              WithinBounds(f) /\ refresh_flow(f, ts, s)
         \/ \E f \in Flows, ts \in Timestamps, s \in Slots : insert_flow(f, ts, s)
         \/ \E now \in Timestamps :
              ClockReads(now) /\ flow_table_advance_base_timestamp(now)
         \/ flow_table_write_update
         \/ flow_table_write_thresholded_ips
         \/ UNCHANGED vars
  BY DEF Next, flow_table_process_flow

(* Whatever becomes of the log, the table is only read. *)
LEMMA LogLeavesTable ==
  ASSUME flow_table_write_thresholded_ips
  PROVE  UNCHANGED <<table_vars, server, last_seen, packets_seen>>
BY DEF flow_table_write_thresholded_ips, write_thresholds, keep_last_log, vars

LEMMA CardinalityWithout ==
  ASSUME NEW S, IsFiniteSet(S), NEW T \in SUBSET S
  PROVE  Cardinality(S \ T) = Cardinality(S) - Cardinality(T)
<1>1. S \cap T = T
  OBVIOUS
<1> QED
  BY <1>1, FS_Difference

-----------------------------------------------------------------------------
(***************************************************************************)
(* Types and num_elements.  They belong together: that num_elements is a   *)
(* natural number, so that the uint32_t does not wrap below zero, holds    *)
(* because it counts the live slots.                                       *)
(***************************************************************************)
LEMMA LiveSlotsFinite == IsFiniteSet(LiveSlots) /\ Cardinality(LiveSlots) \in Nat
  BY SlotsFinite, FS_Subset, FS_CardinalityType DEF LiveSlots

LEMMA CountWithout ==
  ASSUME TypeOK, NumElementsExact, NEW S \in SUBSET LiveSlots
  PROVE  num_elements_without(S) = Cardinality(LiveSlots \ S)
  BY LiveSlotsFinite, CardinalityWithout DEF num_elements_without, NumElementsExact

LEMMA ForgetType ==
  ASSUME NEW h, NEW D, h \in [Slots -> D], 0 \in D, NEW S
  PROVE  Forget(h, S) \in [Slots -> D]
  BY DEF Forget

(* The two halves of TypeOK: the table, and the log with its history. *)
TableTyped ==
  /\ entries \in [Slots -> flow_table_entry_t]
  /\ base_timestamp_seconds \in Int
  /\ num_elements \in Nat
  /\ num_expired_flows \in Nat
  /\ num_dropped_flows \in Nat
  /\ server \in [Slots -> Flows \cup {NoFlow}]
  /\ last_seen \in [Slots -> Int]
  /\ packets_seen \in [Slots -> Nat]

LogTyped ==
  /\ flow_log \subseteq Flows \cup {NoFlow}
  /\ busy_flows \subseteq (Flows \cup {NoFlow}) \X Nat
  /\ log_complete \in BOOLEAN

LEMMA TypeParts ==
  /\ TypeOK <=> TableTyped /\ LogTyped
  /\ TypeOK' <=> TableTyped' /\ LogTyped'
BY Zenon DEF TypeOK, TableTyped, LogTyped

LEMMA LogTypedKept ==
  ASSUME TypeOK, UNCHANGED log_vars
  PROVE  LogTyped'
<1>1. LogTyped
  BY TypeParts
<1> QED
  BY <1>1, Zenon DEF log_vars, LogTyped

LEMMA CountsStep ==
  ASSUME TypeOK, NumElementsExact, [Next]_vars
  PROVE  TypeOK' /\ NumElementsExact'
<1>0. 0 \in Nat /\ 0 \in Int
  OBVIOUS
<1>1. ASSUME NEW ts \in Timestamps, drop_out_of_bounds(ts)
      PROVE  TypeOK' /\ NumElementsExact'
  <2>1. LogTyped'
    BY <1>1, LogTypedKept DEF drop_out_of_bounds
  <2>2. TableTyped' /\ NumElementsExact'
    BY <1>1 DEF drop_out_of_bounds, TypeOK, TableTyped, NumElementsExact, LiveSlots, Live
  <2> QED
    BY <2>1, <2>2, TypeParts
<1>2. ASSUME NEW f \in Flows, NEW ts \in Timestamps, drop_no_space(f, ts)
      PROVE  TypeOK' /\ NumElementsExact'
  <2>1. LogTyped'
    BY <1>2, LogTypedKept DEF drop_no_space
  <2>2. TableTyped' /\ NumElementsExact'
    BY <1>2 DEF drop_no_space, TypeOK, TableTyped, NumElementsExact, LiveSlots, Live
  <2> QED
    BY <2>1, <2>2, TypeParts
<1>3. ASSUME NEW f \in Flows, NEW ts \in Timestamps, NEW s \in Slots,
             refresh_flow(f, ts, s)
      PROVE  TypeOK' /\ NumElementsExact'
  <2> DEFINE E == ExpiredSlots(f, ts)
  <2>1. ts \in Int
    BY FlowTableAssumption
  <2>2. E \in SUBSET LiveSlots
    BY <2>1, ExpiredSlotsAreSent DEF LiveSlots, Live
  <2>3. NumElementsExact' /\ num_elements' \in Nat
    <3>1. num_elements' = Cardinality(LiveSlots \ E)
      BY <1>3, <2>2, CountWithout DEF refresh_flow
    <3>2. LiveSlots' = LiveSlots \ E
      BY <1>3, <2>1, RefreshSlots
    <3>3. Cardinality(LiveSlots \ E) \in Nat
      BY LiveSlotsFinite, FS_Subset, FS_CardinalityType
    <3> QED
      BY <3>1, <3>2, <3>3 DEF NumElementsExact
  <2>4. num_expired_flows' \in Nat
    <3>1. Cardinality(E) \in Nat
      BY <2>2, LiveSlotsFinite, FS_Subset, FS_CardinalityType
    <3> QED
      BY <1>3, <3>1 DEF refresh_flow, CountExpired, TypeOK
  <2>5. last_seen' \in [Slots -> Int] /\ packets_seen' \in [Slots -> Nat]
    <3>1. Forget(last_seen, E) \in [Slots -> Int]
      BY <1>0, ForgetType DEF TypeOK
    <3> HIDE DEF E
    <3>2. last_seen' = [Forget(last_seen, E) EXCEPT ![s] = ts]
      BY <1>3 DEF refresh_flow, E
    <3>3. last_seen' \in [Slots -> Int]
      BY <2>1, <3>1, <3>2
    <3>4. packets_seen \in [Slots -> Nat] /\ packets_seen[s] + 1 \in Nat
      BY DEF TypeOK
    <3>5. packets_seen' \in [Slots -> Nat]
      BY <1>3, <3>4 DEF refresh_flow
    <3> QED
      BY <3>3, <3>5
  <2>6. entries' \in [Slots -> flow_table_entry_t]
    BY <1>3, <2>1, RefreshEffect
  <2>7. LogTyped'
    BY <1>3, LogTypedKept DEF refresh_flow
  <2>8. TableTyped'
    BY <1>3, <2>3, <2>4, <2>5, <2>6 DEF refresh_flow, TypeOK, TableTyped
  <2> QED
    BY <2>7, <2>8, <2>3, TypeParts
<1>4. ASSUME NEW f \in Flows, NEW ts \in Timestamps, NEW s \in Slots,
             insert_flow(f, ts, s)
      PROVE  TypeOK' /\ NumElementsExact'
  <2> DEFINE E == ExpiredSlots(f, ts)
  <2>1. ts \in Int
    BY FlowTableAssumption
  <2>2. E \in SUBSET LiveSlots
    BY <2>1, ExpiredSlotsAreSent DEF LiveSlots, Live
  <2>3. NumElementsExact' /\ num_elements' \in Nat
    <3>1. num_elements' = Cardinality(LiveSlots \ E) + 1
      BY <1>4, <2>1, <2>2, CountWithout, InsertEffect
    <3>2. LiveSlots' = (LiveSlots \ E) \cup {s}
      BY <1>4, <2>1, InsertSlots
    <3>3. IsFiniteSet(LiveSlots \ E) /\ Cardinality(LiveSlots \ E) \in Nat
      BY LiveSlotsFinite, FS_Subset, FS_CardinalityType
    <3>4. s \notin LiveSlots \ E
      BY <1>4, <2>1, InsertEffect
    <3>5. Cardinality((LiveSlots \ E) \cup {s}) = Cardinality(LiveSlots \ E) + 1
      BY <3>3, <3>4, FS_AddElement
    <3> QED
      BY <3>1, <3>2, <3>3, <3>5 DEF NumElementsExact
  <2>4. num_expired_flows' \in Nat
    <3>1. Cardinality(E) \in Nat
      BY <2>2, LiveSlotsFinite, FS_Subset, FS_CardinalityType
    <3> QED
      BY <1>4, <3>1 DEF insert_flow, CountExpired, TypeOK
  <2>5. last_seen' \in [Slots -> Int] /\ packets_seen' \in [Slots -> Nat]
    <3>1. Forget(last_seen, E) \in [Slots -> Int]
      BY <1>0, ForgetType DEF TypeOK
    <3> HIDE DEF E
    <3>2. last_seen' = [Forget(last_seen, E) EXCEPT ![s] = ts]
      BY <1>4 DEF insert_flow, E
    <3> QED
      BY <1>4, <2>1, <3>1, <3>2 DEF insert_flow, TypeOK
  <2>6. entries' \in [Slots -> flow_table_entry_t] /\ base_timestamp_seconds' \in Int
    BY <1>4, <2>1, InsertEffect
  <2>7. LogTyped'
    BY <1>4, LogTypedKept DEF insert_flow
  <2>8. TableTyped'
    BY <1>4, <2>3, <2>4, <2>5, <2>6 DEF insert_flow, TypeOK, TableTyped
  <2> QED
    BY <2>7, <2>8, <2>3, TypeParts
<1>5. ASSUME NEW now \in Timestamps, flow_table_advance_base_timestamp(now)
      PROVE  TypeOK' /\ NumElementsExact'
  <2>1. now \in Int
    BY FlowTableAssumption
  <2>2. NumElementsExact' /\ num_elements' \in Nat
    <3>1. num_elements' = Cardinality(LiveSlots \ OldSlots(now))
      BY <1>5, <2>1, AdvanceEffect, CountWithout
      DEF flow_table_advance_base_timestamp
    <3>2. LiveSlots' = LiveSlots \ OldSlots(now)
      BY <1>5, <2>1, AdvanceSlots
    <3>3. Cardinality(LiveSlots \ OldSlots(now)) \in Nat
      BY LiveSlotsFinite, FS_Subset, FS_CardinalityType
    <3> QED
      BY <3>1, <3>2, <3>3 DEF NumElementsExact
  <2>3. last_seen' \in [Slots -> Int] /\ packets_seen' \in [Slots -> Nat]
    BY <1>0, <1>5, ForgetType DEF flow_table_advance_base_timestamp, TypeOK
  <2>4. entries' \in [Slots -> flow_table_entry_t]
    BY <1>5, <2>1, AdvanceEffect
  <2>5. LogTyped'
    BY <1>5, LogTypedKept DEF flow_table_advance_base_timestamp
  <2>6. TableTyped'
    BY <1>5, <2>1, <2>2, <2>3, <2>4 DEF flow_table_advance_base_timestamp, TypeOK, TableTyped
  <2> QED
    BY <2>5, <2>6, <2>2, TypeParts
<1>6. ASSUME flow_table_write_update
      PROVE  TypeOK' /\ NumElementsExact'
  <2>1. NumElementsExact'
    BY <1>6, WriteSlots DEF flow_table_write_update, NumElementsExact
  <2>2. packets_seen' \in [Slots -> Nat]
    BY <1>0, <1>6, ForgetType DEF flow_table_write_update, TypeOK
  <2>3. server' \in [Slots -> Flows \cup {NoFlow}]
    BY <1>6 DEF flow_table_write_update, TypeOK, flow_table_entry_t
  <2>4. entries' \in [Slots -> flow_table_entry_t]
    BY <1>6, WriteEffect
  <2>5. LogTyped'
    BY <1>6, LogTypedKept DEF flow_table_write_update
  <2>6. TableTyped'
    BY <1>6, <2>1, <2>2, <2>3, <2>4 DEF flow_table_write_update, TypeOK, TableTyped
  <2> QED
    BY <2>5, <2>6, <2>1, TypeParts
<1>7. ASSUME flow_table_write_thresholded_ips
      PROVE  TypeOK' /\ NumElementsExact'
  <2>1. TableTyped' /\ NumElementsExact'
    BY <1>7, LogLeavesTable
    DEF table_vars, TypeOK, TableTyped, NumElementsExact, LiveSlots, Live
  <2>2. ASSUME NEW end \in 0 .. FLOW_TABLE_ENTRIES, write_thresholds(end)
        PROVE  LogTyped'
    <3>1. \A s \in UnsentSlots : entries[s].flow \in Flows \cup {NoFlow} /\ packets_seen[s] \in Nat
      BY DEF UnsentSlots, TypeOK, flow_table_entry_t
    <3>2. log_complete' \in BOOLEAN
      BY <2>2 DEF write_thresholds
    <3>3. flow_log' \subseteq Flows \cup {NoFlow}
      BY <2>2, <3>1 DEF write_thresholds, ListedBefore, Thresholded
    <3>4. busy_flows' \subseteq (Flows \cup {NoFlow}) \X Nat
      BY <2>2, <3>1 DEF write_thresholds
    <3> QED
      BY <3>2, <3>3, <3>4 DEF LogTyped
  <2>3. ASSUME keep_last_log
        PROVE  LogTyped'
    BY <2>3, LogTypedKept DEF keep_last_log, vars
  <2> QED
    BY <1>7, <2>1, <2>2, <2>3, TypeParts DEF flow_table_write_thresholded_ips
<1>8. ASSUME UNCHANGED vars
      PROVE  TypeOK' /\ NumElementsExact'
  <2>1. LogTyped'
    BY <1>8, LogTypedKept DEF vars
  <2>2. TableTyped' /\ NumElementsExact'
    BY <1>8 DEF vars, table_vars, TypeOK, TableTyped, NumElementsExact, LiveSlots, Live
  <2> QED
    BY <2>1, <2>2, TypeParts
<1> QED
  BY <1>1, <1>2, <1>3, <1>4, <1>5, <1>6, <1>7, <1>8, NextSteps

LEMMA InitCounts == Init => TypeOK /\ NumElementsExact
<1> SUFFICES ASSUME Init
             PROVE  TypeOK /\ NumElementsExact
  OBVIOUS
<1>1. entries \in [Slots -> flow_table_entry_t]
  BY EntryTypes DEF Init, flow_table_init
<1>2. LiveSlots = {}
  BY DEF Init, flow_table_init, LiveSlots, Live, zeroed_entry, ENTRY_EMPTY,
     ENTRY_OCCUPIED, ENTRY_OCCUPIED_BUT_UNSENT
<1>3. LogTyped
  BY DEF Init, LogTyped
<1>4. TableTyped /\ NumElementsExact
  BY <1>1, <1>2, FS_EmptySet DEF Init, flow_table_init, TableTyped, NumElementsExact
<1> QED
  BY <1>3, <1>4, TypeParts

(***************************************************************************)
(* The table is well typed, and num_elements counts its live entries.      *)
(***************************************************************************)
THEOREM FlowTableCounts == Spec => [](TypeOK /\ NumElementsExact)
<1>1. TypeOK /\ NumElementsExact /\ [Next]_vars => TypeOK' /\ NumElementsExact'
  BY CountsStep
<1> QED
  BY <1>1, InitCounts, PTL DEF Spec

-----------------------------------------------------------------------------
(***************************************************************************)
(* Reachability and uniqueness of live flows.  A flow enters the table at  *)
(* the first reusable slot of its probe path, all earlier slots of which   *)
(* are in use then, and no used entry ever looks unused again; so the loop *)
(* that looks for the flow later does not stop before that slot.           *)
(***************************************************************************)
LEMMA PathKept ==
  ASSUME UsedStaysUsed, NEW r \in Slots, entries'[r].flow = entries[r].flow,
         entries[r].flow \in Flows, OnProbePath(r)
  PROVE  OnProbePath(r)'
<1>1. PICK p \in Probes :
        /\ table_idx(entries[r].flow, p) = r
        /\ \A q \in 0 .. p - 1 :
             /\ table_idx(entries[r].flow, q) # r
             /\ entries[table_idx(entries[r].flow, q)].occupied # ENTRY_EMPTY
  BY DEF OnProbePath
<1>2. ASSUME NEW q \in 0 .. p - 1
      PROVE  entries'[table_idx(entries[r].flow, q)].occupied # ENTRY_EMPTY
  <2>1. q \in Probes
    BY FlowTableAssumption DEF Probes
  <2> QED
    BY <1>1, <2>1, TableIdxIsSlot DEF UsedStaysUsed
<1> QED
  BY <1>1, <1>2 DEF OnProbePath

(* A live flow that the loop does not find is not in the table. *)
LEMMA NotFoundIsAbsent ==
  ASSUME LiveFlowsReachable, OneSlotPerFlow, NEW f \in Flows, NEW ts \in Int,
         FindsNothing(f, ts), NEW r \in LiveSlots \ ExpiredSlots(f, ts)
  PROVE  entries[r].flow # f
<1> SUFFICES ASSUME entries[r].flow = f
             PROVE  FALSE
  OBVIOUS
<1>1. PICK p \in Probes :
        /\ table_idx(f, p) = r
        /\ \A q \in 0 .. p - 1 :
             /\ table_idx(f, q) # r
             /\ entries[table_idx(f, q)].occupied # ENTRY_EMPTY
  BY DEF LiveFlowsReachable, OnProbePath
<1>2. \A q \in 0 .. p - 1 : ~StopsAt(f, q, ts)
  <2> SUFFICES ASSUME NEW q \in 0 .. p - 1, Matches(f, table_idx(f, q), ts)
               PROVE  FALSE
    BY <1>1 DEF StopsAt
  <2>1. table_idx(f, q) \in Slots
    BY TableIdxIsSlot, FlowTableAssumption DEF Probes
  <2>2. table_idx(f, q) \in LiveSlots /\ entries[table_idx(f, q)].flow = f
    BY <2>1 DEF Matches, StillLive, LiveSlots
  <2> QED
    BY <1>1, <2>2 DEF OneSlotPerFlow
<1>3. r \in ProbedSlots(f, ts)
  BY <1>1, <1>2 DEF ProbedSlots, Probed
<1>4. Matches(f, r, ts)
  BY <1>3 DEF Matches, StillLive, LiveSlots, ExpiredSlots
<1> QED
  BY <1>3, <1>4 DEF FindsNothing

(* The slot that insert_flow takes is on the probe path of the new flow. *)
LEMMA InsertedOnPath ==
  ASSUME TypeOK, NEW f \in Flows, NEW ts \in Int, NEW s \in Slots,
         insert_flow(f, ts, s)
  PROVE  entries'[s].flow = f /\ OnProbePath(s)'
<1> DEFINE lu == to_int16(ts - base_timestamp_seconds')
<1>1. entries'[s] = new_entry(f, lu)
  BY InsertEffect
<1> HIDE DEF lu
<1>2. entries'[s].flow = f
  BY <1>1 DEF new_entry
<1>3. PICK p \in Probed(f, ts) :
        /\ s = table_idx(f, p)
        /\ \A q \in 0 .. p - 1 : StillLive(table_idx(f, q), ts)
  BY DEF insert_flow, FirstAvailable
<1>4. p \in Probes
  BY DEF Probed
<1>5. ASSUME NEW q \in 0 .. p - 1
      PROVE  /\ table_idx(f, q) # s
             /\ entries'[table_idx(f, q)].occupied # ENTRY_EMPTY
  <2>1. table_idx(f, q) \in Slots
    BY <1>4, TableIdxIsSlot, FlowTableAssumption DEF Probes
  <2>2. entries[table_idx(f, q)].occupied # ENTRY_EMPTY
    BY <1>3 DEF StillLive, Live, ENTRY_EMPTY, ENTRY_OCCUPIED,
       ENTRY_OCCUPIED_BUT_UNSENT
  <2>3. table_idx(f, q) # s
    BY <1>3 DEF insert_flow, FirstAvailable
  <2> QED
    BY <2>1, <2>2, <2>3, InsertSlots DEF UsedStaysUsed
<1> QED
  BY <1>2, <1>3, <1>4, <1>5 DEF OnProbePath

StructureInv ==
  /\ TypeOK
  /\ NumElementsExact
  /\ LiveFlowsReachable
  /\ OneSlotPerFlow
  /\ ServerKnowsSentFlows

(* Steps that only remove flows, or none, keep the structure. *)
LEMMA RemovalKeepsStructure ==
  ASSUME StructureInv, UsedStaysUsed, LiveSlots' \subseteq LiveSlots,
         \A r \in LiveSlots' : entries'[r].flow = entries[r].flow
  PROVE  LiveFlowsReachable' /\ OneSlotPerFlow'
<1>1. ASSUME NEW r \in LiveSlots'
      PROVE  entries'[r].flow \in Flows /\ OnProbePath(r)'
  <2>1. r \in Slots
    BY DEF LiveSlots
  <2>2. entries[r].flow \in Flows /\ OnProbePath(r)
    BY DEF StructureInv, LiveFlowsReachable
  <2> QED
    BY <2>1, <2>2, PathKept
<1>2. LiveFlowsReachable'
  BY <1>1 DEF LiveFlowsReachable
<1>3. OneSlotPerFlow'
  BY DEF StructureInv, OneSlotPerFlow
<1> QED
  BY <1>2, <1>3

LEMMA InsertKeepsStructure ==
  ASSUME StructureInv, NEW f \in Flows, NEW ts \in Int, NEW s \in Slots,
         insert_flow(f, ts, s)
  PROVE  LiveFlowsReachable' /\ OneSlotPerFlow' /\ ServerKnowsSentFlows'
<1> DEFINE E == ExpiredSlots(f, ts)
<1> USE DEF StructureInv
<1>1. LiveSlots' = (LiveSlots \ E) \cup {s} /\ UsedStaysUsed
  BY InsertSlots
<1>2. entries'[s].flow = f /\ OnProbePath(s)'
  BY InsertedOnPath
<1>3. ASSUME NEW r \in (LiveSlots \ E) \ {s}
      PROVE  /\ entries'[r] = entries[r]
             /\ entries[r].flow # f
             /\ entries[r].flow \in Flows
             /\ OnProbePath(r)'
  <2>1. r \in Slots
    BY DEF LiveSlots
  <2>2. entries'[r] = entries[r]
    BY <2>1, InsertEffect
  <2>3. entries[r].flow \in Flows /\ OnProbePath(r)
    BY DEF LiveFlowsReachable
  <2>4. entries[r].flow # f
    BY NotFoundIsAbsent DEF insert_flow
  <2> QED
    BY <1>1, <2>1, <2>2, <2>3, <2>4, PathKept
<1>4. LiveFlowsReachable'
  BY <1>1, <1>2, <1>3 DEF LiveFlowsReachable
<1>5. OneSlotPerFlow'
  BY <1>1, <1>2, <1>3 DEF OneSlotPerFlow
<1>6. ServerKnowsSentFlows'
  <2> SUFFICES ASSUME NEW r \in Slots, entries'[r].occupied = ENTRY_OCCUPIED
               PROVE  server[r] = entries'[r].flow
    BY DEF insert_flow, ServerKnowsSentFlows
  <2>1. r # s
    <3> DEFINE lu == to_int16(ts - base_timestamp_seconds')
    <3>1. entries'[s] = new_entry(f, lu)
      BY InsertEffect
    <3> HIDE DEF lu
    <3> QED
      BY <3>1 DEF new_entry, ENTRY_OCCUPIED, ENTRY_OCCUPIED_BUT_UNSENT
  <2>2. r \notin E
    BY <2>1, InsertEffect, EntryTypes DEF ENTRY_OCCUPIED, ENTRY_DELETED
  <2>3. entries'[r] = entries[r]
    BY <2>1, <2>2, InsertEffect
  <2> QED
    BY <2>3 DEF ServerKnowsSentFlows
<1> QED
  BY <1>4, <1>5, <1>6

LEMMA StructureStep ==
  ASSUME StructureInv, [Next]_vars
  PROVE  StructureInv'
<1> DEFINE Inv == LiveFlowsReachable /\ OneSlotPerFlow /\ ServerKnowsSentFlows
<1> USE DEF StructureInv
<1>1. TypeOK' /\ NumElementsExact'
  BY CountsStep
<1>2. ASSUME UNCHANGED <<entries, server>>
      PROVE  Inv'
  <2>1. LiveSlots' = LiveSlots /\ UsedStaysUsed
    BY <1>2 DEF LiveSlots, Live, UsedStaysUsed
  <2>2. LiveFlowsReachable' /\ OneSlotPerFlow'
    BY <1>2, <2>1, RemovalKeepsStructure
  <2>3. ServerKnowsSentFlows'
    BY <1>2 DEF ServerKnowsSentFlows
  <2> QED
    BY <2>2, <2>3
<1>3. ASSUME NEW f \in Flows, NEW ts \in Timestamps, NEW s \in Slots,
             refresh_flow(f, ts, s)
      PROVE  Inv'
  <2>1. ts \in Int
    BY FlowTableAssumption
  <2>2. LiveSlots' = LiveSlots \ ExpiredSlots(f, ts) /\ UsedStaysUsed
    BY <1>3, <2>1, RefreshSlots
  <2>3. \A r \in Slots \ ExpiredSlots(f, ts) :
          /\ entries'[r].flow = entries[r].flow
          /\ entries'[r].occupied = entries[r].occupied
    BY <1>3, <2>1, RefreshEffect
  <2>4. LiveFlowsReachable' /\ OneSlotPerFlow'
    BY <2>2, <2>3, RemovalKeepsStructure DEF LiveSlots
  <2>5. \A r \in ExpiredSlots(f, ts) : entries'[r].occupied # ENTRY_OCCUPIED
    BY <1>3, <2>1, RefreshEffect, EntryTypes DEF ENTRY_OCCUPIED, ENTRY_DELETED
  <2>6. ServerKnowsSentFlows'
    BY <1>3, <2>3, <2>5 DEF refresh_flow, ServerKnowsSentFlows
  <2> QED
    BY <2>4, <2>6
<1>4. ASSUME NEW f \in Flows, NEW ts \in Timestamps, NEW s \in Slots,
             insert_flow(f, ts, s)
      PROVE  Inv'
  BY <1>4, InsertKeepsStructure, FlowTableAssumption
<1>5. ASSUME NEW now \in Timestamps, flow_table_advance_base_timestamp(now)
      PROVE  Inv'
  <2>1. now \in Int
    BY FlowTableAssumption
  <2>2. LiveSlots' = LiveSlots \ OldSlots(now) /\ UsedStaysUsed
    BY <1>5, <2>1, AdvanceSlots
  <2>3. \A r \in LiveSlots \ OldSlots(now) :
          /\ entries'[r].flow = entries[r].flow
          /\ entries'[r].occupied = entries[r].occupied
    BY <1>5, <2>1, AdvanceEffect
  <2>4. LiveFlowsReachable' /\ OneSlotPerFlow'
    BY <2>2, <2>3, RemovalKeepsStructure
  <2>5. \A r \in Slots : entries'[r].occupied = ENTRY_OCCUPIED
                           => r \in LiveSlots \ OldSlots(now)
    BY <2>2 DEF LiveSlots, Live
  <2>6. ServerKnowsSentFlows'
    BY <1>5, <2>3, <2>5 DEF flow_table_advance_base_timestamp, ServerKnowsSentFlows
  <2> QED
    BY <2>4, <2>6
<1>6. ASSUME flow_table_write_update
      PROVE  Inv'
  <2>1. LiveSlots' = LiveSlots /\ UsedStaysUsed
    BY <1>6, WriteSlots
  <2>2. \A r \in Slots : entries'[r].flow = entries[r].flow
    BY <1>6, WriteEffect DEF UnsentSlots
  <2>3. LiveFlowsReachable' /\ OneSlotPerFlow'
    BY <2>1, <2>2, RemovalKeepsStructure DEF LiveSlots
  <2>4. ServerKnowsSentFlows'
    BY <1>6, <2>2, WriteEffect
    DEF flow_table_write_update, ServerKnowsSentFlows, UnsentSlots
  <2> QED
    BY <2>3, <2>4
<1>7. ASSUME \/ \E ts \in Timestamps : drop_out_of_bounds(ts)
             \/ \E f \in Flows, ts \in Timestamps : drop_no_space(f, ts)
             \/ flow_table_write_thresholded_ips
             \/ UNCHANGED vars
      PROVE  UNCHANGED <<entries, server>>
  BY <1>7, LogLeavesTable DEF drop_out_of_bounds, drop_no_space, vars, table_vars
<1> QED
  BY <1>1, <1>2, <1>3, <1>4, <1>5, <1>6, <1>7, NextSteps

LEMMA InitStructure == Init => StructureInv
<1>1. Init => LiveFlowsReachable /\ OneSlotPerFlow /\ ServerKnowsSentFlows
  BY DEF Init, flow_table_init, LiveFlowsReachable, OneSlotPerFlow,
     ServerKnowsSentFlows, LiveSlots, Live, zeroed_entry, ENTRY_EMPTY,
     ENTRY_OCCUPIED, ENTRY_OCCUPIED_BUT_UNSENT
<1> QED
  BY <1>1, InitCounts DEF StructureInv

(***************************************************************************)
(* No live flow is ever hidden from the probing loop, no flow has two ids, *)
(* and the server resolves every sent id to the flow that has it.          *)
(***************************************************************************)
THEOREM FlowTableStructure ==
  Spec => [](LiveFlowsReachable /\ OneSlotPerFlow /\ ServerKnowsSentFlows)
<1>1. StructureInv /\ [Next]_vars => StructureInv'
  BY StructureStep
<1>2. StructureInv => LiveFlowsReachable /\ OneSlotPerFlow /\ ServerKnowsSentFlows
  BY DEF StructureInv
<1> QED
  BY <1>1, <1>2, InitStructure, PTL DEF Spec

-----------------------------------------------------------------------------
(***************************************************************************)
(* Ages.  As long as the wall clock never lags a flow's last packet by     *)
(* more than INT16_MAX seconds, every offset that is stored fits: the      *)
(* bounds check covers new packets, the deletion of old flows the lower    *)
(* bound after rebasing, and the clock assumption the upper one.           *)
(***************************************************************************)
LEMMA FreshOffsetFits ==
  ASSUME TypeOK, NumElementsExact, NEW ts \in Int, ~OutOfBounds(ts),
         LiveSlots # {}
  PROVE  /\ ts - base_timestamp_seconds \in Int16
         /\ to_int16(ts - base_timestamp_seconds) = ts - base_timestamp_seconds
<1>1. num_elements > 0
  BY LiveSlotsFinite, FS_EmptySet DEF NumElementsExact
<1>2. ts - base_timestamp_seconds \in Int16
  BY <1>1 DEF OutOfBounds
<1> QED
  BY <1>2, OffsetIsInt16 DEF TypeOK

LEMMA AgesRefresh ==
  ASSUME TypeOK, NumElementsExact, AgesExact, NEW f \in Flows, NEW ts \in Int,
         NEW s \in Slots, refresh_flow(f, ts, s)
  PROVE  AgesExact'
<1> DEFINE E == ExpiredSlots(f, ts)
<1>1. LiveSlots' = LiveSlots \ E
  BY RefreshSlots
<1>2. /\ s \in LiveSlots \ E
      /\ entries'[s].last_update = to_int16(ts - base_timestamp_seconds)
      /\ \A r \in Slots \ E : r # s => entries'[r] = entries[r]
  BY RefreshEffect
<1>3. to_int16(ts - base_timestamp_seconds) = ts - base_timestamp_seconds
  BY <1>2, FreshOffsetFits DEF refresh_flow
<1>4. /\ last_seen' = [Forget(last_seen, E) EXCEPT ![s] = ts]
      /\ base_timestamp_seconds' = base_timestamp_seconds
  BY DEF refresh_flow
<1>5. /\ last_seen'[s] = ts
      /\ \A r \in Slots \ E : r # s => last_seen'[r] = last_seen[r]
  BY <1>4 DEF Forget
<1>6. base_timestamp_seconds + (ts - base_timestamp_seconds) = ts
  BY DEF TypeOK
<1> QED
  BY <1>1, <1>2, <1>3, <1>4, <1>5, <1>6 DEF AgesExact, LiveSlots

LEMMA AgesInsert ==
  ASSUME TypeOK, NumElementsExact, AgesExact, NEW f \in Flows, NEW ts \in Int,
         NEW s \in Slots, insert_flow(f, ts, s)
  PROVE  AgesExact'
<1> DEFINE E == ExpiredSlots(f, ts)
           base == base_timestamp_seconds'
<1>1. /\ LiveSlots' = (LiveSlots \ E) \cup {s}
      /\ s \notin LiveSlots \ E
  BY InsertSlots, InsertEffect
<1>2. E \in SUBSET LiveSlots
  BY ExpiredSlotsAreSent DEF LiveSlots, Live
<1>3. num_elements_without(E) = Cardinality(LiveSlots \ E)
  BY <1>2, CountWithout
<1>4. base = IF num_elements_without(E) = 0 THEN ts ELSE base_timestamp_seconds
  BY DEF insert_flow
<1>5. LiveSlots \ E # {} => base = base_timestamp_seconds
  BY <1>3, <1>4, LiveSlotsFinite, FS_Subset, FS_EmptySet
<1>6. to_int16(ts - base) = ts - base
  <2>1. CASE LiveSlots \ E = {}
    <3>1. base = ts
      BY <2>1, <1>3, <1>4, FS_EmptySet
    <3>2. ts - base = 0 /\ 0 \in Int16
      BY <3>1, FlowTableAssumption DEF Int16
    <3> QED
      BY <3>2, OffsetIsInt16
  <2>2. CASE LiveSlots \ E # {}
    <3>1. LiveSlots # {}
      BY <2>2
    <3> QED
      BY <2>2, <3>1, <1>5, FreshOffsetFits DEF insert_flow
  <2> QED
    BY <2>1, <2>2
<1>7. /\ entries'[s].last_update = ts - base
      /\ \A r \in Slots \ (E \cup {s}) : entries'[r] = entries[r]
  <2> DEFINE lu == to_int16(ts - base)
  <2>1. entries'[s] = new_entry(f, lu)
    BY InsertEffect
  <2> HIDE DEF lu
  <2>2. entries'[s].last_update = lu
    BY <2>1 DEF new_entry
  <2> QED
    BY <2>2, <1>6, InsertEffect DEF lu
<1>8. /\ last_seen'[s] = ts
      /\ \A r \in Slots \ E : r # s => last_seen'[r] = last_seen[r]
  <2>1. last_seen' = [Forget(last_seen, E) EXCEPT ![s] = ts]
    BY DEF insert_flow
  <2> QED
    BY <2>1 DEF Forget
<1>9. base \in Int /\ base + (ts - base) = ts
  BY InsertEffect
<1> QED
  BY <1>1, <1>5, <1>7, <1>8, <1>9 DEF AgesExact, LiveSlots

LEMMA AgesAdvance ==
  ASSUME TypeOK, AgesExact, NEW now \in Int, ClockReads(now),
         flow_table_advance_base_timestamp(now),
         ClockStepBack <= FLOW_TABLE_MAX_UPDATE_OFFSET
  PROVE  AgesExact'
<1>1. LiveSlots' = LiveSlots \ OldSlots(now)
  BY AdvanceSlots
<1>2. base_timestamp_seconds' = now
  BY DEF flow_table_advance_base_timestamp
<1> SUFFICES ASSUME NEW r \in LiveSlots \ OldSlots(now)
             PROVE  now + entries'[r].last_update = last_seen'[r]
  BY <1>1, <1>2 DEF AgesExact
<1> DEFINE lu == entries[r].last_update - (now - base_timestamp_seconds)
<1>3. r \in Slots /\ Live(r)
  BY DEF LiveSlots
<1>4. last_seen'[r] = last_seen[r]
  BY <1>3 DEF flow_table_advance_base_timestamp, Forget
<1>5. /\ entries[r].last_update \in Int
      /\ base_timestamp_seconds \in Int
      /\ last_seen[r] \in Int
  BY <1>3, FlowTableAssumption DEF TypeOK, flow_table_entry_t, Int16
<1>6. lu = last_seen[r] - now
  BY <1>5 DEF AgesExact
<1>7. lu >= FLOW_TABLE_MIN_UPDATE_OFFSET
  BY <1>3, <1>5, FlowTableAssumption DEF OldSlots, TooOld
<1>8. lu <= FLOW_TABLE_MAX_UPDATE_OFFSET
  BY <1>5, <1>6, FlowTableAssumption DEF ClockReads
<1>9. to_int16(lu) = lu
  BY <1>5, <1>7, <1>8, OffsetIsInt16, FlowTableAssumption DEF Int16
<1>10. entries'[r].last_update = to_int16(lu)
  BY AdvanceEffect
<1> QED
  BY <1>4, <1>5, <1>6, <1>9, <1>10

LEMMA AgesStep ==
  ASSUME TypeOK, NumElementsExact, AgesExact, [Next]_vars,
         ClockStepBack <= FLOW_TABLE_MAX_UPDATE_OFFSET
  PROVE  AgesExact'
<1>1. ASSUME NEW f \in Flows, NEW ts \in Timestamps, NEW s \in Slots,
             refresh_flow(f, ts, s)
      PROVE  AgesExact'
  BY <1>1, AgesRefresh, FlowTableAssumption
<1>2. ASSUME NEW f \in Flows, NEW ts \in Timestamps, NEW s \in Slots,
             insert_flow(f, ts, s)
      PROVE  AgesExact'
  BY <1>2, AgesInsert, FlowTableAssumption
<1>3. ASSUME NEW now \in Timestamps, ClockReads(now),
             flow_table_advance_base_timestamp(now)
      PROVE  AgesExact'
  BY <1>3, AgesAdvance, FlowTableAssumption
<1>4. ASSUME flow_table_write_update
      PROVE  AgesExact'
  <2>1. LiveSlots' = LiveSlots
    BY <1>4, WriteSlots
  <2>2. \A r \in Slots : entries'[r].last_update = entries[r].last_update
    BY <1>4, WriteEffect DEF UnsentSlots
  <2> QED
    BY <1>4, <2>1, <2>2 DEF flow_table_write_update, AgesExact, LiveSlots
<1>5. ASSUME \/ \E ts \in Timestamps : drop_out_of_bounds(ts)
             \/ \E f \in Flows, ts \in Timestamps : drop_no_space(f, ts)
             \/ flow_table_write_thresholded_ips
             \/ UNCHANGED vars
      PROVE  UNCHANGED <<entries, base_timestamp_seconds, last_seen>>
  BY <1>5, LogLeavesTable DEF drop_out_of_bounds, drop_no_space, vars, table_vars
<1>6. ASSUME UNCHANGED <<entries, base_timestamp_seconds, last_seen>>
      PROVE  AgesExact'
  BY <1>6 DEF AgesExact, LiveSlots, Live
<1> QED
  BY <1>1, <1>2, <1>3, <1>4, <1>5, <1>6, NextSteps

LEMMA InitAges == Init => AgesExact
  BY DEF Init, flow_table_init, AgesExact, LiveSlots, Live, zeroed_entry,
     ENTRY_EMPTY, ENTRY_OCCUPIED, ENTRY_OCCUPIED_BUT_UNSENT

(***************************************************************************)
(* Unless the clock is stepped back by more than INT16_MAX seconds, base   *)
(* plus offset is the true time of the last packet of every live flow.     *)
(***************************************************************************)
THEOREM FlowTableAges ==
  ASSUME ClockStepBack <= FLOW_TABLE_MAX_UPDATE_OFFSET
  PROVE  Spec => []AgesExact
<1>1. TypeOK /\ NumElementsExact /\ AgesExact /\ [Next]_vars => AgesExact'
  BY AgesStep
<1> QED
  BY <1>1, InitAges, FlowTableCounts, PTL DEF Spec

-----------------------------------------------------------------------------
(***************************************************************************)
(* Sizes.  As the limit that num_packets is compared with is beyond its    *)
(* width, it counts the packets of a new flow modulo 2^4, without an end.  *)
(***************************************************************************)
SizesExact ==
  \A r \in UnsentSlots :
    entries[r].num_packets = packets_seen[r] % NUM_PACKETS_MODULUS

LEMMA Divided ==
  ASSUME NEW m \in Nat, m > 1, NEW n \in Int
  PROVE  \E q \in Int, r \in Int : n = m * q + r /\ 0 <= r /\ r < m /\ n % m = r
<1> DEFINE q == n \div m
           r == n % m
<1>1. q \in Int /\ r \in Int /\ n = m * q + r /\ 0 <= r /\ r < m /\ n % m = r
  OBVIOUS
<1> HIDE DEF q, r
<1> QED
  BY <1>1

(* Counting on from what the last packet left of the count. *)
LEMMA ModStep ==
  ASSUME NEW m \in Nat, m > 1, NEW n \in Nat
  PROVE  ((n % m) + 1) % m = (n + 1) % m
<1>1. PICK q \in Int, r \in Int : n = m * q + r /\ 0 <= r /\ r < m /\ n % m = r
  BY Divided
<1>2. PICK p \in Int, t \in Int : n + 1 = m * p + t /\ 0 <= t /\ t < m /\ (n + 1) % m = t
  <2>1. n + 1 \in Int
    OBVIOUS
  <2> QED
    BY <2>1, Divided
<1>3. PICK o \in Int, u \in Int : r + 1 = m * o + u /\ 0 <= u /\ u < m /\ (r + 1) % m = u
  <2>1. r + 1 \in Int
    OBVIOUS
  <2> QED
    BY <2>1, Divided
<1>4. t - u = m * (q + o - p)
  BY ONLY <1>1, <1>2, <1>3, m \in Int, n \in Int
<1>5. t - u < m /\ u - t < m
  BY <1>2, <1>3
<1>6. t = u
  BY ONLY <1>4, <1>5, <1>1, <1>2, <1>3, m \in Nat, m > 1
<1> QED
  BY <1>1, <1>2, <1>3, <1>6

LEMMA SizesRefresh ==
  ASSUME TypeOK, SizesExact, NEW f \in Flows, NEW ts \in Int, NEW s \in Slots,
         refresh_flow(f, ts, s), NUM_PACKETS_MODULUS <= NUM_PACKETS_LIMIT
  PROVE  SizesExact'
<1>1. UnsentSlots' = UnsentSlots
  BY RefreshSlots
<1>2. \A r \in UnsentSlots : r \in Slots \ ExpiredSlots(f, ts)
  BY ExpiredSlotsAreSent
  DEF UnsentSlots, Unsent, ENTRY_OCCUPIED, ENTRY_OCCUPIED_BUT_UNSENT
<1>3. ASSUME NEW r \in UnsentSlots, r # s
      PROVE  entries'[r] = entries[r] /\ packets_seen'[r] = packets_seen[r]
  <2>1. r \in Slots
    BY DEF UnsentSlots
  <2>2. entries'[r] = entries[r]
    BY <1>2, <1>3, RefreshEffect
  <2>3. /\ packets_seen \in [Slots -> Nat]
        /\ \/ packets_seen' = [packets_seen EXCEPT ![s] = @ + 1]
           \/ packets_seen' = packets_seen
    BY DEF refresh_flow, TypeOK
  <2> QED
    BY ONLY <1>3, <2>1, <2>2, <2>3
<1>4. ASSUME s \in UnsentSlots
      PROVE  entries'[s].num_packets = packets_seen'[s] % NUM_PACKETS_MODULUS
  <2>1. Unsent(s)
    BY <1>4 DEF UnsentSlots
  <2>2. /\ packets_seen[s] \in Nat
        /\ entries[s].num_packets = packets_seen[s] % NUM_PACKETS_MODULUS
    BY <1>4 DEF TypeOK, SizesExact
  <2>3. entries[s].num_packets \in 0 .. NUM_PACKETS_MODULUS - 1
    BY DEF TypeOK, flow_table_entry_t
  <2>4. entries[s].num_packets < NUM_PACKETS_LIMIT
    BY <2>3, FlowTableAssumption
  <2>5. entries'[s].num_packets = (entries[s].num_packets + 1) % NUM_PACKETS_MODULUS
    BY <2>1, <2>4, RefreshEffect
  <2>6. NUM_PACKETS_MODULUS \in Nat /\ NUM_PACKETS_MODULUS > 1
    BY FlowTableAssumption
  <2>7. ((packets_seen[s] % NUM_PACKETS_MODULUS) + 1) % NUM_PACKETS_MODULUS
          = (packets_seen[s] + 1) % NUM_PACKETS_MODULUS
    BY ONLY <2>2, <2>6, ModStep
  <2>8. packets_seen'[s] = packets_seen[s] + 1
    BY <2>1 DEF refresh_flow, TypeOK
  <2> QED
    BY ONLY <2>2, <2>5, <2>7, <2>8
<1> QED
  BY <1>1, <1>3, <1>4 DEF SizesExact

LEMMA SizesInsert ==
  ASSUME TypeOK, SizesExact, NEW f \in Flows, NEW ts \in Int, NEW s \in Slots,
         insert_flow(f, ts, s)
  PROVE  SizesExact'
<1>1. UnsentSlots' = UnsentSlots \cup {s}
  BY InsertSlots
<1>2. ASSUME NEW r \in UnsentSlots, r # s
      PROVE  entries'[r] = entries[r] /\ packets_seen'[r] = packets_seen[r]
  <2>1. r \in Slots \ ExpiredSlots(f, ts)
    BY ExpiredSlotsAreSent
    DEF UnsentSlots, Unsent, ENTRY_OCCUPIED, ENTRY_OCCUPIED_BUT_UNSENT
  <2> QED
    BY <1>2, <2>1, InsertEffect DEF insert_flow, TypeOK
<1>3. entries'[s].num_packets = 1
  <2> DEFINE lu == to_int16(ts - base_timestamp_seconds')
  <2>1. entries'[s] = new_entry(f, lu)
    BY InsertEffect
  <2> HIDE DEF lu
  <2> QED
    BY <2>1 DEF new_entry
<1>4. packets_seen'[s] = 1
  BY DEF insert_flow, TypeOK
<1>5. 1 % NUM_PACKETS_MODULUS = 1
  <2>1. NUM_PACKETS_MODULUS \in Nat \ {0} /\ 1 \in 0 .. NUM_PACKETS_MODULUS - 1 /\ 1 \in Int
    BY FlowTableAssumption
  <2> QED
    BY ONLY <2>1, ModRange
<1> QED
  BY <1>1, <1>2, <1>3, <1>4, <1>5 DEF SizesExact

(* What is left of a number is not more than the number. *)
LEMMA ModBelow ==
  ASSUME NEW m \in Nat \ {0}, NEW n \in Nat
  PROVE  n % m <= n
<1>1. PICK q \in Int, r \in Int : n = m * q + r /\ 0 <= r /\ r < m /\ n % m = r
  OBVIOUS
<1>2. q >= 0
  BY <1>1
<1>3. m * q >= 0
  BY <1>2
<1> QED
  BY <1>1, <1>3

(* The log is rewritten by the one handler only. *)
LEMMA LogStays ==
  ASSUME ThresholdLogExact, UNCHANGED log_vars
  PROVE  ThresholdLogExact'
BY DEF log_vars, ThresholdLogExact

(* All slots were before the end of the log. *)
LEMMA CompleteLog ==
  ASSUME TypeOK, SizesExact, NEW end \in 0 .. FLOW_TABLE_ENTRIES, write_thresholds(end)
  PROVE  ThresholdLogExact'
<1>1. SUFFICES ASSUME log_complete'
               PROVE  flow_log' =
                        {busy[1] : busy \in {b \in busy_flows' : Counted(b) >= FLOW_THRESHOLD}}
  BY DEF ThresholdLogExact
<1>2. end = FLOW_TABLE_ENTRIES
  BY <1>1 DEF write_thresholds
<1>3. \A r \in UnsentSlots : r < end
  BY <1>2, FlowTableAssumption DEF UnsentSlots, Slots
<1>4. flow_log' = {entries[s].flow : s \in Thresholded}
  BY <1>3 DEF write_thresholds, ListedBefore, Thresholded
<1>5. busy_flows' = {<<entries[s].flow, packets_seen[s]>> :
                       s \in {r \in UnsentSlots : packets_seen[r] >= FLOW_THRESHOLD}}
  BY <1>1 DEF write_thresholds
<1>6. ASSUME NEW s \in UnsentSlots
      PROVE  /\ entries[s].num_packets = Counted(<<entries[s].flow, packets_seen[s]>>)
             /\ Counted(<<entries[s].flow, packets_seen[s]>>) >= FLOW_THRESHOLD
                  => packets_seen[s] >= FLOW_THRESHOLD
  <2>1. packets_seen[s] \in Nat /\ NUM_PACKETS_MODULUS \in Nat \ {0} /\ FLOW_THRESHOLD \in Nat
    BY FlowTableAssumption DEF TypeOK, UnsentSlots
  <2>2. packets_seen[s] % NUM_PACKETS_MODULUS <= packets_seen[s]
    BY ONLY <2>1, ModBelow
  <2>3. packets_seen[s] % NUM_PACKETS_MODULUS \in Int
    BY ONLY <2>1
  <2> QED
    BY <2>1, <2>2, <2>3 DEF SizesExact, Counted
<1>7. ASSUME NEW s \in Thresholded
      PROVE  \E busy \in busy_flows' :
               Counted(busy) >= FLOW_THRESHOLD /\ busy[1] = entries[s].flow
  <2>1. s \in UnsentSlots /\ entries[s].num_packets >= FLOW_THRESHOLD
    BY DEF Thresholded
  <2> DEFINE busy == <<entries[s].flow, packets_seen[s]>>
  <2>2. Counted(busy) >= FLOW_THRESHOLD /\ packets_seen[s] >= FLOW_THRESHOLD
    BY <1>6, <2>1
  <2>3. busy \in busy_flows'
    BY <1>5, <2>1, <2>2
  <2>4. busy[1] = entries[s].flow
    OBVIOUS
  <2> HIDE DEF busy
  <2> QED
    BY <2>2, <2>3, <2>4
<1>8. ASSUME NEW busy \in busy_flows', Counted(busy) >= FLOW_THRESHOLD
      PROVE  \E s \in Thresholded : busy[1] = entries[s].flow
  <2>1. PICK s \in UnsentSlots : busy = <<entries[s].flow, packets_seen[s]>>
    BY <1>5
  <2>2. entries[s].num_packets >= FLOW_THRESHOLD /\ busy[1] = entries[s].flow
    BY <1>6, <1>8, <2>1
  <2> QED
    BY <2>2 DEF Thresholded
<1> QED
  BY <1>4, <1>7, <1>8

(***************************************************************************)
(* flow_table.c:200-231, with a counter narrower than the limit that it is *)
(* compared with: a FLOW_THRESHOLDING_LOG that was written to its end      *)
(* lists the new flows whose packets, modulo 2^4, are FLOW_THRESHOLD or    *)
(* more, and no other flow, for tables and periods of any size.            *)
(***************************************************************************)
THEOREM FlowTableThresholds ==
  ASSUME NUM_PACKETS_MODULUS <= NUM_PACKETS_LIMIT
  PROVE  Spec => []ThresholdLogExact
<1>1. Init => SizesExact /\ ThresholdLogExact
  BY DEF Init, flow_table_init, SizesExact, ThresholdLogExact, UnsentSlots,
     Unsent, zeroed_entry, ENTRY_EMPTY, ENTRY_OCCUPIED_BUT_UNSENT
<1>2. ASSUME TypeOK, SizesExact, ThresholdLogExact, [Next]_vars
      PROVE  SizesExact' /\ ThresholdLogExact'
  <2> USE <1>2
  <2>1. ASSUME NEW f \in Flows, NEW ts \in Timestamps, NEW s \in Slots,
               WithinBounds(f), refresh_flow(f, ts, s)
        PROVE  SizesExact' /\ ThresholdLogExact'
    BY <2>1, SizesRefresh, LogStays, FlowTableAssumption DEF refresh_flow
  <2>2. ASSUME NEW f \in Flows, NEW ts \in Timestamps, NEW s \in Slots,
               insert_flow(f, ts, s)
        PROVE  SizesExact' /\ ThresholdLogExact'
    BY <2>2, SizesInsert, LogStays, FlowTableAssumption DEF insert_flow
  <2>3. ASSUME NEW now \in Timestamps, flow_table_advance_base_timestamp(now)
        PROVE  SizesExact' /\ ThresholdLogExact'
    <3>1. now \in Int
      BY FlowTableAssumption
    <3>2. UnsentSlots' = UnsentSlots \ OldSlots(now)
      BY <2>3, <3>1, AdvanceSlots
    <3>3. ASSUME NEW r \in UnsentSlots \ OldSlots(now)
          PROVE  /\ entries'[r].num_packets = entries[r].num_packets
                 /\ packets_seen'[r] = packets_seen[r]
      <4>1. r \in Slots /\ r \in LiveSlots
        BY DEF UnsentSlots, Unsent, LiveSlots, Live
      <4> QED
        BY <2>3, <3>1, <4>1, AdvanceEffect
        DEF flow_table_advance_base_timestamp, Forget
    <3> QED
      BY <2>3, <3>2, <3>3, LogStays DEF flow_table_advance_base_timestamp, SizesExact
  <2>4. ASSUME flow_table_write_update
        PROVE  SizesExact' /\ ThresholdLogExact'
    BY <2>4, WriteSlots, LogStays DEF flow_table_write_update, SizesExact
  <2>5. ASSUME flow_table_write_thresholded_ips
        PROVE  SizesExact' /\ ThresholdLogExact'
    <3>1. SizesExact'
      BY <2>5, LogLeavesTable DEF table_vars, SizesExact, UnsentSlots, Unsent
    <3>2. ASSUME NEW end \in 0 .. FLOW_TABLE_ENTRIES, write_thresholds(end)
          PROVE  ThresholdLogExact'
      BY <3>2, CompleteLog
    <3>3. ASSUME keep_last_log
          PROVE  ThresholdLogExact'
      <4>1. UNCHANGED log_vars
        BY <3>3 DEF keep_last_log, vars
      <4> QED
        BY <4>1, LogStays
    <3> QED
      BY <2>5, <3>1, <3>2, <3>3 DEF flow_table_write_thresholded_ips
  <2>6. ASSUME \/ \E ts \in Timestamps : drop_out_of_bounds(ts)
               \/ \E f \in Flows, ts \in Timestamps : drop_no_space(f, ts)
               \/ UNCHANGED vars
        PROVE  UNCHANGED <<entries, packets_seen, log_vars>>
    BY <2>6 DEF drop_out_of_bounds, drop_no_space, vars, table_vars
  <2>7. ASSUME UNCHANGED <<entries, packets_seen, log_vars>>
        PROVE  SizesExact' /\ ThresholdLogExact'
    BY <2>7, LogStays DEF SizesExact, UnsentSlots, Unsent
  <2> QED
    BY <2>1, <2>2, <2>3, <2>4, <2>5, <2>6, <2>7, NextSteps
<1> QED
  BY <1>1, <1>2, FlowTableCounts, PTL DEF Spec

-----------------------------------------------------------------------------
(***************************************************************************)
(* What flow_table_process_flow promises process_packet, for the proofs    *)
(* about Passive.                                                          *)
(***************************************************************************)
LEMMA ProcessFlowSteps ==
  ASSUME NEW f, NEW ts, NEW id, flow_table_process_flow(f, ts, id)
  PROVE  \/ id = FLOW_ID_ERROR /\ UNCHANGED <<entries, last_seen, packets_seen, server>>
         \/ \E s \in Slots :
              id = s + FLOW_ID_FIRST_UNRESERVED /\ refresh_flow(f, ts, s)
         \/ \E s \in Slots :
              id = s + FLOW_ID_FIRST_UNRESERVED /\ insert_flow(f, ts, s)
  BY DEF flow_table_process_flow, drop_out_of_bounds, drop_no_space

(* The id is that of a live slot with the flow, seen now. *)
LEMMA ProcessFlowReturns ==
  ASSUME TypeOK, NEW f \in Flows, NEW ts \in Int, NEW id,
         flow_table_process_flow(f, ts, id), id # FLOW_ID_ERROR
  PROVE  \E s \in Slots :
           /\ id = s + FLOW_ID_FIRST_UNRESERVED
           /\ s \in LiveSlots'
           /\ entries'[s].flow = f
           /\ last_seen'[s] = ts
<1>1. ASSUME NEW s \in Slots, refresh_flow(f, ts, s)
      PROVE  s \in LiveSlots' /\ entries'[s].flow = f /\ last_seen'[s] = ts
  <2>1. s \in LiveSlots' /\ entries'[s].flow = f
    BY <1>1, RefreshEffect, RefreshSlots
  <2>2. last_seen' = [Forget(last_seen, ExpiredSlots(f, ts)) EXCEPT ![s] = ts]
    BY <1>1 DEF refresh_flow
  <2> QED
    BY <2>1, <2>2 DEF Forget
<1>2. ASSUME NEW s \in Slots, insert_flow(f, ts, s)
      PROVE  s \in LiveSlots' /\ entries'[s].flow = f /\ last_seen'[s] = ts
  <2>1. s \in LiveSlots'
    BY <1>2, InsertSlots
  <2>2. entries'[s].flow = f
    <3> DEFINE lu == to_int16(ts - base_timestamp_seconds')
    <3>1. entries'[s] = new_entry(f, lu)
      BY <1>2, InsertEffect
    <3> HIDE DEF lu
    <3> QED
      BY <3>1 DEF new_entry
  <2>3. last_seen' = [Forget(last_seen, ExpiredSlots(f, ts)) EXCEPT ![s] = ts]
    BY <1>2 DEF insert_flow
  <2> QED
    BY <2>1, <2>2, <2>3 DEF Forget
<1> QED
  BY <1>1, <1>2, ProcessFlowSteps

(* A flow seen within the expiration time keeps its slot. *)
LEMMA ProcessFlowKeeps ==
  ASSUME TypeOK, AgesExact, NEW f \in Flows, NEW ts \in Int, NEW id,
         flow_table_process_flow(f, ts, id), NEW r \in LiveSlots,
         last_seen[r] + FLOW_TABLE_EXPIRATION_SECONDS >= ts
  PROVE  /\ r \in LiveSlots'
         /\ entries'[r].flow = entries[r].flow
         /\ last_seen'[r] \in {last_seen[r], ts}
<1>1. r \in Slots /\ base_timestamp_seconds + entries[r].last_update = last_seen[r]
  BY DEF LiveSlots, AgesExact
<1>2. /\ base_timestamp_seconds \in Int /\ entries[r].last_update \in Int
      /\ last_seen[r] \in Int
  BY <1>1, FlowTableAssumption DEF TypeOK, flow_table_entry_t, Int16
<1>3. r \notin ExpiredSlots(f, ts)
  BY <1>1, <1>2, FlowTableAssumption DEF ExpiredSlots, Expires
<1>4. ASSUME NEW s \in Slots, refresh_flow(f, ts, s)
      PROVE  /\ r \in LiveSlots'
             /\ entries'[r].flow = entries[r].flow
             /\ last_seen'[r] \in {last_seen[r], ts}
  <2>1. r \in LiveSlots' /\ entries'[r].flow = entries[r].flow
    BY <1>1, <1>3, <1>4, RefreshEffect, RefreshSlots
  <2>2. last_seen' = [Forget(last_seen, ExpiredSlots(f, ts)) EXCEPT ![s] = ts]
    BY <1>4 DEF refresh_flow
  <2> QED
    BY <1>1, <1>3, <2>1, <2>2 DEF Forget
<1>5. ASSUME NEW s \in Slots, insert_flow(f, ts, s)
      PROVE  /\ r \in LiveSlots'
             /\ entries'[r].flow = entries[r].flow
             /\ last_seen'[r] \in {last_seen[r], ts}
  <2>1. r # s
    BY <1>3, <1>5, InsertEffect
  <2>2. r \in LiveSlots' /\ entries'[r].flow = entries[r].flow
    BY <1>1, <1>3, <1>5, <2>1, InsertEffect, InsertSlots
  <2>3. last_seen' = [Forget(last_seen, ExpiredSlots(f, ts)) EXCEPT ![s] = ts]
    BY <1>5 DEF insert_flow
  <2> QED
    BY <1>1, <1>3, <2>2, <2>3 DEF Forget
<1>6. CASE UNCHANGED <<entries, last_seen>>
  BY <1>6 DEF LiveSlots, Live
<1> QED
  BY <1>4, <1>5, <1>6, ProcessFlowSteps

(* An unsent flow keeps its slot, and a call is one packet of one flow. *)
LEMMA ProcessFlowUnsent ==
  ASSUME TypeOK, NEW f \in Flows, NEW ts \in Int, NEW id,
         flow_table_process_flow(f, ts, id)
  PROVE  /\ \A r \in UnsentSlots :
              r \in UnsentSlots' /\ entries'[r].flow = entries[r].flow
         /\ \A r \in UnsentSlots' :
              \/ packets_seen'[r] = 1
              \/ r \in UnsentSlots /\ packets_seen'[r] \in {packets_seen[r], packets_seen[r] + 1}
<1>1. \A r \in UnsentSlots : r \in LiveSlots /\ r \in Slots \ ExpiredSlots(f, ts)
  BY ExpiredSlotsAreSent
  DEF LiveSlots, Live, UnsentSlots, Unsent, ENTRY_OCCUPIED, ENTRY_OCCUPIED_BUT_UNSENT
<1>2. packets_seen \in [Slots -> Nat]
  BY DEF TypeOK
<1>3. ASSUME NEW s \in Slots, refresh_flow(f, ts, s)
      PROVE  /\ UnsentSlots' = UnsentSlots
             /\ \A r \in UnsentSlots : entries'[r].flow = entries[r].flow
             /\ \A r \in UnsentSlots :
                  packets_seen'[r] \in {packets_seen[r], packets_seen[r] + 1}
  BY <1>1, <1>2, <1>3, RefreshEffect, RefreshSlots DEF refresh_flow
<1>4. ASSUME NEW s \in Slots, insert_flow(f, ts, s)
      PROVE  /\ UnsentSlots' = UnsentSlots \cup {s}
             /\ \A r \in UnsentSlots : entries'[r].flow = entries[r].flow
             /\ packets_seen'[s] = 1
             /\ \A r \in UnsentSlots : r # s => packets_seen'[r] = packets_seen[r]
  <2>1. \A r \in UnsentSlots : r # s
    BY <1>1, <1>4, InsertEffect
  <2> QED
    BY <1>1, <1>2, <1>4, <2>1, InsertEffect, InsertSlots DEF insert_flow
<1>5. CASE UNCHANGED <<entries, packets_seen>>
  BY <1>5 DEF UnsentSlots, Unsent
<1> QED
  BY <1>3, <1>4, <1>5, ProcessFlowSteps

-----------------------------------------------------------------------------
(***************************************************************************)
(* flow_table.c implements DifferentialUpdates.  Every call but            *)
(* flow_table_write_update is a step that renames, because a slot that is  *)
(* marked sent after it was so before it, with the same flow.              *)
(***************************************************************************)
FlowOf == [s \in Slots |-> IF Live(s) THEN entries[s].flow ELSE NoFlow]

SentSlots == {s \in Slots : entries[s].occupied = ENTRY_OCCUPIED}

LEMMA NamedSlots ==
  LiveFlowsReachable =>
    /\ Stream!Named = LiveSlots
    /\ FlowOf \in [Slots -> Flows \cup {NoFlow}]
    /\ \A s \in LiveSlots : FlowOf[s] = entries[s].flow
<1> HAVE LiveFlowsReachable
<1>1. \A s \in Slots : Live(s) => entries[s].flow \in Flows
  BY DEF LiveFlowsReachable, LiveSlots
<1>2. NoFlow \notin Flows
  BY FlowTableAssumption
<1>3. \A s \in Slots : FlowOf[s] = IF Live(s) THEN entries[s].flow ELSE NoFlow
  BY DEF FlowOf
<1>4. Stream!Named = {s \in Slots : FlowOf[s] # NoFlow}
  BY DEF Stream!Named, FlowOf
<1>5. \A s \in Slots : FlowOf[s] # NoFlow <=> Live(s)
  BY <1>1, <1>2, <1>3
<1>6. FlowOf \in [Slots -> Flows \cup {NoFlow}]
  BY <1>1 DEF FlowOf
<1> QED
  BY <1>3, <1>4, <1>5, <1>6 DEF LiveSlots

LEMMA LiveIsSentOrUnsent ==
  LiveSlots \ UnsentSlots = SentSlots /\ UnsentSlots \subseteq LiveSlots
  BY DEF LiveSlots, UnsentSlots, SentSlots, Live, Unsent, ENTRY_OCCUPIED,
     ENTRY_OCCUPIED_BUT_UNSENT

LEMMA RenamesFlows ==
  ASSUME StructureInv, StructureInv', UNCHANGED server,
         \A r \in SentSlots' : r \in SentSlots /\ entries'[r].flow = entries[r].flow
  PROVE  Stream!RenameThings
<1>1. LiveFlowsReachable /\ LiveFlowsReachable' /\ OneSlotPerFlow'
  BY DEF StructureInv
<1>2. /\ LiveSlots \ UnsentSlots = SentSlots
      /\ LiveSlots' \ UnsentSlots' = SentSlots'
      /\ UnsentSlots' \subseteq LiveSlots'
  <2>1. (LiveSlots \ UnsentSlots = SentSlots /\ UnsentSlots \subseteq LiveSlots)'
    BY LiveIsSentOrUnsent, PTL
  <2> QED
    BY <2>1, LiveIsSentOrUnsent
<1>3. /\ Stream!Named' = LiveSlots'
      /\ FlowOf' \in [Slots -> Flows \cup {NoFlow}]
      /\ \A s \in LiveSlots' : FlowOf'[s] = entries'[s].flow
  <2>1. (LiveFlowsReachable =>
           /\ Stream!Named = LiveSlots
           /\ FlowOf \in [Slots -> Flows \cup {NoFlow}]
           /\ \A s \in LiveSlots : FlowOf[s] = entries[s].flow)'
    BY NamedSlots, PTL
  <2> QED
    BY <1>1, <2>1
<1>4. \A s \in LiveSlots : FlowOf[s] = entries[s].flow
  BY <1>1, NamedSlots
<1>5. \A r \in LiveSlots' \ UnsentSlots' :
        r \notin UnsentSlots /\ FlowOf'[r] = FlowOf[r]
  BY <1>2, <1>3, <1>4
<1>6. \A r, s \in LiveSlots' : FlowOf'[r] = FlowOf'[s] => r = s
  BY <1>1, <1>3 DEF OneSlotPerFlow
<1> QED
  BY <1>2, <1>3, <1>5, <1>6 DEF Stream!RenameThings, FlowOf

LEMMA FlowTableStreamStep ==
  ASSUME StructureInv, [Next]_vars
  PROVE  [Stream!Next]_(Stream!vars)
<1>1. StructureInv'
  BY StructureStep
<1>2. TypeOK
  BY DEF StructureInv
<1>3. ASSUME UNCHANGED server,
             \A r \in SentSlots' : r \in SentSlots /\ entries'[r].flow = entries[r].flow
      PROVE  Stream!Next
  BY <1>1, <1>3, RenamesFlows DEF Stream!Next
<1>4. ASSUME NEW f \in Flows, NEW ts \in Timestamps, NEW s \in Slots,
             refresh_flow(f, ts, s)
      PROVE  Stream!Next
  <2>1. ts \in Int
    BY FlowTableAssumption
  <2>2. \A r \in SentSlots' : r \notin ExpiredSlots(f, ts)
    BY <1>2, <1>4, <2>1, RefreshEffect, EntryTypes
    DEF SentSlots, ENTRY_OCCUPIED, ENTRY_DELETED
  <2>3. \A r \in SentSlots' : r \in SentSlots /\ entries'[r].flow = entries[r].flow
    BY <1>2, <1>4, <2>1, <2>2, RefreshEffect DEF SentSlots
  <2> QED
    BY <1>3, <1>4, <2>3 DEF refresh_flow
<1>5. ASSUME NEW f \in Flows, NEW ts \in Timestamps, NEW s \in Slots,
             insert_flow(f, ts, s)
      PROVE  Stream!Next
  <2>1. ts \in Int
    BY FlowTableAssumption
  <2>2. s \notin SentSlots'
    <3> DEFINE lu == to_int16(ts - base_timestamp_seconds')
    <3>1. entries'[s] = new_entry(f, lu)
      BY <1>2, <1>5, <2>1, InsertEffect
    <3> HIDE DEF lu
    <3> QED
      BY <3>1 DEF new_entry, SentSlots, ENTRY_OCCUPIED, ENTRY_OCCUPIED_BUT_UNSENT
  <2>3. \A r \in SentSlots' : r \notin ExpiredSlots(f, ts)
    BY <1>2, <1>5, <2>1, <2>2, InsertEffect, EntryTypes
    DEF SentSlots, ENTRY_OCCUPIED, ENTRY_DELETED
  <2>4. \A r \in SentSlots' : r \in SentSlots /\ entries'[r].flow = entries[r].flow
    BY <1>2, <1>5, <2>1, <2>2, <2>3, InsertEffect DEF SentSlots
  <2> QED
    BY <1>3, <1>5, <2>4 DEF insert_flow
<1>6. ASSUME NEW now \in Timestamps, flow_table_advance_base_timestamp(now)
      PROVE  Stream!Next
  <2>1. now \in Int
    BY FlowTableAssumption
  <2>2. \A r \in SentSlots' : r \in LiveSlots \ OldSlots(now)
    BY <1>2, <1>6, <2>1, AdvanceSlots DEF SentSlots, LiveSlots, Live
  <2>3. \A r \in SentSlots' : r \in SentSlots /\ entries'[r].flow = entries[r].flow
    BY <1>2, <1>6, <2>1, <2>2, AdvanceEffect DEF SentSlots
  <2> QED
    BY <1>3, <1>6, <2>3 DEF flow_table_advance_base_timestamp
<1>7. ASSUME flow_table_write_update
      PROVE  Stream!Next
  <2>1. LiveSlots' = LiveSlots /\ UnsentSlots' = {}
    BY <1>2, <1>7, WriteSlots
  <2>2. \A r \in Slots : entries'[r].flow = entries[r].flow
    BY <1>2, <1>7, WriteEffect DEF UnsentSlots
  <2>3. \A r \in Slots : Live(r)' <=> Live(r)
    BY <2>1 DEF LiveSlots
  <2>4. FlowOf' = FlowOf
    BY <2>2, <2>3 DEF FlowOf
  <2>5. server' = [s \in Slots |-> IF Unsent(s) THEN entries[s].flow ELSE server[s]]
    BY <1>7 DEF flow_table_write_update
  <2>6. \A s \in Slots : s \in UnsentSlots => FlowOf[s] = entries[s].flow
    BY LiveIsSentOrUnsent DEF FlowOf, LiveSlots
  <2>7. server' = [s \in Slots |-> IF s \in UnsentSlots THEN FlowOf[s] ELSE server[s]]
    BY <2>5, <2>6 DEF UnsentSlots
  <2> QED
    BY <2>1, <2>4, <2>7 DEF Stream!Next, Stream!SendUpdate, FlowOf
<1>8. ASSUME \/ \E ts \in Timestamps : drop_out_of_bounds(ts)
             \/ \E f \in Flows, ts \in Timestamps : drop_no_space(f, ts)
             \/ flow_table_write_thresholded_ips
             \/ UNCHANGED vars
      PROVE  Stream!Next
  <2>1. UNCHANGED <<entries, server>>
    BY <1>8, LogLeavesTable DEF drop_out_of_bounds, drop_no_space, vars, table_vars
  <2> QED
    BY <1>3, <2>1 DEF SentSlots
<1> QED
  BY <1>4, <1>5, <1>6, <1>7, <1>8, NextSteps

(***************************************************************************)
(* For any table size, probe path and clock, what the server makes of the  *)
(* flow sections of the updates is what DifferentialUpdates promises.      *)
(***************************************************************************)
THEOREM FlowTableInforms == Spec => KeepsServerInformed
<1>1. Init => Stream!Init
  <2> SUFFICES ASSUME Init PROVE Stream!Init
    OBVIOUS
  <2>1. \A s \in Slots : ~Live(s) /\ ~Unsent(s)
    BY DEF Init, flow_table_init, Live, Unsent, zeroed_entry, ENTRY_EMPTY,
       ENTRY_OCCUPIED, ENTRY_OCCUPIED_BUT_UNSENT
  <2> QED
    BY <2>1 DEF Init, Stream!Init, UnsentSlots
<1>2. StructureInv /\ [Next]_vars => [Stream!Next]_(Stream!vars)
  BY FlowTableStreamStep
<1>3. StructureInv <=> /\ TypeOK /\ NumElementsExact /\ LiveFlowsReachable
                       /\ OneSlotPerFlow /\ ServerKnowsSentFlows
  BY DEF StructureInv
<1> QED
  BY <1>1, <1>2, <1>3, FlowTableCounts, FlowTableStructure, PTL
  DEF Spec, KeepsServerInformed, Stream!Spec

(***************************************************************************)
(* What the runs check one by one: the fields of an entry keep their       *)
(* widths (flow_table.h:15-31), a flow is found in one slot only           *)
(* (flow_table.c:60-114), and the server has a record of every flow that   *)
(* the table takes for sent (flow_table.c:117-200).                        *)
(***************************************************************************)
THEOREM FlowTableTypes == Spec => []TypeOK
  BY FlowTableCounts, PTL

(* A live flow has one slot: see above. *)
THEOREM FlowTableOneSlot == Spec => []OneSlotPerFlow
  BY FlowTableStructure, PTL

(* A sent flow is known to the server: see above. *)
THEOREM FlowTableSent == Spec => []ServerKnowsSentFlows
  BY FlowTableStructure, PTL

=============================================================================
