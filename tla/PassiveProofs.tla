--------------------------- MODULE PassiveProofs ---------------------------
(***************************************************************************)
(* The update cycle, for tables of every size.  The proof is by            *)
(* composition: a step of the cycle is a step of the flow table or leaves  *)
(* it alone, and the same of the packet series, so that what is proved of  *)
(* each holds here.  What is left is that ids are not reused between a     *)
(* packet and the update that carries it, and the count of lost packets.   *)
(***************************************************************************)
EXTENDS Passive, FiniteSetTheorems, TLAPS

FTP == INSTANCE FlowTableProofs WITH MaxPackets <- MaxArrivals

PSP == INSTANCE PacketSeriesProofs
         WITH Times <- {ts * NUM_MICROS_PER_SECOND : ts \in Timestamps},
              Flows <- 0 .. FLOW_TABLE_ENTRIES + FLOW_ID_FIRST_UNRESERVED - 1

(* The constants are those of the two tables. *)
LEMMA Assumptions == FTP!FlowTableAssumption /\ PSP!PacketSeriesAssumption
<1>1. FTP!FlowTableAssumption
  BY PassiveAssumption
     DEF FT!FlowTableAssumption, FTP!FlowTableAssumption, FT!Probes, FTP!Probes,
         FT!uint32_of_double, FTP!uint32_of_double, FT!ProbeStep, FTP!ProbeStep
<1>2. PSP!PacketSeriesAssumption
  BY PassiveAssumption DEF PS!PacketSeriesAssumption, PSP!PacketSeriesAssumption
<1> QED
  BY <1>1, <1>2

(* The operations here are those of the proofs about each table. *)
LEMMA SameCardinality == \A S : FT!Cardinality(S) = FTP!Cardinality(S)
  BY DEF FT!Cardinality, FTP!Cardinality

LEMMA SameProbing ==
  /\ FT!Slots = FTP!Slots
  /\ FT!Probes = FTP!Probes
  /\ FT!Int16 = FTP!Int16
  /\ FT!deleted_entry = FTP!deleted_entry
  /\ \A x : FT!to_int16(x) = FTP!to_int16(x)
  /\ \A S : FT!num_elements_without(S) = FTP!num_elements_without(S)
  /\ \A h, S : FT!Forget(h, S) = FTP!Forget(h, S)
  /\ \A f, last_update : FT!new_entry(f, last_update) = FTP!new_entry(f, last_update)
  /\ \A s : FT!Live(s) = FTP!Live(s) /\ FT!Unsent(s) = FTP!Unsent(s)
  /\ \A s, ts : FT!StillLive(s, ts) = FTP!StillLive(s, ts)
  /\ \A f, p : FT!table_idx(f, p) = FTP!table_idx(f, p)
  /\ \A f, s, ts : FT!Matches(f, s, ts) = FTP!Matches(f, s, ts)
  /\ \A f, ts : /\ FT!ProbedSlots(f, ts) = FTP!ProbedSlots(f, ts)
                /\ FT!Probed(f, ts) = FTP!Probed(f, ts)
                /\ FT!ExpiredSlots(f, ts) = FTP!ExpiredSlots(f, ts)
                /\ FT!Swept(f, ts) = FTP!Swept(f, ts)
  BY SameCardinality
     DEF FT!Int16, FTP!Int16, FT!to_int16, FTP!to_int16,
         FT!Matches, FTP!Matches, FT!ProbedSlots, FTP!ProbedSlots, FT!Probed, FTP!Probed,
         FT!StopsAt, FTP!StopsAt, FT!StillLive, FTP!StillLive, FT!Live, FTP!Live,
         FT!Unsent, FTP!Unsent, FT!Expires, FTP!Expires,
         FT!ExpiredSlots, FTP!ExpiredSlots, FT!Swept, FTP!Swept, FT!Forget, FTP!Forget,
         FT!num_elements_without, FTP!num_elements_without, FT!new_entry, FTP!new_entry,
         FT!deleted_entry, FTP!deleted_entry, FT!zeroed_entry, FTP!zeroed_entry,
         FT!table_idx, FTP!table_idx, FT!probe_table, FTP!probe_table,
         FT!uint32_of_double, FTP!uint32_of_double, FT!ProbeStep, FTP!ProbeStep,
         FT!Slots, FTP!Slots, FT!Probes, FTP!Probes,
         FT!ENTRY_EMPTY, FTP!ENTRY_EMPTY, FT!ENTRY_OCCUPIED, FTP!ENTRY_OCCUPIED,
         FT!ENTRY_OCCUPIED_BUT_UNSENT, FTP!ENTRY_OCCUPIED_BUT_UNSENT,
         FT!ENTRY_DELETED, FTP!ENTRY_DELETED

LEMMA SameProcessFlow ==
  ASSUME NEW f, NEW ts, NEW id
  PROVE  FT!flow_table_process_flow(f, ts, id) = FTP!flow_table_process_flow(f, ts, id)
<1>1. FT!OutOfBounds(ts) = FTP!OutOfBounds(ts)
  BY SameProbing DEF FT!OutOfBounds, FTP!OutOfBounds
<1>2. FT!drop_out_of_bounds(ts) = FTP!drop_out_of_bounds(ts)
  BY <1>1 DEF FT!drop_out_of_bounds, FTP!drop_out_of_bounds, FT!log_vars, FTP!log_vars
<1>3. FT!FindsNothing(f, ts) = FTP!FindsNothing(f, ts)
  BY SameProbing DEF FT!FindsNothing, FTP!FindsNothing
<1>4. FT!drop_no_space(f, ts) = FTP!drop_no_space(f, ts)
  BY <1>1, <1>3, SameProbing
     DEF FT!drop_no_space, FTP!drop_no_space, FT!log_vars, FTP!log_vars
<1>5. FT!CountExpired(f, ts) = FTP!CountExpired(f, ts)
  BY SameCardinality, SameProbing DEF FT!CountExpired, FTP!CountExpired
<1>6. ASSUME NEW s
      PROVE  FT!refresh_flow(f, ts, s) = FTP!refresh_flow(f, ts, s)
  BY <1>1, <1>5, SameProbing
     DEF FT!refresh_flow, FTP!refresh_flow, FT!Finds, FTP!Finds, FT!log_vars, FTP!log_vars
<1>7. ASSUME NEW s
      PROVE  FT!insert_flow(f, ts, s) = FTP!insert_flow(f, ts, s)
  <2>1. FT!FirstAvailable(f, ts, s) = FTP!FirstAvailable(f, ts, s)
    BY SameProbing DEF FT!FirstAvailable, FTP!FirstAvailable
  <2> QED
    BY <1>1, <1>3, <1>5, <2>1, SameProbing
       DEF FT!insert_flow, FTP!insert_flow, FT!log_vars, FTP!log_vars
<1> QED
  BY <1>2, <1>4, <1>6, <1>7, SameProbing
     DEF FT!flow_table_process_flow, FTP!flow_table_process_flow,
         FT!FLOW_ID_ERROR, FTP!FLOW_ID_ERROR

LEMMA SameFlowSets ==
  /\ FT!Slots = FTP!Slots
  /\ FT!FlowIds = FTP!FlowIds
  /\ FT!FLOW_ID_ERROR = FTP!FLOW_ID_ERROR
  /\ FT!UnsentSlots = FTP!UnsentSlots
  /\ FT!LiveSlots = FTP!LiveSlots
  /\ \A now : FT!ClockReads(now) = FTP!ClockReads(now)
  BY DEF FT!Slots, FTP!Slots, FT!FlowIds, FTP!FlowIds, FT!FLOW_ID_ERROR,
         FTP!FLOW_ID_ERROR, FT!UnsentSlots, FTP!UnsentSlots, FT!LiveSlots, FTP!LiveSlots,
         FT!Live, FTP!Live, FT!Unsent, FTP!Unsent, FT!ClockReads, FTP!ClockReads,
         FT!ENTRY_OCCUPIED, FTP!ENTRY_OCCUPIED,
         FT!ENTRY_OCCUPIED_BUT_UNSENT, FTP!ENTRY_OCCUPIED_BUT_UNSENT

LEMMA SameFlowSections ==
  /\ FT!flow_table_write_update = FTP!flow_table_write_update
  /\ FT!flow_table_write_thresholded_ips = FTP!flow_table_write_thresholded_ips
  /\ \A now : FT!flow_table_advance_base_timestamp(now)
                = FTP!flow_table_advance_base_timestamp(now)
<1>1. FT!flow_table_write_update = FTP!flow_table_write_update
  BY DEF FT!flow_table_write_update, FTP!flow_table_write_update, FT!Forget, FTP!Forget,
         FT!log_vars, FTP!log_vars,
         FT!UnsentSlots, FTP!UnsentSlots, FT!Unsent, FTP!Unsent, FT!Slots, FTP!Slots,
         FT!ENTRY_OCCUPIED, FTP!ENTRY_OCCUPIED,
         FT!ENTRY_OCCUPIED_BUT_UNSENT, FTP!ENTRY_OCCUPIED_BUT_UNSENT
<1>2. FT!flow_table_write_thresholded_ips = FTP!flow_table_write_thresholded_ips
  BY DEF FT!flow_table_write_thresholded_ips, FTP!flow_table_write_thresholded_ips,
         FT!write_thresholds, FTP!write_thresholds, FT!ListedBefore, FTP!ListedBefore,
         FT!keep_last_log, FTP!keep_last_log, FT!vars, FTP!vars, FT!log_vars, FTP!log_vars,
         FT!Thresholded, FTP!Thresholded, FT!UnsentSlots, FTP!UnsentSlots,
         FT!Unsent, FTP!Unsent, FT!Slots, FTP!Slots, FT!table_vars, FTP!table_vars,
         FT!ENTRY_OCCUPIED_BUT_UNSENT, FTP!ENTRY_OCCUPIED_BUT_UNSENT
<1>3. ASSUME NEW now
      PROVE  FT!flow_table_advance_base_timestamp(now)
               = FTP!flow_table_advance_base_timestamp(now)
  <2>1. FT!OldSlots(now) = FTP!OldSlots(now)
    BY DEF FT!OldSlots, FTP!OldSlots, FT!TooOld, FTP!TooOld, FT!Live, FTP!Live,
           FT!Slots, FTP!Slots, FT!ENTRY_OCCUPIED, FTP!ENTRY_OCCUPIED,
           FT!ENTRY_OCCUPIED_BUT_UNSENT, FTP!ENTRY_OCCUPIED_BUT_UNSENT
  <2> QED
    BY <2>1, SameProbing
       DEF FT!flow_table_advance_base_timestamp, FTP!flow_table_advance_base_timestamp,
           FT!log_vars, FTP!log_vars
<1> QED
  BY <1>1, <1>2, <1>3

(* Whatever becomes of the log, the table stays. *)
LEMMA LogLeaves ==
  ASSUME write_flow_log
  PROVE  UNCHANGED <<entries, base_timestamp_seconds, num_elements, num_expired_flows,
                     num_dropped_flows, server, last_seen, packets_seen>>
<1>1. FTP!flow_table_write_thresholded_ips
  BY SameFlowSections DEF write_flow_log
<1> QED
  BY <1>1, Assumptions, FTP!LogLeavesTable DEF FTP!table_vars

LEMMA SameSeries ==
  /\ PS!packet_series_init = PSP!packet_series_init
  /\ \A time, size, flow, id :
       PS!packet_series_add_packet(time, size, flow, id)
         = PSP!packet_series_add_packet(time, size, flow, id)
<1>1. PS!packet_series_init = PSP!packet_series_init
  BY DEF PS!packet_series_init, PSP!packet_series_init
<1>2. ASSUME NEW time, NEW size, NEW flow, NEW id
      PROVE  PS!packet_series_add_packet(time, size, flow, id)
               = PSP!packet_series_add_packet(time, size, flow, id)
  BY DEF PS!packet_series_add_packet, PSP!packet_series_add_packet,
         PS!discard_packet, PSP!discard_packet, PS!append_packet, PSP!append_packet,
         PS!IsFull, PSP!IsFull, PS!one_more, PSP!one_more, PS!distance, PSP!distance,
         PS!to_int32, PSP!to_int32, PS!to_uint16, PSP!to_uint16
<1> QED
  BY <1>1, <1>2

-----------------------------------------------------------------------------
(***************************************************************************)
(* An unsent flow has no more packets than the period, and after the       *)
(* sections are written all flows are sent and no offset can overflow.     *)
(***************************************************************************)
CycleInv ==
  /\ phase \in {"capture", "writing", "terminating", "staged", "last staged", "exited"}
  /\ ~UpdateStaged => \A r \in FTP!UnsentSlots : packets_seen[r] <= Len(arrivals)
  /\ UpdateStaged =>
       /\ FTP!UnsentSlots = {}
       /\ FTP!ClockReads(current_timestamp)
       /\ current_timestamp \in Timestamps

Tables == FTP!StructureInv /\ PSP!IInv /\ CycleInv

LEMMA TablesTyped ==
  ASSUME Tables
  PROVE  /\ FTP!TypeOK
         /\ arrivals \in Seq([time: {ts * NUM_MICROS_PER_SECOND : ts \in Timestamps},
                              size: Sizes,
                              flow: 0 .. FLOW_TABLE_ENTRIES + FLOW_ID_FIRST_UNRESERVED - 1])
         /\ packets_seen \in [FTP!Slots -> Nat]
         /\ Len(arrivals) \in Nat
         /\ MaxArrivals \in Nat
         /\ Timestamps \subseteq Int
         /\ FLOW_TABLE_ENTRIES \in Nat \ {0}
         /\ FLOW_ID_FIRST_UNRESERVED \in Nat \ {0}
<1>1. FTP!TypeOK
  BY DEF Tables, FTP!StructureInv
<1>2. arrivals \in Seq([time: {ts * NUM_MICROS_PER_SECOND : ts \in Timestamps},
                        size: Sizes,
                        flow: 0 .. FLOW_TABLE_ENTRIES + FLOW_ID_FIRST_UNRESERVED - 1])
  BY DEF Tables, PSP!IInv, PSP!TypeOK
<1> QED
  BY <1>1, <1>2, Assumptions
     DEF FTP!TypeOK, FTP!FlowTableAssumption, PSP!PacketSeriesAssumption

(* What process_packet does to each table; the id is the packet's. *)
LEMMA PacketParts ==
  ASSUME NEW p, NEW ts, NEW size, NEW segment, process_packet(p, ts, size, segment)
  PROVE  /\ phase = "capture"
         /\ WithinPeriod(ts)
         /\ \E id \in FTP!FlowIds \cup {EtherTypeIds[e] : e \in EtherTypes},
               packet_id \in -1 .. PACKET_DATA_BUFFER_ENTRIES - 1 :
              /\ \/ p \in Flows /\ FTP!flow_table_process_flow(p, ts, id)
                 \/ p \in EtherTypes /\ id = EtherTypeIds[p] /\ UNCHANGED flow_table
              /\ PSP!packet_series_add_packet(ts * NUM_MICROS_PER_SECOND, size, id, packet_id)
              /\ count_drop(packet_id, size)
              /\ HT!process_http_packet(segment, id)
         /\ requests' = IF Requests(segment) THEN Append(requests, p) ELSE requests
         /\ protocols' = Append(protocols, p)
         /\ UNCHANGED <<phase, current_timestamp, carried>>
  BY SameProcessFlow, SameFlowSets, SameSeries DEF process_packet, flow_id_of_packet

LEMMA SeriesIds ==
  FTP!FlowIds \cup {EtherTypeIds[e] : e \in EtherTypes}
    \subseteq 0 .. FLOW_TABLE_ENTRIES + FLOW_ID_FIRST_UNRESERVED - 1
<1>1. FLOW_TABLE_ENTRIES \in Nat \ {0} /\ FLOW_ID_FIRST_UNRESERVED \in Nat \ {0}
  BY Assumptions DEF FTP!FlowTableAssumption
<1>2. FTP!FlowIds \subseteq 0 .. FLOW_TABLE_ENTRIES + FLOW_ID_FIRST_UNRESERVED - 1
  BY <1>1 DEF FTP!FlowIds, FTP!FLOW_ID_ERROR, FTP!Slots
<1>3. \A e \in EtherTypes :
        EtherTypeIds[e] \in 0 .. FLOW_TABLE_ENTRIES + FLOW_ID_FIRST_UNRESERVED - 1
  BY <1>1, PassiveAssumption
<1> QED
  BY <1>2, <1>3

(* What a step of Passive is to the flow table. *)
LEMMA FlowTableStep ==
  ASSUME Tables, [Next]_vars
  PROVE  [FTP!Next]_(FTP!vars)
<1>1. ASSUME NEW p \in Flows \cup EtherTypes, NEW ts \in Timestamps, NEW size \in Sizes,
             NEW segment \in SegmentsOf(p), process_packet(p, ts, size, segment)
      PROVE  [FTP!Next]_(FTP!vars)
  <2>1. PICK id \in FTP!FlowIds \cup {EtherTypeIds[e] : e \in EtherTypes} :
          \/ p \in Flows /\ FTP!flow_table_process_flow(p, ts, id)
          \/ UNCHANGED flow_table
    BY <1>1, PacketParts
  <2>2. CASE p \in Flows /\ FTP!flow_table_process_flow(p, ts, id)
    <3>1. Len(arrivals) < MaxArrivals /\ ~UpdateStaged
      BY <1>1 DEF process_packet, WithinPeriod, UpdateStaged
    <3>2. FTP!WithinBounds(p)
      <4>1. \A r \in FTP!UnsentSlots : r \in FTP!Slots /\ packets_seen[r] <= Len(arrivals)
        BY <3>1 DEF Tables, CycleInv, FTP!UnsentSlots
      <4>2. /\ packets_seen \in [FTP!Slots -> Nat]
            /\ Len(arrivals) \in Nat /\ MaxArrivals \in Nat
        BY TablesTyped
      <4> QED
        BY <3>1, <4>1, <4>2 DEF FTP!WithinBounds
    <3>3. id \in FTP!FlowIds
      BY <2>2, Assumptions, FTP!ProcessFlowSteps DEF FTP!FlowIds
    <3> QED
      BY <2>2, <3>2, <3>3 DEF FTP!Next
  <2>3. CASE UNCHANGED flow_table
    BY <2>3 DEF flow_table, FTP!vars, FTP!table_vars, FTP!log_vars
  <2> QED
    BY <2>1, <2>2, <2>3
<1>2. CASE write_flow_log
  BY <1>2, SameFlowSections DEF write_flow_log, FTP!Next
<1>3. CASE \E now \in Timestamps : write_sections(now)
  BY <1>3, SameFlowSections DEF write_sections, flow_section, FTP!Next
<1>4. CASE start_next_period
  <2>1. FTP!ClockReads(current_timestamp) /\ current_timestamp \in Timestamps
    BY <1>4 DEF start_next_period, Tables, CycleInv, UpdateStaged
  <2> QED
    BY <1>4, <2>1, SameFlowSections DEF start_next_period, FTP!Next
<1>5. CASE terminate \/ UNCHANGED vars
  BY <1>5 DEF terminate, vars, flow_table, FTP!vars, FTP!table_vars, FTP!log_vars
<1> QED
  BY <1>1, <1>2, <1>3, <1>4, <1>5 DEF Next

(* What it is to the packet series. *)
LEMMA SeriesStep ==
  ASSUME [Next]_vars
  PROVE  [PSP!Next]_(PSP!vars)
<1>1. ASSUME NEW p \in Flows \cup EtherTypes, NEW ts \in Timestamps, NEW size \in Sizes,
             NEW segment \in SegmentsOf(p), process_packet(p, ts, size, segment)
      PROVE  PSP!Next
  <2>1. PICK id \in FTP!FlowIds \cup {EtherTypeIds[e] : e \in EtherTypes},
             packet_id \in -1 .. PACKET_DATA_BUFFER_ENTRIES - 1 :
          PSP!packet_series_add_packet(ts * NUM_MICROS_PER_SECOND, size, id, packet_id)
    BY <1>1, PacketParts
  <2>2. Len(arrivals) < MaxArrivals
    BY <1>1 DEF process_packet, WithinPeriod
  <2>3. id \in 0 .. FLOW_TABLE_ENTRIES + FLOW_ID_FIRST_UNRESERVED - 1
    BY SeriesIds
  <2> QED
    BY <2>1, <2>2, <2>3 DEF PSP!Next
<1>2. CASE start_next_period
  BY <1>2, SameSeries DEF start_next_period, PSP!Next
<1>3. CASE UNCHANGED series
  BY <1>3 DEF series, PSP!vars, PSP!series_vars
<1> QED
  BY <1>1, <1>2, <1>3 DEF Next, vars, write_flow_log, terminate, write_sections

LEMMA CycleStep ==
  ASSUME Tables, [Next]_vars
  PROVE  CycleInv'
<1>1. ASSUME NEW p \in Flows \cup EtherTypes, NEW ts \in Timestamps, NEW size \in Sizes,
             NEW segment \in SegmentsOf(p), process_packet(p, ts, size, segment)
      PROVE  CycleInv'
  <2>1. phase = "capture" /\ phase' = "capture"
    BY <1>1 DEF process_packet
  <2>2. Len(arrivals') = Len(arrivals) + 1
    <3>1. \E id, packet_id :
            PSP!packet_series_add_packet(ts * NUM_MICROS_PER_SECOND, size, id, packet_id)
      BY <1>1, PacketParts
    <3>2. \E a : arrivals' = Append(arrivals, a)
      BY <3>1 DEF PSP!packet_series_add_packet
    <3> QED
      BY <3>2, TablesTyped
  <2>3. \A r \in FTP!UnsentSlots' : packets_seen'[r] <= Len(arrivals) + 1
    <3>1. \A r \in FTP!UnsentSlots : r \in FTP!Slots /\ packets_seen[r] <= Len(arrivals)
      BY <2>1 DEF Tables, CycleInv, UpdateStaged, FTP!UnsentSlots
    <3>2. CASE UNCHANGED flow_table
      BY <3>1, <3>2, TablesTyped
         DEF flow_table, FTP!UnsentSlots, FTP!Unsent
    <3>3. ASSUME p \in Flows, NEW id, FTP!flow_table_process_flow(p, ts, id)
          PROVE  \A r \in FTP!UnsentSlots' : packets_seen'[r] <= Len(arrivals) + 1
      <4>1. \A r \in FTP!UnsentSlots' :
              \/ packets_seen'[r] = 1
              \/ r \in FTP!UnsentSlots
                   /\ packets_seen'[r] \in {packets_seen[r], packets_seen[r] + 1}
        BY <3>3, TablesTyped, Assumptions, FTP!ProcessFlowUnsent
      <4>2. packets_seen \in [FTP!Slots -> Nat] /\ Len(arrivals) \in Nat
        BY TablesTyped
      <4>3. \A r \in FTP!UnsentSlots : packets_seen[r] \in Nat /\ packets_seen[r] <= Len(arrivals)
        BY ONLY <3>1, <4>2
      <4> QED
        BY ONLY <4>1, <4>2, <4>3
    <3> QED
      BY <1>1, <3>2, <3>3, PacketParts
  <2> QED
    BY <2>1, <2>2, <2>3 DEF CycleInv, UpdateStaged
<1>2. CASE write_flow_log \/ terminate
  <2>1. UNCHANGED <<entries, packets_seen, arrivals>>
    BY <1>2, LogLeaves DEF write_flow_log, terminate, flow_table, series
  <2> QED
    BY <1>2, <2>1 DEF write_flow_log, terminate, Tables, CycleInv, UpdateStaged,
                      FTP!UnsentSlots, FTP!Unsent
<1>3. ASSUME NEW now \in Timestamps, write_sections(now)
      PROVE  CycleInv'
  <2>1. FTP!flow_table_write_update /\ FTP!ClockReads(now)
    BY <1>3, SameFlowSections, SameFlowSets DEF write_sections, flow_section
  <2>2. FTP!UnsentSlots' = {} /\ FTP!LiveSlots' = FTP!LiveSlots
    BY <2>1, TablesTyped, Assumptions, FTP!WriteSlots
  <2>3. current_timestamp' = now /\ phase' \in {"staged", "last staged"}
        /\ UNCHANGED last_seen
    BY <1>3, <2>1 DEF write_sections, FTP!flow_table_write_update
  <2>4. FTP!ClockReads(current_timestamp)'
    BY <2>1, <2>2, <2>3 DEF FTP!ClockReads
  <2> QED
    BY <2>2, <2>3, <2>4 DEF CycleInv, UpdateStaged
<1>4. CASE start_next_period
  <2>1. FTP!flow_table_advance_base_timestamp(current_timestamp)
    BY <1>4, SameFlowSections DEF start_next_period
  <2>2. FTP!UnsentSlots = {} /\ current_timestamp \in Int
    BY <1>4, TablesTyped DEF start_next_period, Tables, CycleInv, UpdateStaged
  <2>3. FTP!UnsentSlots' = {}
    BY <2>1, <2>2, TablesTyped, Assumptions, FTP!AdvanceSlots
  <2> QED
    BY <1>4, <2>3 DEF start_next_period, CycleInv, UpdateStaged
<1>5. CASE UNCHANGED vars
  BY <1>5 DEF vars, flow_table, series, Tables, CycleInv, UpdateStaged, FTP!UnsentSlots,
              FTP!Unsent, FTP!ClockReads, FTP!LiveSlots, FTP!Live
<1> QED
  BY <1>1, <1>2, <1>3, <1>4, <1>5 DEF Next

LEMMA TablesStep == Tables /\ [Next]_vars => Tables'
<1> SUFFICES ASSUME Tables, [Next]_vars PROVE Tables'
  OBVIOUS
<1>1. FTP!StructureInv'
  BY FlowTableStep, Assumptions, FTP!StructureStep DEF Tables
<1>2. PSP!IInv'
  BY SeriesStep, Assumptions, PSP!StepIInv DEF Tables
<1> QED
  BY <1>1, <1>2, CycleStep DEF Tables

LEMMA InitTables == Init => Tables /\ FTP!Init /\ PSP!Init /\ FTP!AgesExact
<1> SUFFICES ASSUME Init PROVE Tables /\ FTP!Init /\ PSP!Init /\ FTP!AgesExact
  OBVIOUS
<1>1. FTP!Init
  BY DEF Init, FT!Init, FTP!Init, FT!flow_table_init, FTP!flow_table_init,
         FT!zeroed_entry, FTP!zeroed_entry, FT!Slots, FTP!Slots,
         FT!ENTRY_EMPTY, FTP!ENTRY_EMPTY
<1>2. PSP!Init
  BY DEF Init, PS!Init, PSP!Init
<1>3. FTP!StructureInv /\ FTP!AgesExact
  BY <1>1, Assumptions, FTP!InitStructure, FTP!InitAges
<1>4. PSP!IInv
  BY <1>2, Assumptions, PSP!EmptyIInv DEF PSP!Init
<1>5. CycleInv
  <2>1. \A s \in FTP!Slots : ~FTP!Unsent(s)
    BY <1>1 DEF FTP!Init, FTP!flow_table_init, FTP!zeroed_entry, FTP!Unsent,
                FTP!ENTRY_EMPTY, FTP!ENTRY_OCCUPIED_BUT_UNSENT
  <2> QED
    BY <2>1 DEF Init, CycleInv, UpdateStaged, FTP!UnsentSlots
<1> QED
  BY <1>1, <1>2, <1>3, <1>4, <1>5 DEF Tables

LEMMA AlwaysTables == Spec => []Tables
  BY InitTables, TablesStep, PTL DEF Spec

(***************************************************************************)
(* main.c uses the flow table and the packet series only through their     *)
(* operations and never rebases the table by a clock that lags too far:    *)
(* seen from either table alone, a run of the cycle is a run of it.        *)
(***************************************************************************)
THEOREM PassiveImplementsTables == Spec => FTP!Spec /\ PSP!Spec
<1>1. Spec => FTP!Spec
  BY InitTables, AlwaysTables, FlowTableStep, PTL DEF Spec, FTP!Spec
<1>2. Spec => PSP!Spec
  BY InitTables, SeriesStep, PTL DEF Spec, PSP!Spec
<1> QED
  BY <1>1, <1>2

(***************************************************************************)
(* The updates of a run of main.c, too, tell the server of every flow that *)
(* the table holds before a period after it refers to its id.              *)
(***************************************************************************)
THEOREM PassiveInforms == Spec => FTP!KeepsServerInformed
<1>1. FTP!Spec => FTP!KeepsServerInformed
  BY Assumptions, FTP!FlowTableInforms
<1> QED
  BY <1>1, PassiveImplementsTables

(***************************************************************************)
(* packet_series.c:11-49: the times of the packets of every update of      *)
(* main.c can be read back, and its packets kept and discarded add up.     *)
(***************************************************************************)
THEOREM PassiveSeries == Spec => [](PSP!TimesDecodable /\ PSP!EveryPacketCounted)
<1>1. PSP!Spec => [](PSP!TypeOK /\ PSP!TimesDecodable /\ PSP!EveryPacketCounted)
  BY Assumptions, PSP!PacketSeriesCorrect
<1> QED
  BY <1>1, PassiveImplementsTables, PTL

-----------------------------------------------------------------------------
(***************************************************************************)
(* handle_signals writes the flow section before it rebases the table, and *)
(* only sent flows expire: no new flow leaves the table before its record  *)
(* is written, whatever the clock does.                                    *)
(***************************************************************************)
THEOREM PassiveNoUnsentFlowLost == Spec => NoUnsentFlowLost
<1> DEFINE Kept(s) == /\ entries'[s].flow = entries[s].flow
                      /\ entries'[s].occupied
                           \in {FT!ENTRY_OCCUPIED, FT!ENTRY_OCCUPIED_BUT_UNSENT}
<1>1. ASSUME Tables, [Next]_vars, NEW s \in FTP!UnsentSlots
      PROVE  Kept(s)
  <2>1. s \in FTP!Slots /\ entries[s].occupied = FTP!ENTRY_OCCUPIED_BUT_UNSENT
    BY DEF FTP!UnsentSlots, FTP!Unsent
  <2>2. ASSUME s \in FTP!UnsentSlots', entries'[s].flow = entries[s].flow
        PROVE  Kept(s)
    BY <2>2 DEF FTP!UnsentSlots, FTP!Unsent, FT!ENTRY_OCCUPIED_BUT_UNSENT,
                FTP!ENTRY_OCCUPIED_BUT_UNSENT
  <2>3. CASE UNCHANGED entries
    BY <1>1, <2>2, <2>3 DEF FTP!UnsentSlots, FTP!Unsent
  <2>4. ASSUME NEW p \in Flows \cup EtherTypes, NEW ts \in Timestamps, NEW size \in Sizes,
               NEW segment \in SegmentsOf(p), process_packet(p, ts, size, segment)
        PROVE  Kept(s)
    <3>1. ASSUME p \in Flows, NEW id, FTP!flow_table_process_flow(p, ts, id)
          PROVE  Kept(s)
      <4>1. s \in FTP!UnsentSlots' /\ entries'[s].flow = entries[s].flow
        BY <1>1, <2>4, <3>1, TablesTyped, Assumptions, FTP!ProcessFlowUnsent
      <4> QED
        BY <2>2, <4>1
    <3> QED
      BY <2>3, <2>4, <3>1, PacketParts DEF flow_table
  <2>5. ASSUME NEW now \in Timestamps, write_sections(now)
        PROVE  Kept(s)
    <3>1. FTP!flow_table_write_update
      BY <2>5, SameFlowSections DEF write_sections, flow_section
    <3>2. entries'[s].flow = entries[s].flow /\ entries'[s].occupied = FTP!ENTRY_OCCUPIED
      BY <1>1, <3>1, TablesTyped, Assumptions, FTP!WriteEffect
    <3> QED
      BY <3>2 DEF FT!ENTRY_OCCUPIED, FTP!ENTRY_OCCUPIED
  <2>6. ~start_next_period
    BY <1>1 DEF start_next_period, Tables, CycleInv, UpdateStaged
  <2>7. CASE write_flow_log \/ terminate \/ UNCHANGED vars
    BY <2>3, <2>7, LogLeaves DEF terminate, vars, flow_table
  <2> QED
    BY <1>1, <2>4, <2>5, <2>6, <2>7 DEF Next
<1>2. Tables /\ [Next]_vars => \A s \in FT!UnsentSlots : Kept(s)
  BY <1>1, SameFlowSets
<1>3. Tables /\ [Next]_vars => [\A s \in FT!UnsentSlots : Kept(s)]_vars
  BY <1>2
<1> QED
  BY <1>3, AlwaysTables, PTL DEF Spec, NoUnsentFlowLost

-----------------------------------------------------------------------------
(***************************************************************************)
(* Attribution.  An id that a packet of the period got is that of a live   *)
(* slot with the packet's flow, whose last packet is of the period, too;   *)
(* so the slot expires for no other packet of the period.                  *)
(***************************************************************************)
Seconds(i) == arrivals[i].time \div NUM_MICROS_PER_SECOND
InPeriod(s) == \E i \in DOMAIN arrivals : last_seen[s] = Seconds(i)
Holder(p, s) == s \in FTP!LiveSlots /\ entries[s].flow = p /\ InPeriod(s)

BelongsTo(p, id) ==
  \/ p \in EtherTypes /\ id = EtherTypeIds[p]
  \/ p \in Flows /\ id = FTP!FLOW_ID_ERROR
  \/ p \in Flows /\ \E s \in FTP!Slots :
                       id = s + FLOW_ID_FIRST_UNRESERVED /\ Holder(p, s)

Attributed ==
  /\ protocols \in Seq(Flows \cup EtherTypes)
  /\ Len(protocols) = Len(arrivals)
  /\ \A i \in DOMAIN arrivals : BelongsTo(protocols[i], arrivals[i].flow)

HttpKept ==
  /\ requests \in Seq(WebFlows)
  /\ urls \in Seq(FTP!FlowIds \cup {EtherTypeIds[e] : e \in EtherTypes})
  /\ num_dropped_url_entries \in Nat
  /\ Len(urls) <= HTTP_TABLE_URL_ENTRIES
  /\ Len(urls) + num_dropped_url_entries = Len(requests)
  /\ num_dropped_url_entries > 0 => Len(urls) = HTTP_TABLE_URL_ENTRIES
  /\ \A i \in DOMAIN urls : BelongsTo(requests[i], urls[i])

(* The clock stays near the packets, and no flow expires within a period. *)
ClockOK ==
  /\ ClockStepBack <= FLOW_TABLE_MAX_UPDATE_OFFSET
  /\ PeriodSpan <= FLOW_TABLE_EXPIRATION_SECONDS

(***************************************************************************)
(* http_parser.c counts a TCP header without options twice: what it takes  *)
(* for a request in such a segment is none.  Where that happens the table  *)
(* has an entry that is no request.                                        *)
(***************************************************************************)
SegmentsOK ==
  \A segment \in Segments :
    /\ segment.header \in Nat
    /\ segment.header <= TCP_HEADER => TCP_HEADER + segment.header \notin segment.gets

LEMMA SecondsOfMicros ==
  ASSUME NEW ts \in Int, NEW n \in Nat \ {0}
  PROVE  (ts * n) \div n = ts
  OBVIOUS

(* The new packet's own time, and the times of the packets before it. *)
LEMMA PacketTimes ==
  ASSUME Tables, NEW p, NEW ts \in Timestamps, NEW size, NEW segment,
         process_packet(p, ts, size, segment)
  PROVE  /\ \E id : arrivals' = Append(arrivals, [time |-> ts * NUM_MICROS_PER_SECOND,
                                                  size |-> size, flow |-> id])
         /\ Len(arrivals') = Len(arrivals) + 1
         /\ \A i \in DOMAIN arrivals :
              i \in DOMAIN arrivals' /\ arrivals'[i] = arrivals[i] /\ Seconds(i)' = Seconds(i)
         /\ Len(arrivals') \in DOMAIN arrivals'
         /\ arrivals'[Len(arrivals')].time = ts * NUM_MICROS_PER_SECOND
         /\ Seconds(Len(arrivals))' = ts
<1>1. PICK id, packet_id :
        PSP!packet_series_add_packet(ts * NUM_MICROS_PER_SECOND, size, id, packet_id)
  BY PacketParts
<1> DEFINE a == [time |-> ts * NUM_MICROS_PER_SECOND, size |-> size, flow |-> id]
<1>2. arrivals' = Append(arrivals, a)
  BY <1>1 DEF PSP!packet_series_add_packet
<1>3. a.time = ts * NUM_MICROS_PER_SECOND
  OBVIOUS
<1> HIDE DEF a
<1>4. /\ Len(arrivals') = Len(arrivals) + 1
      /\ \A i \in DOMAIN arrivals : i \in DOMAIN arrivals' /\ arrivals'[i] = arrivals[i]
      /\ Len(arrivals') \in DOMAIN arrivals'
      /\ arrivals'[Len(arrivals')] = a
  BY <1>2, TablesTyped
<1>5. a.time \div NUM_MICROS_PER_SECOND = ts
  BY <1>3, TablesTyped, PassiveAssumption, SecondsOfMicros
<1> QED
  BY <1>2, <1>3, <1>4, <1>5 DEF Seconds, a

(* A flow of the period does not expire for another packet of it. *)
LEMMA HolderStays ==
  ASSUME Tables, FTP!AgesExact, ClockOK, NEW q, NEW s, Holder(q, s),
         NEW p, NEW ts \in Timestamps, NEW size, NEW segment,
         process_packet(p, ts, size, segment)
  PROVE  Holder(q, s)'
<1>1. PICK i \in DOMAIN arrivals : last_seen[s] = Seconds(i)
  BY DEF Holder, InPeriod
<1>2. /\ i \in DOMAIN arrivals' /\ Seconds(i)' = Seconds(i)
      /\ Len(arrivals') \in DOMAIN arrivals' /\ Seconds(Len(arrivals))' = ts
  BY <1>1, PacketTimes
<1>3. ts - last_seen[s] <= PeriodSpan
  BY <1>1, PacketParts DEF WithinPeriod, Seconds
<1>4. /\ s \in FTP!LiveSlots /\ s \in FTP!Slots /\ entries[s].flow = q
      /\ last_seen[s] \in Int /\ ts \in Int
  BY TablesTyped DEF Holder, FTP!LiveSlots, FTP!TypeOK
<1>5. last_seen[s] + FLOW_TABLE_EXPIRATION_SECONDS >= ts
  BY <1>3, <1>4, Assumptions, PassiveAssumption DEF ClockOK, FTP!FlowTableAssumption
<1>6. ASSUME s \in FTP!LiveSlots', entries'[s].flow = entries[s].flow,
             last_seen'[s] \in {last_seen[s], ts}
      PROVE  Holder(q, s)'
  <2>1. InPeriod(s)'
    BY <1>1, <1>2, <1>6, PacketTimes DEF InPeriod, Seconds
  <2> QED
    BY <1>4, <1>6, <2>1 DEF Holder
<1>7. ASSUME p \in Flows, NEW id, FTP!flow_table_process_flow(p, ts, id)
      PROVE  Holder(q, s)'
  <2>1. /\ s \in FTP!LiveSlots' /\ entries'[s].flow = entries[s].flow
        /\ last_seen'[s] \in {last_seen[s], ts}
    BY <1>4, <1>5, <1>7, TablesTyped, Assumptions, FTP!ProcessFlowKeeps
  <2> QED
    BY <1>6, <2>1
<1>8. CASE UNCHANGED flow_table
  BY <1>4, <1>6, <1>8 DEF flow_table, FTP!LiveSlots, FTP!Live
<1> QED
  BY <1>7, <1>8, PacketParts

LEMMA BelongsStays ==
  ASSUME Tables, FTP!AgesExact, ClockOK, NEW q, NEW id, BelongsTo(q, id),
         NEW p, NEW ts \in Timestamps, NEW size, NEW segment,
         process_packet(p, ts, size, segment)
  PROVE  BelongsTo(q, id)'
  BY HolderStays DEF BelongsTo

(* The packet itself gets an id of its own flow or protocol. *)
LEMMA PacketBelongs ==
  ASSUME Tables, NEW p \in Flows \cup EtherTypes, NEW ts \in Timestamps, NEW size,
         NEW segment, NEW id, process_packet(p, ts, size, segment),
         \/ p \in Flows /\ FTP!flow_table_process_flow(p, ts, id)
         \/ p \in EtherTypes /\ id = EtherTypeIds[p]
  PROVE  BelongsTo(p, id)'
<1>1. ASSUME p \in Flows, FTP!flow_table_process_flow(p, ts, id), id # FTP!FLOW_ID_ERROR
      PROVE  \E s \in FTP!Slots : id = s + FLOW_ID_FIRST_UNRESERVED /\ Holder(p, s)'
  <2>1. ts \in Int
    BY TablesTyped
  <2>2. PICK s \in FTP!Slots :
          /\ id = s + FLOW_ID_FIRST_UNRESERVED
          /\ s \in FTP!LiveSlots' /\ entries'[s].flow = p /\ last_seen'[s] = ts
    BY <1>1, <2>1, TablesTyped, Assumptions, FTP!ProcessFlowReturns
  <2>3. InPeriod(s)'
    BY <2>2, PacketTimes DEF InPeriod, Seconds
  <2> QED
    BY <2>2, <2>3 DEF Holder
<1>2. CASE p \in Flows /\ FTP!flow_table_process_flow(p, ts, id)
  BY <1>1, <1>2 DEF BelongsTo, FTP!FLOW_ID_ERROR, FTP!Slots
<1>3. CASE p \in EtherTypes /\ id = EtherTypeIds[p]
  BY <1>3 DEF BelongsTo
<1> QED
  BY <1>2, <1>3

(* Nothing changes for the other steps of a period. *)
LEMMA BelongsUnchanged ==
  ASSUME NEW p, NEW id, BelongsTo(p, id), FTP!LiveSlots' = FTP!LiveSlots,
         \A s \in FTP!LiveSlots : entries'[s].flow = entries[s].flow,
         UNCHANGED <<last_seen, arrivals>>
  PROVE  BelongsTo(p, id)'
  BY DEF BelongsTo, Holder, InPeriod, Seconds, FTP!FLOW_ID_ERROR, FTP!Slots

LEMMA PacketAttributed ==
  ASSUME Tables, FTP!AgesExact, Attributed, ClockOK,
         NEW p \in Flows \cup EtherTypes, NEW ts \in Timestamps, NEW size,
         NEW segment, process_packet(p, ts, size, segment)
  PROVE  Attributed'
<1>1. PICK id, packet_id :
        /\ \/ p \in Flows /\ FTP!flow_table_process_flow(p, ts, id)
           \/ p \in EtherTypes /\ id = EtherTypeIds[p]
        /\ PSP!packet_series_add_packet(ts * NUM_MICROS_PER_SECOND, size, id, packet_id)
  BY PacketParts
<1> DEFINE a == [time |-> ts * NUM_MICROS_PER_SECOND, size |-> size, flow |-> id]
<1>2. arrivals' = Append(arrivals, a) /\ a.flow = id
  BY <1>1 DEF PSP!packet_series_add_packet
<1> HIDE DEF a
<1>3. protocols' = Append(protocols, p)
  BY PacketParts
<1>4. /\ protocols \in Seq(Flows \cup EtherTypes) /\ Len(protocols) = Len(arrivals)
      /\ Len(arrivals) \in Nat
  BY TablesTyped DEF Attributed
<1>5. /\ protocols' \in Seq(Flows \cup EtherTypes)
      /\ Len(protocols') = Len(arrivals) + 1
      /\ protocols'[Len(arrivals) + 1] = p
      /\ \A i \in 1 .. Len(arrivals) : protocols'[i] = protocols[i]
  BY <1>3, <1>4
<1>6. /\ DOMAIN arrivals = 1 .. Len(arrivals)
      /\ DOMAIN arrivals' = 1 .. Len(arrivals) + 1
      /\ Len(arrivals') = Len(arrivals) + 1
      /\ arrivals'[Len(arrivals) + 1] = a
      /\ \A i \in 1 .. Len(arrivals) : arrivals'[i] = arrivals[i]
  BY <1>2, TablesTyped
<1>7. \A q, id1 : BelongsTo(q, id1) => BelongsTo(q, id1)'
  BY BelongsStays
<1>8. BelongsTo(p, id)'
  BY <1>1, PacketBelongs
<1>9. ASSUME NEW i \in 1 .. Len(arrivals) + 1
      PROVE  BelongsTo(protocols[i], arrivals[i].flow)'
  <2>1. ASSUME NEW q, NEW id1, q = protocols'[i], id1 = arrivals'[i].flow
        PROVE  BelongsTo(q, id1)'
    <3>1. CASE i = Len(arrivals) + 1
      BY <1>2, <1>5, <1>6, <1>8, <2>1, <3>1
    <3>2. CASE i \in 1 .. Len(arrivals)
      <4>1. BelongsTo(protocols[i], arrivals[i].flow)
        BY <1>6, <3>2 DEF Attributed
      <4>2. q = protocols[i] /\ id1 = arrivals[i].flow
        BY <1>5, <1>6, <2>1, <3>2
      <4>3. BelongsTo(q, id1)
        BY <4>1, <4>2
      <4> QED
        BY <1>7, <4>3
    <3> QED
      BY <1>4, <3>1, <3>2
  <2> QED
    BY <2>1 DEF BelongsTo, Holder, FTP!FLOW_ID_ERROR, FTP!Slots
<1> QED
  BY <1>5, <1>6, <1>9 DEF Attributed

LEMMA FoundIsRequested ==
  ASSUME SegmentsOK, NEW p, NEW segment \in SegmentsOf(p)
  PROVE  /\ Requests(segment) <=> HT!http_bytes(segment.header) \in segment.gets
         /\ Requests(segment) => p \in WebFlows
<1>1. TCP_HEADER \in Nat
  BY PassiveAssumption
<1>2. CASE p \in WebFlows
  <2>1. segment \in Segments /\ segment.header \in Nat
    BY <1>2 DEF SegmentsOf, SegmentsOK
  <2>2. segment.header > TCP_HEADER => HT!http_bytes(segment.header) = segment.header
    BY <1>1, <2>1 DEF HT!http_bytes
  <2>3. segment.header <= TCP_HEADER =>
          HT!http_bytes(segment.header) = TCP_HEADER + segment.header
    BY <1>1, <2>1 DEF HT!http_bytes
  <2>4. segment.header > TCP_HEADER \/ segment.header <= TCP_HEADER
    BY <1>1, <2>1
  <2>5. ~(segment.header > TCP_HEADER /\ segment.header <= TCP_HEADER)
    BY <1>1, <2>1
  <2> QED
    BY <1>2, <2>1, <2>2, <2>3, <2>4, <2>5 DEF Requests, SegmentsOK
<1>3. CASE p \notin WebFlows
  <2>1. segment.gets = {}
    BY <1>3 DEF SegmentsOf
  <2> QED
    BY <2>1 DEF Requests
<1> QED
  BY <1>2, <1>3

LEMMA PacketHttp ==
  ASSUME Tables, FTP!AgesExact, HttpKept, ClockOK, SegmentsOK,
         NEW p \in Flows \cup EtherTypes, NEW ts \in Timestamps, NEW size,
         NEW segment \in SegmentsOf(p), process_packet(p, ts, size, segment)
  PROVE  HttpKept'
<1>1. PICK id \in FTP!FlowIds \cup {EtherTypeIds[e] : e \in EtherTypes} :
        /\ \/ p \in Flows /\ FTP!flow_table_process_flow(p, ts, id)
           \/ p \in EtherTypes /\ id = EtherTypeIds[p]
        /\ HT!process_http_packet(segment, id)
  BY PacketParts
<1>2. requests' = IF Requests(segment) THEN Append(requests, p) ELSE requests
  BY PacketParts
<1>3. \A q, id1 : BelongsTo(q, id1) => BelongsTo(q, id1)'
  BY BelongsStays
<1>4. BelongsTo(p, id)'
  BY <1>1, PacketBelongs
<1> DEFINE Ids == FTP!FlowIds \cup {EtherTypeIds[e] : e \in EtherTypes}
<1>5. /\ requests \in Seq(WebFlows) /\ urls \in Seq(Ids)
      /\ num_dropped_url_entries \in Nat
      /\ Len(urls) <= HTTP_TABLE_URL_ENTRIES
      /\ HTTP_TABLE_URL_ENTRIES \in Nat
      /\ Len(urls) + num_dropped_url_entries = Len(requests)
      /\ num_dropped_url_entries > 0 => Len(urls) = HTTP_TABLE_URL_ENTRIES
      /\ Len(urls) \in Nat /\ Len(requests) \in Nat
  BY PassiveAssumption DEF HttpKept
<1>6. \A i \in DOMAIN urls : BelongsTo(requests[i], urls[i])
  BY DEF HttpKept
<1>7. Ids' = Ids
  BY DEF FTP!FlowIds, FTP!FLOW_ID_ERROR, FTP!Slots
<1> HIDE DEF Ids
<1>8. ASSUME requests' \in Seq(WebFlows), urls' \in Seq(Ids),
             num_dropped_url_entries' \in Nat,
             Len(urls') <= HTTP_TABLE_URL_ENTRIES,
             Len(urls') + num_dropped_url_entries' = Len(requests'),
             num_dropped_url_entries' > 0 => Len(urls') = HTTP_TABLE_URL_ENTRIES,
             \A i \in DOMAIN urls' :
               \/ requests'[i] = p /\ urls'[i] = id
               \/ i \in DOMAIN urls /\ requests'[i] = requests[i] /\ urls'[i] = urls[i]
      PROVE  HttpKept'
  <2>1. ASSUME NEW i \in DOMAIN urls'
        PROVE  BelongsTo(requests[i], urls[i])'
    <3>1. ASSUME NEW q, NEW id1, q = requests'[i], id1 = urls'[i]
          PROVE  BelongsTo(q, id1)'
      <4>1. CASE requests'[i] = p /\ urls'[i] = id
        BY <1>4, <3>1, <4>1
      <4>2. CASE i \in DOMAIN urls /\ requests'[i] = requests[i] /\ urls'[i] = urls[i]
        <5>1. BelongsTo(requests[i], urls[i])
          BY <1>6, <4>2
        <5>2. BelongsTo(q, id1)
          BY <3>1, <4>2, <5>1
        <5> QED
          BY <1>3, <5>2
      <4> QED
        BY <1>8, <4>1, <4>2
    <3> QED
      BY <3>1 DEF BelongsTo, Holder, FTP!FLOW_ID_ERROR, FTP!Slots
  <2>2. urls' \in Seq(Ids')
    BY <1>7, <1>8
  <2> QED
    BY <1>8, <2>1, <2>2 DEF HttpKept, Ids
<1>9. CASE ~Requests(segment)
  <2>1. UNCHANGED <<urls, num_dropped_url_entries, requests>>
    BY <1>1, <1>2, <1>9, FoundIsRequested DEF HT!process_http_packet
  <2> QED
    BY <1>5, <1>8, <2>1
<1>10. CASE Requests(segment)
  <2>1. p \in WebFlows /\ HT!http_table_add_url(id) /\ requests' = Append(requests, p)
    BY <1>1, <1>2, <1>10, FoundIsRequested DEF HT!process_http_packet
  <2>2. /\ requests' \in Seq(WebFlows) /\ Len(requests') = Len(requests) + 1
        /\ requests'[Len(requests) + 1] = p
        /\ \A i \in 1 .. Len(requests) : requests'[i] = requests[i]
    BY <1>5, <2>1
  <2>3. DOMAIN urls = 1 .. Len(urls) /\ Len(urls) <= Len(requests)
    BY <1>5
  <2>4. CASE Len(urls) >= HTTP_TABLE_URL_ENTRIES
    <3>1. num_dropped_url_entries' = num_dropped_url_entries + 1 /\ urls' = urls
      BY <2>1, <2>4 DEF HT!http_table_add_url
    <3>2. /\ num_dropped_url_entries' \in Nat
          /\ Len(urls') + num_dropped_url_entries' = Len(requests')
          /\ Len(urls') = HTTP_TABLE_URL_ENTRIES
          /\ urls' \in Seq(Ids)
      <4>1. Len(urls) = HTTP_TABLE_URL_ENTRIES
        BY ONLY <1>5, <2>4
      <4>2. /\ Len(requests') = Len(requests) + 1
            /\ Len(urls) + num_dropped_url_entries = Len(requests)
            /\ Len(urls) \in Nat /\ num_dropped_url_entries \in Nat
            /\ urls \in Seq(Ids)
        BY <1>5, <2>2
      <4> QED
        BY ONLY <3>1, <4>1, <4>2
    <3>3. \A i \in DOMAIN urls' :
            i \in DOMAIN urls /\ requests'[i] = requests[i] /\ urls'[i] = urls[i]
      <4>1. ASSUME NEW i \in 1 .. Len(urls)
            PROVE  i \in 1 .. Len(requests)
        <5>1. Len(urls) \in Nat /\ Len(requests) \in Nat /\ Len(urls) <= Len(requests)
          BY <1>5, <2>3
        <5> QED
          BY ONLY <5>1
      <4>2. \A i \in 1 .. Len(requests) : requests'[i] = requests[i]
        BY <2>2
      <4>3. DOMAIN urls = 1 .. Len(urls)
        BY <2>3
      <4> QED
        BY ONLY <3>1, <4>1, <4>2, <4>3
    <3> QED
      BY <1>5, <1>8, <2>2, <3>2, <3>3
  <2>5. CASE Len(urls) < HTTP_TABLE_URL_ENTRIES
    <3>1. num_dropped_url_entries' = num_dropped_url_entries /\ urls' = Append(urls, id)
      BY <1>5, <2>1, <2>5 DEF HT!http_table_add_url
    <3>2. num_dropped_url_entries = 0 /\ Len(urls) = Len(requests)
      BY <1>5, <2>5
    <3>3. id \in Ids
      BY DEF Ids
    <3>4. /\ urls' \in Seq(Ids) /\ Len(urls') = Len(urls) + 1
          /\ DOMAIN urls' = 1 .. Len(urls) + 1
          /\ urls'[Len(urls) + 1] = id
          /\ \A i \in 1 .. Len(urls) : urls'[i] = urls[i]
      BY <1>5, <3>1, <3>3
    <3>5. ASSUME NEW i \in DOMAIN urls'
          PROVE  \/ requests'[i] = p /\ urls'[i] = id
                 \/ i \in DOMAIN urls /\ requests'[i] = requests[i] /\ urls'[i] = urls[i]
      BY <1>5, <2>2, <2>3, <3>2, <3>4
    <3>6. /\ num_dropped_url_entries' \in Nat
          /\ Len(urls') + num_dropped_url_entries' = Len(requests')
          /\ Len(urls') <= HTTP_TABLE_URL_ENTRIES
          /\ ~(num_dropped_url_entries' > 0)
      BY <1>5, <2>2, <2>5, <3>1, <3>2, <3>4
    <3> QED
      BY <1>8, <2>2, <3>4, <3>5, <3>6
  <2> QED
    BY <1>5, <2>4, <2>5
<1> QED
  BY <1>9, <1>10

(* The steps within an update, before the next period, keep all ids. *)
LEMMA QuietStep ==
  ASSUME Tables,
         \/ write_flow_log \/ terminate \/ UNCHANGED vars
         \/ \E now \in Timestamps : write_sections(now)
  PROVE  /\ \A p, id : BelongsTo(p, id) => BelongsTo(p, id)'
         /\ UNCHANGED <<arrivals, protocols, requests, urls, num_dropped_url_entries>>
<1>1. UNCHANGED <<arrivals, protocols, requests, urls, num_dropped_url_entries>>
  BY DEF write_flow_log, terminate, write_sections, vars, series, http_table
<1>2. /\ FTP!LiveSlots' = FTP!LiveSlots
      /\ \A s \in FTP!LiveSlots : entries'[s].flow = entries[s].flow
      /\ UNCHANGED last_seen
  <2>1. CASE write_flow_log \/ terminate \/ UNCHANGED vars
    <3>1. UNCHANGED <<entries, last_seen>>
      BY <2>1, LogLeaves DEF terminate, vars, flow_table
    <3> QED
      BY <3>1 DEF FTP!LiveSlots, FTP!Live
  <2>2. ASSUME NEW now \in Timestamps, write_sections(now)
        PROVE  /\ FTP!LiveSlots' = FTP!LiveSlots
               /\ \A s \in FTP!LiveSlots : entries'[s].flow = entries[s].flow
               /\ UNCHANGED last_seen
    <3>1. FTP!flow_table_write_update
      BY <2>2, SameFlowSections DEF write_sections, flow_section
    <3>2. FTP!LiveSlots' = FTP!LiveSlots
      BY <3>1, TablesTyped, Assumptions, FTP!WriteSlots
    <3>3. \A s \in FTP!LiveSlots : entries'[s].flow = entries[s].flow
      BY <3>1, TablesTyped, Assumptions, FTP!WriteEffect DEF FTP!LiveSlots, FTP!UnsentSlots
    <3> QED
      BY <3>1, <3>2, <3>3 DEF FTP!flow_table_write_update
  <2> QED
    BY <2>1, <2>2
<1>3. ASSUME NEW p, NEW id, BelongsTo(p, id)
      PROVE  BelongsTo(p, id)'
  BY <1>1, <1>2, <1>3, BelongsUnchanged
<1> QED
  BY <1>1, <1>3

LEMMA AttributedStep ==
  ASSUME Tables, FTP!AgesExact, Attributed, ClockOK, [Next]_vars
  PROVE  Attributed'
<1>1. ASSUME NEW p \in Flows \cup EtherTypes, NEW ts \in Timestamps, NEW size \in Sizes,
             NEW segment \in SegmentsOf(p), process_packet(p, ts, size, segment)
      PROVE  Attributed'
  BY <1>1, PacketAttributed
<1>2. CASE start_next_period
  <2>1. arrivals' = <<>> /\ protocols' = <<>>
    BY <1>2 DEF start_next_period, PS!packet_series_init
  <2> QED
    BY <2>1 DEF Attributed
<1>3. CASE \/ write_flow_log \/ terminate \/ UNCHANGED vars
           \/ \E now \in Timestamps : write_sections(now)
  <2>1. /\ \A p, id : BelongsTo(p, id) => BelongsTo(p, id)'
        /\ UNCHANGED <<arrivals, protocols>>
    BY <1>3, QuietStep
  <2>2. ASSUME NEW i \in DOMAIN arrivals
        PROVE  BelongsTo(protocols[i], arrivals[i].flow)'
    <3>1. ASSUME NEW q, NEW id, q = protocols'[i], id = arrivals'[i].flow
          PROVE  BelongsTo(q, id)'
      <4>1. BelongsTo(protocols[i], arrivals[i].flow)
        BY DEF Attributed
      <4>2. BelongsTo(q, id)
        BY <2>1, <3>1, <4>1
      <4> QED
        BY <2>1, <4>2
    <3> QED
      BY <3>1 DEF BelongsTo, Holder, FTP!FLOW_ID_ERROR, FTP!Slots
  <2> QED
    BY <2>1, <2>2 DEF Attributed
<1> QED
  BY <1>1, <1>2, <1>3 DEF Next

LEMMA HttpStep ==
  ASSUME Tables, FTP!AgesExact, HttpKept, ClockOK, SegmentsOK, [Next]_vars
  PROVE  HttpKept'
<1>1. ASSUME NEW p \in Flows \cup EtherTypes, NEW ts \in Timestamps, NEW size \in Sizes,
             NEW segment \in SegmentsOf(p), process_packet(p, ts, size, segment)
      PROVE  HttpKept'
  BY <1>1, PacketHttp
<1>2. CASE start_next_period
  <2>1. requests' = <<>> /\ urls' = <<>> /\ num_dropped_url_entries' = 0
    BY <1>2 DEF start_next_period, HT!http_table_init
  <2> QED
    BY <2>1, PassiveAssumption DEF HttpKept
<1>3. CASE \/ write_flow_log \/ terminate \/ UNCHANGED vars
           \/ \E now \in Timestamps : write_sections(now)
  <2>1. /\ \A p, id : BelongsTo(p, id) => BelongsTo(p, id)'
        /\ UNCHANGED <<requests, urls, num_dropped_url_entries>>
    BY <1>3, QuietStep
  <2>2. ASSUME NEW i \in DOMAIN urls
        PROVE  BelongsTo(requests[i], urls[i])'
    <3>1. ASSUME NEW q, NEW id, q = requests'[i], id = urls'[i]
          PROVE  BelongsTo(q, id)'
      <4>1. BelongsTo(requests[i], urls[i])
        BY DEF HttpKept
      <4>2. BelongsTo(q, id)
        BY <2>1, <3>1, <4>1
      <4> QED
        BY <2>1, <4>2
    <3> QED
      BY <3>1 DEF BelongsTo, Holder, FTP!FLOW_ID_ERROR, FTP!Slots
  <2>3. (FTP!FlowIds \cup {EtherTypeIds[e] : e \in EtherTypes})'
          = FTP!FlowIds \cup {EtherTypeIds[e] : e \in EtherTypes}
    BY DEF FTP!FlowIds, FTP!FLOW_ID_ERROR, FTP!Slots
  <2> QED
    BY <2>1, <2>2, <2>3 DEF HttpKept
<1> QED
  BY <1>1, <1>2, <1>3 DEF Next

(* The server resolves an id that was sent to whom it belongs. *)
LEMMA Resolved ==
  ASSUME Tables, UpdateStaged, NEW p, NEW id, BelongsTo(p, id),
         id # FTP!FLOW_ID_ERROR
  PROVE  p \in ServerResolves(id)
<1>1. FLOW_ID_FIRST_UNRESERVED \in Nat
  BY TablesTyped
<1>2. CASE p \in EtherTypes /\ id = EtherTypeIds[p]
  <2>1. ~(id >= FLOW_ID_FIRST_UNRESERVED)
    BY <1>1, <1>2, PassiveAssumption
  <2> QED
    BY <1>2, <2>1 DEF ServerResolves
<1>3. ASSUME NEW s \in FTP!Slots, id = s + FLOW_ID_FIRST_UNRESERVED, Holder(p, s)
      PROVE  p \in ServerResolves(id)
  <2>1. s \in Nat
    BY TablesTyped DEF FTP!Slots
  <2>2. id >= FLOW_ID_FIRST_UNRESERVED /\ id - FLOW_ID_FIRST_UNRESERVED = s
    BY <1>1, <1>3, <2>1
  <2>3. entries[s].occupied = FTP!ENTRY_OCCUPIED
    <3>1. s \notin FTP!UnsentSlots
      BY DEF Tables, CycleInv
    <3> QED
      BY <1>3, <3>1 DEF Holder, FTP!LiveSlots, FTP!Live, FTP!UnsentSlots, FTP!Unsent
  <2>4. server[s] = entries[s].flow
    BY <2>3 DEF Tables, FTP!StructureInv, FTP!ServerKnowsSentFlows
  <2> QED
    BY <1>3, <2>2, <2>4 DEF ServerResolves, Holder
<1> QED
  BY <1>2, <1>3 DEF BelongsTo

LEMMA Uint16Id ==
  ASSUME NEW max \in Nat, NEW id \in 0 .. max
  PROVE  id % (max + 1) = id
  OBVIOUS

(***************************************************************************)
(* main.c:150-262, 476-536: as long as no flow can expire between two      *)
(* packets of a period and the clock does not step back further than an    *)
(* offset reaches, the server resolves every packet of every update.       *)
(***************************************************************************)
THEOREM PassiveAttributes ==
  ASSUME ClockOK
  PROVE  Spec => []PacketsAttributed
<1>1. Init => Attributed
  BY DEF Init, PS!Init, Attributed
<1>2. Tables /\ FTP!AgesExact /\ Attributed /\ [Next]_vars
        => FTP!AgesExact' /\ Attributed'
  <2> SUFFICES ASSUME Tables, FTP!AgesExact, Attributed, [Next]_vars
               PROVE  FTP!AgesExact' /\ Attributed'
    OBVIOUS
  <2>1. FTP!AgesExact'
    BY FlowTableStep, Assumptions, FTP!AgesStep DEF Tables, FTP!StructureInv, ClockOK
  <2> QED
    BY <2>1, AttributedStep
<1>3. Tables /\ Attributed => PacketsAttributed
  <2> SUFFICES ASSUME Tables, Attributed, UpdateStaged, NEW i \in 1 .. Len(packet_data),
                      PS!WrittenFlow(i) \notin {-1, FT!FLOW_ID_ERROR}
               PROVE  protocols[i] \in ServerResolves(PS!WrittenFlow(i))
    BY DEF PacketsAttributed
  <2>1. /\ packet_data[i].flow = PSP!to_uint16(arrivals[i].flow)
        /\ Len(packet_data) <= Len(arrivals)
        /\ Len(packet_data) \in Nat
    BY DEF Tables, PSP!IInv, PSP!EveryPacketCounted, PSP!TypeOK
  <2>2. i \in DOMAIN arrivals
    BY <2>1, TablesTyped
  <2>3. arrivals[i].flow \in 0 .. UINT16_MAX /\ UINT16_MAX \in Nat
    <3> DEFINE times == {ts * NUM_MICROS_PER_SECOND : ts \in Timestamps}
               ids == 0 .. FLOW_TABLE_ENTRIES + FLOW_ID_FIRST_UNRESERVED - 1
               arrival_t == [time: times, size: Sizes, flow: ids]
    <3>1. arrivals \in Seq(arrival_t)
      BY TablesTyped
    <3>2. /\ UINT16_MAX \in Nat
          /\ FLOW_TABLE_ENTRIES + FLOW_ID_FIRST_UNRESERVED - 1 <= UINT16_MAX
          /\ FLOW_TABLE_ENTRIES + FLOW_ID_FIRST_UNRESERVED - 1 \in Int
      BY Assumptions, TablesTyped, PassiveAssumption DEF PSP!PacketSeriesAssumption
    <3>3. ids \subseteq 0 .. UINT16_MAX
      BY <3>2
    <3> HIDE DEF times, ids, arrival_t
    <3>4. arrivals[i] \in arrival_t
      BY <2>2, <3>1
    <3>5. arrivals[i].flow \in ids
      BY <3>4 DEF arrival_t
    <3> QED
      BY <3>2, <3>3, <3>5
  <2>4. packet_data[i].flow = arrivals[i].flow
    BY <2>1, <2>3, Uint16Id DEF PSP!to_uint16
  <2>5. PS!WrittenFlow(i) = arrivals[i].flow /\ arrivals[i].flow # FTP!FLOW_ID_ERROR
    BY <2>4, SameFlowSets DEF PS!WrittenFlow
  <2>6. BelongsTo(protocols[i], arrivals[i].flow)
    BY <2>2 DEF Attributed
  <2> QED
    BY <2>5, <2>6, Resolved
<1>4. Spec => [](FTP!AgesExact /\ Attributed)
  BY <1>1, <1>2, InitTables, AlwaysTables, PTL DEF Spec
<1> QED
  BY <1>3, <1>4, AlwaysTables, PTL

(***************************************************************************)
(* http_table.c, main.c:102-148: under the same conditions the requests of *)
(* a period are in its update under ids that resolve to their flows, the   *)
(* first of them, and the others are counted.                              *)
(***************************************************************************)
THEOREM PassiveAttributesHttp ==
  ASSUME ClockOK, SegmentsOK
  PROVE  Spec => []HttpAttributed
<1>1. Init => HttpKept
  BY PassiveAssumption DEF Init, HT!Init, HttpKept
<1>2. Tables /\ FTP!AgesExact /\ HttpKept /\ [Next]_vars
        => FTP!AgesExact' /\ HttpKept'
  <2> SUFFICES ASSUME Tables, FTP!AgesExact, HttpKept, [Next]_vars
               PROVE  FTP!AgesExact' /\ HttpKept'
    OBVIOUS
  <2>1. FTP!AgesExact'
    BY FlowTableStep, Assumptions, FTP!AgesStep DEF Tables, FTP!StructureInv, ClockOK
  <2> QED
    BY <2>1, HttpStep
<1>3. Tables /\ HttpKept => HttpAttributed
  <2> SUFFICES ASSUME Tables, HttpKept, UpdateStaged
               PROVE  HttpAttributed
    BY DEF HttpAttributed
  <2>1. ASSUME NEW i \in DOMAIN urls
        PROVE  urls[i] = FT!FLOW_ID_ERROR \/ requests[i] \in ServerResolves(urls[i])
    BY Resolved, SameFlowSets DEF HttpKept
  <2> QED
    BY <2>1 DEF HttpKept, HttpAttributed
<1>4. Spec => [](FTP!AgesExact /\ HttpKept)
  BY <1>1, <1>2, InitTables, AlwaysTables, PTL DEF Spec
<1> QED
  BY <1>3, <1>4, AlwaysTables, PTL

-----------------------------------------------------------------------------
(* Quotient and remainder exist. *)
LEMMA Division ==
  ASSUME NEW n \in Int, NEW d \in Nat \ {0}
  PROVE  /\ n \div d \in Int /\ n % d \in 0 .. d - 1
         /\ n = d * (n \div d) + (n % d)
  OBVIOUS

(* Counting one more after a counter has wrapped. *)
LEMMA OneMore ==
  ASSUME NEW c \in Nat, NEW d \in Nat \ {0}
  PROVE  ((c % d) + 1) % d = (c + 1) % d
<1> DEFINE r == c % d
           s == (c + 1) % d
           q == c \div d
           p == (c + 1) \div d
<1>1. r \in 0 .. d - 1 /\ q \in Int /\ c = d * q + r
  BY Division
<1>2. s \in 0 .. d - 1 /\ p \in Int /\ c + 1 = d * p + s
  BY Division
<1> HIDE DEF r, s, q, p
<1>3. d * (p - q) = r + 1 - s
  BY <1>1, <1>2
<1>4. p - q \in {0, 1}
  <2>1. p - q \in Int /\ r + 1 - s \in 2 - d .. d
    BY <1>1, <1>2
  <2>2. ~(p - q >= 2)
    BY <1>3, <2>1
  <2>3. ~(p - q <= -1)
    BY <1>3, <2>1
  <2> QED
    BY <2>1, <2>2, <2>3
<1>5. CASE p - q = 0
  <2>1. s = r + 1
    BY <1>1, <1>2, <1>3, <1>5
  <2>2. (r + 1) % d = r + 1
    BY <1>1, <1>2, <2>1
  <2> QED
    BY <2>1, <2>2 DEF r, s
<1>6. CASE p - q = 1
  <2>1. r + 1 = d + s
    BY <1>1, <1>2, <1>3, <1>6
  <2>2. s = 0 /\ r + 1 = d
    BY <1>1, <1>2, <2>1
  <2>3. (r + 1) % d = 0
    BY <2>2
  <2> QED
    BY <2>2, <2>3 DEF r, s
<1> QED
  BY <1>4, <1>5, <1>6

(* The packets of the period that found the series full, by bucket. *)
LostPackets(idx) ==
  {i \in Len(packet_data) + 1 .. Len(arrivals) : DS!bucket(arrivals[i].size) = idx}

Histogram ==
  /\ packet_sizes \in [DS!Buckets -> 0 .. UINT32_MAX]
  /\ carried \in [DS!Buckets -> 0 .. UINT32_MAX]
  /\ HistogramExact

LEMMA LostFinite ==
  ASSUME Tables, NEW idx
  PROVE  /\ IsFiniteSet(LostPackets(idx))
         /\ Lost(idx) = Cardinality(LostPackets(idx)) /\ Lost(idx) \in Nat
<1>1. Len(packet_data) \in Nat /\ Len(arrivals) \in Nat
  BY TablesTyped DEF Tables, PSP!IInv, PSP!TypeOK
<1>2. IsFiniteSet(Len(packet_data) + 1 .. Len(arrivals))
  BY <1>1, FS_Interval
<1>3. IsFiniteSet(LostPackets(idx))
  BY <1>2, FS_Subset DEF LostPackets
<1>4. Cardinality(LostPackets(idx)) \in Nat
  BY <1>3, FS_CardinalityType
<1> QED
  BY <1>3, <1>4 DEF Lost, LostPackets

(* A series with room has lost no packet of the period. *)
LEMMA NothingLost ==
  ASSUME Tables, ~PSP!IsFull
  PROVE  Len(packet_data) = Len(arrivals)
BY TablesTyped, Assumptions
   DEF Tables, PSP!IInv, PSP!TypeOK, PSP!EveryPacketCounted, PSP!PacketSeriesAssumption

LEMMA PacketHistogram ==
  ASSUME Tables, Tables', Histogram, NEW p, NEW ts \in Timestamps, NEW size \in Sizes,
         NEW segment, process_packet(p, ts, size, segment)
  PROVE  Histogram'
<1> DEFINE M == UINT32_MAX + 1
<1>1. PICK id, packet_id :
        /\ PSP!packet_series_add_packet(ts * NUM_MICROS_PER_SECOND, size, id, packet_id)
        /\ count_drop(packet_id, size)
  BY PacketParts
<1>2. UNCHANGED carried
  BY DEF process_packet
<1>3. /\ UINT32_MAX \in Nat /\ M \in Nat \ {0} /\ M - 1 = UINT32_MAX
      /\ DROP_STATISTICS_MAXIMUM_PACKET_SIZE \in Nat
      /\ size \in Nat
  BY Assumptions, PassiveAssumption DEF PSP!PacketSeriesAssumption
<1>4. DS!bucket(size) \in DS!Buckets
  BY <1>3 DEF DS!bucket, DS!Buckets
<1>5. /\ Len(packet_data) \in Nat /\ Len(arrivals) \in Nat
      /\ Len(packet_data) <= Len(arrivals)
      /\ Len(arrivals') = Len(arrivals) + 1
      /\ \A i \in 1 .. Len(arrivals) : arrivals'[i] = arrivals[i]
      /\ arrivals'[Len(arrivals) + 1].size = size
  <2> DEFINE a == [time |-> ts * NUM_MICROS_PER_SECOND, size |-> size, flow |-> id]
  <2>1. arrivals' = Append(arrivals, a)
    BY <1>1 DEF PSP!packet_series_add_packet
  <2>2. a.size = size
    OBVIOUS
  <2> HIDE DEF a
  <2>3. /\ Len(arrivals') = Len(arrivals) + 1
        /\ \A i \in 1 .. Len(arrivals) : arrivals'[i] = arrivals[i]
        /\ arrivals'[Len(arrivals) + 1] = a
    BY <2>1, TablesTyped
  <2> QED
    BY <2>2, <2>3, TablesTyped DEF Tables, PSP!IInv, PSP!TypeOK, PSP!EveryPacketCounted
<1> HIDE DEF M
<1>6. CASE PSP!discard_packet /\ packet_id = -1
  <2>1. packet_sizes' = [packet_sizes EXCEPT ![DS!bucket(size)] = (@ + 1) % M]
    BY <1>1, <1>6 DEF count_drop, packet_lost, DS!drop_statistics_process_packet, M
  <2>2. UNCHANGED packet_data
    BY <1>6 DEF PSP!discard_packet
  <2>3. ASSUME NEW idx \in DS!Buckets
        PROVE  /\ idx = DS!bucket(size) => Lost(idx)' = Lost(idx) + 1
               /\ idx # DS!bucket(size) => Lost(idx)' = Lost(idx)
    <3> DEFINE i == Len(arrivals) + 1
    <3>1. LostPackets(idx)' = IF idx = DS!bucket(size) THEN LostPackets(idx) \cup {i}
                              ELSE LostPackets(idx)
      <4>1. Len(packet_data) + 1 .. Len(arrivals')
              = (Len(packet_data) + 1 .. Len(arrivals)) \cup {i}
        BY <1>5
      <4>2. \A j \in Len(packet_data) + 1 .. Len(arrivals) : arrivals'[j] = arrivals[j]
        BY <1>5
      <4> QED
        BY <1>5, <2>2, <4>1, <4>2 DEF LostPackets, DS!bucket
    <3>2. i \notin LostPackets(idx)
      BY <1>5 DEF LostPackets
    <3>3. /\ Lost(idx) = Cardinality(LostPackets(idx))
          /\ Lost(idx)' = Cardinality(LostPackets(idx)')
      <4>1. Lost(idx)' = Cardinality(LostPackets(idx)')
        BY DEF Lost, LostPackets
      <4> QED
        BY <4>1, LostFinite
    <3>4. Cardinality(LostPackets(idx) \cup {i}) = Cardinality(LostPackets(idx)) + 1
      BY <3>2, LostFinite, FS_AddElement
    <3> QED
      BY <3>1, <3>3, <3>4
  <2>4. packet_sizes' \in [DS!Buckets -> 0 .. UINT32_MAX]
    <3> DEFINE n == packet_sizes[DS!bucket(size)] + 1
    <3>0. n \in Int
      BY <1>3, <1>4 DEF Histogram
    <3> HIDE DEF n
    <3>1. n % M \in 0 .. M - 1
      BY <1>3, <3>0, Division
    <3> QED
      BY <1>3, <2>1, <3>1 DEF Histogram, n
  <2>5. ASSUME NEW idx \in DS!Buckets
        PROVE  packet_sizes'[idx] = (carried'[idx] + Lost(idx)') % M
    <3>1. packet_sizes[idx] = ((carried[idx] + Lost(idx)) % M)
      BY DEF Histogram, HistogramExact, M
    <3>2. carried[idx] \in Nat /\ Lost(idx) \in Nat
      BY <1>3, LostFinite DEF Histogram
    <3>3. CASE idx = DS!bucket(size)
      <4>1. packet_sizes'[idx] = ((packet_sizes[idx] + 1) % M)
        BY <1>4, <2>1, <3>3 DEF Histogram
      <4>2. (((carried[idx] + Lost(idx)) % M) + 1) % M = (carried[idx] + Lost(idx) + 1) % M
        <5> DEFINE c == carried[idx] + Lost(idx)
        <5>1. c \in Nat
          BY <3>2
        <5> HIDE DEF c
        <5>2. ((c % M) + 1) % M = (c + 1) % M
          BY <1>3, <5>1, OneMore
        <5> QED
          BY <5>2 DEF c
      <4> QED
        BY <1>2, <2>3, <3>1, <3>2, <3>3, <4>1, <4>2
    <3>4. CASE idx # DS!bucket(size)
      BY <1>2, <2>1, <2>3, <3>1, <3>4 DEF Histogram
    <3> QED
      BY <3>3, <3>4
  <2> QED
    BY <1>2, <2>4, <2>5 DEF Histogram, HistogramExact, M, DS!Buckets
<1>7. CASE PSP!append_packet(ts * NUM_MICROS_PER_SECOND, size, id)
             /\ packet_id = Len(packet_data)
  <2>1. UNCHANGED packet_sizes
    BY <1>1, <1>5, <1>7 DEF count_drop, packet_lost
  <2>2. /\ Len(packet_data) = Len(arrivals)
        /\ Len(packet_data') = Len(packet_data) + 1
    <3>1. Len(packet_data) = Len(arrivals)
      BY <1>7, NothingLost DEF PSP!append_packet
    <3>2. \E r : packet_data' = Append(packet_data, r)
      BY <1>7 DEF PSP!append_packet
    <3>3. Len(packet_data') = Len(packet_data) + 1
      BY <3>2 DEF Tables, PSP!IInv, PSP!TypeOK
    <3> QED
      BY <3>1, <3>3
  <2>3. ASSUME NEW idx
        PROVE  Lost(idx) = 0 /\ Lost(idx)' = 0
    <3>1. LostPackets(idx) = {} /\ LostPackets(idx)' = {}
      BY <1>5, <2>2 DEF LostPackets
    <3> QED
      BY <3>1, FS_EmptySet DEF Lost, LostPackets
  <2> QED
    BY <1>2, <2>1, <2>3 DEF Histogram, HistogramExact, DS!Buckets
<1> QED
  BY <1>1, <1>6, <1>7 DEF PSP!packet_series_add_packet

(* At the start of a period the histogram is what was carried over. *)
Fresh ==
  /\ packet_sizes \in [DS!Buckets -> 0 .. UINT32_MAX]
  /\ carried = packet_sizes
  /\ packet_data = <<>> /\ arrivals = <<>>

LEMMA FreshHistogram == Fresh => Histogram
<1> SUFFICES ASSUME Fresh PROVE Histogram
  OBVIOUS
<1>1. UINT32_MAX \in Nat
  BY Assumptions DEF PSP!PacketSeriesAssumption
<1>2. ASSUME NEW idx \in DS!Buckets
      PROVE  packet_sizes[idx] = (carried[idx] + Lost(idx)) % (UINT32_MAX + 1)
  <2>1. LostPackets(idx) = {}
    <3>1. Len(packet_data) = 0 /\ Len(arrivals) = 0
      BY DEF Fresh
    <3> QED
      BY <3>1 DEF LostPackets
  <2>2. Lost(idx) = 0
    BY <2>1, FS_EmptySet DEF Lost, LostPackets
  <2>3. packet_sizes[idx] \in 0 .. UINT32_MAX /\ carried[idx] = packet_sizes[idx]
    BY DEF Fresh
  <2>4. packet_sizes[idx] % (UINT32_MAX + 1) = packet_sizes[idx]
    BY <1>1, <2>3, Uint16Id
  <2> QED
    BY <2>2, <2>3, <2>4
<1> QED
  BY <1>2 DEF Fresh, Histogram, HistogramExact

LEMMA AlwaysHistogram == Spec => []Histogram
<1>1. Init => Histogram
  <2> SUFFICES ASSUME Init PROVE Histogram
    OBVIOUS
  <2>1. UINT32_MAX \in Nat
    BY Assumptions DEF PSP!PacketSeriesAssumption
  <2>2. packet_sizes \in [DS!Buckets -> 0 .. UINT32_MAX]
    BY <2>1 DEF Init, DS!Init
  <2> QED
    BY <2>2, FreshHistogram DEF Fresh, Init, PS!Init
<1>2. Tables /\ Tables' /\ Histogram /\ (Fresh => Histogram)' /\ [Next]_vars => Histogram'
  <2> SUFFICES ASSUME Tables, Tables', Histogram, (Fresh => Histogram)', [Next]_vars
               PROVE  Histogram'
    OBVIOUS
  <2>1. CASE start_next_period
    <3>1. packet_sizes' \in [DS!Buckets -> 0 .. UINT32_MAX]
      <4>1. UINT32_MAX \in Nat
        BY Assumptions DEF PSP!PacketSeriesAssumption
      <4>2. packet_sizes' = [idx \in DS!Buckets |->
                              IF idx < RESET_BUCKETS THEN 0 ELSE packet_sizes[idx]]
        BY <2>1 DEF start_next_period, DS!drop_statistics_init
      <4>3. packet_sizes \in [DS!Buckets -> 0 .. UINT32_MAX]
        BY DEF Histogram
      <4> QED
        BY ONLY <4>1, <4>2, <4>3
    <3>2. carried' = packet_sizes' /\ packet_data' = <<>> /\ arrivals' = <<>>
      BY <2>1 DEF start_next_period, PS!packet_series_init
    <3>3. DS!Buckets' = DS!Buckets
      BY DEF DS!Buckets
    <3> QED
      BY <3>1, <3>2, <3>3 DEF Fresh
  <2>2. CASE \/ write_flow_log \/ terminate \/ UNCHANGED vars
             \/ \E now \in Timestamps : write_sections(now)
    <3>1. UNCHANGED <<packet_sizes, carried, packet_data, arrivals>>
      BY <2>2 DEF write_flow_log, terminate, vars, write_sections, series
    <3> QED
      BY <3>1 DEF Histogram, HistogramExact, Lost, DS!Buckets, DS!bucket
  <2> QED
    BY <2>1, <2>2, PacketHistogram DEF Next
<1> QED
  BY <1>1, <1>2, FreshHistogram, AlwaysTables, PTL DEF Spec

(***************************************************************************)
(* main.c:253-261, drop_statistics.c: whatever the number of drops and of  *)
(* periods, the histogram counts the packets that found the series full,   *)
(* each in the bucket of its size, on top of what the period began with.   *)
(***************************************************************************)
THEOREM PassiveHistogram == Spec => []HistogramExact
<1>1. Histogram => HistogramExact
  BY DEF Histogram
<1> QED
  BY <1>1, AlwaysHistogram, PTL

(* A bucket that the memset clears counts the drops of its own period. *)
ClearedBucketsExact ==
  \A idx \in DS!Buckets :
    idx < RESET_BUCKETS => packet_sizes[idx] = Lost(idx) % (UINT32_MAX + 1)

(* Where the memset reaches, nothing is carried into the period. *)
Cleared == \A idx \in DS!Buckets : idx < RESET_BUCKETS => carried[idx] = 0

LEMMA InitCleared == Init => Cleared
  BY DEF Init, DS!Init, Cleared

LEMMA StepCleared == Cleared /\ [Next]_vars => Cleared'
<1> SUFFICES ASSUME Cleared, [Next]_vars PROVE Cleared'
  OBVIOUS
<1>1. CASE start_next_period
  <2>1. \A idx \in DS!Buckets : idx < RESET_BUCKETS => packet_sizes'[idx] = 0
    BY <1>1 DEF start_next_period, DS!drop_statistics_init
  <2>2. carried' = packet_sizes'
    BY <1>1 DEF start_next_period
  <2> QED
    BY <2>1, <2>2 DEF Cleared, DS!Buckets
<1>2. CASE ~start_next_period
  <2>1. carried' = carried
    BY <1>2 DEF Next, process_packet, write_flow_log, terminate, write_sections, vars
  <2> QED
    BY <2>1 DEF Cleared, DS!Buckets
<1> QED
  BY <1>1, <1>2

(***************************************************************************)
(* drop_statistics.c:7-9: the memset has the size of the pointer; as far   *)
(* as it reaches, and whatever the traffic, the buckets count the drops of *)
(* the period of their update, as the server takes them to.                *)
(***************************************************************************)
THEOREM PassiveDropsCleared == Spec => []ClearedBucketsExact
<1>1. Tables /\ Cleared /\ HistogramExact => ClearedBucketsExact
  <2> SUFFICES ASSUME Tables, Cleared, HistogramExact, NEW idx \in DS!Buckets,
                      idx < RESET_BUCKETS
               PROVE  packet_sizes[idx] = Lost(idx) % (UINT32_MAX + 1)
    BY DEF ClearedBucketsExact
  <2>1. packet_sizes[idx] = (carried[idx] + Lost(idx)) % (UINT32_MAX + 1)
    BY DEF HistogramExact
  <2>2. carried[idx] = 0 /\ Lost(idx) \in Nat
    BY LostFinite DEF Cleared
  <2>3. carried[idx] + Lost(idx) = Lost(idx)
    BY <2>2
  <2> QED
    BY <2>1, <2>3
<1>2. Spec => []Cleared
  BY InitCleared, StepCleared, PTL DEF Spec
<1> QED
  BY <1>1, <1>2, AlwaysTables, PassiveHistogram, PTL

-----------------------------------------------------------------------------
LEMMA SameTypes == FT!TypeOK = FTP!TypeOK /\ PS!TypeOK = PSP!TypeOK
<1>1. FT!TypeOK = FTP!TypeOK
  BY DEF FT!TypeOK, FTP!TypeOK, FT!flow_table_entry_t, FTP!flow_table_entry_t, FT!Slots, FTP!Slots,
         FT!Int16, FTP!Int16, FT!ENTRY_EMPTY, FTP!ENTRY_EMPTY,
         FT!ENTRY_OCCUPIED, FTP!ENTRY_OCCUPIED,
         FT!ENTRY_OCCUPIED_BUT_UNSENT, FTP!ENTRY_OCCUPIED_BUT_UNSENT,
         FT!ENTRY_DELETED, FTP!ENTRY_DELETED
<1>2. PS!TypeOK = PSP!TypeOK
  BY DEF PS!TypeOK, PSP!TypeOK, PS!packet_data_t, PSP!packet_data_t, PS!Int32, PSP!Int32
<1> QED
  BY <1>1, <1>2

Typed ==
  /\ urls \in Seq(Nat) /\ Len(urls) <= HTTP_TABLE_URL_ENTRIES
  /\ num_dropped_url_entries \in Nat
  /\ current_timestamp \in Timestamps \cup {0}
  /\ protocols \in Seq(Flows \cup EtherTypes)
  /\ requests \in Seq(WebFlows)

LEMMA PacketTyped ==
  ASSUME Typed, NEW p \in Flows \cup EtherTypes, NEW ts \in Timestamps, NEW size,
         NEW segment \in SegmentsOf(p), process_packet(p, ts, size, segment)
  PROVE  Typed'
<1>1. PICK id \in FTP!FlowIds \cup {EtherTypeIds[e] : e \in EtherTypes} :
        HT!process_http_packet(segment, id)
  BY PacketParts
<1>2. id \in Nat
  <2>1. FLOW_TABLE_ENTRIES \in Nat /\ FLOW_ID_FIRST_UNRESERVED \in Nat
    BY Assumptions DEF FTP!FlowTableAssumption
  <2> QED
    BY <2>1, SeriesIds
<1>3. /\ urls' \in Seq(Nat) /\ Len(urls') <= HTTP_TABLE_URL_ENTRIES
      /\ num_dropped_url_entries' \in Nat
  <2>1. HTTP_TABLE_URL_ENTRIES \in Nat
    BY PassiveAssumption
  <2>2. CASE UNCHANGED <<urls, num_dropped_url_entries>>
    BY <2>2 DEF Typed
  <2>3. CASE HT!http_table_add_url(id)
    <3>1. CASE Len(urls) >= HTTP_TABLE_URL_ENTRIES
      BY <2>1, <2>3, <3>1 DEF Typed, HT!http_table_add_url
    <3>2. CASE ~(Len(urls) >= HTTP_TABLE_URL_ENTRIES)
      <4>1. urls' = Append(urls, id) /\ UNCHANGED num_dropped_url_entries
        BY <2>3, <3>2 DEF HT!http_table_add_url
      <4>2. urls' \in Seq(Nat) /\ Len(urls') = Len(urls) + 1
        BY <1>2, <4>1 DEF Typed
      <4>3. Len(urls) \in Nat
        BY DEF Typed
      <4> QED
        BY <2>1, <3>2, <4>1, <4>2, <4>3 DEF Typed
    <3> QED
      BY <3>1, <3>2
  <2> QED
    BY <1>1, <2>2, <2>3 DEF HT!process_http_packet
<1>4. protocols' \in Seq(Flows \cup EtherTypes)
  <2>1. protocols' = Append(protocols, p)
    BY PacketParts
  <2> QED
    BY <2>1 DEF Typed
<1>5. requests' \in Seq(WebFlows)
  <2>1. CASE Requests(segment)
    <3>1. p \in WebFlows
      <4>1. TCP_HEADER \in Nat
        BY PassiveAssumption
      <4> QED
        BY <2>1, <4>1 DEF SegmentsOf, Requests
    <3>2. requests' = Append(requests, p)
      BY <2>1, PacketParts
    <3> QED
      BY <3>1, <3>2 DEF Typed
  <2>2. CASE ~Requests(segment)
    BY <2>2, PacketParts DEF Typed
  <2> QED
    BY <2>1, <2>2
<1>6. UNCHANGED current_timestamp
  BY DEF process_packet
<1> QED
  BY <1>3, <1>4, <1>5, <1>6 DEF Typed

(* The variables of the whole cycle keep their types. *)
THEOREM PassiveTypes == Spec => []TypeOK
<1>1. Init => Typed
  <2> SUFFICES ASSUME Init PROVE Typed
    OBVIOUS
  <2>1. HTTP_TABLE_URL_ENTRIES \in Nat
    BY PassiveAssumption
  <2> QED
    BY <2>1 DEF Init, HT!Init, Typed
<1>2. Typed /\ [Next]_vars => Typed'
  <2> SUFFICES ASSUME Typed, [Next]_vars PROVE Typed'
    OBVIOUS
  <2>1. CASE start_next_period
    <3>1. HTTP_TABLE_URL_ENTRIES \in Nat
      BY PassiveAssumption
    <3>2. /\ urls' = <<>> /\ protocols' = <<>> /\ requests' = <<>>
          /\ num_dropped_url_entries' = 0 /\ current_timestamp' = 0
      BY <2>1 DEF start_next_period, HT!http_table_init
    <3>3. Len(urls') = 0
      BY <3>2
    <3>4. urls' \in Seq(Nat) /\ protocols' \in Seq(Flows \cup EtherTypes)
            /\ requests' \in Seq(WebFlows)
      BY <3>2
    <3> QED
      BY <3>1, <3>2, <3>3, <3>4 DEF Typed
  <2>2. CASE write_flow_log \/ terminate \/ UNCHANGED vars
    BY <2>2 DEF write_flow_log, terminate, vars, http_table, Typed
  <2>3. ASSUME NEW now \in Timestamps, write_sections(now)
        PROVE  Typed'
    BY <2>3 DEF write_sections, http_table, Typed
  <2> QED
    BY <2>1, <2>2, <2>3, PacketTyped DEF Next
<1>3. Tables /\ Histogram /\ Typed => TypeOK
  <2> SUFFICES ASSUME Tables, Histogram, Typed PROVE TypeOK
    OBVIOUS
  <2>1. FT!TypeOK /\ PS!TypeOK
    BY SameTypes DEF Tables, FTP!StructureInv, PSP!IInv
  <2>2. HT!TypeOK
    BY DEF Typed, HT!TypeOK
  <2> QED
    BY <2>1, <2>2 DEF TypeOK, Tables, CycleInv, Histogram, Typed
<1> QED
  BY <1>1, <1>2, <1>3, AlwaysTables, AlwaysHistogram, PTL DEF Spec
=============================================================================
