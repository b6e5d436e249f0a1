------------------------------ MODULE Passive ------------------------------
(***************************************************************************)
(* The capture and update cycle of bismark-passive (main.c) over its flow  *)
(* table, packet series, drop statistics and table of URLs.                *)
(* process_packet files each packet, and the URL a packet requests, under  *)
(* the id of its flow; an update sends the packets and requests of the     *)
(* period with those ids and a record of every new flow; the server        *)
(* resolves an id from the last record it got for it.                      *)
(*                                                                         *)
(* Packets and handlers are atomic here: SignalHandlers is about the       *)
(* steps inside them.  An update takes the steps write_flow_log,           *)
(* write_sections and start_next_period, between which the handler does    *)
(* not return to the capture loop.                                         *)
(***************************************************************************)
EXTENDS Integers, Sequences, FiniteSets

CONSTANTS
  Flows, NoFlow, hash, UINT32_MAX, DoubleOverflow, FLOW_TABLE_ENTRIES,
  HT_NUM_PROBES, FLOW_ID_FIRST_UNRESERVED, FLOW_TABLE_EXPIRATION_SECONDS,
  FLOW_TABLE_MIN_UPDATE_OFFSET, FLOW_TABLE_MAX_UPDATE_OFFSET,
  NUM_PACKETS_MODULUS, NUM_PACKETS_LIMIT, FLOW_THRESHOLD, Timestamps,
  ClockStepBack,
  PACKET_DATA_BUFFER_ENTRIES, INT32_MIN, INT32_MAX, UINT16_MAX,
  NUM_MICROS_PER_SECOND,
  DROP_STATISTICS_MAXIMUM_PACKET_SIZE, RESET_BUCKETS,
  Sizes,                     \* header->len of a packet
  EtherTypes,                \* the network protocols other than IP
  EtherTypeIds,              \* the reserved flow id of each
  WebFlows,                  \* TCP flows to port 80
  Segments,                  \* their segments
  HTTP_TABLE_URL_ENTRIES, TCP_HEADER,
  PeriodSpan,                \* bound: seconds between packets of a period
  MaxArrivals                \* bound: packets of a period

VARIABLES
  entries, base_timestamp_seconds, num_elements, num_expired_flows,
  num_dropped_flows, flow_log, server, last_seen, packets_seen, busy_flows,
  log_complete,
  start_time_microseconds, last_time_microseconds, packet_data,
  discarded_by_overflow, arrivals,
  packet_sizes,
  urls, num_dropped_url_entries,
  phase,               \* what write_update does next
  current_timestamp,   \* time(NULL) as written to the update
  protocols,           \* history: what each packet of the period belongs to
  carried,             \* history: packet_sizes when the period began
  requests             \* history: the flows of the requests of the period

FT == INSTANCE FlowTable WITH MaxPackets <- MaxArrivals

PS == INSTANCE PacketSeries
        WITH Times <- {ts * NUM_MICROS_PER_SECOND : ts \in Timestamps},
             Flows <- 0 .. FLOW_TABLE_ENTRIES + FLOW_ID_FIRST_UNRESERVED - 1
DS == INSTANCE DropStatistics
HT == INSTANCE HttpTable

(***************************************************************************)
(* A reserved id is that of a protocol, below the ids of flows, and an     *)
(* update has room for the ids of all slots.                               *)
(***************************************************************************)
ASSUME PassiveAssumption ==
  /\ FT!FlowTableAssumption
  /\ PS!PacketSeriesAssumption
  /\ EtherTypes \cap Flows = {}
  /\ \A e \in EtherTypes : EtherTypeIds[e] \in 1 .. FLOW_ID_FIRST_UNRESERVED - 1
  /\ FLOW_TABLE_ENTRIES + FLOW_ID_FIRST_UNRESERVED - 1 <= UINT16_MAX
  /\ NUM_MICROS_PER_SECOND \in Nat \ {0}
  /\ WebFlows \subseteq Flows
  /\ {HTTP_TABLE_URL_ENTRIES, TCP_HEADER, PeriodSpan} \subseteq Nat
  /\ {DROP_STATISTICS_MAXIMUM_PACKET_SIZE, RESET_BUCKETS} \subseteq Nat

flow_table == <<entries, base_timestamp_seconds, num_elements, num_expired_flows,
                num_dropped_flows, flow_log, server, last_seen, packets_seen,
                log_complete, busy_flows>>
series == <<start_time_microseconds, last_time_microseconds, packet_data,
            discarded_by_overflow, arrivals>>
http_table == <<urls, num_dropped_url_entries, requests>>
vars == <<flow_table, series, packet_sizes, http_table, phase, current_timestamp,
          protocols, carried>>

Init ==
  /\ FT!Init
  /\ PS!Init
  /\ DS!Init
  /\ HT!Init
  /\ phase = "capture"
  /\ current_timestamp = 0
  /\ protocols = <<>>
  /\ carried = packet_sizes
  /\ requests = <<>>

-----------------------------------------------------------------------------
(* The flow id of a packet, as process_packet's switch assigns it. *)
flow_id_of_packet(p, ts, id) ==
  \/ p \in Flows /\ FT!flow_table_process_flow(p, ts, id)
  \/ p \in EtherTypes /\ id = EtherTypeIds[p] /\ UNCHANGED flow_table

(* Mutant: the first packet of a period is taken for an error. *)
no_packet_id(packet_id) == packet_id <= 0

packet_lost(packet_id) == packet_id < 0

count_drop(packet_id, size) ==
  IF packet_lost(packet_id) THEN DS!drop_statistics_process_packet(size)
  ELSE UNCHANGED packet_sizes

WithinPeriod(ts) ==
  /\ Len(arrivals) < MaxArrivals
  /\ \A i \in DOMAIN arrivals :
       LET gap == ts - arrivals[i].time \div NUM_MICROS_PER_SECOND
       IN  gap <= PeriodSpan /\ -gap <= PeriodSpan

(* Nothing is looked for in other packets. *)
SegmentsOf(p) == IF p \in WebFlows THEN Segments ELSE {[header |-> TCP_HEADER, gets |-> {}]}

(* A GET at the start of what follows a TCP header with options. *)
Requests(segment) == segment.header > TCP_HEADER /\ segment.header \in segment.gets

process_packet(p, ts, size, segment) ==
  /\ phase = "capture"
  /\ WithinPeriod(ts)
  /\ \E id \in FT!FlowIds \cup {EtherTypeIds[e] : e \in EtherTypes},
        packet_id \in -1 .. PACKET_DATA_BUFFER_ENTRIES - 1 :
       /\ flow_id_of_packet(p, ts, id)
       /\ PS!packet_series_add_packet(ts * NUM_MICROS_PER_SECOND, size, id, packet_id)
       /\ count_drop(packet_id, size)
       /\ HT!process_http_packet(segment, id)
  /\ requests' = IF Requests(segment) THEN Append(requests, p) ELSE requests
  /\ protocols' = Append(protocols, p)
  /\ UNCHANGED <<phase, current_timestamp, carried>>

(* handle_signals: an alarm rewrites the log of busy flows first. *)
write_flow_log ==
  /\ phase = "capture"
  /\ FT!flow_table_write_thresholded_ips
  /\ phase' = "writing"
  /\ UNCHANGED <<series, packet_sizes, http_table, current_timestamp, protocols, carried>>

(* SIGINT and SIGTERM write the last update without it. *)
terminate ==
  /\ phase = "capture"
  /\ phase' = "terminating"
  /\ UNCHANGED <<flow_table, series, packet_sizes, http_table, current_timestamp, protocols,
                 carried>>

(* Mutant: the section of the flow table is left out. *)
without_flow_section == UNCHANGED flow_table

flow_section == FT!flow_table_write_update

(* The sections of the update, from open to rename. *)
write_sections(now) ==
  /\ phase \in {"writing", "terminating"}
  /\ FT!ClockReads(now)
  /\ current_timestamp' = now
  /\ flow_section
  /\ phase' = IF phase = "writing" THEN "staged" ELSE "last staged"
  /\ UNCHANGED <<series, packet_sizes, http_table, protocols, carried>>

start_next_period ==
  /\ phase \in {"staged", "last staged"}
  /\ PS!packet_series_init
  /\ FT!flow_table_advance_base_timestamp(current_timestamp)
  /\ HT!http_table_init
  /\ DS!drop_statistics_init
  /\ phase' = IF phase = "staged" THEN "capture" ELSE "exited"
  /\ current_timestamp' = 0
  /\ protocols' = <<>>
  /\ carried' = packet_sizes'
  /\ requests' = <<>>

Next ==
  \/ \E p \in Flows \cup EtherTypes, ts \in Timestamps, size \in Sizes :
       \E segment \in SegmentsOf(p) : process_packet(p, ts, size, segment)
  \/ write_flow_log
  \/ terminate
  \/ \E now \in Timestamps : write_sections(now)
  \/ start_next_period

Spec == Init /\ [][Next]_vars

-----------------------------------------------------------------------------
TypeOK ==
  /\ FT!TypeOK
  /\ PS!TypeOK
  /\ HT!TypeOK
  /\ packet_sizes \in [DS!Buckets -> 0 .. UINT32_MAX]
  /\ phase \in {"capture", "writing", "terminating", "staged", "last staged", "exited"}
  /\ current_timestamp \in Timestamps \cup {0}
  /\ protocols \in Seq(Flows \cup EtherTypes)
  /\ carried \in [DS!Buckets -> 0 .. UINT32_MAX]
  /\ requests \in Seq(WebFlows)

UpdateStaged == phase \in {"staged", "last staged"}

(***************************************************************************)
(* Every packet of an update that carries a flow id is resolved by the     *)
(* server to the flow it belongs to, and one with a reserved id to its     *)
(* protocol: no id was given to another flow between the packet and the    *)
(* update, and no id is sent before its record.                            *)
(***************************************************************************)
ServerResolves(id) ==
  IF id >= FLOW_ID_FIRST_UNRESERVED
  THEN {server[id - FLOW_ID_FIRST_UNRESERVED]}
  ELSE {e \in EtherTypes : EtherTypeIds[e] = id}

PacketsAttributed ==
  UpdateStaged =>
    \A i \in 1 .. Len(packet_data) :
      PS!WrittenFlow(i) \in {-1, FT!FLOW_ID_ERROR}
        \/ protocols[i] \in ServerResolves(PS!WrittenFlow(i))

(***************************************************************************)
(* http_parser.h:8: the entries of an update are the first requests of its *)
(* period, the others are counted, and the server resolves the flow id of  *)
(* an entry to the flow of the request, whether or not the packet was      *)
(* recorded.  A request in a segment without TCP options is missed.        *)
(***************************************************************************)
HttpAttributed ==
  UpdateStaged =>
    /\ Len(urls) + num_dropped_url_entries = Len(requests)
    /\ num_dropped_url_entries > 0 => Len(urls) = HTTP_TABLE_URL_ENTRIES
    /\ \A i \in DOMAIN urls :
         urls[i] = FT!FLOW_ID_ERROR \/ requests[i] \in ServerResolves(urls[i])

(***************************************************************************)
(* -1 in a packet record means that no flow information is available: the  *)
(* packet of a tracked flow is sent with its id.                           *)
(***************************************************************************)
TrackedFlowsReported ==
  UpdateStaged =>
    \A i \in 1 .. Len(packet_data) :
      packet_data[i].flow >= FLOW_ID_FIRST_UNRESERVED => PS!WrittenFlow(i) # -1

(***************************************************************************)
(* A new flow leaves the table only after its record was written.          *)
(***************************************************************************)
NoUnsentFlowLost ==
  [][\A s \in FT!UnsentSlots :
       /\ entries'[s].flow = entries[s].flow
       /\ entries'[s].occupied \in {FT!ENTRY_OCCUPIED, FT!ENTRY_OCCUPIED_BUT_UNSENT}]_vars

(***************************************************************************)
(* The histogram grew, size by size, by the packets of the period that     *)
(* found the packet series full, and by no others.                         *)
(***************************************************************************)
Lost(idx) ==
  Cardinality({i \in Len(packet_data) + 1 .. Len(arrivals) :
                 DS!bucket(arrivals[i].size) = idx})

HistogramExact ==
  \A idx \in DS!Buckets :
    packet_sizes[idx] = (carried[idx] + Lost(idx)) % (UINT32_MAX + 1)

(***************************************************************************)
(* An update is about the traffic since the last update: a line of its     *)
(* drop statistics counts the drops of its own period.                     *)
(***************************************************************************)
DropsOfThisPeriod ==
  UpdateStaged => \A idx \in DS!WrittenBuckets : packet_sizes[idx] = Lost(idx)
=============================================================================
