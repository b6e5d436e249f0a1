---------------------------- MODULE PacketSeries ----------------------------
(***************************************************************************)
(* The packet series of bismark-passive (packet_series.c): the packets of  *)
(* the current update period, up to PACKET_DATA_BUFFER_ENTRIES of them.    *)
(* Only the first packet has an absolute time; each later one stores its   *)
(* distance from the packet before it in an int32_t.                       *)
(*                                                                         *)
(* arrivals is history: every packet of the period as it arrived.          *)
(***************************************************************************)
EXTENDS Integers, Sequences

CONSTANTS
  Times,                       \* packet timestamps in microseconds
  Sizes,                       \* header->len of a packet
  Flows,                       \* flow ids, as get_flow_entry_for_packet has them
  PACKET_DATA_BUFFER_ENTRIES,
  FLOW_TABLE_ENTRIES,
  INT32_MIN,
  INT32_MAX,
  UINT16_MAX,
  UINT32_MAX,
  MaxArrivals                  \* bound on the packets of a period

ASSUME PacketSeriesAssumption ==
  /\ Times \subseteq Int
  /\ Sizes \subseteq Nat
  /\ Flows \subseteq Nat
  /\ PACKET_DATA_BUFFER_ENTRIES \in Nat \ {0}
  /\ FLOW_TABLE_ENTRIES \in Nat
  /\ INT32_MIN \in Int
  /\ INT32_MAX \in Nat
  /\ INT32_MIN <= 0
  /\ UINT16_MAX \in Nat
  /\ UINT32_MAX \in Nat \ {0}
  /\ MaxArrivals \in Nat

Int32 == INT32_MIN .. INT32_MAX
to_int32(x) == ((x - INT32_MIN) % (INT32_MAX - INT32_MIN + 1)) + INT32_MIN
to_uint16(x) == x % (UINT16_MAX + 1)

VARIABLES
  start_time_microseconds,
  last_time_microseconds,
  packet_data,               \* its length is series->length
  discarded_by_overflow,
  arrivals

series_vars == <<start_time_microseconds, last_time_microseconds, packet_data,
                 discarded_by_overflow>>
vars == <<series_vars, arrivals>>

packet_data_t == [timestamp: Int32, size: 0 .. UINT16_MAX, flow: 0 .. UINT16_MAX]

Init ==
  /\ start_time_microseconds = 0
  /\ last_time_microseconds = 0
  /\ packet_data = <<>>
  /\ discarded_by_overflow = 0
  /\ arrivals = <<>>

-----------------------------------------------------------------------------
IsFull == Len(packet_data) >= PACKET_DATA_BUFFER_ENTRIES

(* Mutant: the counter of discarded packets wraps. *)
wrapped(count) == (count + 1) % (UINT32_MAX + 1)

(* count + 1 > count fails only where a uint32_t would wrap. *)
one_more(count) == IF count < UINT32_MAX THEN count + 1 ELSE count

discard_packet ==
  /\ IsFull
  /\ discarded_by_overflow' = one_more(discarded_by_overflow)
  /\ UNCHANGED <<start_time_microseconds, last_time_microseconds, packet_data>>

(* Mutant: packets that go back in time are stored without a distance. *)
forward_distance(time) ==
  IF packet_data = <<>> \/ time < last_time_microseconds THEN 0
  ELSE to_int32(time - last_time_microseconds)

(* Mutant: a saturating conversion. *)
clipped_distance(time) ==
  IF packet_data = <<>> THEN 0 ELSE time - last_time_microseconds

(* The distance stored with a packet: it is negative out of order. *)
distance(time) ==
  IF packet_data = <<>> THEN 0 ELSE to_int32(time - last_time_microseconds)

append_packet(time, size, flow) ==
  /\ ~IsFull
  /\ start_time_microseconds' =
       IF packet_data = <<>> THEN time ELSE start_time_microseconds
  /\ packet_data' =
       Append(packet_data, [timestamp |-> distance(time),
                            size |-> to_uint16(size), flow |-> to_uint16(flow)])
  /\ last_time_microseconds' = time
  /\ UNCHANGED discarded_by_overflow

(* id is the value returned. *)
packet_series_add_packet(time, size, flow, id) ==
  /\ \/ discard_packet /\ id = -1
     \/ append_packet(time, size, flow) /\ id = Len(packet_data)
  /\ arrivals' = Append(arrivals, [time |-> time, size |-> size, flow |-> flow])

packet_series_init ==
  /\ start_time_microseconds' = 0
  /\ last_time_microseconds' = 0
  /\ packet_data' = <<>>
  /\ discarded_by_overflow' = 0
  /\ arrivals' = <<>>

(***************************************************************************)
(* What packet_series_write_update prints for the i-th packet: it changes  *)
(* nothing.                                                                *)
(***************************************************************************)
WrittenFlow(i) ==
  IF packet_data[i].flow >= FLOW_TABLE_ENTRIES THEN -1 ELSE packet_data[i].flow

Next ==
  \/ \E time \in Times, size \in Sizes, flow \in Flows,
        id \in -1 .. PACKET_DATA_BUFFER_ENTRIES - 1 :
       /\ Len(arrivals) < MaxArrivals
       /\ packet_series_add_packet(time, size, flow, id)
  \/ packet_series_init

Spec == Init /\ [][Next]_vars

-----------------------------------------------------------------------------
TypeOK ==
  /\ start_time_microseconds \in Times \cup {0}
  /\ last_time_microseconds \in Times \cup {0}
  /\ packet_data \in Seq(packet_data_t)
  /\ Len(packet_data) <= PACKET_DATA_BUFFER_ENTRIES
  /\ discarded_by_overflow \in 0 .. UINT32_MAX
  /\ arrivals \in Seq([time: Times, size: Sizes, flow: Flows])

(***************************************************************************)
(* From the start time and the stored distances the server can compute the *)
(* time of every packet, also when packets were captured out of order, as  *)
(* long as neighbouring packets are no further apart than an int32_t       *)
(* holds: the assumption stated in packet_series.h.                        *)
(***************************************************************************)
GapFits(i) == arrivals[i].time - arrivals[i - 1].time \in Int32

TimesDecodable ==
  packet_data # <<>> =>
    /\ start_time_microseconds = arrivals[1].time
    /\ packet_data[1].timestamp = 0
    /\ \A i \in 2 .. Len(packet_data) :
         GapFits(i) =>
           packet_data[i].timestamp = arrivals[i].time - arrivals[i - 1].time

(***************************************************************************)
(* The records are the first packets of the period, in their order, and    *)
(* the count of discarded packets accounts for all the others until it     *)
(* saturates.                                                              *)
(***************************************************************************)
EveryPacketCounted ==
  /\ Len(packet_data) <= Len(arrivals)
  /\ \A i \in 1 .. Len(packet_data) :
       /\ packet_data[i].size = to_uint16(arrivals[i].size)
       /\ packet_data[i].flow = to_uint16(arrivals[i].flow)
  /\ LET discarded == Len(arrivals) - Len(packet_data)
     IN  discarded_by_overflow =
           IF discarded <= UINT32_MAX THEN discarded ELSE UINT32_MAX
  /\ discarded_by_overflow > 0 => IsFull
=============================================================================
