------------------------- MODULE PacketSeriesProofs -------------------------
(***************************************************************************)
(* Proofs about PacketSeries, for every buffer size, integer width, packet *)
(* time and number of packets.                                             *)
(***************************************************************************)
EXTENDS PacketSeries, TLAPS

LEMMA DistanceInRange ==
  ASSUME NEW x \in Int
  PROVE  /\ to_int32(x) \in Int32
         /\ x \in Int32 => to_int32(x) = x
<1> DEFINE w == INT32_MAX - INT32_MIN + 1
           y == x - INT32_MIN
<1>1. /\ INT32_MIN \in Int /\ INT32_MAX \in Int /\ INT32_MIN <= 0 /\ 0 <= INT32_MAX
      /\ w \in Int /\ w > 0 /\ y \in Int
  BY PacketSeriesAssumption
<1> HIDE DEF w, y
<1>2. y % w \in Int /\ 0 <= y % w /\ y % w < w
  BY ONLY <1>1
<1>3. 0 <= y /\ y < w => y % w = y
  BY ONLY <1>1
<1> QED
  BY ONLY <1>1, <1>2, <1>3 DEF to_int32, Int32, w, y

LEMMA Uint16InRange ==
  ASSUME NEW x \in Nat
  PROVE  to_uint16(x) \in 0 .. UINT16_MAX
  BY PacketSeriesAssumption DEF to_uint16

LEMMA LastOrBefore ==
  ASSUME NEW n \in Nat, NEW k \in Int, NEW i \in k .. n + 1
  PROVE  i = n + 1 \/ i \in k .. n
  OBVIOUS

-----------------------------------------------------------------------------
(* The newest record belongs to the newest packet, or to none. *)
LastTimeKnown ==
  packet_data # <<>> =>
    /\ arrivals # <<>>
    /\ last_time_microseconds = arrivals[Len(packet_data)].time

IInv == TypeOK /\ TimesDecodable /\ EveryPacketCounted /\ LastTimeKnown

LEMMA DiscardStep ==
  ASSUME IInv, NEW time \in Times, NEW size \in Sizes, NEW flow \in Flows,
         discard_packet,
         arrivals' = Append(arrivals, [time |-> time, size |-> size, flow |-> flow])
  PROVE  IInv'
<1> DEFINE a == [time |-> time, size |-> size, flow |-> flow]
<1>1. /\ arrivals \in Seq([time: Times, size: Sizes, flow: Flows])
      /\ packet_data \in Seq(packet_data_t)
      /\ Len(packet_data) <= Len(arrivals)
      /\ a \in [time: Times, size: Sizes, flow: Flows]
      /\ discarded_by_overflow \in 0 .. UINT32_MAX
      /\ UINT32_MAX \in Nat
  BY PacketSeriesAssumption DEF IInv, TypeOK, EveryPacketCounted
<1>2. /\ UNCHANGED <<start_time_microseconds, last_time_microseconds, packet_data>>
      /\ discarded_by_overflow' = one_more(discarded_by_overflow)
      /\ arrivals' = Append(arrivals, a)
  BY DEF discard_packet
<1> HIDE DEF a
<1>3. /\ Len(arrivals') = Len(arrivals) + 1
      /\ arrivals' \in Seq([time: Times, size: Sizes, flow: Flows])
      /\ \A i \in 1 .. Len(packet_data) : arrivals'[i] = arrivals[i]
      /\ arrivals' # <<>>
  BY <1>1, <1>2
<1>4. TypeOK'
  BY <1>1, <1>2, <1>3 DEF IInv, TypeOK, one_more
<1>5. packet_data # <<>> => 1 \in 1 .. Len(packet_data) /\ Len(packet_data) \in 1 .. Len(packet_data)
  BY <1>1
<1>6. \A i \in 2 .. Len(packet_data) : i \in 1 .. Len(packet_data) /\ i - 1 \in 1 .. Len(packet_data)
  BY <1>1
<1>7. TimesDecodable'
  <2>1. packet_data' = packet_data /\ start_time_microseconds' = start_time_microseconds
    BY <1>2
  <2>2. \A i \in 2 .. Len(packet_data) :
          arrivals'[i] = arrivals[i] /\ arrivals'[i - 1] = arrivals[i - 1]
    BY <1>3, <1>6
  <2>3. packet_data # <<>> => arrivals'[1] = arrivals[1]
    BY <1>3, <1>5
  <2> QED
    BY <2>1, <2>2, <2>3 DEF IInv, TimesDecodable, GapFits
<1>8. LastTimeKnown'
  BY <1>2, <1>3, <1>5 DEF IInv, LastTimeKnown
<1>9. EveryPacketCounted'
  <2>1. \A i \in 1 .. Len(packet_data') :
          /\ packet_data'[i].size = to_uint16(arrivals'[i].size)
          /\ packet_data'[i].flow = to_uint16(arrivals'[i].flow)
    BY <1>2, <1>3 DEF IInv, EveryPacketCounted
  <2>2. discarded_by_overflow = IF Len(arrivals) - Len(packet_data) <= UINT32_MAX
                                THEN Len(arrivals) - Len(packet_data) ELSE UINT32_MAX
    BY DEF IInv, EveryPacketCounted
  <2>3. discarded_by_overflow' =
          IF Len(arrivals') - Len(packet_data') <= UINT32_MAX
          THEN Len(arrivals') - Len(packet_data') ELSE UINT32_MAX
    BY <1>1, <1>2, <1>3, <2>2 DEF one_more
  <2>4. IsFull'
    BY <1>2 DEF discard_packet, IsFull
  <2> QED
    BY <1>1, <1>2, <1>3, <2>1, <2>3, <2>4 DEF EveryPacketCounted
<1> QED
  BY <1>4, <1>7, <1>8, <1>9 DEF IInv

LEMMA AppendStep ==
  ASSUME IInv, NEW time \in Times, NEW size \in Sizes, NEW flow \in Flows,
         append_packet(time, size, flow),
         arrivals' = Append(arrivals, [time |-> time, size |-> size, flow |-> flow])
  PROVE  IInv'
<1> DEFINE a == [time |-> time, size |-> size, flow |-> flow]
           d == [timestamp |-> distance(time), size |-> to_uint16(size),
                 flow |-> to_uint16(flow)]
           n == Len(packet_data)
<1>1. /\ arrivals \in Seq([time: Times, size: Sizes, flow: Flows])
      /\ packet_data \in Seq(packet_data_t)
      /\ n \in Nat
      /\ last_time_microseconds \in Int
      /\ time \in Int
      /\ UINT32_MAX \in Nat
      /\ PACKET_DATA_BUFFER_ENTRIES \in Nat
  BY PacketSeriesAssumption DEF IInv, TypeOK
<1>2. /\ n < PACKET_DATA_BUFFER_ENTRIES
      /\ packet_data' = Append(packet_data, d)
      /\ arrivals' = Append(arrivals, a)
      /\ last_time_microseconds' = time
      /\ start_time_microseconds' =
           IF packet_data = <<>> THEN time ELSE start_time_microseconds
      /\ UNCHANGED discarded_by_overflow
  BY <1>1 DEF append_packet, IsFull
<1>3. Len(arrivals) = n /\ discarded_by_overflow = 0
  <2>1. ~IsFull
    BY DEF append_packet
  <2>2. discarded_by_overflow \in 0 .. UINT32_MAX
    BY DEF IInv, TypeOK
  <2>3. discarded_by_overflow > 0 => IsFull
    BY DEF IInv, EveryPacketCounted
  <2>4. discarded_by_overflow = 0
    BY <1>1, <2>1, <2>2, <2>3
  <2>5. /\ n <= Len(arrivals)
        /\ discarded_by_overflow = IF Len(arrivals) - n <= UINT32_MAX
                                   THEN Len(arrivals) - n ELSE UINT32_MAX
    BY DEF IInv, EveryPacketCounted
  <2>6. Len(arrivals) \in Nat /\ UINT32_MAX > 0
    BY <1>1, PacketSeriesAssumption
  <2> QED
    BY <1>1, <2>4, <2>5, <2>6
<1>4. a \in [time: Times, size: Sizes, flow: Flows]
  OBVIOUS
<1>5. a.time = time /\ a.size = size /\ a.flow = flow
  OBVIOUS
<1>6. /\ d.timestamp = distance(time)
      /\ d.size = to_uint16(size)
      /\ d.flow = to_uint16(flow)
  OBVIOUS
<1>7. distance(time) \in Int32
  <2>1. 0 \in Int32
    BY PacketSeriesAssumption DEF Int32
  <2> QED
    BY <1>1, <2>1, DistanceInRange DEF distance
<1>8. d \in packet_data_t
  <2>1. size \in Nat /\ flow \in Nat
    BY PacketSeriesAssumption
  <2>2. to_uint16(size) \in 0 .. UINT16_MAX /\ to_uint16(flow) \in 0 .. UINT16_MAX
    BY <2>1, Uint16InRange
  <2> QED
    BY <1>7, <2>2 DEF packet_data_t
<1> HIDE DEF a, d
<1>9. /\ packet_data' \in Seq(packet_data_t)
      /\ Len(packet_data') = n + 1
      /\ packet_data'[n + 1] = d
      /\ \A i \in 1 .. n : packet_data'[i] = packet_data[i]
      /\ packet_data' # <<>>
  BY <1>1, <1>2, <1>8
<1>10. /\ arrivals' \in Seq([time: Times, size: Sizes, flow: Flows])
       /\ Len(arrivals') = n + 1
       /\ arrivals'[n + 1] = a
       /\ \A i \in 1 .. n : arrivals'[i] = arrivals[i]
       /\ arrivals' # <<>>
  BY <1>1, <1>2, <1>3, <1>4
<1>11. TypeOK'
  BY <1>1, <1>2, <1>9, <1>10 DEF IInv, TypeOK
<1>12. LastTimeKnown'
  BY <1>2, <1>5, <1>9, <1>10 DEF LastTimeKnown
<1>13. EveryPacketCounted'
  <2>1. \A i \in 1 .. n :
          /\ packet_data[i].size = to_uint16(arrivals[i].size)
          /\ packet_data[i].flow = to_uint16(arrivals[i].flow)
    BY DEF IInv, EveryPacketCounted
  <2>2. \A i \in 1 .. n + 1 :
          /\ packet_data'[i].size = to_uint16(arrivals'[i].size)
          /\ packet_data'[i].flow = to_uint16(arrivals'[i].flow)
    <3> SUFFICES ASSUME NEW i \in 1 .. n + 1
                 PROVE  /\ packet_data'[i].size = to_uint16(arrivals'[i].size)
                        /\ packet_data'[i].flow = to_uint16(arrivals'[i].flow)
      OBVIOUS
    <3>1. CASE i = n + 1
      BY <1>5, <1>6, <1>9, <1>10, <3>1
    <3>2. CASE i \in 1 .. n
      BY <1>9, <1>10, <2>1, <3>2
    <3>3. i = n + 1 \/ i \in 1 .. n
      BY <1>1, LastOrBefore
    <3> QED
      BY <3>1, <3>2, <3>3
  <2>3. discarded_by_overflow' = 0 /\ Len(arrivals') - Len(packet_data') = 0
    BY <1>1, <1>2, <1>3, <1>9, <1>10
  <2> QED
    BY <1>1, <1>9, <1>10, <2>2, <2>3 DEF EveryPacketCounted
<1>14. TimesDecodable'
  <2>1. CASE packet_data = <<>>
    <3>1. n = 0
      BY <2>1
    <3>2. packet_data'[1] = d /\ arrivals'[1] = a /\ Len(packet_data') = 1
      BY <1>9, <1>10, <3>1
    <3>3. d.timestamp = 0
      BY <1>6, <2>1 DEF distance
    <3> QED
      BY <1>2, <1>5, <2>1, <3>2, <3>3 DEF TimesDecodable
  <2>2. CASE packet_data # <<>>
    <3>1. n > 0
      BY <1>1, <2>2
    <3>2. /\ start_time_microseconds' = arrivals'[1].time
          /\ packet_data'[1].timestamp = 0
      <4>1. 1 \in 1 .. n
        BY <1>1, <3>1
      <4>2. start_time_microseconds = arrivals[1].time /\ packet_data[1].timestamp = 0
        BY <2>2 DEF IInv, TimesDecodable
      <4> QED
        BY <1>2, <1>9, <1>10, <2>2, <4>1, <4>2
    <3>3. ASSUME NEW i \in 2 .. n + 1, arrivals'[i].time - arrivals'[i - 1].time \in Int32
          PROVE  packet_data'[i].timestamp = arrivals'[i].time - arrivals'[i - 1].time
      <4>1. CASE i = n + 1
        <5>1. n \in 1 .. n /\ i - 1 = n
          BY <1>1, <3>1, <4>1
        <5>2. arrivals'[i] = a /\ arrivals'[i - 1] = arrivals[n] /\ packet_data'[i] = d
          BY <1>9, <1>10, <4>1, <5>1
        <5>3. arrivals[n].time = last_time_microseconds
          BY <2>2 DEF IInv, LastTimeKnown
        <5>4. distance(time) = to_int32(time - last_time_microseconds)
          BY <2>2 DEF distance
        <5>5. time - last_time_microseconds \in Int32
          BY <1>5, <3>3, <5>2, <5>3
        <5>6. to_int32(time - last_time_microseconds) = time - last_time_microseconds
          BY <1>1, <5>5, DistanceInRange
        <5> QED
          BY <1>5, <1>6, <5>2, <5>3, <5>4, <5>6
      <4>2. CASE i \in 2 .. n
        <5>1. i \in 1 .. n /\ i - 1 \in 1 .. n
          BY <1>1, <4>2
        <5>2. /\ arrivals'[i] = arrivals[i] /\ arrivals'[i - 1] = arrivals[i - 1]
              /\ packet_data'[i] = packet_data[i]
          BY <1>9, <1>10, <5>1
        <5>3. GapFits(i) =>
                packet_data[i].timestamp = arrivals[i].time - arrivals[i - 1].time
          BY <2>2, <4>2 DEF IInv, TimesDecodable
        <5> QED
          BY <3>3, <5>2, <5>3 DEF GapFits
      <4>3. i = n + 1 \/ i \in 2 .. n
        BY <1>1, LastOrBefore
      <4> QED
        BY <4>1, <4>2, <4>3
    <3> QED
      BY <1>9, <3>2, <3>3 DEF TimesDecodable, GapFits
  <2> QED
    BY <2>1, <2>2
<1> QED
  BY <1>11, <1>12, <1>13, <1>14 DEF IInv

LEMMA EmptyIInv ==
  ASSUME start_time_microseconds = 0, last_time_microseconds = 0,
         packet_data = <<>>, discarded_by_overflow = 0, arrivals = <<>>
  PROVE  IInv
<1>1. TypeOK
  BY PacketSeriesAssumption DEF TypeOK
<1>2. EveryPacketCounted
  BY PacketSeriesAssumption DEF EveryPacketCounted
<1> QED
  BY <1>1, <1>2 DEF IInv, TimesDecodable, LastTimeKnown

LEMMA StepIInv == IInv /\ [Next]_vars => IInv'
<1> SUFFICES ASSUME IInv, [Next]_vars PROVE IInv'
  OBVIOUS
<1>1. ASSUME NEW time \in Times, NEW size \in Sizes, NEW flow \in Flows, NEW id,
             packet_series_add_packet(time, size, flow, id)
      PROVE  IInv'
  BY <1>1, DiscardStep, AppendStep DEF packet_series_add_packet
<1>2. CASE packet_series_init
  <2>1. /\ start_time_microseconds' = 0 /\ last_time_microseconds' = 0
        /\ packet_data' = <<>> /\ discarded_by_overflow' = 0 /\ arrivals' = <<>>
    BY <1>2 DEF packet_series_init
  <2>2. TypeOK'
    BY <2>1, PacketSeriesAssumption DEF TypeOK
  <2>3. EveryPacketCounted'
    BY <2>1, PacketSeriesAssumption DEF EveryPacketCounted
  <2> QED
    BY <2>1, <2>2, <2>3 DEF IInv, TimesDecodable, LastTimeKnown
<1>3. CASE UNCHANGED vars
  BY <1>3 DEF IInv, TypeOK, TimesDecodable, EveryPacketCounted, LastTimeKnown,
              GapFits, IsFull, vars, series_vars
<1> QED
  BY <1>1, <1>2, <1>3 DEF Next

(***************************************************************************)
(* packet_series_add_packet keeps the times decodable, the records in      *)
(* order and the count of discarded packets right.                         *)
(***************************************************************************)
THEOREM PacketSeriesCorrect ==
  Spec => [](TypeOK /\ TimesDecodable /\ EveryPacketCounted)
<1>1. Init => IInv
  BY EmptyIInv DEF Init
<1>2. Spec => []IInv
  BY <1>1, StepIInv, PTL DEF Spec
<1> QED
  BY <1>2, PTL DEF IInv

(* The types of the packet series, packet_series.h:8-20. *)
THEOREM PacketSeriesTypes == Spec => []TypeOK
  BY PacketSeriesCorrect, PTL

(* packet_series.c:11-49: each arrival is in the series or counted as discarded. *)
THEOREM PacketSeriesCounted == Spec => []EveryPacketCounted
  BY PacketSeriesCorrect, PTL

=============================================================================
