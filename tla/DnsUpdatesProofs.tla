-------------------------- MODULE DnsUpdatesProofs --------------------------
(***************************************************************************)
(* DNS records on their way into an update, for tables of every size.  The *)
(* proof is by composition: a step of process_packet or write_update is a  *)
(* step of the address table or leaves it alone, and the same of the DNS   *)
(* table, so that the invariants proved of each hold here.                 *)
(***************************************************************************)
EXTENDS DnsUpdates, SequenceTheorems, WellFoundedInduction, TLAPS

ATP == INSTANCE AddressTableProofs
DTP == INSTANCE DnsTableProofs

packet_t == [destination: Addresses, is_dns: BOOLEAN, mac_id: AT!Ids \cup {-1}]

PacketOK ==
  /\ packet_data \in Seq(Addresses)
  /\ Len(packet_data) <= PACKET_DATA_BUFFER_ENTRIES
  /\ packet \in packet_t \cup {NoPacket}
  /\ step \in {"destination", "series"} => packet \in packet_t
  /\ step \in {"capture", "destination", "series", "response", "staged", "destroyed",
              "crashed"}
  /\ bloom_loaded \in BOOLEAN

(* The constants are those of the two tables. *)
LEMMA Assumptions ==
  /\ ATP!AddressTableAssumption
  /\ DTP!Sizes
  /\ DTP!WidthsOK
  /\ DTP!NamesOK
BY DnsUpdatesAssumption DEF ATP!AddressTableAssumption, DTP!Sizes, DTP!WidthsOK, DTP!NamesOK

(* The operations here are those of the proofs about each table. *)
LEMMA SameLookup ==
  ASSUME NEW address, NEW id
  PROVE  AT!address_table_lookup(address, id) = ATP!address_table_lookup(address, id)
BY DEF AT!address_table_lookup, ATP!address_table_lookup, AT!table_vars, ATP!table_vars,
       AT!find_mapping, ATP!find_mapping, AT!add_mapping, ATP!add_mapping,
       AT!SearchedIds, ATP!SearchedIds, AT!next_last, ATP!next_last,
       AT!next_first, ATP!next_first, AT!next_length, ATP!next_length,
       AT!next_added, ATP!next_added, AT!NORM, ATP!NORM

LEMMA SameWrite ==
  AT!address_table_write_update = ATP!address_table_write_update
BY DEF AT!address_table_write_update, ATP!address_table_write_update,
       AT!ServerAfterUpdate, ATP!ServerAfterUpdate, AT!UpdateFirstId, ATP!UpdateFirstId,
       AT!UpdatePair, ATP!UpdatePair, AT!NORM, ATP!NORM, AT!Ids, ATP!Ids

LEMMA SamePointers ==
  DT!Pointers = DTP!Pointers /\ \A p : DT!pointed(p) = DTP!pointed(p)
BY DEF DT!Pointers, DTP!Pointers, DT!pointed, DTP!pointed

LEMMA SameDnsSteps ==
  /\ \A packet_id, mac_id :
       DT!begin_response(packet_id, mac_id) = DTP!begin_response(packet_id, mac_id)
  /\ DT!read_record = DTP!read_record
  /\ DT!end_response = DTP!end_response
  /\ DT!dns_table_destroy = DTP!dns_table_destroy
  /\ DT!dns_table_init = DTP!dns_table_init
<1>1. ASSUME NEW packet_id, NEW mac_id
      PROVE  DT!begin_response(packet_id, mac_id) = DTP!begin_response(packet_id, mac_id)
  BY DEF DT!begin_response, DTP!begin_response, DT!table_vars, DTP!table_vars,
         DT!read_vars, DTP!read_vars
<1>2. ASSUME NEW name, NEW block
      PROVE  DT!add_a_record(name, block) = DTP!add_a_record(name, block)
  BY DEF DT!add_a_record, DTP!add_a_record, DT!Parsing, DTP!Parsing,
         DT!strdup, DTP!strdup, DT!a_table_full, DTP!a_table_full
<1>3. ASSUME NEW name, NEW cname, NEW block, NEW cname_block
      PROVE  DT!add_cname_record(name, cname, block, cname_block) =
               DTP!add_cname_record(name, cname, block, cname_block)
  BY DEF DT!add_cname_record, DTP!add_cname_record, DT!Parsing, DTP!Parsing,
         DT!strdup, DTP!strdup, DT!cname_drop, DTP!cname_drop
<1>4. ASSUME NEW block
      PROVE  DT!lose_cname_record(block) = DTP!lose_cname_record(block)
  BY DEF DT!lose_cname_record, DTP!lose_cname_record, DT!Parsing, DTP!Parsing,
         DT!strdup, DTP!strdup, DT!read_vars, DTP!read_vars
<1>5. DT!read_record = DTP!read_record
  BY <1>2, <1>3, <1>4 DEF DT!read_record, DTP!read_record
<1>6. DT!end_response = DTP!end_response
  BY DEF DT!end_response, DTP!end_response, DT!table_vars, DTP!table_vars,
         DT!read_vars, DTP!read_vars
<1>7. DT!dns_table_destroy = DTP!dns_table_destroy
  BY SamePointers DEF DT!dns_table_destroy, DTP!dns_table_destroy, DT!read_vars, DTP!read_vars
<1>8. DT!dns_table_init = DTP!dns_table_init
  BY DEF DT!dns_table_init, DTP!dns_table_init
<1> QED
  BY <1>1, <1>5, <1>6, <1>7, <1>8

(* What a step of DnsUpdates is to the address table. *)
LEMMA AddressTableStep ==
  ASSUME PacketOK, [Next]_vars
  PROVE  [ATP!Next]_(ATP!vars)
<1>1. ASSUME NEW source \in Addresses, NEW destination \in Addresses,
             NEW is_dns \in BOOLEAN, lookup_source(source, destination, is_dns)
      PROVE  ATP!Next
  BY <1>1, SameLookup DEF lookup_source, ATP!Next, AT!Ids, ATP!Ids
<1>2. CASE lookup_destination
  <2>1. packet.destination \in Addresses
    BY <1>2 DEF lookup_destination, PacketOK, packet_t
  <2> QED
    BY <1>2, <2>1, SameLookup DEF lookup_destination, ATP!Next, AT!Ids, ATP!Ids
<1>3. CASE write_sections
  BY <1>3, SameWrite DEF write_sections, ATP!Next
<1>4. CASE UNCHANGED address_table
  BY <1>4 DEF address_table, ATP!vars, ATP!table_vars
<1> QED
  BY <1>1, <1>2, <1>3, <1>4 DEF Next, process_packet, write_update, vars,
     add_packet, discard_packet, read_record, end_response, crash, start_next_period,
     clear_dns_table

(* What it is to the DNS table. *)
LEMMA DnsTableStep ==
  ASSUME PacketOK, [Next]_vars
  PROVE  [DTP!Next]_(DTP!vars)
<1>1. CASE add_packet
  <2>1. CASE packet.mac_id >= 0
    <3>1. /\ Len(packet_data) \in 0 .. UINT16_MAX
          /\ packet.mac_id \in 0 .. UINT8_MAX
      BY <1>1, <2>1, DnsUpdatesAssumption DEF add_packet, PacketOK, packet_t, AT!Ids
    <3> QED
      BY <1>1, <2>1, <3>1, SameDnsSteps DEF add_packet, DTP!Next
  <2>2. CASE ~(packet.mac_id >= 0)
    BY <1>1, <2>2 DEF add_packet, dns_table, DTP!vars, DTP!table_vars, DTP!read_vars
  <2> QED
    BY <2>1, <2>2
<1>2. CASE read_record
  BY <1>2, SameDnsSteps DEF read_record, DTP!Next
<1>3. CASE end_response
  BY <1>3, SameDnsSteps DEF end_response, DTP!Next
<1>4. CASE start_next_period \/ clear_dns_table
  BY <1>4, SameDnsSteps DEF start_next_period, clear_dns_table, DTP!Next
<1>5. CASE UNCHANGED dns_table
  BY <1>5 DEF dns_table, DTP!vars, DTP!table_vars, DTP!read_vars
<1> QED
  BY <1>1, <1>2, <1>3, <1>4, <1>5 DEF Next, process_packet, write_update, vars,
     lookup_source, lookup_destination, discard_packet, write_sections, crash

(* The packet at work is well formed at every step that reads it. *)
LEMMA PacketStep ==
  ASSUME PacketOK, [Next]_vars
  PROVE  PacketOK'
<1>1. ASSUME NEW source \in Addresses, NEW destination \in Addresses,
             NEW is_dns \in BOOLEAN, lookup_source(source, destination, is_dns)
      PROVE  PacketOK'
  BY <1>1 DEF lookup_source, PacketOK, packet_t
<1>2. CASE lookup_destination
  BY <1>2 DEF lookup_destination, PacketOK, packet_t
<1>3. CASE add_packet
  <2>1. packet.destination \in Addresses
    BY <1>3 DEF add_packet, PacketOK, packet_t
  <2>2. step' \in {"capture", "response"} /\ packet' = NoPacket /\ UNCHANGED bloom_loaded
    BY <1>3 DEF add_packet
  <2>3. /\ packet_data' \in Seq(Addresses)
        /\ Len(packet_data') <= PACKET_DATA_BUFFER_ENTRIES
    BY <1>3, <2>1, DnsUpdatesAssumption DEF add_packet, PacketOK
  <2> QED
    BY <2>2, <2>3 DEF PacketOK
<1>4. CASE start_next_period
  BY <1>4, DnsUpdatesAssumption DEF start_next_period, PacketOK
<1>5. CASE discard_packet \/ read_record \/ end_response \/ write_sections \/ crash
             \/ clear_dns_table
  BY <1>5 DEF discard_packet, read_record, end_response, write_sections, crash,
              clear_dns_table, PacketOK
<1>6. CASE UNCHANGED vars
  BY <1>6 DEF vars, PacketOK
<1> QED
  BY <1>1, <1>2, <1>3, <1>4, <1>5, <1>6 DEF Next, process_packet, write_update

LEMMA InitParts ==
  ASSUME Init
  PROVE  PacketOK /\ ATP!Init /\ DTP!Init
<1>1. PacketOK
  BY DnsUpdatesAssumption DEF Init, PacketOK
<1>2. ATP!Init
  BY DEF Init, AT!Init, ATP!Init, AT!address_table_init, ATP!address_table_init,
         AT!Ids, ATP!Ids
<1>3. DTP!Init
  BY DEF Init, DT!Init, DTP!Init
<1> QED
  BY <1>1, <1>2, <1>3

(***************************************************************************)
(* process_packet and write_update use the address table and the DNS table *)
(* only through their operations: seen from either table alone, a run of   *)
(* the program is a run of that table.                                     *)
(***************************************************************************)
THEOREM ImplementsTables == Spec => [](PacketOK) /\ ATP!Spec /\ DTP!Spec
<1>1. Spec => []PacketOK
  BY InitParts, PacketStep, PTL DEF Spec
<1>2. Spec => ATP!Spec
  BY <1>1, InitParts, AddressTableStep, PTL DEF Spec, ATP!Spec
<1>3. Spec => DTP!Spec
  BY <1>1, InitParts, DnsTableStep, PTL DEF Spec, DTP!Spec
<1> QED
  BY <1>1, <1>2, <1>3

LEMMA TablesInvariant == Spec => []ATP!IInv /\ []DTP!IInv
<1>1. ATP!Spec => []ATP!IInv
  BY Assumptions, ATP!InitIInv, ATP!StepIInv, PTL DEF ATP!Spec
<1>2. DTP!Spec => []DTP!IInv
  <2>1. DTP!Init => DTP!IInv
    BY Assumptions, DTP!InitIInv
  <2>2. DTP!IInv /\ [DTP!Next]_(DTP!vars) => DTP!IInv'
    BY Assumptions, DTP!NextIInv
  <2> QED
    BY <2>1, <2>2, PTL DEF DTP!Spec
<1> QED
  BY <1>1, <1>2, ImplementsTables, PTL

(***************************************************************************)
(* The updates of a run of main.c, too, tell the server of every mapping   *)
(* of the address table before anything else refers to its id.             *)
(***************************************************************************)
THEOREM DnsUpdatesInform == Spec => ATP!KeepsServerInformed
<1>1. ATP!Spec => ATP!KeepsServerInformed
  BY Assumptions, ATP!AddressTableInforms
<1> QED
  BY <1>1, ImplementsTables

(***************************************************************************)
(* address_table.c: in a run of main.c, however often the ring wraps, no   *)
(* address has two ids and the server has the mappings of the router.      *)
(***************************************************************************)
THEOREM DnsUpdatesMappings ==
  Spec => [](ATP!OneIdPerAddress /\ ATP!ServerMirrors)
<1>1. ATP!IInv => ATP!OneIdPerAddress /\ ATP!ServerMirrors
  BY DEF ATP!IInv
<1> QED
  BY <1>1, TablesInvariant, PTL
-----------------------------------------------------------------------------
(* A record under these ids can be resolved with the packets of the period. *)
Traced(ids) ==
  /\ ids.packet_id \in Nat
  /\ ids.packet_id < Len(packet_data)
  /\ packet_data[ids.packet_id + 1] \in Private
  /\ ids.mac_id \in ATP!LiveIds

(***************************************************************************)
(* What RecordsResolved needs of the steps before: the id that a packet    *)
(* carries to its response, and from there to the records, was live when   *)
(* it was looked up, and live ids stay live.                               *)
(***************************************************************************)
Tracing ==
  /\ (step = "series" /\ packet.mac_id >= 0) =>
       packet.destination \in Private /\ packet.mac_id \in ATP!LiveIds
  /\ response # NoResponse => Traced(response)
  /\ step # "destroyed" =>
       /\ \A i \in DOMAIN a_entries : Traced(a_entries[i].ids)
       /\ \A i \in DOMAIN cname_entries : Traced(cname_entries[i].ids)
  /\ step = "staged" => added_since_last_update = 0

(* A device that is looked up gets a live id, and the other ids stay live. *)
LEMMA LookupLive ==
  ASSUME ATP!IInv, NEW address \in Addresses, NEW id,
         ATP!address_table_lookup(address, id)
  PROVE  /\ ATP!LiveIds \subseteq ATP!LiveIds'
         /\ (id \in Int /\ id >= 0) => address \in Private /\ id \in ATP!LiveIds'
<1>1. CASE address \notin Private /\ id = -1 /\ UNCHANGED ATP!table_vars
  BY <1>1 DEF ATP!table_vars, ATP!LiveIds
<1>2. CASE address \in Private /\ ATP!find_mapping(address, id)
  BY <1>2 DEF ATP!find_mapping, ATP!table_vars, ATP!LiveIds, ATP!SearchedIds
<1>3. CASE address \in Private /\ ATP!add_mapping(address, id)
  <2>1. ATP!LiveIds' = ATP!LiveIds \cup {ATP!next_last}
    BY <1>3, Assumptions, ATP!AddKeepsShape DEF ATP!IInv
  <2>2. id = ATP!next_last
    BY <1>3 DEF ATP!add_mapping
  <2> QED
    BY <1>3, <2>1, <2>2
<1> QED
  BY <1>1, <1>2, <1>3 DEF ATP!address_table_lookup

(* Ids stay traced while packets are added and mappings looked up. *)
LEMMA TracedStays ==
  ASSUME PacketOK, NEW ids, Traced(ids),
         ATP!LiveIds \subseteq ATP!LiveIds',
         \/ UNCHANGED packet_data
         \/ \E destination \in Addresses : packet_data' = Append(packet_data, destination)
  PROVE  /\ ids.packet_id < Len(packet_data')
         /\ packet_data'[ids.packet_id + 1] \in Private
         /\ ids.mac_id \in ATP!LiveIds'
BY DEF Traced, PacketOK

(* Steps that change neither the records nor the packets. *)
LEMMA TracingStays ==
  ASSUME Tracing, PacketOK, step # "destroyed", ATP!LiveIds \subseteq ATP!LiveIds',
         UNCHANGED <<a_entries, cname_entries, response, packet_data>>
  PROVE  /\ (response # NoResponse => Traced(response))'
         /\ (\A i \in DOMAIN a_entries : Traced(a_entries[i].ids))'
         /\ (\A i \in DOMAIN cname_entries : Traced(cname_entries[i].ids))'
<1>1. ASSUME NEW ids, Traced(ids)
      PROVE  /\ ids.packet_id \in Nat
             /\ ids.packet_id < Len(packet_data')
             /\ packet_data'[ids.packet_id + 1] \in Private
             /\ ids.mac_id \in ATP!LiveIds'
  BY <1>1, TracedStays DEF Traced
<1> QED
  BY <1>1 DEF Tracing, Traced

(* The two lookups of a packet. *)
LEMMA LookupTracing ==
  ASSUME Tracing, PacketOK, ATP!IInv,
         \/ \E source, destination \in Addresses, is_dns \in BOOLEAN :
              lookup_source(source, destination, is_dns)
         \/ lookup_destination
  PROVE  Tracing'
<1>1. ASSUME NEW source \in Addresses, NEW destination \in Addresses,
             NEW is_dns \in BOOLEAN, lookup_source(source, destination, is_dns)
      PROVE  Tracing'
  <2>1. ATP!LiveIds \subseteq ATP!LiveIds'
    BY <1>1, SameLookup, LookupLive DEF lookup_source
  <2>2. /\ UNCHANGED <<a_entries, cname_entries, response, packet_data>>
        /\ step = "capture" /\ step' = "destination"
    BY <1>1 DEF lookup_source, dns_table
  <2> QED
    BY <2>1, <2>2, TracingStays DEF Tracing
<1>2. CASE lookup_destination
  <2>1. packet.destination \in Addresses /\ packet \in packet_t
    BY <1>2 DEF lookup_destination, PacketOK, packet_t
  <2>2. PICK id \in AT!Ids \cup {-1} :
          /\ ATP!address_table_lookup(packet.destination, id)
          /\ packet' = [packet EXCEPT !.mac_id = IF packet.is_dns THEN id ELSE -1]
    BY <1>2, SameLookup DEF lookup_destination
  <2>3. /\ ATP!LiveIds \subseteq ATP!LiveIds'
        /\ (id \in Int /\ id >= 0) => packet.destination \in Private /\ id \in ATP!LiveIds'
    BY <2>1, <2>2, LookupLive
  <2>4. /\ UNCHANGED <<a_entries, cname_entries, response, packet_data>>
        /\ step = "destination" /\ step' = "series"
    BY <1>2 DEF lookup_destination, dns_table
  <2>5. /\ packet'.destination = packet.destination
        /\ packet'.mac_id = IF packet.is_dns THEN id ELSE -1
    BY <2>1, <2>2 DEF packet_t
  <2>6. id \in Int
    BY <2>2, DnsUpdatesAssumption DEF AT!Ids
  <2>7. packet'.mac_id >= 0 => packet'.destination \in Private /\ packet'.mac_id \in ATP!LiveIds'
    BY <2>3, <2>5, <2>6
  <2> QED
    BY <2>3, <2>4, <2>7, TracingStays DEF Tracing
<1> QED
  BY <1>1, <1>2

(* An integer that fits its type is not changed by the conversion. *)
LEMMA SmallModulo ==
  ASSUME NEW max \in Nat, NEW i \in 0 .. max
  PROVE  i % (max + 1) = i
OBVIOUS

(* A packet gets its place in the series, and its response begins. *)
LEMMA AddPacketTracing ==
  ASSUME Tracing, PacketOK, DTP!IInv, add_packet
  PROVE  Tracing'
<1>1. /\ ATP!LiveIds' = ATP!LiveIds
      /\ step' \in {"capture", "response"}
  BY DEF add_packet, address_table, ATP!LiveIds
<1>2. packet \in packet_t /\ packet_data' = Append(packet_data, packet.destination)
  BY DEF add_packet, PacketOK
<1>3. ASSUME NEW ids, Traced(ids)
      PROVE  /\ ids.packet_id \in Nat
             /\ ids.packet_id < Len(packet_data')
             /\ packet_data'[ids.packet_id + 1] \in Private
             /\ ids.mac_id \in ATP!LiveIds'
  <2>1. packet.destination \in Addresses
    BY <1>2 DEF packet_t
  <2> QED
    BY <1>1, <1>2, <1>3, <2>1, TracedStays DEF Traced
<1>4. UNCHANGED <<a_entries, cname_entries>> /\ step = "series"
  BY DEF add_packet, dns_table, DT!begin_response, DT!table_vars
<1>5. /\ (\A i \in DOMAIN a_entries : Traced(a_entries[i].ids))'
      /\ (\A i \in DOMAIN cname_entries : Traced(cname_entries[i].ids))'
  BY <1>3, <1>4 DEF Tracing, Traced
<1>6. (response # NoResponse => Traced(response))'
  <2>1. CASE packet.mac_id >= 0
    <3>1. packet.destination \in Private /\ packet.mac_id \in ATP!LiveIds
      BY <2>1 DEF add_packet, Tracing
    <3>2. /\ Len(packet_data) \in 0 .. UINT16_MAX
          /\ packet.mac_id \in 0 .. UINT8_MAX
      BY <1>2, <2>1, DnsUpdatesAssumption DEF add_packet, PacketOK, packet_t, AT!Ids
    <3>3. response' = [packet_id |-> Len(packet_data), mac_id |-> packet.mac_id]
      <4>1. /\ Len(packet_data) % (UINT16_MAX + 1) = Len(packet_data)
            /\ packet.mac_id % (UINT8_MAX + 1) = packet.mac_id
        BY <3>2, SmallModulo, DnsUpdatesAssumption
      <4> QED
        BY <2>1, <4>1 DEF add_packet, DT!begin_response
    <3>4. /\ Len(packet_data') = Len(packet_data) + 1
          /\ packet_data'[Len(packet_data) + 1] = packet.destination
      BY <1>2 DEF PacketOK, packet_t
    <3>5. /\ response'.packet_id = Len(packet_data)
          /\ response'.mac_id = packet.mac_id
      BY <3>3
    <3> QED
      BY <1>1, <3>1, <3>2, <3>4, <3>5 DEF Traced
  <2>2. CASE ~(packet.mac_id >= 0)
    <3>1. UNCHANGED response
      BY <2>2 DEF add_packet, dns_table
    <3> QED
      BY <1>3, <3>1 DEF Tracing, Traced
  <2> QED
    BY <2>1, <2>2
<1> QED
  BY <1>1, <1>5, <1>6 DEF Tracing

(* A record is filed under the ids of the response that it was read from. *)
LEMMA ReadRecordTracing ==
  ASSUME Tracing, PacketOK, DTP!IInv, read_record
  PROVE  Tracing'
<1>1. /\ UNCHANGED <<packet_data, packet, step, added_since_last_update>>
      /\ ATP!LiveIds' = ATP!LiveIds
      /\ step = "response"
  BY DEF read_record, address_table, ATP!LiveIds
<1>2. ASSUME NEW ids, Traced(ids)
      PROVE  Traced(ids)'
  BY <1>1, <1>2 DEF Traced
<1>3. a_entries \in Seq(DTP!dns_a_entry_t) /\ cname_entries \in Seq(DTP!dns_cname_entry_t)
  BY DEF DTP!IInv, DTP!TypeOK
<1>4. ASSUME NEW name, NEW block, DT!add_a_record(name, block)
      PROVE  Tracing'
  <2> DEFINE entry == [ids |-> response, domain_name |-> name, block |-> block]
  <2>1. /\ response # NoResponse
        /\ UNCHANGED <<response, cname_entries>>
        /\ UNCHANGED a_entries \/ a_entries' = Append(a_entries, entry)
    BY <1>4 DEF DT!add_a_record, DT!Parsing
  <2>2. Traced(response) /\ entry.ids = response
    BY <2>1 DEF Tracing
  <2>3. \A i \in DOMAIN a_entries' : a_entries'[i].ids = response \/
          (i \in DOMAIN a_entries /\ a_entries'[i] = a_entries[i])
    <3> HIDE DEF entry
    <3> QED
      BY <1>3, <2>1, <2>2
  <2>4. (\A i \in DOMAIN a_entries : Traced(a_entries[i].ids))'
    BY <1>1, <2>2, <2>3 DEF Tracing, Traced
  <2> QED
    BY <1>1, <2>1, <2>4 DEF Tracing, Traced
<1>5. ASSUME NEW name, NEW cname, NEW block, NEW cname_block,
             DT!add_cname_record(name, cname, block, cname_block)
      PROVE  Tracing'
  <2> DEFINE entry == [ids |-> response, domain_name |-> name, cname |-> cname,
                       block |-> block, cname_block |-> cname_block]
  <2>1. /\ response # NoResponse
        /\ UNCHANGED <<response, a_entries>>
        /\ UNCHANGED cname_entries \/ cname_entries' = Append(cname_entries, entry)
    BY <1>5 DEF DT!add_cname_record, DT!Parsing
  <2>2. Traced(response) /\ entry.ids = response
    BY <2>1 DEF Tracing
  <2>3. \A i \in DOMAIN cname_entries' : cname_entries'[i].ids = response \/
          (i \in DOMAIN cname_entries /\ cname_entries'[i] = cname_entries[i])
    <3> HIDE DEF entry
    <3> QED
      BY <1>3, <2>1, <2>2
  <2>4. (\A i \in DOMAIN cname_entries : Traced(cname_entries[i].ids))'
    BY <1>1, <2>2, <2>3 DEF Tracing, Traced
  <2> QED
    BY <1>1, <2>1, <2>4 DEF Tracing, Traced
<1>6. ASSUME NEW block, DT!lose_cname_record(block)
      PROVE  Tracing'
  BY <1>1, <1>6 DEF DT!lose_cname_record, DT!read_vars, Tracing, Traced
<1> QED
  BY <1>4, <1>5, <1>6 DEF read_record, DT!read_record

(* Every step of process_packet and write_update. *)
LEMMA TracingStep ==
  ASSUME Tracing, PacketOK, ATP!IInv, DTP!IInv, [Next]_vars
  PROVE  Tracing'
<1>1. CASE (\E source, destination \in Addresses, is_dns \in BOOLEAN :
              lookup_source(source, destination, is_dns)) \/ lookup_destination
  BY <1>1, LookupTracing
<1>2. CASE add_packet
  BY <1>2, AddPacketTracing
<1>3. CASE read_record
  BY <1>3, ReadRecordTracing
<1>4. CASE discard_packet \/ crash \/ UNCHANGED vars
  BY <1>4 DEF discard_packet, crash, vars, address_table, dns_table, Tracing, Traced,
              ATP!LiveIds
<1>5. CASE end_response
  BY <1>5 DEF end_response, DT!end_response, DT!table_vars, address_table, Tracing, Traced,
              ATP!LiveIds
<1>6. CASE write_sections
  BY <1>6 DEF write_sections, AT!address_table_write_update, dns_table, Tracing, Traced,
              ATP!LiveIds
<1>7. CASE start_next_period
  BY <1>7 DEF start_next_period, DT!dns_table_destroy, Tracing
<1>8. CASE clear_dns_table
  <2>1. DOMAIN a_entries' = {} /\ DOMAIN cname_entries' = {}
    BY <1>8 DEF clear_dns_table, DT!dns_table_init
  <2>2. /\ UNCHANGED <<response, packet_data>> /\ ATP!LiveIds' = ATP!LiveIds
        /\ step' = "capture"
    BY <1>8 DEF clear_dns_table, DT!dns_table_init, address_table, ATP!LiveIds
  <2> QED
    BY <2>1, <2>2 DEF Tracing, Traced
<1> QED
  BY <1>1, <1>2, <1>3, <1>4, <1>5, <1>6, <1>7, <1>8 DEF Next, process_packet, write_update

(* With nothing left to send the server resolves what was traced. *)
LEMMA TracingResolves ==
  ASSUME Tracing, PacketOK, ATP!IInv, DTP!IInv
  PROVE  RecordsResolved
<1> SUFFICES ASSUME step = "staged", NEW entry \in Entries
             PROVE  LET ids == entry.ids
                        device == packet_data[ids.packet_id + 1]
                    IN  /\ ids.packet_id < Len(packet_data)
                        /\ device \in Private
                        /\ entries[ids.mac_id] = device => server[ids.mac_id] = device
  BY DEF RecordsResolved
<1>1. Traced(entry.ids)
  BY DEF Entries, ToSet, Tracing
<1>2. ATP!UnsentIds = {}
  BY DEF Tracing, ATP!UnsentIds
<1>3. server[entry.ids.mac_id] = entries[entry.ids.mac_id]
  BY <1>1, <1>2 DEF Traced, ATP!IInv, ATP!ServerMirrors
<1> QED
  BY <1>1, <1>3 DEF Traced

(***************************************************************************)
(* A DNS record of an update names a packet of that update that went to a  *)
(* device at home, and the server resolves its MAC id to that device       *)
(* unless the ring gave the id to another one in the same period; for      *)
(* tables of any size, in any interleaving of packets and updates.         *)
(***************************************************************************)
THEOREM DnsRecordsResolved == Spec => []RecordsResolved
<1>1. Init => Tracing
  BY DEF Init, DT!Init, Tracing
<1>2. Tracing /\ PacketOK /\ ATP!IInv /\ DTP!IInv /\ [Next]_vars => Tracing'
  BY TracingStep
<1>3. Tracing /\ PacketOK /\ ATP!IInv /\ DTP!IInv => RecordsResolved
  BY TracingResolves
<1> QED
  BY <1>1, <1>2, <1>3, ImplementsTables, TablesInvariant, PTL DEF Spec

(***************************************************************************)
(* The update has the first records of its period and the number of the    *)
(* others, as DnsTable has it alone.                                       *)
(***************************************************************************)
THEOREM DnsUpdatesAccounted == Spec => []RecordsAccounted
<1>1. DTP!IInv => RecordsAccounted
  BY DEF DTP!IInv, RecordsAccounted, DT!RecordsAccounted, DTP!RecordsAccounted
<1> QED
  BY <1>1, TablesInvariant, PTL

(***************************************************************************)
(* dns_table.c:18-29: in a run of main.c no two pointers of the table are  *)
(* to the same name, and until dns_table_destroy none is to a freed one.   *)
(***************************************************************************)
THEOREM DnsUpdatesNames == Spec => []NamesOwned
<1>1. DTP!IInv => NamesOwned
  BY SamePointers DEF DTP!IInv, NamesOwned, DT!NamesOwned, DTP!NamesOwned
<1> QED
  BY <1>1, TablesInvariant, PTL

(* The types of both tables and of the packet that is worked on. *)
THEOREM DnsUpdatesTypes == Spec => []TypeOK
<1>1. PacketOK /\ ATP!IInv /\ DTP!IInv => TypeOK
  <2> SUFFICES ASSUME PacketOK, ATP!IInv, DTP!IInv
               PROVE  TypeOK
    OBVIOUS
  <2>1. AT!TypeOK
    BY DEF ATP!IInv, ATP!TypeOK, AT!TypeOK, ATP!Ids, AT!Ids
  <2>2. DT!TypeOK
    BY DEF DTP!IInv, DTP!TypeOK, DT!TypeOK, DTP!dns_a_entry_t, DT!dns_a_entry_t,
       DTP!dns_cname_entry_t, DT!dns_cname_entry_t, DTP!ids_t, DT!ids_t
  <2> QED
    BY <2>1, <2>2 DEF PacketOK, packet_t, TypeOK
<1> QED
  BY <1>1, ImplementsTables, TablesInvariant, PTL

-----------------------------------------------------------------------------
(* The comparison of domain_whitelist_lookup, for characters of any kind. *)

(* The name listed, or a name of one more label or several below it. *)
AtOrBelow(C, domain, listed) ==
  \/ domain = listed
  \/ \E prefix \in Seq(C) : domain = prefix \o <<Dot>> \o listed

(* What WL!IsTail says of single characters. *)
LEMMA TailCharacters ==
  ASSUME NEW C, NEW domain \in Seq(C), NEW listed \in Seq(C)
  PROVE  WL!IsTail(domain, listed) <=>
           /\ WL!domain_offset(domain, listed) >= 0
           /\ \A i \in 1 .. Len(listed) :
                domain[WL!domain_offset(domain, listed) + i] = listed[i]
<1> DEFINE n == WL!domain_offset(domain, listed)
           tail == SubSeq(domain, n + 1, Len(domain))
<1>1. n \in Int /\ n = Len(domain) - Len(listed)
  BY DEF WL!domain_offset
<1>2. SUFFICES ASSUME n >= 0
               PROVE  tail = listed <=> \A i \in 1 .. Len(listed) : domain[n + i] = listed[i]
  BY DEF WL!IsTail
<1>3. /\ tail \in Seq(C)
      /\ Len(tail) = Len(listed)
      /\ \A i \in 1 .. Len(listed) : tail[i] = domain[n + i]
  BY <1>1, <1>2
<1> HIDE DEF n, tail
<1>4. ASSUME \A i \in 1 .. Len(listed) : domain[n + i] = listed[i]
      PROVE  tail = listed
  BY <1>3, <1>4
<1> QED
  BY <1>3, <1>4

(***************************************************************************)
(* whitelist.h:21-24: a domain on the list matches, and so does every      *)
(* domain below it, but no domain that only ends in the same letters.      *)
(***************************************************************************)
THEOREM MatchesAtOrBelow ==
  ASSUME NEW C, Dot \in C, NEW domain \in Seq(C), NEW listed \in Seq(C)
  PROVE  WL!Matches(domain, listed) <=> AtOrBelow(C, domain, listed)
<1> DEFINE n == WL!domain_offset(domain, listed)
<1>1. n \in Int /\ n = Len(domain) - Len(listed)
  BY DEF WL!domain_offset
<1>2. WL!IsTail(domain, listed) <=>
        n >= 0 /\ \A i \in 1 .. Len(listed) : domain[n + i] = listed[i]
  BY TailCharacters
<1> HIDE DEF n
<1>3. ASSUME WL!Matches(domain, listed), n = 0
      PROVE  domain = listed
  <2>1. Len(domain) = Len(listed) /\ \A i \in 1 .. Len(listed) : domain[i] = listed[i]
    BY <1>1, <1>2, <1>3 DEF WL!Matches
  <2> QED
    BY <2>1
<1>4. ASSUME WL!Matches(domain, listed), n # 0
      PROVE  \E prefix \in Seq(C) : domain = prefix \o <<Dot>> \o listed
  <2> DEFINE prefix == SubSeq(domain, 1, n - 1)
             dotted == prefix \o <<Dot>>
             whole == dotted \o listed
  <2>1. n \in 1 .. Len(domain) /\ domain[n] = Dot
    BY <1>1, <1>2, <1>4 DEF WL!Matches, n
  <2>2. /\ prefix \in Seq(C)
        /\ Len(prefix) = n - 1
        /\ \A i \in 1 .. n - 1 : prefix[i] = domain[i]
    BY <2>1
  <2> HIDE DEF prefix
  <2>3. /\ dotted \in Seq(C)
        /\ Len(dotted) = n
        /\ \A i \in 1 .. n - 1 : dotted[i] = domain[i]
        /\ dotted[n] = Dot
    <3>1. <<Dot>> \in Seq(C) /\ Len(<<Dot>>) = 1 /\ <<Dot>>[1] = Dot
      OBVIOUS
    <3>2. /\ dotted \in Seq(C)
          /\ Len(dotted) = Len(prefix) + Len(<<Dot>>)
          /\ \A i \in 1 .. Len(prefix) + Len(<<Dot>>) :
               dotted[i] = IF i <= Len(prefix) THEN prefix[i] ELSE <<Dot>>[i - Len(prefix)]
      BY <2>2, <3>1, ConcatProperties
    <3> HIDE DEF dotted
    <3>3. Len(dotted) = n
      BY <1>1, <2>2, <3>1, <3>2
    <3>4. ASSUME NEW i \in 1 .. n - 1
          PROVE  dotted[i] = domain[i]
      <4>1. i \in 1 .. Len(prefix) + Len(<<Dot>>) /\ i <= Len(prefix)
        BY <1>1, <2>2, <3>1
      <4>2. dotted[i] = prefix[i]
        BY <3>2, <4>1
      <4> QED
        BY <2>2, <4>2
    <3>5. dotted[n] = Dot
      <4>1. /\ n \in 1 .. Len(prefix) + Len(<<Dot>>)
            /\ ~(n <= Len(prefix))
            /\ n - Len(prefix) = 1
        BY <2>1, <2>2, <3>1
      <4>2. dotted[n] = <<Dot>>[n - Len(prefix)]
        BY <3>2, <4>1
      <4> QED
        BY <3>1, <4>1, <4>2
    <3> QED
      BY <3>2, <3>3, <3>4, <3>5
  <2> HIDE DEF dotted
  <2>4. /\ whole \in Seq(C)
        /\ Len(whole) = Len(domain)
        /\ \A i \in 1 .. n : whole[i] = dotted[i]
        /\ \A i \in 1 .. Len(listed) : whole[n + i] = listed[i]
    <3>1. /\ whole \in Seq(C)
          /\ Len(whole) = n + Len(listed)
          /\ \A i \in 1 .. n + Len(listed) :
               whole[i] = IF i <= n THEN dotted[i] ELSE listed[i - n]
      BY <2>3, ConcatProperties
    <3> HIDE DEF whole
    <3>2. ASSUME NEW i \in 1 .. Len(listed)
          PROVE  whole[n + i] = listed[i]
      <4>1. n + i \in 1 .. n + Len(listed) /\ ~(n + i <= n) /\ (n + i) - n = i
        BY <2>1
      <4> QED
        BY <3>1, <4>1
    <3>3. Len(whole) = Len(domain)
      BY <1>1, <3>1
    <3>4. ASSUME NEW i \in 1 .. n
          PROVE  whole[i] = dotted[i]
      BY <2>1, <3>1
    <3> QED
      BY <3>1, <3>2, <3>3, <3>4
  <2> HIDE DEF whole
  <2>5. ASSUME NEW i \in 1 .. Len(domain)
        PROVE  whole[i] = domain[i]
    <3>1. CASE i <= n
      BY <2>1, <2>3, <2>4, <3>1
    <3>2. CASE i > n
      <4>1. i - n \in 1 .. Len(listed) /\ n + (i - n) = i
        BY <1>1, <2>1, <3>2
      <4>2. /\ whole[n + (i - n)] = listed[i - n]
            /\ domain[n + (i - n)] = listed[i - n]
        BY <1>2, <1>4, <2>4, <4>1 DEF WL!Matches
      <4> QED
        BY <4>1, <4>2
    <3> QED
      BY <1>1, <3>1, <3>2
  <2>6. whole = domain
    BY <2>4, <2>5
  <2>7. domain = prefix \o <<Dot>> \o listed
    BY <2>6 DEF whole, dotted
  <2> QED
    BY <2>2, <2>7
<1>5. ASSUME domain = listed
      PROVE  WL!Matches(domain, listed)
  BY <1>1, <1>2, <1>5 DEF WL!Matches, n
<1>6. ASSUME NEW prefix \in Seq(C), domain = prefix \o <<Dot>> \o listed
      PROVE  WL!Matches(domain, listed)
  <2>1. n = Len(prefix) + 1
    BY <1>1, <1>6
  <2>2. /\ domain[n] = Dot
        /\ \A i \in 1 .. Len(listed) : domain[n + i] = listed[i]
    BY <1>6, <2>1
  <2> QED
    BY <1>1, <1>2, <2>1, <2>2 DEF WL!Matches, n
<1> QED
  BY <1>3, <1>4, <1>5, <1>6 DEF AtOrBelow

-----------------------------------------------------------------------------
(***************************************************************************)
(* The text that dn_expand prints is built a label at a time, so that what *)
(* is true of it is shown by induction on the number of labels.            *)
(***************************************************************************)

(* Induction on Nat, for a set of numbers in place of a predicate. *)
LEMMA NatSet ==
  ASSUME NEW P, 0 \in P, \A n \in Nat : n \in P => n + 1 \in P
  PROVE  Nat \subseteq P
<1> DEFINE T == Nat \ P
           R == OpToRel(<, Nat)
<1>1. SUFFICES ASSUME T # {} PROVE FALSE
  OBVIOUS
<1>2. T \subseteq Nat
  OBVIOUS
<1>3. \A x, y \in Nat : x < y => <<x, y>> \in R
  BY DEF OpToRel
<1> HIDE DEF T, R
<1>4. IsWellFoundedOn(R, Nat)
  BY NatLessThanWellFounded DEF R
<1>5. \E x \in T : \A y \in T : ~ (<<y, x>> \in R)
  BY ONLY <1>1, <1>2, <1>4, WFMin
<1>6. PICK x \in T : \A y \in T : ~ (<<y, x>> \in R)
  BY <1>5
<1>7. x \in Nat /\ x # 0
  BY <1>2 DEF T
<1>8. x - 1 \in Nat /\ x - 1 < x /\ x - 1 + 1 = x
  BY <1>7
<1>9. x - 1 \notin T
  BY <1>3, <1>6, <1>7, <1>8
<1>10. x - 1 \in P
  BY <1>8, <1>9 DEF T
<1> QED
  BY <1>6, <1>8, <1>10 DEF T

(***************************************************************************)
(* The texts that dn_expand prints of the last labels of a name, up to n   *)
(* of them.                                                                *)
(***************************************************************************)
IsText(f, name, n) ==
  f = [k \in 0 .. n |->
         IF k = 0 THEN <<>>
         ELSE IF k = 1 THEN name[Len(name)]
         ELSE prepend_label(name[Len(name) - k + 1], f[k - 1])]

(* The same, one equation for each number of labels. *)
Growing(f, name, n) ==
  /\ f[0] = <<>>
  /\ n # 0 => f[1] = name[Len(name)]
  /\ \A k \in 2 .. n : f[k] = prepend_label(name[Len(name) - k + 1], f[k - 1])

LEMMA TextAt ==
  ASSUME NEW f, NEW name, NEW n \in Nat, IsText(f, name, n)
  PROVE  Growing(f, name, n)
<1>1. f[0] = <<>>
  BY DEF IsText
<1>2. n # 0 => f[1] = name[Len(name)]
  BY DEF IsText
<1>3. ASSUME NEW k \in 2 .. n
      PROVE  f[k] = prepend_label(name[Len(name) - k + 1], f[k - 1])
  <2>1. k \in 0 .. n /\ k # 0 /\ k # 1
    BY <1>3
  <2> QED
    BY <2>1 DEF IsText
<1> QED
  BY <1>1, <1>2, <1>3 DEF Growing

LEMMA TextExists ==
  ASSUME NEW name, NEW n \in Nat
  PROVE  \E f : IsText(f, name, n)
<1> DEFINE P == {m \in Nat : \E f : IsText(f, name, m)}
           label(k) == name[Len(name) - k + 1]
<1>1. 0 \in P
  <2> DEFINE f == [k \in 0 .. 0 |-> <<>>]
  <2>1. IsText(f, name, 0)
    BY DEF IsText
  <2> QED
    BY <2>1
<1>2. ASSUME NEW m \in Nat, m \in P
      PROVE  m + 1 \in P
  <2>1. PICK f : IsText(f, name, m)
    BY <1>2
  <2> DEFINE new == IF m = 0 THEN name[Len(name)] ELSE prepend_label(label(m + 1), f[m])
             g == [k \in 0 .. m + 1 |-> IF k = m + 1 THEN new ELSE f[k]]
             h == [k \in 0 .. m + 1 |->
                     IF k = 0 THEN <<>>
                     ELSE IF k = 1 THEN name[Len(name)]
                     ELSE prepend_label(label(k), g[k - 1])]
  <2>2. ASSUME NEW k \in 0 .. m + 1
        PROVE  g[k] = h[k]
    <3>1. CASE k = m + 1
      <4>1. g[k] = new
        BY <3>1
      <4>2. CASE m = 0
        BY <3>1, <4>1, <4>2
      <4>3. CASE m # 0
        <5>1. /\ k # 0 /\ k # 1 /\ k - 1 = m /\ m \in 0 .. m + 1 /\ m # m + 1
          BY <3>1, <4>3
        <5>2. h[k] = prepend_label(label(m + 1), g[m])
          BY <3>1, <5>1
        <5>3. g[m] = f[m]
          BY <5>1
        <5> QED
          BY <4>1, <4>3, <5>2, <5>3
      <4> QED
        BY <4>2, <4>3
    <3>2. CASE k # m + 1
      <4>1. k \in 0 .. m
        BY <3>2
      <4>2. g[k] = f[k]
        BY <3>2
      <4>3. f[k] = IF k = 0 THEN <<>>
                   ELSE IF k = 1 THEN name[Len(name)]
                   ELSE prepend_label(label(k), f[k - 1])
        BY <2>1, <4>1 DEF IsText
      <4>4. k # 0 => k - 1 \in 0 .. m + 1 /\ k - 1 # m + 1
        BY <4>1
      <4>5. k # 0 => g[k - 1] = f[k - 1]
        BY <4>4
      <4> QED
        BY <4>2, <4>3, <4>5
    <3> QED
      BY <3>1, <3>2
  <2>3. g = h
    BY <2>2
  <2>4. IsText(g, name, m + 1)
    BY <2>3 DEF IsText
  <2> HIDE DEF g
  <2> QED
    BY <2>4
<1> HIDE DEF P
<1>3. n \in P
  BY <1>1, <1>2, NatSet
<1> QED
  BY <1>3 DEF P

LEMMA TextOf ==
  ASSUME NEW S, NEW name \in Seq(S)
  PROVE  \E f : Growing(f, name, Len(name)) /\ dn_expand(name) = f[Len(name)]
<1> DEFINE n == Len(name)
           f == CHOOSE g : IsText(g, name, n)
<1>1. n \in Nat
  OBVIOUS
<1>2. IsText(f, name, n)
  BY <1>1, TextExists
<1>3. dn_expand(name) = f[n]
  BY DEF dn_expand, IsText
<1> HIDE DEF f, n
<1>4. Growing(f, name, n)
  BY <1>1, <1>2, TextAt
<1> QED
  BY <1>3, <1>4 DEF n

(* Two texts agree on the last labels that the names share. *)
SameLabels(name, other, n) ==
  /\ \A k \in 1 .. n : name[Len(name) - k + 1] = other[Len(other) - k + 1]
  /\ n # 0 => name[Len(name)] = other[Len(other)]

LEMMA TextShared ==
  ASSUME NEW name, NEW other, NEW n \in Nat, NEW f, NEW g,
         Growing(f, name, n), Growing(g, other, n),
         SameLabels(name, other, n)
  PROVE  f[n] = g[n]
<1> DEFINE P == {k \in Nat : k <= n => f[k] = g[k]}
<1>1. 0 \in P
  BY DEF Growing
<1>2. ASSUME NEW k \in Nat, k \in P
      PROVE  k + 1 \in P
  <2> SUFFICES ASSUME k + 1 <= n PROVE f[k + 1] = g[k + 1]
    OBVIOUS
  <2>1. f[k] = g[k] /\ name[Len(name) - (k + 1) + 1] = other[Len(other) - (k + 1) + 1]
    <3>1. k <= n /\ k + 1 \in 1 .. n
      OBVIOUS
    <3>2. f[k] = g[k]
      BY <1>2, <3>1
    <3> QED
      BY ONLY <3>1, <3>2, SameLabels(name, other, n) DEF SameLabels
  <2>2. CASE k = 0
    BY <2>2 DEF Growing, SameLabels
  <2>3. CASE k # 0
    <3>1. k + 1 \in 2 .. n /\ k + 1 - 1 = k
      BY <2>3
    <3>2. f[k + 1] = prepend_label(name[Len(name) - (k + 1) + 1], f[k])
      BY <3>1 DEF Growing
    <3>3. g[k + 1] = prepend_label(other[Len(other) - (k + 1) + 1], g[k])
      BY <3>1 DEF Growing
    <3> QED
      BY ONLY <2>1, <3>2, <3>3
  <2> QED
    BY <2>2, <2>3
<1> HIDE DEF P
<1>3. n \in P
  BY <1>1, <1>2, NatSet
<1> QED
  BY <1>3 DEF P

(***************************************************************************)
(* The texts of what follows the first labels of a name, and of the same   *)
(* with another label in front.                                            *)
(***************************************************************************)
LEMMA TextFrom ==
  ASSUME NEW S, NEW name \in Seq(S), NEW f, Growing(f, name, Len(name)),
         NEW k \in 1 .. Len(name)
  PROVE  dn_expand(From(name, k)) = f[Len(name) - k + 1]
<1> DEFINE N == Len(name)
           rest == From(name, k)
           n == N - k + 1
<1>1. /\ N \in Nat /\ n \in Nat \ {0} /\ rest \in Seq(S) /\ Len(rest) = n
      /\ \A i \in 1 .. n : rest[i] = name[k + i - 1]
      /\ n = N - k + 1 /\ Len(name) = N /\ k \in 1 .. N
  BY DEF From
<1> HIDE DEF rest, n, N
<1>2. PICK g : Growing(g, rest, n) /\ dn_expand(rest) = g[n]
  BY <1>1, TextOf
<1>3. Growing(f, name, n)
  BY <1>1 DEF Growing, N
<1>4. ASSUME NEW i \in 1 .. n
      PROVE  rest[n - i + 1] = name[N - i + 1]
  <2>1. n - i + 1 \in 1 .. n /\ k + (n - i + 1) - 1 = N - i + 1
    BY <1>1
  <2> QED
    BY <1>1, <2>1
<1>5. rest[n] = name[N]
  BY <1>1
<1>6. f[n] = g[n]
  <2>1. SameLabels(name, rest, n) /\ n \in Nat
    BY <1>1, <1>4, <1>5 DEF SameLabels
  <2> QED
    BY ONLY <1>2, <1>3, <2>1, TextShared
<1> QED
  BY <1>2, <1>6 DEF rest, n, N

LEMMA TextHead ==
  ASSUME NEW S, NEW name \in Seq(S), NEW f, Growing(f, name, Len(name)),
         NEW k \in 1 .. Len(name), NEW label \in S
  PROVE  dn_expand(<<label>> \o From(name, k + 1)) =
           IF k = Len(name) THEN label ELSE prepend_label(label, f[Len(name) - k])
<1> DEFINE N == Len(name)
           rest == From(name, k + 1)
           first_label == <<label>>
           whole == first_label \o rest
           n == N - k
<1>1. /\ N \in Nat /\ n \in Nat /\ n = N - k /\ Len(name) = N /\ k \in 1 .. N
      /\ rest \in Seq(S) /\ Len(rest) = n
      /\ \A i \in 1 .. n : rest[i] = name[k + i]
      /\ first_label \in Seq(S) /\ Len(first_label) = 1 /\ first_label[1] = label
  BY DEF From
<1> HIDE DEF rest, n, N, first_label
<1>2. /\ whole \in Seq(S) /\ Len(whole) = n + 1 /\ whole[1] = label
      /\ \A i \in 1 .. n : whole[i + 1] = name[k + i]
  <2>0. /\ whole \in Seq(S) /\ Len(whole) = Len(first_label) + Len(rest)
        /\ \A i \in 1 .. Len(first_label) + Len(rest) :
             whole[i] = IF i <= Len(first_label) THEN first_label[i]
                        ELSE rest[i - Len(first_label)]
    BY <1>1, ConcatProperties
  <2> HIDE DEF whole
  <2>1. /\ whole \in Seq(S) /\ Len(whole) = 1 + n
        /\ \A i \in 1 .. 1 + n : whole[i] = IF i <= 1 THEN first_label[i] ELSE rest[i - 1]
    BY ONLY <1>1, <2>0
  <2>2. ASSUME NEW i \in 1 .. n
        PROVE  whole[i + 1] = name[k + i]
    <3>1. i + 1 \in 1 .. 1 + n /\ ~(i + 1 <= 1) /\ (i + 1) - 1 = i
      BY <1>1
    <3> QED
      BY <1>1, <2>1, <3>1
  <2>3. whole[1] = label /\ Len(whole) = n + 1
    BY <1>1, <2>1
  <2> QED
    BY <2>1, <2>2, <2>3
<1> HIDE DEF whole
<1>3. PICK g : Growing(g, whole, n + 1) /\ dn_expand(whole) = g[n + 1]
  BY <1>2, TextOf
<1>4. dn_expand(<<label>> \o From(name, k + 1)) = g[n + 1]
  BY <1>3 DEF whole, rest, first_label
<1>5. CASE n = 0
  <2>1. g[1] = whole[Len(whole)] /\ Len(whole) = 1 /\ k = N
    BY <1>1, <1>2, <1>3, <1>5 DEF Growing
  <2> QED
    BY <1>1, <1>2, <1>4, <1>5, <2>1
<1>6. CASE n # 0
  <2>1. Growing(f, name, n) /\ Growing(g, whole, n)
    BY <1>1, <1>3 DEF Growing
  <2>2. ASSUME NEW i \in 1 .. n
        PROVE  whole[(n + 1) - i + 1] = name[N - i + 1]
    <3>1. PICK l \in 1 .. n : l = n - i + 1
      BY <1>1
    <3>2. (n + 1) - i + 1 = l + 1 /\ N - i + 1 = k + l
      BY <1>1, <3>1
    <3> QED
      BY <1>2, <3>2
  <2>3. whole[n + 1] = name[N]
    <3>1. n \in 1 .. n /\ k + n = N
      BY <1>1, <1>6
    <3> QED
      BY <1>2, <3>1
  <2>4. f[n] = g[n]
    <3>1. SameLabels(name, whole, n) /\ n \in Nat
      BY <1>1, <1>2, <2>2, <2>3 DEF SameLabels
    <3> QED
      BY ONLY <2>1, <3>1, TextShared
  <2>5. g[n + 1] = prepend_label(label, g[n])
    <3>1. n + 1 \in 2 .. n + 1 /\ (n + 1) - (n + 1) + 1 = 1 /\ (n + 1) - 1 = n
      BY <1>1, <1>6
    <3>2. g[n + 1] = prepend_label(whole[Len(whole) - (n + 1) + 1], g[(n + 1) - 1])
      BY <1>3, <3>1 DEF Growing
    <3> QED
      BY <1>2, <3>1, <3>2
  <2>6. k # N
    BY <1>1, <1>6
  <2> QED
    BY <1>1, <1>4, <2>4, <2>5, <2>6 DEF n, N
<1> QED
  BY <1>1, <1>5, <1>6
-----------------------------------------------------------------------------
(* A text matches a line that is the text or what follows a dot in it. *)
LEMMA MatchesAfterDot ==
  ASSUME NEW C, NEW domain \in Seq(C), NEW listed \in Seq(C)
  PROVE  WL!Matches(domain, listed) <=>
           \/ domain = listed
           \/ \E j \in DOMAIN domain : domain[j] = Dot /\ From(domain, j + 1) = listed
<1> DEFINE n == WL!domain_offset(domain, listed)
<1>1. n \in Int /\ n = Len(domain) - Len(listed)
  BY DEF WL!domain_offset
<1>2. ASSUME WL!Matches(domain, listed), n = 0
      PROVE  domain = listed
  <2>1. SubSeq(domain, 1, Len(domain)) = listed
    BY <1>2 DEF WL!Matches, WL!IsTail
  <2>2. SubSeq(domain, 1, Len(domain)) = domain
    OBVIOUS
  <2> QED
    BY <2>1, <2>2
<1>3. ASSUME WL!Matches(domain, listed), n # 0
      PROVE  \E j \in DOMAIN domain : domain[j] = Dot /\ From(domain, j + 1) = listed
  <2>1. n >= 0 /\ From(domain, n + 1) = listed /\ domain[n] = Dot
    BY <1>3 DEF WL!Matches, WL!IsTail, From
  <2>2. n \in DOMAIN domain
    BY <1>1, <1>3, <2>1
  <2> QED
    BY <2>1, <2>2
<1>4. ASSUME domain = listed
      PROVE  WL!Matches(domain, listed)
  <2>1. n = 0 /\ SubSeq(domain, 1, Len(domain)) = domain
    BY <1>1, <1>4
  <2> QED
    BY <1>4, <2>1 DEF WL!Matches, WL!IsTail
<1>5. ASSUME NEW j \in DOMAIN domain, domain[j] = Dot, From(domain, j + 1) = listed
      PROVE  WL!Matches(domain, listed)
  <2>1. Len(From(domain, j + 1)) = Len(domain) - j
    BY DEF From
  <2>2. n = j /\ j >= 0
    BY <1>1, <1>5, <2>1
  <2> QED
    BY <1>5, <2>2 DEF WL!Matches, WL!IsTail, From
<1> QED
  BY <1>2, <1>3, <1>4, <1>5

(* The characters of a label, a dot and a text. *)
Prepended(C, whole, label, text) ==
  /\ whole \in Seq(C)
  /\ Len(whole) = Len(label) + 1 + Len(text)
  /\ \A i \in 1 .. Len(label) : whole[i] = label[i]
  /\ whole[Len(label) + 1] = Dot
  /\ \A i \in 1 .. Len(text) : whole[Len(label) + 1 + i] = text[i]

LEMMA PrependAt ==
  ASSUME NEW C, Dot \in C, NEW label \in Seq(C), NEW text \in Seq(C)
  PROVE  Prepended(C, prepend_label(label, text), label, text)
<1> DEFINE n == Len(label)
           m == Len(text)
           dotted == label \o <<Dot>>
           whole == dotted \o text
<1>1. /\ n \in Nat /\ m \in Nat /\ Len(label) = n /\ Len(text) = m
      /\ <<Dot>> \in Seq(C) /\ Len(<<Dot>>) = 1 /\ <<Dot>>[1] = Dot
  OBVIOUS
<1> HIDE DEF n, m
<1>2. /\ dotted \in Seq(C) /\ Len(dotted) = n + 1
      /\ \A i \in 1 .. n + 1 : dotted[i] = IF i <= n THEN label[i] ELSE <<Dot>>[i - n]
  BY <1>1, ConcatProperties
<1> HIDE DEF dotted
<1>3. /\ \A i \in 1 .. n : dotted[i] = label[i]
      /\ dotted[n + 1] = Dot
  <2>1. \A i \in 1 .. n : dotted[i] = label[i]
    BY <1>1, <1>2
  <2>2. n + 1 \in 1 .. n + 1 /\ ~(n + 1 <= n) /\ (n + 1) - n = 1
    BY <1>1
  <2> QED
    BY <1>1, <1>2, <2>1, <2>2
<1>0. /\ whole \in Seq(C) /\ Len(whole) = Len(dotted) + Len(text)
      /\ \A i \in 1 .. Len(dotted) + Len(text) :
           whole[i] = IF i <= Len(dotted) THEN dotted[i] ELSE text[i - Len(dotted)]
  <2>1. dotted \in Seq(C) /\ text \in Seq(C)
    BY <1>2
  <2> QED
    BY ONLY <2>1, ConcatProperties
<1>5. prepend_label(label, text) = whole
  BY DEF prepend_label, dotted
<1> HIDE DEF whole
<1>4. /\ whole \in Seq(C) /\ Len(whole) = n + 1 + m
      /\ \A i \in 1 .. n + 1 + m :
           whole[i] = IF i <= n + 1 THEN dotted[i] ELSE text[i - (n + 1)]
  <2>1. Len(dotted) = n + 1 /\ Len(text) = m
    BY <1>1, <1>2
  <2> QED
    BY ONLY <1>0, <2>1
<1>6. ASSUME NEW i \in 1 .. m
      PROVE  whole[n + 1 + i] = text[i]
  <2>1. n + 1 + i \in 1 .. n + 1 + m /\ ~(n + 1 + i <= n + 1) /\ (n + 1 + i) - (n + 1) = i
    BY <1>1
  <2> QED
    BY <1>4, <2>1
<1>7. \A i \in 1 .. n + 1 : whole[i] = dotted[i]
  BY <1>1, <1>4
<1>8. /\ \A i \in 1 .. n : whole[i] = label[i]
      /\ whole[n + 1] = Dot
  <2>1. n + 1 \in 1 .. n + 1 /\ \A i \in 1 .. n : i \in 1 .. n + 1
    BY <1>1
  <2> QED
    BY <1>3, <1>7, <2>1
<1>9. Prepended(C, whole, label, text)
  BY <1>1, <1>4, <1>6, <1>8 DEF Prepended
<1> QED
  BY <1>5, <1>9

(* What follows a character of the label, the dot and one of the text. *)
LEMMA FromPrepend ==
  ASSUME NEW C, Dot \in C, NEW label \in Seq(C), NEW text \in Seq(C)
  PROVE  /\ \A j \in 1 .. Len(label) :
              From(prepend_label(label, text), j + 1) =
                prepend_label(From(label, j + 1), text)
         /\ From(prepend_label(label, text), Len(label) + 1 + 1) = text
         /\ \A i \in 1 .. Len(text) :
              From(prepend_label(label, text), Len(label) + 1 + i + 1) = From(text, i + 1)
<1> DEFINE n == Len(label)
           m == Len(text)
           whole == prepend_label(label, text)
<1>1. n \in Nat /\ m \in Nat /\ Len(label) = n /\ Len(text) = m
  OBVIOUS
<1>0. Prepended(C, whole, label, text)
  BY PrependAt
<1> HIDE DEF whole, n, m
<1>2. /\ whole \in Seq(C) /\ Len(whole) = n + 1 + m
      /\ \A i \in 1 .. n : whole[i] = label[i]
      /\ whole[n + 1] = Dot
      /\ \A i \in 1 .. m : whole[n + 1 + i] = text[i]
  BY <1>0, <1>1 DEF Prepended
<1>3. ASSUME NEW j \in 1 .. n + 1 + m
      PROVE  /\ From(whole, j + 1) \in Seq(C)
             /\ Len(From(whole, j + 1)) = n + 1 + m - j
             /\ \A i \in 1 .. n + 1 + m - j : From(whole, j + 1)[i] = whole[j + i]
  <2>1. PICK l \in Nat : l = n + 1 + m
    BY <1>1
  <2>2. Len(whole) = l /\ j \in 1 .. l
    BY <1>2, <2>1
  <2>3. /\ SubSeq(whole, j + 1, l) \in Seq(C)
        /\ Len(SubSeq(whole, j + 1, l)) = l - j
        /\ \A i \in 1 .. l - j : SubSeq(whole, j + 1, l)[i] = whole[j + i]
    BY <1>2, <2>2
  <2>4. From(whole, j + 1) = SubSeq(whole, j + 1, l) /\ n + 1 + m - j = l - j
    BY ONLY <1>1, <2>1, <2>2 DEF From
  <2> QED
    BY ONLY <2>3, <2>4
<1>4. ASSUME NEW j \in 1 .. n
      PROVE  From(whole, j + 1) = prepend_label(From(label, j + 1), text)
  <2> DEFINE part == From(label, j + 1)
             x == From(whole, j + 1)
             y == prepend_label(part, text)
  <2>1. /\ part \in Seq(C) /\ Len(part) = n - j
        /\ \A i \in 1 .. n - j : part[i] = label[j + i]
    BY <1>1 DEF From
  <2> HIDE DEF part
  <2>0. Prepended(C, y, part, text)
    BY <2>1, PrependAt
  <2> HIDE DEF y
  <2>2. /\ y \in Seq(C) /\ Len(y) = n - j + 1 + m
        /\ \A i \in 1 .. n - j : y[i] = part[i]
        /\ y[n - j + 1] = Dot
        /\ \A i \in 1 .. m : y[n - j + 1 + i] = text[i]
    BY <1>1, <2>0, <2>1 DEF Prepended
  <2>3. /\ x \in Seq(C) /\ Len(x) = n - j + 1 + m
        /\ \A i \in 1 .. n - j + 1 + m : x[i] = whole[j + i]
    <3>1. j \in 1 .. n + 1 + m /\ n + 1 + m - j = n - j + 1 + m
      BY <1>1
    <3> QED
      BY <1>3, <3>1
  <2> HIDE DEF x
  <2>4. ASSUME NEW i \in 1 .. n - j + 1 + m
        PROVE  x[i] = y[i]
    <3>1. CASE i <= n - j
      <4>1. i \in 1 .. n - j /\ j + i \in 1 .. n
        BY <1>1, <3>1
      <4> QED
        BY <1>2, <2>1, <2>2, <2>3, <4>1
    <3>2. CASE i = n - j + 1
      <4>1. j + i = n + 1
        BY <1>1, <3>2
      <4> QED
        BY <1>2, <2>2, <2>3, <3>2, <4>1
    <3>3. CASE i > n - j + 1
      <4>1. PICK l \in 1 .. m : i = n - j + 1 + l /\ j + i = n + 1 + l
        <5>1. /\ i - (n - j + 1) \in 1 .. m
              /\ i = n - j + 1 + (i - (n - j + 1))
              /\ j + i = n + 1 + (i - (n - j + 1))
          BY <1>1, <3>3
        <5> QED
          BY <5>1
      <4> QED
        BY <1>2, <2>2, <2>3, <4>1
    <3> QED
      BY <1>1, <3>1, <3>2, <3>3
  <2>5. x = y
    BY <2>2, <2>3, <2>4
  <2> QED
    BY <2>5 DEF part, x, y
<1>5. From(whole, n + 1 + 1) = text
  <2> DEFINE x == From(whole, n + 1 + 1)
  <2>1. n + 1 \in 1 .. n + 1 + m /\ n + 1 + m - (n + 1) = m
    BY <1>1
  <2>2. /\ x \in Seq(C) /\ Len(x) = m
        /\ \A i \in 1 .. m : x[i] = whole[n + 1 + i]
    BY <1>3, <2>1
  <2> HIDE DEF x
  <2>3. \A i \in 1 .. m : x[i] = text[i]
    BY <1>2, <2>2
  <2>4. x = text
    BY <1>1, <2>2, <2>3
  <2> QED
    BY <2>4 DEF x
<1>6. ASSUME NEW i \in 1 .. m
      PROVE  From(whole, n + 1 + i + 1) = From(text, i + 1)
  <2> DEFINE x == From(whole, n + 1 + i + 1)
             y == From(text, i + 1)
  <2>1. n + 1 + i \in 1 .. n + 1 + m /\ n + 1 + m - (n + 1 + i) = m - i
    BY <1>1
  <2>2. /\ x \in Seq(C) /\ Len(x) = m - i
        /\ \A l \in 1 .. m - i : x[l] = whole[n + 1 + i + l]
    BY <1>3, <2>1
  <2>3. /\ y \in Seq(C) /\ Len(y) = m - i
        /\ \A l \in 1 .. m - i : y[l] = text[i + l]
    BY <1>1 DEF From
  <2> HIDE DEF x, y
  <2>4. ASSUME NEW l \in 1 .. m - i
        PROVE  x[l] = y[l]
    <3>1. i + l \in 1 .. m /\ n + 1 + (i + l) = n + 1 + i + l
      BY <1>1
    <3> QED
      BY <1>2, <2>2, <2>3, <3>1
  <2>5. x = y
    BY <2>2, <2>3, <2>4
  <2> QED
    BY <2>5 DEF x, y
<1> QED
  BY <1>4, <1>5, <1>6 DEF whole, n, m

(* What a label in front adds to the lines that match. *)
LEMMA MatchesPrepended ==
  ASSUME NEW C, Dot \in C, NEW label \in Seq(C), NEW text \in Seq(C), NEW listed \in Seq(C)
  PROVE  WL!Matches(prepend_label(label, text), listed) <=>
           \/ prepend_label(label, text) = listed
           \/ \E j \in DOMAIN label :
                label[j] = Dot /\ prepend_label(From(label, j + 1), text) = listed
           \/ WL!Matches(text, listed)
<1> DEFINE n == Len(label)
           m == Len(text)
           whole == prepend_label(label, text)
<1>1. /\ n \in Nat /\ m \in Nat /\ DOMAIN label = 1 .. n /\ DOMAIN text = 1 .. m
      /\ Len(label) = n /\ Len(text) = m
  OBVIOUS
<1>0. Prepended(C, whole, label, text)
  BY PrependAt
<1>3. /\ \A j \in 1 .. n : From(whole, j + 1) = prepend_label(From(label, j + 1), text)
      /\ From(whole, n + 1 + 1) = text
      /\ \A i \in 1 .. m : From(whole, n + 1 + i + 1) = From(text, i + 1)
  BY FromPrepend
<1> HIDE DEF whole, n, m
<1>2. /\ whole \in Seq(C) /\ DOMAIN whole = 1 .. n + 1 + m
      /\ \A i \in 1 .. n : whole[i] = label[i]
      /\ whole[n + 1] = Dot
      /\ \A i \in 1 .. m : whole[n + 1 + i] = text[i]
  BY <1>0, <1>1 DEF Prepended
<1>4. WL!Matches(whole, listed) <=>
        \/ whole = listed
        \/ \E j \in 1 .. n + 1 + m : whole[j] = Dot /\ From(whole, j + 1) = listed
  BY <1>2, MatchesAfterDot
<1>5. WL!Matches(text, listed) <=>
        \/ text = listed
        \/ \E i \in 1 .. m : text[i] = Dot /\ From(text, i + 1) = listed
  BY <1>1, MatchesAfterDot
<1>6. ASSUME NEW j \in 1 .. n + 1 + m, whole[j] = Dot, From(whole, j + 1) = listed
      PROVE  \/ \E i \in 1 .. n :
                  label[i] = Dot /\ prepend_label(From(label, i + 1), text) = listed
             \/ WL!Matches(text, listed)
  <2>1. CASE j <= n
    <3>1. j \in 1 .. n
      BY <1>1, <2>1
    <3> QED
      BY <1>2, <1>3, <1>6, <3>1
  <2>2. CASE j = n + 1
    BY <1>3, <1>5, <1>6, <2>2
  <2>3. CASE j > n + 1
    <3>1. PICK i \in 1 .. m : j = n + 1 + i
      <4>1. j - (n + 1) \in 1 .. m /\ j = n + 1 + (j - (n + 1))
        BY <1>1, <2>3
      <4> QED
        BY <4>1
    <3> QED
      BY <1>2, <1>3, <1>5, <1>6, <3>1
  <2> QED
    BY <1>1, <2>1, <2>2, <2>3
<1>7. ASSUME NEW i \in 1 .. n, label[i] = Dot, prepend_label(From(label, i + 1), text) = listed
      PROVE  WL!Matches(whole, listed)
  <2>1. i \in 1 .. n + 1 + m
    BY <1>1
  <2> QED
    BY <1>2, <1>3, <1>4, <1>7, <2>1
<1>8. ASSUME WL!Matches(text, listed)
      PROVE  WL!Matches(whole, listed)
  <2>1. CASE text = listed
    <3>1. n + 1 \in 1 .. n + 1 + m
      BY <1>1
    <3> QED
      BY <1>2, <1>3, <1>4, <2>1, <3>1
  <2>2. ASSUME NEW i \in 1 .. m, text[i] = Dot, From(text, i + 1) = listed
        PROVE  WL!Matches(whole, listed)
    <3>1. n + 1 + i \in 1 .. n + 1 + m
      BY <1>1
    <3> QED
      BY <1>2, <1>3, <1>4, <2>2, <3>1
  <2> QED
    BY <1>5, <1>8, <2>1, <2>2
<1>9. DOMAIN label = 1 .. n
  BY <1>1
<1>10. WL!Matches(whole, listed) <=>
          \/ whole = listed
          \/ \E j \in DOMAIN label :
               label[j] = Dot /\ prepend_label(From(label, j + 1), text) = listed
          \/ WL!Matches(text, listed)
  BY <1>4, <1>6, <1>7, <1>8, <1>9
<1> QED
  BY <1>10 DEF whole
-----------------------------------------------------------------------------
(* How a line matches at a label of a name: there or after a dot inside. *)
MatchesAt(name, k, listed) ==
  \/ dn_expand(From(name, k)) = listed
  \/ \E j \in DOMAIN name[k] :
       /\ name[k][j] = Dot
       /\ dn_expand(<<From(name[k], j + 1)>> \o From(name, k + 1)) = listed

(***************************************************************************)
(* whitelist.c:50-66 on the text of a name: a line that is not empty       *)
(* matches at one of its labels or not at all.  By induction on the number *)
(* of labels, the last label first.                                        *)
(***************************************************************************)
LEMMA MatchesAtALabel ==
  ASSUME NEW name \in Seq(Texts), NEW listed \in Texts
  PROVE  WL!Matches(dn_expand(name), listed) <=> \E k \in DOMAIN name : MatchesAt(name, k, listed)
<1> DEFINE C == Characters
           N == Len(name)
<1>1. /\ Dot \in C /\ listed \in Seq(C) /\ listed # <<>>
      /\ N \in Nat /\ DOMAIN name = 1 .. N
      /\ \A k \in 1 .. N : name[k] \in Seq(C)
  BY DnsUpdatesAssumption DEF Texts
<1>2. PICK f : Growing(f, name, N) /\ dn_expand(name) = f[N]
  BY TextOf
<1>3. name \in Seq(Seq(C))
  BY <1>1
<1> HIDE DEF C, N
<1>4. ASSUME NEW k \in 1 .. N
      PROVE  dn_expand(From(name, k)) = f[N - k + 1]
  BY <1>2, TextFrom DEF N
<1>5. ASSUME NEW k \in 1 .. N, NEW j \in DOMAIN name[k]
      PROVE  dn_expand(<<From(name[k], j + 1)>> \o From(name, k + 1)) =
               IF k = N THEN From(name[k], j + 1)
               ELSE prepend_label(From(name[k], j + 1), f[N - k])
  <2>1. From(name[k], j + 1) \in Seq(C)
    <3>1. name[k] \in Seq(C)
      BY <1>1
    <3> QED
      BY <3>1 DEF From
  <2> QED
    BY <1>2, <1>3, <2>1, TextHead DEF N
<1> DEFINE P == {n \in Nat : n <= N =>
                   /\ f[n] \in Seq(C)
                   /\ WL!Matches(f[n], listed) <=>
                        \E k \in 1 .. N : k > N - n /\ MatchesAt(name, k, listed)}
<1>6. 0 \in P
  <2>1. f[0] = <<>> /\ <<>> \in Seq(C)
    BY <1>2 DEF Growing
  <2>2. ~WL!Matches(<<>>, listed)
    <3>1. Len(listed) > 0 /\ Len(<<>>) = 0
      BY <1>1
    <3> QED
      BY <1>1, <3>1 DEF WL!Matches, WL!IsTail, WL!domain_offset
  <2>3. \A k \in 1 .. N : ~(k > N - 0)
    BY <1>1
  <2> QED
    BY <2>1, <2>2, <2>3
<1>7. ASSUME NEW n \in Nat, n \in P
      PROVE  n + 1 \in P
  <2> SUFFICES ASSUME n + 1 <= N
               PROVE  /\ f[n + 1] \in Seq(C)
                      /\ WL!Matches(f[n + 1], listed) <=>
                           \E k \in 1 .. N : k > N - (n + 1) /\ MatchesAt(name, k, listed)
    OBVIOUS
  <2>1. /\ f[n] \in Seq(C)
        /\ WL!Matches(f[n], listed) <=>
             \E k \in 1 .. N : k > N - n /\ MatchesAt(name, k, listed)
    BY <1>1, <1>7
  <2>2. PICK k \in 1 .. N : k = N - n
    BY <1>1
  <2>3. name[k] \in Seq(C)
    BY <1>1
  <2>4. f[n + 1] = IF k = N THEN name[k] ELSE prepend_label(name[k], f[n])
    <3>1. CASE k = N
      <4>1. n = 0
        BY <1>1, <2>2, <3>1
      <4> QED
        BY <1>1, <1>2, <3>1, <4>1 DEF Growing, N
    <3>2. CASE k # N
      <4>1. n + 1 \in 2 .. N /\ N - (n + 1) + 1 = k /\ (n + 1) - 1 = n
        BY <1>1, <2>2, <3>2
      <4>2. f[n + 1] = prepend_label(name[N - (n + 1) + 1], f[(n + 1) - 1])
        BY <1>2, <4>1 DEF Growing, N
      <4> QED
        BY <3>2, <4>1, <4>2
    <3> QED
      BY <3>1, <3>2
  <2>5. f[n + 1] \in Seq(C)
    <3>1. Prepended(C, prepend_label(name[k], f[n]), name[k], f[n])
      BY <1>1, <2>1, <2>3, PrependAt
    <3>2. prepend_label(name[k], f[n]) \in Seq(C)
      BY <3>1 DEF Prepended
    <3> QED
      BY <2>3, <2>4, <3>2
  <2>6. MatchesAt(name, k, listed) <=>
          \/ f[n + 1] = listed
          \/ \E j \in DOMAIN name[k] :
               /\ name[k][j] = Dot
               /\ (IF k = N THEN From(name[k], j + 1)
                   ELSE prepend_label(From(name[k], j + 1), f[n])) = listed
    <3>1. N - k + 1 = n + 1 /\ N - k = n
      BY <1>1, <2>2
    <3>2. dn_expand(From(name, k)) = f[n + 1]
      BY <1>4, <3>1
    <3>3. \A j \in DOMAIN name[k] :
            dn_expand(<<From(name[k], j + 1)>> \o From(name, k + 1)) =
              IF k = N THEN From(name[k], j + 1) ELSE prepend_label(From(name[k], j + 1), f[n])
      BY <1>5, <3>1
    <3> QED
      BY <3>2, <3>3 DEF MatchesAt
  <2>7. WL!Matches(f[n + 1], listed) <=>
          MatchesAt(name, k, listed) \/ (k # N /\ WL!Matches(f[n], listed))
    <3>1. CASE k = N
      <4>1. f[n + 1] = name[k]
        BY <2>4, <3>1
      <4>2. WL!Matches(name[k], listed) <=>
              \/ name[k] = listed
              \/ \E j \in DOMAIN name[k] : name[k][j] = Dot /\ From(name[k], j + 1) = listed
        BY <1>1, <2>3, MatchesAfterDot
      <4> QED
        BY <2>6, <3>1, <4>1, <4>2
    <3>2. CASE k # N
      <4>1. f[n + 1] = prepend_label(name[k], f[n])
        BY <2>4, <3>2
      <4>2. WL!Matches(prepend_label(name[k], f[n]), listed) <=>
              \/ prepend_label(name[k], f[n]) = listed
              \/ \E j \in DOMAIN name[k] :
                   name[k][j] = Dot /\ prepend_label(From(name[k], j + 1), f[n]) = listed
              \/ WL!Matches(f[n], listed)
        BY <1>1, <2>1, <2>3, MatchesPrepended
      <4> QED
        BY <2>6, <3>2, <4>1, <4>2
    <3> QED
      BY <3>1, <3>2
  <2>8. \A i \in 1 .. N : i > N - (n + 1) <=> i = k \/ i > N - n
    BY <1>1, <2>2
  <2>9. k = N => \A i \in 1 .. N : ~(i > N - n)
    BY <1>1, <2>2
  <2> QED
    BY <2>1, <2>5, <2>7, <2>8, <2>9
<1> HIDE DEF P
<1>8. N \in P
  BY <1>1, <1>6, <1>7, NatSet
<1>9. WL!Matches(f[N], listed) <=> \E k \in 1 .. N : MatchesAt(name, k, listed)
  <2>1. \A k \in 1 .. N : k > N - N
    BY <1>1
  <2> QED
    BY <1>1, <1>8, <2>1 DEF P
<1> QED
  BY <1>1, <1>2, <1>9

(* What the writer decides about a name. *)
LEMMA InClearListed ==
  ASSUME NEW name \in Names
  PROVE  InClear(name) <=> BelowListed(name) \/ ListedInLabel(name) \/ name \in BloomNames
<1>1. name \in Seq(Texts) /\ Whitelist \subseteq Texts
  BY DnsUpdatesAssumption
<1>2. InClear(name) <=>
        \/ \E listed \in Whitelist : WL!Matches(dn_expand(name), listed)
        \/ name \in BloomNames
  BY DEF InClear, WL!domain_whitelist_lookup, bloom_whitelist_lookup
<1>3. \A listed \in Whitelist :
        WL!Matches(dn_expand(name), listed) <=> \E k \in DOMAIN name : MatchesAt(name, k, listed)
  BY <1>1, MatchesAtALabel
<1>4. BelowListed(name) \/ ListedInLabel(name) <=>
        \E listed \in Whitelist : \E k \in DOMAIN name : MatchesAt(name, k, listed)
  BY DEF BelowListed, ListedInLabel, MatchesAt
<1> QED
  BY <1>2, <1>3, <1>4

(***************************************************************************)
(* whitelist.c:50-66, dns_table.c:82-99: the names that an update has in   *)
(* clear text are those that the filter matches, those on the whitelist or *)
(* below a name there, and those with a dot inside a label that a line of  *)
(* the whitelist follows; for every whitelist and names of any length.     *)
(***************************************************************************)
THEOREM DnsUpdatesInClear == Spec => []OnlyListedInClear
<1>1. DTP!IInv => OnlyListedInClear
  <2> SUFFICES ASSUME DTP!IInv, NEW name \in WrittenNames
               PROVE  InClear(name) <=>
                        BelowListed(name) \/ ListedInLabel(name) \/ name \in BloomNames
    BY DEF OnlyListedInClear
  <2>1. /\ \A i \in DOMAIN a_entries : a_entries[i].domain_name \in Names
        /\ \A i \in DOMAIN cname_entries :
             cname_entries[i].domain_name \in Names /\ cname_entries[i].cname \in Names
    <3>1. a_entries \in Seq(DTP!dns_a_entry_t) /\ cname_entries \in Seq(DTP!dns_cname_entry_t)
      BY DEF DTP!IInv, DTP!TypeOK
    <3>2. /\ \A entry \in DTP!dns_a_entry_t : entry.domain_name \in Names
          /\ \A entry \in DTP!dns_cname_entry_t :
               entry.domain_name \in Names /\ entry.cname \in Names
      BY DEF DTP!dns_a_entry_t, DTP!dns_cname_entry_t
    <3> QED
      BY <3>1, <3>2
  <2>2. name \in Names
    BY <2>1 DEF WrittenNames, Entries, ToSet
  <2> QED
    BY <2>2, InClearListed
<1> QED
  BY <1>1, TablesInvariant, PTL
=============================================================================
