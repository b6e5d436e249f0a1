----------------------------- MODULE DnsUpdates -----------------------------
(***************************************************************************)
(* How DNS responses get from process_packet (main.c) into an update: the  *)
(* two addresses of a packet go through the address table, the packet into *)
(* the packet series, and the records of a response into the DNS table     *)
(* under the ids of both.  The server resolves these ids from the update's *)
(* packets and from the mappings of this and of earlier updates.           *)
(*                                                                         *)
(* Nothing interrupts process_packet and, here, the handler; their steps   *)
(* are taken one after the other.                                          *)
(***************************************************************************)
EXTENDS Integers, Sequences, SequencesExt

CONSTANTS
  Characters, Dot,                   \* of labels as dn_expand prints them: a dot
  Names, Hosts, Aliases,             \* inside one is there, after a backslash
  Whitelist, BloomNames,             \* Bloom matches, false positives included
  Addresses, Private, NoAddress, MAC_TABLE_ENTRIES,
  DNS_TABLE_A_ENTRIES, DNS_TABLE_CNAME_ENTRIES, UINT16_MAX, UINT8_MAX,
  PACKET_DATA_BUFFER_ENTRIES,
  NoResponse, NoPacket, MaxRecords, Blocks

Texts == Seq(Characters) \ {<<>>}

(* strtok leaves no empty line of the whitelist, and a label is never empty. *)
ASSUME DnsUpdatesAssumption ==
  /\ Dot \in Characters
  /\ Names \subseteq Seq(Texts)
  /\ Hosts \subseteq Names
  /\ Aliases \subseteq Names \X Names
  /\ Whitelist \subseteq Texts
  /\ BloomNames \subseteq Names
  /\ Private \subseteq Addresses
  /\ NoAddress \notin Addresses
  /\ MAC_TABLE_ENTRIES \in 2 .. UINT8_MAX + 1
  /\ PACKET_DATA_BUFFER_ENTRIES \in 1 .. UINT16_MAX + 1
  /\ {DNS_TABLE_A_ENTRIES, DNS_TABLE_CNAME_ENTRIES, MaxRecords} \subseteq Nat
  /\ {UINT16_MAX, UINT8_MAX} \subseteq Nat

VARIABLES
  entries, first, last, length, added_since_last_update, server,
  a_entries, cname_entries, num_dropped_a_entries, num_dropped_cname_entries,
  allocated, destroyed, response, a_read, cname_read,
  packet_data,         \* the destination of each packet in the packet series
  packet,              \* the packet that process_packet works on
  step,
  bloom_loaded         \* bloom_whitelist_load succeeded

AT == INSTANCE AddressTable
DT == INSTANCE DnsTable
WL == INSTANCE Whitelist

address_table == <<entries, first, last, length, added_since_last_update, server>>
dns_table == <<a_entries, cname_entries, num_dropped_a_entries,
               num_dropped_cname_entries, allocated, destroyed, response, a_read,
               cname_read>>
vars == <<address_table, dns_table, packet_data, packet, step, bloom_loaded>>

Init ==
  /\ AT!Init
  /\ DT!Init
  /\ packet_data = <<>>
  /\ packet = NoPacket
  /\ step = "capture"
  /\ bloom_loaded \in BOOLEAN

-----------------------------------------------------------------------------
(***************************************************************************)
(* process_packet.  Only a packet from port 53 asks for the id of its      *)
(* destination, in a third lookup that finds what the second one left.     *)
(* A packet that is not IP is as one between addresses that are not        *)
(* private.                                                                *)
(***************************************************************************)
lookup_source(source, destination, is_dns) ==
  /\ step = "capture"
  /\ \E id \in AT!Ids \cup {-1} : AT!address_table_lookup(source, id)
  /\ packet' = [destination |-> destination, is_dns |-> is_dns, mac_id |-> -1]
  /\ step' = "destination"
  /\ UNCHANGED <<dns_table, packet_data, bloom_loaded>>

lookup_destination ==
  /\ step = "destination"
  /\ \E id \in AT!Ids \cup {-1} :
       /\ AT!address_table_lookup(packet.destination, id)
       /\ packet' = [packet EXCEPT !.mac_id = IF packet.is_dns THEN id ELSE -1]
  /\ step' = "series"
  /\ UNCHANGED <<dns_table, packet_data, bloom_loaded>>

(* A packet that finds the series full is not parsed. *)
add_packet ==
  /\ step = "series"
  /\ Len(packet_data) < PACKET_DATA_BUFFER_ENTRIES
  /\ packet_data' = Append(packet_data, packet.destination)
  /\ IF packet.mac_id >= 0
     THEN /\ DT!begin_response(Len(packet_data), packet.mac_id)
          /\ step' = "response"
     ELSE /\ step' = "capture"
          /\ UNCHANGED dns_table
  /\ packet' = NoPacket
  /\ UNCHANGED <<address_table, bloom_loaded>>

discard_packet ==
  /\ step = "series"
  /\ Len(packet_data) >= PACKET_DATA_BUFFER_ENTRIES
  /\ packet' = NoPacket
  /\ step' = "capture"
  /\ UNCHANGED <<address_table, dns_table, packet_data, bloom_loaded>>

read_record ==
  /\ step = "response"
  /\ DT!read_record
  /\ UNCHANGED <<address_table, packet_data, packet, step, bloom_loaded>>

end_response ==
  /\ step = "response"
  /\ DT!end_response
  /\ step' = "capture"
  /\ UNCHANGED <<address_table, packet_data, packet, bloom_loaded>>

-----------------------------------------------------------------------------
(* The text of a name, as dn_expand prints it, from its last label on. *)
prepend_label(label, text) == label \o <<Dot>> \o text

dn_expand(name) ==
  LET text[n \in 0 .. Len(name)] ==
        IF n = 0 THEN <<>>
        ELSE IF n = 1 THEN name[Len(name)]
        ELSE prepend_label(name[Len(name) - n + 1], text[n - 1])
  IN  text[Len(name)]

bloom_whitelist_lookup(name) == name \in BloomNames

(* A name on one of the lists is written as it is, another as a digest. *)
InClear(name) ==
  \/ WL!domain_whitelist_lookup(Whitelist, dn_expand(name))
  \/ bloom_whitelist_lookup(name)

(* Every name is looked up in the filter, also when it did not load. *)
LooksUp == a_entries # <<>> \/ cname_entries # <<>>

write_sections ==
  /\ step = "capture"
  /\ LooksUp => bloom_loaded
  /\ AT!address_table_write_update
  /\ step' = "staged"
  /\ UNCHANGED <<dns_table, packet_data, packet, bloom_loaded>>

(* The filter's array or its table of functions is NULL. *)
crash ==
  /\ step = "capture"
  /\ LooksUp
  /\ ~bloom_loaded
  /\ step' = "crashed"
  /\ UNCHANGED <<address_table, dns_table, packet_data, packet, bloom_loaded>>

start_next_period ==
  /\ step = "staged"
  /\ packet_data' = <<>>
  /\ DT!dns_table_destroy
  /\ step' = "destroyed"
  /\ UNCHANGED <<address_table, packet, bloom_loaded>>

clear_dns_table ==
  /\ step = "destroyed"
  /\ DT!dns_table_init
  /\ step' = "capture"
  /\ UNCHANGED <<address_table, packet_data, packet, bloom_loaded>>

process_packet ==
  \/ \E source, destination \in Addresses, is_dns \in BOOLEAN :
       lookup_source(source, destination, is_dns)
  \/ lookup_destination
  \/ add_packet
  \/ discard_packet
  \/ read_record
  \/ end_response

write_update == write_sections \/ crash \/ start_next_period \/ clear_dns_table

Next == process_packet \/ write_update

Spec == Init /\ [][Next]_vars

-----------------------------------------------------------------------------
TypeOK ==
  /\ AT!TypeOK
  /\ DT!TypeOK
  /\ packet_data \in Seq(Addresses)
  /\ packet \in [destination: Addresses, is_dns: BOOLEAN, mac_id: AT!Ids \cup {-1}]
                  \cup {NoPacket}
  /\ step \in {"capture", "destination", "series", "response", "staged", "destroyed",
              "crashed"}
  /\ bloom_loaded \in BOOLEAN

RecordsAccounted == DT!RecordsAccounted
NamesOwned == DT!NamesOwned

(***************************************************************************)
(* A DNS record of an update names a packet of the same update, and the    *)
(* server resolves its MAC id to the device that the packet went to.  The  *)
(* exception is a device whose mapping the ring gave up within the period. *)
(***************************************************************************)
Entries == ToSet(a_entries) \cup ToSet(cname_entries)

RecordsResolved ==
  step = "staged" =>
    \A entry \in Entries :
      LET ids == entry.ids
          device == packet_data[ids.packet_id + 1]
      IN  /\ ids.packet_id < Len(packet_data)
          /\ device \in Private
          /\ entries[ids.mac_id] = device => server[ids.mac_id] = device

(***************************************************************************)
(* A name leaves the router in clear text if and only if the filter        *)
(* matches it, it is on the whitelist or below a name there, or a line of  *)
(* the whitelist is what follows a dot inside one of its labels.           *)
(***************************************************************************)
From(name, k) == SubSeq(name, k, Len(name))

BelowListed(name) == \E k \in DOMAIN name : dn_expand(From(name, k)) \in Whitelist

ListedInLabel(name) ==
  \E k \in DOMAIN name : \E j \in DOMAIN name[k] :
    /\ name[k][j] = Dot
    /\ dn_expand(<<From(name[k], j + 1)>> \o From(name, k + 1)) \in Whitelist

WrittenNames ==
  {entry.domain_name : entry \in Entries} \cup {entry.cname : entry \in ToSet(cname_entries)}

OnlyListedInClear ==
  step = "staged" =>
    \A name \in WrittenNames :
      InClear(name) <=>
        BelowListed(name) \/ ListedInLabel(name) \/ name \in BloomNames

(***************************************************************************)
(* A bloom filter that cannot be loaded disables the filter, not the       *)
(* program.                                                                *)
(***************************************************************************)
BloomFailureTolerated == step # "crashed"
=============================================================================
