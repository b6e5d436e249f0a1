------------------------------ MODULE DnsTable ------------------------------
(***************************************************************************)
(* The DNS table of bismark-passive (dns_table.c) and the parser that      *)
(* fills it (dns_parser.c), a record at a time.  A response that does not  *)
(* parse any further has left the records before the fault in the table.   *)
(* Records that are parsed and then ignored (nameservers, other types and  *)
(* classes) take no step, and neither does a response without relevance.   *)
(*                                                                         *)
(* An entry points to strings from strdup, each in a block of its own that *)
(* dns_table_destroy is to free.  A block that no entry points to is lost. *)
(*                                                                         *)
(* a_read and cname_read are history: the records that the parser handed   *)
(* to the table in this period.                                            *)
(***************************************************************************)
EXTENDS Integers, Sequences

CONSTANTS
  Names,                     \* the domain names in responses,
  Hosts,                     \* of the A records and of
  Aliases,                   \* the CNAMEs: a name and its target
  DNS_TABLE_A_ENTRIES,
  DNS_TABLE_CNAME_ENTRIES,
  UINT16_MAX,                \* packet_id is a uint16_t, mac_id a uint8_t
  UINT8_MAX,
  NoResponse,
  MaxRecords,                \* bound on the records read in a period
  Blocks                     \* what strdup may return; nothing is read without one

VARIABLES
  a_entries,
  cname_entries,
  num_dropped_a_entries,
  num_dropped_cname_entries,
  allocated,                 \* the blocks from strdup that were not freed
  destroyed,                 \* write_update is before dns_table_init
  response,                  \* the response being parsed: its packet and client
  a_read,
  cname_read

table_vars == <<a_entries, cname_entries, num_dropped_a_entries,
                num_dropped_cname_entries, allocated, destroyed>>
read_vars == <<a_read, cname_read>>
vars == <<table_vars, response, read_vars>>

ids_t == [packet_id: 0 .. UINT16_MAX, mac_id: 0 .. UINT8_MAX]
dns_a_entry_t == [ids: ids_t, domain_name: Names, block: Blocks]
dns_cname_entry_t == [ids: ids_t, domain_name: Names, cname: Names,
                      block: Blocks, cname_block: Blocks]

Init ==
  /\ a_entries = <<>>
  /\ cname_entries = <<>>
  /\ num_dropped_a_entries = 0
  /\ num_dropped_cname_entries = 0
  /\ allocated = {}
  /\ destroyed = FALSE
  /\ response = NoResponse
  /\ a_read = <<>>
  /\ cname_read = <<>>

-----------------------------------------------------------------------------
(***************************************************************************)
(* process_dns_packet; packet_id and mac_id are cut to the width of its    *)
(* parameters.                                                             *)
(***************************************************************************)
begin_response(packet_id, mac_id) ==
  /\ response = NoResponse
  /\ ~destroyed
  /\ response' = [packet_id |-> packet_id % (UINT16_MAX + 1),
                  mac_id |-> mac_id % (UINT8_MAX + 1)]
  /\ UNCHANGED <<table_vars, read_vars>>

Parsing ==
  /\ response # NoResponse
  /\ Len(a_read) + Len(cname_read) < MaxRecords

strdup(blocks) ==
  /\ blocks \cap allocated = {}
  /\ allocated' = allocated \cup blocks

(* Mutant: one entry too many. *)
a_table_overfull == Len(a_entries) > DNS_TABLE_A_ENTRIES

a_table_full == Len(a_entries) >= DNS_TABLE_A_ENTRIES

(* dns_table_add_a; the caller duplicated the name. *)
add_a_record(name, block) ==
  LET entry == [ids |-> response, domain_name |-> name, block |-> block]
  IN  /\ Parsing
      /\ strdup({block})
      /\ IF a_table_full
         THEN /\ num_dropped_a_entries' = num_dropped_a_entries + 1
              /\ UNCHANGED a_entries
         ELSE /\ a_entries' = Append(a_entries, entry)
              /\ UNCHANGED num_dropped_a_entries
      /\ a_read' = Append(a_read, entry)
      /\ UNCHANGED <<cname_entries, num_dropped_cname_entries, destroyed, response,
                     cname_read>>

(* Mutant: a dropped entry is not counted. *)
silent_drop == 0

cname_drop == 1

(* dns_table_add_cname; the caller duplicated both names. *)
add_cname_record(name, cname, block, cname_block) ==
  LET entry == [ids |-> response, domain_name |-> name, cname |-> cname,
                block |-> block, cname_block |-> cname_block]
  IN  /\ Parsing
      /\ block # cname_block
      /\ strdup({block, cname_block})
      /\ IF Len(cname_entries) >= DNS_TABLE_CNAME_ENTRIES
         THEN /\ num_dropped_cname_entries' = num_dropped_cname_entries + cname_drop
              /\ UNCHANGED cname_entries
         ELSE /\ cname_entries' = Append(cname_entries, entry)
              /\ UNCHANGED num_dropped_cname_entries
      /\ cname_read' = Append(cname_read, entry)
      /\ UNCHANGED <<a_entries, num_dropped_a_entries, destroyed, response, a_read>>

(* A CNAME whose target does not expand: its own name was duplicated. *)
lose_cname_record(block) ==
  /\ Parsing
  /\ strdup({block})
  /\ UNCHANGED <<a_entries, cname_entries, num_dropped_a_entries,
                 num_dropped_cname_entries, destroyed, response, read_vars>>

(* The last record, or the first one that does not parse. *)
end_response ==
  /\ response # NoResponse
  /\ response' = NoResponse
  /\ UNCHANGED <<table_vars, read_vars>>

read_record ==
  \E block \in Blocks :
    \/ \E name \in Hosts : add_a_record(name, block)
    \/ \E alias \in Aliases, cname_block \in Blocks :
         add_cname_record(alias[1], alias[2], block, cname_block)
    \/ lose_cname_record(block)

(***************************************************************************)
(* The pointers of the entries and what they point to.                     *)
(***************************************************************************)
Pointers ==
  ({"a"} \X DOMAIN a_entries) \cup ({"domain_name", "cname"} \X DOMAIN cname_entries)

pointed(pointer) ==
  CASE pointer[1] = "a" -> a_entries[pointer[2]].block
    [] pointer[1] = "domain_name" -> cname_entries[pointer[2]].block
    [] pointer[1] = "cname" -> cname_entries[pointer[2]].cname_block

dns_table_destroy ==
  /\ response = NoResponse
  /\ ~destroyed
  /\ allocated' = allocated \ {pointed(p) : p \in Pointers}
  /\ destroyed' = TRUE
  /\ UNCHANGED <<a_entries, cname_entries, num_dropped_a_entries,
                 num_dropped_cname_entries, response, read_vars>>

(* Mutant: the entries stay in the table after their names were freed. *)
dns_table_recount ==
  /\ destroyed
  /\ destroyed' = FALSE
  /\ num_dropped_a_entries' = 0
  /\ num_dropped_cname_entries' = 0
  /\ a_read' = a_entries
  /\ cname_read' = cname_entries
  /\ UNCHANGED <<a_entries, cname_entries, allocated, response>>

dns_table_init ==
  /\ destroyed
  /\ destroyed' = FALSE
  /\ a_entries' = <<>>
  /\ cname_entries' = <<>>
  /\ num_dropped_a_entries' = 0
  /\ num_dropped_cname_entries' = 0
  /\ a_read' = <<>>
  /\ cname_read' = <<>>
  /\ UNCHANGED <<allocated, response>>

Next ==
  \/ \E packet_id \in 0 .. UINT16_MAX, mac_id \in 0 .. UINT8_MAX :
       begin_response(packet_id, mac_id)
  \/ read_record
  \/ end_response
  \/ dns_table_destroy
  \/ dns_table_init

Spec == Init /\ [][Next]_vars

-----------------------------------------------------------------------------
TypeOK ==
  /\ a_entries \in Seq(dns_a_entry_t) /\ Len(a_entries) <= DNS_TABLE_A_ENTRIES
  /\ cname_entries \in Seq(dns_cname_entry_t)
  /\ Len(cname_entries) <= DNS_TABLE_CNAME_ENTRIES
  /\ num_dropped_a_entries \in Nat
  /\ num_dropped_cname_entries \in Nat
  /\ allocated \subseteq Blocks
  /\ destroyed \in BOOLEAN
  /\ response \in ids_t \cup {NoResponse}
  /\ a_read \in Seq(dns_a_entry_t)
  /\ cname_read \in Seq(dns_cname_entry_t)

(***************************************************************************)
(* The tables have the first records of the period as they were read, the  *)
(* counters the others, over all responses and faults in them.             *)
(***************************************************************************)
RecordsAccounted ==
  /\ Len(a_read) = Len(a_entries) + num_dropped_a_entries
  /\ Len(cname_read) = Len(cname_entries) + num_dropped_cname_entries
  /\ num_dropped_a_entries > 0 => Len(a_entries) = DNS_TABLE_A_ENTRIES
  /\ num_dropped_cname_entries > 0 => Len(cname_entries) = DNS_TABLE_CNAME_ENTRIES
  /\ \A i \in 1 .. Len(a_entries) : a_entries[i] = a_read[i]
  /\ \A i \in 1 .. Len(cname_entries) : cname_entries[i] = cname_read[i]

(***************************************************************************)
(* Every pointer of the table has a block of its own, and one that is      *)
(* allocated, so that dns_table_destroy frees no block twice and nothing   *)
(* that it does not own.  None is allocated between destroy and init.      *)
(***************************************************************************)
NamesOwned ==
  \A p \in Pointers :
    /\ pointed(p) \in allocated <=> ~destroyed
    /\ \A q \in Pointers : pointed(p) = pointed(q) => p = q
=============================================================================
