----------------------------- MODULE HttpTable -----------------------------
(***************************************************************************)
(* The table of requested URLs of bismark-passive (http_table.c) and what  *)
(* fills it (http_parser.c, main.c), compiled in with ENABLE_HTTP_URL.  An *)
(* entry is here the flow id alone: its URL is sent as a digest, which no  *)
(* step looks at.  Passive composes the table with the flow table.         *)
(*                                                                         *)
(* A segment to port 80 has the length of its TCP header and the offsets,  *)
(* from the start of that header, at which the captured bytes read as a    *)
(* GET followed by a word.                                                 *)
(***************************************************************************)
EXTENDS Naturals, Sequences

CONSTANTS
  HTTP_TABLE_URL_ENTRIES,
  TCP_HEADER                      \* sizeof(struct tcphdr)

VARIABLES urls, num_dropped_url_entries

Init == urls = <<>> /\ num_dropped_url_entries = 0

(* Mutant: the length is not reset. *)
keeps_urls == num_dropped_url_entries' = 0 /\ UNCHANGED urls

http_table_init == urls' = <<>> /\ num_dropped_url_entries' = 0

(* Past the size of the table an entry is counted, and its URL is leaked. *)
http_table_add_url(flow_id) ==
  IF Len(urls) >= HTTP_TABLE_URL_ENTRIES
  THEN num_dropped_url_entries' = num_dropped_url_entries + 1 /\ UNCHANGED urls
  ELSE urls' = Append(urls, flow_id) /\ UNCHANGED num_dropped_url_entries

(* A header without options is counted twice. *)
http_bytes(header) == TCP_HEADER + IF header > TCP_HEADER THEN header - TCP_HEADER ELSE header

(* anonymize_url never fails, so add_url always gets to the table. *)
process_http_packet(segment, flow_id) ==
  IF http_bytes(segment.header) \in segment.gets
  THEN http_table_add_url(flow_id)
  ELSE UNCHANGED <<urls, num_dropped_url_entries>>

TypeOK ==
  /\ Len(urls) <= HTTP_TABLE_URL_ENTRIES
  /\ num_dropped_url_entries \in Nat
=============================================================================
