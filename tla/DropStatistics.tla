--------------------------- MODULE DropStatistics ---------------------------
(***************************************************************************)
(* The drop statistics of bismark-passive (drop_statistics.c): a histogram *)
(* of the sizes of the packets that found the packet series full.          *)
(***************************************************************************)
EXTENDS Integers

CONSTANTS
  DROP_STATISTICS_MAXIMUM_PACKET_SIZE,
  RESET_BUCKETS,                 \* sizeof(drop_statistics_t *) in buckets
  UINT32_MAX

VARIABLE packet_sizes

Buckets == 0 .. DROP_STATISTICS_MAXIMUM_PACKET_SIZE

Init == packet_sizes = [idx \in Buckets |-> 0]

(* memset with the size of the pointer, not of the structure. *)
drop_statistics_init ==
  packet_sizes' = [idx \in Buckets |->
                     IF idx < RESET_BUCKETS THEN 0 ELSE packet_sizes[idx]]

bucket(size) ==
  IF size > DROP_STATISTICS_MAXIMUM_PACKET_SIZE
  THEN DROP_STATISTICS_MAXIMUM_PACKET_SIZE ELSE size

drop_statistics_process_packet(size) ==
  packet_sizes' = [packet_sizes EXCEPT ![bucket(size)] = (@ + 1) % (UINT32_MAX + 1)]

(* The buckets that drop_statistics_write_update prints: never the last. *)
WrittenBuckets ==
  {idx \in 0 .. DROP_STATISTICS_MAXIMUM_PACKET_SIZE - 1 : packet_sizes[idx] > 0}
=============================================================================
