---------------------------- MODULE MCDnsUpdates ----------------------------
(***************************************************************************)
(* Three devices compete for a ring of two.  The whitelist has "ba": names *)
(* that are shorter, equal, below it, longer without a dot, longer with an *)
(* escaped dot, and one for the Bloom filter.                              *)
(***************************************************************************)
EXTENDS DnsUpdates, TLC

CONSTANTS d1, d2, d3, resolver, b1, b2, b3, b4

a == <<"a">>
ba == <<"b", "a">>
cba == <<"c", "b", "a">>
c_ba == <<"c", "\\", ".", "b", "a">>
MCCharacters == {"a", "b", "c", ".", "\\"}
MCNames == {<<a>>, <<ba>>, <<a, ba>>, <<cba>>, <<c_ba>>, <<ba, a>>}
MCHosts == {<<cba>>, <<c_ba>>}
MCAliases == {<<<<a, ba>>, <<a>>>>, <<<<ba>>, <<ba, a>>>>}
MCWhitelist == {ba}
MCBloomNames == {<<ba, a>>}

MCBlocks == {b1, b2, b3, b4}
Devices == {d1, d2, d3}
MCAddresses == Devices \cup {resolver}
Symmetry == Permutations(Devices)

(***************************************************************************)
(* Which block strdup returns makes no difference, only which pointers     *)
(* have the same one, which of theirs are allocated and how many others    *)
(* are.  Of the records that were read no step and no property reads more  *)
(* than how many there were, and whether the first ones are in the table.  *)
(***************************************************************************)
Heap ==
  LET pointed == {DT!pointed(p) : p \in DT!Pointers}
  IN  <<{<<p, q>> \in DT!Pointers \X DT!Pointers : DT!pointed(p) = DT!pointed(q)},
        {p \in DT!Pointers : DT!pointed(p) \in allocated},
        Cardinality(allocated \ pointed)>>

Kept(table, read) ==
  <<Len(read),
    \A i \in 1 .. Len(table) : i \in DOMAIN read /\ table[i] = read[i]>>

WithoutBlock(entry) == [entry EXCEPT !.block = b1]
WithoutBlocks(entry) == [entry EXCEPT !.block = b1, !.cname_block = b1]

UpdatesView ==
  <<address_table, packet_data, packet, step, bloom_loaded, response, destroyed,
    [i \in DOMAIN a_entries |-> WithoutBlock(a_entries[i])],
    [i \in DOMAIN cname_entries |-> WithoutBlocks(cname_entries[i])],
    num_dropped_a_entries, num_dropped_cname_entries, Heap,
    Kept(a_entries, a_read), Kept(cname_entries, cname_read)>>
=============================================================================
