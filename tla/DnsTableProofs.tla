--------------------------- MODULE DnsTableProofs ---------------------------
(***************************************************************************)
(* The DNS table for every size of its arrays: whatever responses are      *)
(* parsed, however far, the table has the first records of the period and  *)
(* counts the others, and every entry owns names that are still allocated. *)
(***************************************************************************)
EXTENDS DnsTable, TLAPS

(* What the theorem asks of the constants. *)
Sizes == DNS_TABLE_A_ENTRIES \in Nat /\ DNS_TABLE_CNAME_ENTRIES \in Nat

WidthsOK == UINT16_MAX \in Nat /\ UINT8_MAX \in Nat

NamesOK == Hosts \subseteq Names /\ Aliases \subseteq Names \X Names

IInv ==
  /\ TypeOK
  /\ RecordsAccounted
  /\ NamesOwned
  /\ destroyed => response = NoResponse

(* A prefix that is extended by what its sequence is extended by. *)
LEMMA AppendBoth ==
  ASSUME NEW S, NEW short \in Seq(S), NEW long \in Seq(S), NEW e \in S,
         Len(long) = Len(short),
         \A i \in 1 .. Len(short) : short[i] = long[i]
  PROVE  \A i \in 1 .. Len(Append(short, e)) : Append(short, e)[i] = Append(long, e)[i]
OBVIOUS

(* A prefix stays one when its sequence is extended. *)
LEMMA AppendLong ==
  ASSUME NEW S, NEW short \in Seq(S), NEW long \in Seq(S), NEW e \in S,
         Len(long) >= Len(short),
         \A i \in 1 .. Len(short) : short[i] = long[i]
  PROVE  \A i \in 1 .. Len(short) : short[i] = Append(long, e)[i]
OBVIOUS

(* Whether two tables are the same is all that their pointers depend on. *)
LEMMA PointersSame ==
  ASSUME UNCHANGED <<a_entries, cname_entries>>
  PROVE  Pointers' = Pointers /\ \A p : pointed(p)' = pointed(p)
BY DEF Pointers, pointed

(* Nothing is freed while the parser works: it only allocates. *)
LEMMA NamesStay ==
  ASSUME NamesOwned, UNCHANGED <<a_entries, cname_entries>>, UNCHANGED destroyed,
         ~destroyed, allocated \subseteq allocated'
  PROVE  NamesOwned'
BY PointersSame DEF NamesOwned

LEMMA NamesSame ==
  ASSUME NamesOwned, UNCHANGED <<a_entries, cname_entries, allocated, destroyed>>
  PROVE  NamesOwned'
BY PointersSame DEF NamesOwned

(* dns_table_init leaves an empty table. *)
LEMMA EmptyOwned ==
  ASSUME a_entries = <<>>, cname_entries = <<>>
  PROVE  NamesOwned
<1>1. DOMAIN a_entries = {} /\ DOMAIN cname_entries = {}
  OBVIOUS
<1> QED
  BY <1>1 DEF NamesOwned, Pointers

LEMMA InitIInv ==
  ASSUME Sizes, Init
  PROVE  IInv
<1>1. NamesOwned
  BY EmptyOwned DEF Init
<1>2. TypeOK
  <2>1. destroyed \in BOOLEAN
    BY DEF Init
  <2> QED
    BY <2>1 DEF Sizes, Init, TypeOK
<1>3. RecordsAccounted /\ ~destroyed
  BY DEF Sizes, Init, RecordsAccounted
<1> QED
  BY <1>1, <1>2, <1>3 DEF IInv

(* add_a_record, on a table with room and on a full one. *)
LEMMA AddAIInv ==
  ASSUME Sizes, IInv, ~destroyed, NEW name \in Names, NEW block \in Blocks,
         add_a_record(name, block)
  PROVE  IInv'
<1> DEFINE entry == [ids |-> response, domain_name |-> name, block |-> block]
<1>1. /\ entry \in dns_a_entry_t
      /\ a_read' = Append(a_read, entry)
      /\ block \notin allocated /\ allocated' = allocated \cup {block}
      /\ UNCHANGED <<cname_entries, num_dropped_cname_entries, destroyed, response,
                     cname_read>>
  BY DEF IInv, TypeOK, add_a_record, Parsing, strdup, dns_a_entry_t
<1>2. CASE a_table_full
  <2>1. UNCHANGED a_entries /\ num_dropped_a_entries' = num_dropped_a_entries + 1
    BY <1>2 DEF add_a_record
  <2>2. \A i \in 1 .. Len(a_entries) : a_entries[i] = Append(a_read, entry)[i]
    <3>1. a_entries \in Seq(dns_a_entry_t) /\ a_read \in Seq(dns_a_entry_t)
      BY DEF IInv, TypeOK
    <3>2. /\ Len(a_read) >= Len(a_entries)
          /\ \A i \in 1 .. Len(a_entries) : a_entries[i] = a_read[i]
      BY DEF IInv, TypeOK, RecordsAccounted
    <3>3. entry \in dns_a_entry_t
      BY <1>1
    <3> HIDE DEF entry
    <3> QED
      BY ONLY <3>1, <3>2, <3>3, AppendLong
  <2>3. TypeOK'
    BY <1>1, <2>1 DEF IInv, TypeOK
  <2>4. RecordsAccounted'
    <3>1. Len(a_entries) = DNS_TABLE_A_ENTRIES
      BY <1>2 DEF Sizes, IInv, TypeOK, a_table_full
    <3> QED
      BY <1>1, <2>1, <2>2, <3>1 DEF IInv, TypeOK, RecordsAccounted
  <2>5. NamesOwned'
    BY <1>1, <2>1, NamesStay DEF IInv
  <2> QED
    BY <1>1, <2>3, <2>4, <2>5 DEF IInv
<1>3. CASE ~a_table_full
  <2>1. a_entries' = Append(a_entries, entry) /\ UNCHANGED num_dropped_a_entries
    BY <1>3 DEF add_a_record
  <2>2. Len(a_entries) < DNS_TABLE_A_ENTRIES
    BY <1>3 DEF Sizes, IInv, TypeOK, a_table_full
  <2>3. num_dropped_a_entries = 0 /\ Len(a_read) = Len(a_entries)
    BY <2>2 DEF Sizes, IInv, TypeOK, RecordsAccounted
  <2>4. \A i \in 1 .. Len(Append(a_entries, entry)) :
           Append(a_entries, entry)[i] = Append(a_read, entry)[i]
    BY <1>1, <2>3, AppendBoth DEF IInv, TypeOK, RecordsAccounted
  <2>5. TypeOK'
    BY <1>1, <2>1, <2>2 DEF Sizes, IInv, TypeOK
  <2>6. RecordsAccounted'
    BY <1>1, <2>1, <2>3, <2>4 DEF IInv, TypeOK, RecordsAccounted
  <2>7. NamesOwned'
    <3>0. PICK n \in Nat : n = Len(a_entries) + 1
      BY DEF IInv, TypeOK
    <3> DEFINE new == <<"a", n>>
    <3>1. /\ DOMAIN a_entries' = DOMAIN a_entries \cup {n}
          /\ a_entries'[n] = entry
          /\ \A i \in DOMAIN a_entries : a_entries'[i] = a_entries[i]
      BY <1>1, <2>1, <3>0 DEF IInv, TypeOK
    <3>2. Pointers' = Pointers \cup {new}
      BY <1>1, <3>1 DEF Pointers
    <3>3. \A p \in Pointers : pointed(p)' = pointed(p)
      BY <1>1, <3>1 DEF Pointers, pointed
    <3>4. pointed(new)' = block
      <4>1. pointed(new)' = a_entries'[n].block
        BY DEF pointed
      <4> QED
        BY <3>1, <4>1
    <3> QED
      <4>1. \A p \in {new} : pointed(p)' \notin allocated /\ pointed(p)' \in allocated'
        BY <1>1, <3>4
      <4>2. NamesOwned /\ UNCHANGED destroyed /\ allocated \subseteq allocated'
        BY <1>1 DEF IInv
      <4>3. \A p, q \in {new} : pointed(p)' = pointed(q)' => p = q
        BY <1>1, <3>4
      <4>4. ASSUME NEW p \in Pointers', NEW q \in Pointers'
            PROVE  /\ pointed(p)' \in allocated'
                   /\ pointed(p)' = pointed(q)' => p = q
        <5>1. \A r \in Pointers : pointed(r) \in allocated
          BY <4>2, ~destroyed DEF NamesOwned
        <5>2. \A r, t \in Pointers : pointed(r) = pointed(t) => r = t
          BY <4>2 DEF NamesOwned
        <5> QED
          BY ONLY <3>2, <3>3, <4>1, <4>2, <4>3, <5>1, <5>2, p \in Pointers', q \in Pointers'
      <4>5. ~destroyed'
        BY <4>2, ~destroyed
      <4> QED
        BY ONLY <4>4, <4>5 DEF NamesOwned
  <2> QED
    BY <1>1, <2>5, <2>6, <2>7 DEF IInv
<1> QED
  BY <1>2, <1>3

(* add_cname_record, on a table with room and on a full one. *)
LEMMA AddCnameIInv ==
  ASSUME Sizes, IInv, ~destroyed, NEW name \in Names, NEW cname \in Names,
         NEW block \in Blocks, NEW cname_block \in Blocks,
         add_cname_record(name, cname, block, cname_block)
  PROVE  IInv'
<1> DEFINE entry == [ids |-> response, domain_name |-> name, cname |-> cname,
                     block |-> block, cname_block |-> cname_block]
           full == Len(cname_entries) >= DNS_TABLE_CNAME_ENTRIES
<1>1. /\ entry \in dns_cname_entry_t
      /\ cname_read' = Append(cname_read, entry)
      /\ block \notin allocated /\ cname_block \notin allocated /\ block # cname_block
      /\ allocated' = allocated \cup {block, cname_block}
      /\ UNCHANGED <<a_entries, num_dropped_a_entries, destroyed, response, a_read>>
  BY DEF IInv, TypeOK, add_cname_record, Parsing, strdup, dns_cname_entry_t
<1>2. CASE full
  <2>1. /\ UNCHANGED cname_entries
        /\ num_dropped_cname_entries' = num_dropped_cname_entries + 1
    BY <1>2 DEF add_cname_record, cname_drop
  <2>2. \A i \in 1 .. Len(cname_entries) : cname_entries[i] = Append(cname_read, entry)[i]
    <3>1. cname_entries \in Seq(dns_cname_entry_t) /\ cname_read \in Seq(dns_cname_entry_t)
      BY DEF IInv, TypeOK
    <3>2. /\ Len(cname_read) >= Len(cname_entries)
          /\ \A i \in 1 .. Len(cname_entries) : cname_entries[i] = cname_read[i]
      BY DEF IInv, TypeOK, RecordsAccounted
    <3>3. entry \in dns_cname_entry_t
      BY <1>1
    <3> HIDE DEF entry
    <3> QED
      BY ONLY <3>1, <3>2, <3>3, AppendLong
  <2>3. TypeOK'
    BY <1>1, <2>1 DEF IInv, TypeOK
  <2>4. RecordsAccounted'
    <3>1. Len(cname_entries) = DNS_TABLE_CNAME_ENTRIES
      BY <1>2 DEF Sizes, IInv, TypeOK
    <3> QED
      BY <1>1, <2>1, <2>2, <3>1 DEF IInv, TypeOK, RecordsAccounted
  <2>5. NamesOwned'
    BY <1>1, <2>1, NamesStay DEF IInv
  <2> QED
    BY <1>1, <2>3, <2>4, <2>5 DEF IInv
<1>3. CASE ~full
  <2>1. cname_entries' = Append(cname_entries, entry) /\ UNCHANGED num_dropped_cname_entries
    BY <1>3 DEF add_cname_record
  <2>2. Len(cname_entries) < DNS_TABLE_CNAME_ENTRIES
    BY <1>3 DEF Sizes, IInv, TypeOK
  <2>3. num_dropped_cname_entries = 0 /\ Len(cname_read) = Len(cname_entries)
    BY <2>2 DEF Sizes, IInv, TypeOK, RecordsAccounted
  <2>4. \A i \in 1 .. Len(Append(cname_entries, entry)) :
           Append(cname_entries, entry)[i] = Append(cname_read, entry)[i]
    BY <1>1, <2>3, AppendBoth DEF IInv, TypeOK, RecordsAccounted
  <2>5. TypeOK'
    BY <1>1, <2>1, <2>2 DEF Sizes, IInv, TypeOK
  <2>6. RecordsAccounted'
    BY <1>1, <2>1, <2>3, <2>4 DEF IInv, TypeOK, RecordsAccounted
  <2>7. NamesOwned'
    <3>0. PICK n \in Nat : n = Len(cname_entries) + 1
      BY DEF IInv, TypeOK
    <3> DEFINE new == <<"domain_name", n>>
               target == <<"cname", n>>
    <3>1. /\ DOMAIN cname_entries' = DOMAIN cname_entries \cup {n}
          /\ cname_entries'[n] = entry
          /\ \A i \in DOMAIN cname_entries : cname_entries'[i] = cname_entries[i]
      BY <1>1, <2>1, <3>0 DEF IInv, TypeOK
    <3>2. Pointers' = Pointers \cup {new, target}
      BY <1>1, <3>1 DEF Pointers
    <3>3. \A p \in Pointers : pointed(p)' = pointed(p)
      BY <1>1, <3>1 DEF Pointers, pointed
    <3>4. pointed(new)' = block /\ pointed(target)' = cname_block
      <4>1. pointed(new)' = cname_entries'[n].block
        BY DEF pointed
      <4>2. pointed(target)' = cname_entries'[n].cname_block
        BY DEF pointed
      <4> QED
        BY <3>1, <4>1, <4>2
    <3>5. new # target
      OBVIOUS
    <3> QED
      <4>1. \A p \in {new, target} : pointed(p)' \notin allocated /\ pointed(p)' \in allocated'
        BY <1>1, <3>4
      <4>2. NamesOwned /\ UNCHANGED destroyed /\ allocated \subseteq allocated'
        BY <1>1 DEF IInv
      <4>3. \A p, q \in {new, target} : pointed(p)' = pointed(q)' => p = q
        BY <1>1, <3>4
      <4>4. ASSUME NEW p \in Pointers', NEW q \in Pointers'
            PROVE  /\ pointed(p)' \in allocated'
                   /\ pointed(p)' = pointed(q)' => p = q
        <5>1. \A r \in Pointers : pointed(r) \in allocated
          BY <4>2, ~destroyed DEF NamesOwned
        <5>2. \A r, t \in Pointers : pointed(r) = pointed(t) => r = t
          BY <4>2 DEF NamesOwned
        <5> QED
          BY ONLY <3>2, <3>3, <4>1, <4>2, <4>3, <5>1, <5>2, p \in Pointers', q \in Pointers'
      <4>5. ~destroyed'
        BY <4>2, ~destroyed
      <4> QED
        BY ONLY <4>4, <4>5 DEF NamesOwned
  <2> QED
    BY <1>1, <2>5, <2>6, <2>7 DEF IInv
<1> QED
  BY <1>2, <1>3

(* dns_table_destroy frees the blocks of all pointers, and these only. *)
LEMMA DestroyIInv ==
  ASSUME IInv, dns_table_destroy
  PROVE  IInv'
<1>1. /\ UNCHANGED <<a_entries, cname_entries, num_dropped_a_entries,
                     num_dropped_cname_entries, response, read_vars>>
      /\ destroyed' = TRUE
      /\ allocated' = allocated \ {pointed(p) : p \in Pointers}
  BY DEF dns_table_destroy
<1>2. NamesOwned'
  BY <1>1, PointersSame DEF IInv, NamesOwned
<1>3. destroyed' => response' = NoResponse
  BY DEF dns_table_destroy
<1> QED
  BY <1>1, <1>2, <1>3 DEF IInv, TypeOK, RecordsAccounted, read_vars

LEMMA ClearIInv ==
  ASSUME Sizes, IInv, dns_table_init
  PROVE  IInv'
<1>1. a_entries' = <<>> /\ cname_entries' = <<>>
  BY DEF dns_table_init
<1>2. NamesOwned'
  <2>1. DOMAIN a_entries' = {} /\ DOMAIN cname_entries' = {}
    BY <1>1
  <2> QED
    BY <2>1 DEF NamesOwned, Pointers
<1>3. TypeOK'
  <2>1. destroyed' \in BOOLEAN
    BY DEF dns_table_init
  <2> QED
    BY <2>1 DEF Sizes, IInv, TypeOK, dns_table_init
<1>4. RecordsAccounted' /\ ~destroyed'
  BY DEF Sizes, RecordsAccounted, dns_table_init
<1> QED
  BY <1>2, <1>3, <1>4 DEF IInv

(* Each step of the parser and of the table. *)
LEMMA NextIInv ==
  ASSUME Sizes, WidthsOK, NamesOK, IInv, [Next]_vars
  PROVE  IInv'
<1>1. ASSUME NEW packet_id \in 0 .. UINT16_MAX, NEW mac_id \in 0 .. UINT8_MAX,
             begin_response(packet_id, mac_id)
      PROVE  IInv'
  <2>1. response' \in ids_t
    BY <1>1 DEF WidthsOK, begin_response, ids_t
  <2>2. NamesOwned'
    BY <1>1, NamesSame DEF begin_response, table_vars, IInv
  <2> QED
    BY <1>1, <2>1, <2>2 DEF begin_response, table_vars, read_vars, IInv, TypeOK,
                            RecordsAccounted
<1>2. ASSUME NEW block \in Blocks, NEW name \in Hosts, add_a_record(name, block)
      PROVE  IInv'
  BY <1>2, AddAIInv DEF NamesOK, IInv, add_a_record, Parsing
<1>3. ASSUME NEW block \in Blocks, NEW alias \in Aliases, NEW cname_block \in Blocks,
             add_cname_record(alias[1], alias[2], block, cname_block)
      PROVE  IInv'
  <2>1. alias[1] \in Names /\ alias[2] \in Names
    BY DEF NamesOK
  <2>2. ~destroyed
    BY <1>3 DEF IInv, add_cname_record, Parsing
  <2> QED
    BY <1>3, <2>1, <2>2, AddCnameIInv
<1>4. ASSUME NEW block \in Blocks, lose_cname_record(block)
      PROVE  IInv'
  <2>1. NamesOwned'
    BY <1>4, NamesStay DEF lose_cname_record, strdup, IInv, Parsing
  <2> QED
    BY <1>4, <2>1 DEF lose_cname_record, strdup, read_vars, IInv, TypeOK, RecordsAccounted
<1>5. CASE end_response
  <2>1. NamesOwned'
    BY <1>5, NamesSame DEF end_response, table_vars, IInv
  <2> QED
    BY <1>5, <2>1 DEF end_response, table_vars, read_vars, IInv, TypeOK, RecordsAccounted
<1>6. CASE dns_table_destroy \/ dns_table_init
  BY <1>6, DestroyIInv, ClearIInv
<1>7. CASE UNCHANGED vars
  <2>1. NamesOwned'
    BY <1>7, NamesSame DEF vars, table_vars, IInv
  <2> QED
    BY <1>7, <2>1 DEF vars, table_vars, read_vars, IInv, TypeOK, RecordsAccounted
<1> QED
  BY <1>1, <1>2, <1>3, <1>4, <1>5, <1>6, <1>7 DEF Next, read_record

(***************************************************************************)
(* The arrays of dns_table_t hold the first records of each period and the *)
(* drop counters the number of the others, however the parsing of the      *)
(* responses went.                                                         *)
(***************************************************************************)
THEOREM DnsRecordsAccounted ==
  ASSUME Sizes, WidthsOK, NamesOK
  PROVE  Spec => []RecordsAccounted
<1>1. Init => IInv
  BY InitIInv
<1>2. IInv /\ [Next]_vars => IInv'
  BY NextIInv
<1>3. IInv => RecordsAccounted
  BY DEF IInv
<1> QED
  BY <1>1, <1>2, <1>3, PTL DEF Spec

(***************************************************************************)
(* Each pointer of the table has a block of its own, one that strdup gave  *)
(* and nothing has freed: dns_table_destroy frees no block twice.  Once it *)
(* has run, no pointer of the table is to be followed until dns_table_init.*)
(***************************************************************************)
THEOREM DnsNamesOwned ==
  ASSUME Sizes, WidthsOK, NamesOK
  PROVE  Spec => []NamesOwned
<1>1. Init => IInv
  BY InitIInv
<1>2. IInv /\ [Next]_vars => IInv'
  BY NextIInv
<1>3. IInv => NamesOwned
  BY DEF IInv
<1> QED
  BY <1>1, <1>2, <1>3, PTL DEF Spec
=============================================================================
