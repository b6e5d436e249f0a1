------------------------- MODULE AddressTableProofs -------------------------
(***************************************************************************)
(* Proofs about AddressTable, for every table size and set of addresses.   *)
(***************************************************************************)
EXTENDS AddressTable, TLAPS

(* NORM on the arguments that the code gives it. *)
LEMMA NormRange ==
  ASSUME NEW m \in Int
  PROVE  NORM(m) \in Ids
  BY AddressTableAssumption DEF NORM, Ids

LEMMA NormInRange ==
  ASSUME NEW m \in Ids
  PROVE  NORM(m) = m
  BY AddressTableAssumption DEF NORM, Ids

LEMMA NormCases ==
  ASSUME NEW m \in Int, -MAC_TABLE_ENTRIES <= m, m < 2 * MAC_TABLE_ENTRIES
  PROVE  NORM(m) = IF m < 0 THEN m + MAC_TABLE_ENTRIES
                   ELSE IF m < MAC_TABLE_ENTRIES THEN m
                   ELSE m - MAC_TABLE_ENTRIES
  BY AddressTableAssumption DEF NORM

(* Going back from a position and forward again. *)
LEMMA NormBackAndForth ==
  ASSUME NEW m \in Ids, NEW id \in Ids
  PROVE  /\ NORM(m - id) \in Ids
         /\ NORM(m - NORM(m - id)) = id
<1> DEFINE k == NORM(m - id)
<1>1. /\ m \in Int /\ 0 <= m /\ m < MAC_TABLE_ENTRIES
      /\ id \in Int /\ 0 <= id /\ id < MAC_TABLE_ENTRIES
      /\ MAC_TABLE_ENTRIES \in Int
  BY AddressTableAssumption DEF Ids
<1>2. k = IF m - id < 0 THEN m - id + MAC_TABLE_ENTRIES ELSE m - id
  BY <1>1, NormCases
<1> HIDE DEF k
<1>3. k \in Ids
  BY <1>1, <1>2 DEF Ids
<1>4. NORM(m - k) = IF m - k < 0 THEN m - k + MAC_TABLE_ENTRIES ELSE m - k
  BY <1>1, <1>3, NormCases DEF Ids
<1>5. NORM(m - k) = id
  BY <1>1, <1>2, <1>4
<1> QED
  BY <1>3, <1>5 DEF k

(* A ring that is not full has never wrapped. *)
LEMMA RingIds ==
  ASSUME TypeOK, RingShape
  PROVE  /\ length < MAC_TABLE_ENTRIES =>
              /\ LiveIds = 0 .. length - 1
              /\ length > 0 => last = length - 1
         /\ length = MAC_TABLE_ENTRIES =>
              /\ LiveIds = Ids
              /\ first = NORM(last + 1)
<1> USE AddressTableAssumption
<1>1. ASSUME length < MAC_TABLE_ENTRIES
      PROVE  /\ LiveIds = 0 .. length - 1
             /\ length > 0 => last = length - 1
  <2>1. CASE length = 0
    BY <2>1 DEF LiveIds
  <2>2. CASE length > 0
    <3>1. length - 1 \in Ids
      BY <1>1, <2>2 DEF TypeOK, Ids
    <3>2. last = NORM(length - 1)
      BY <1>1, <2>2 DEF RingShape, TypeOK
    <3>3. last = length - 1
      BY <3>1, <3>2, NormInRange
    <3>4. \A idx \in 0 .. length - 1 : NORM(last - idx) = last - idx
      BY <1>1, <3>3, NormInRange DEF Ids, TypeOK
    <3>5. LiveIds = {last - idx : idx \in 0 .. length - 1}
      BY <3>4 DEF LiveIds
    <3>6. \A id \in 0 .. length - 1 :
            last - id \in 0 .. length - 1 /\ last - (last - id) = id
      BY <3>3 DEF TypeOK
    <3>7. \A idx \in 0 .. length - 1 : last - idx \in 0 .. length - 1
      BY <3>3 DEF TypeOK
    <3> QED
      BY <3>3, <3>5, <3>6, <3>7
  <2> QED
    BY <2>1, <2>2 DEF TypeOK
<1>2. ASSUME length = MAC_TABLE_ENTRIES
      PROVE  LiveIds = Ids /\ first = NORM(last + 1)
  <2>1. last \in Ids /\ first \in Ids
    BY DEF TypeOK
  <2>2. LiveIds = {NORM(last - idx) : idx \in Ids}
    BY <1>2 DEF LiveIds, Ids
  <2>3. \A idx \in Ids : NORM(last - idx) \in Ids
    BY <2>1, NormBackAndForth
  <2>4. \A id \in Ids : \E idx \in Ids : NORM(last - idx) = id
    BY <2>1, NormBackAndForth
  <2>5. first = NORM(last + 1)
    <3>1. last = NORM(first + MAC_TABLE_ENTRIES - 1)
      BY <1>2 DEF RingShape
    <3>2. last = IF first = 0 THEN MAC_TABLE_ENTRIES - 1 ELSE first - 1
      <4>1. /\ first + MAC_TABLE_ENTRIES - 1 \in Int
            /\ -MAC_TABLE_ENTRIES <= first + MAC_TABLE_ENTRIES - 1
            /\ first + MAC_TABLE_ENTRIES - 1 < 2 * MAC_TABLE_ENTRIES
        BY <2>1 DEF Ids
      <4> QED
        BY <2>1, <3>1, <4>1, NormCases DEF Ids
    <3>3. /\ last + 1 \in Int
          /\ -MAC_TABLE_ENTRIES <= last + 1
          /\ last + 1 < 2 * MAC_TABLE_ENTRIES
      BY <2>1 DEF Ids
    <3> QED
      BY <2>1, <3>2, <3>3, NormCases DEF Ids
  <2> QED
    BY <2>2, <2>3, <2>4, <2>5
<1> QED
  BY <1>1, <1>2

-----------------------------------------------------------------------------
IInv == TypeOK /\ RingShape /\ OneIdPerAddress /\ ServerMirrors

(* Where a new mapping goes: behind the newest, in place of the oldest. *)
LEMMA NextLast ==
  ASSUME TypeOK, RingShape
  PROVE  /\ next_last \in Ids
         /\ length < MAC_TABLE_ENTRIES => next_last = length
         /\ length = MAC_TABLE_ENTRIES => next_last = first
<1>1. next_last \in Ids
  <2>1. last \in Ids /\ last + 1 \in Int
    BY DEF TypeOK, Ids
  <2>2. NORM(last + 1) \in Ids
    BY <2>1, NormRange
  <2> QED
    BY <2>1, <2>2 DEF next_last
<1>2. ASSUME length < MAC_TABLE_ENTRIES
      PROVE  next_last = length
  <2>1. length > 0 => last = length - 1
    BY <1>2, RingIds
  <2>2. length \in Ids
    BY <1>2, AddressTableAssumption DEF TypeOK, Ids
  <2> QED
    BY <2>1, <2>2, NormInRange DEF next_last, RingShape, TypeOK
<1>3. ASSUME length = MAC_TABLE_ENTRIES
      PROVE  next_last = first
  BY <1>3, RingIds, AddressTableAssumption DEF next_last
<1> QED
  BY <1>1, <1>2, <1>3

LEMMA AddKeepsShape ==
  ASSUME TypeOK, RingShape, NEW address \in Private, NEW id, add_mapping(address, id)
  PROVE  /\ server' \in [Ids -> Private \cup {NoAddress}] => TypeOK'
         /\ last' = next_last
         /\ entries' = [entries EXCEPT ![next_last] = address]
         /\ LiveIds' = LiveIds \cup {next_last}
         /\ RingShape'
<1> USE AddressTableAssumption
<1>1. /\ last' = next_last
      /\ length' = next_length
      /\ first' = next_first
      /\ added_since_last_update' = next_added
      /\ entries' = [entries EXCEPT ![next_last] = address]
  BY DEF add_mapping
<1>2. length' = IF length = MAC_TABLE_ENTRIES THEN length ELSE length + 1
  BY <1>1 DEF next_length
<1>3. first' \in Ids /\ last' \in Ids
  BY <1>1, NextLast, NormRange DEF next_first, TypeOK, Ids
<1>4. length' \in 0 .. MAC_TABLE_ENTRIES
  BY <1>2 DEF TypeOK
<1>5. added_since_last_update' \in 0 .. length'
  BY <1>1, <1>2 DEF next_added, TypeOK
<1>6. entries' \in [Ids -> Private \cup {NoAddress}]
  BY <1>1, NextLast DEF TypeOK
<1>7. /\ length' > 0
      /\ last' = NORM(first' + length' - 1)
      /\ length' < MAC_TABLE_ENTRIES => first' = 0
  <2>1. CASE length < MAC_TABLE_ENTRIES
    <3>1. first = 0 /\ first' = 0 /\ length' = length + 1
      BY <1>1, <1>2, <2>1 DEF RingShape, next_first
    <3>2. first' + length' - 1 = length /\ length \in Ids
      BY <2>1, <3>1 DEF TypeOK, Ids
    <3> QED
      BY <1>1, <2>1, <3>1, <3>2, NextLast, NormInRange DEF TypeOK
  <2>2. CASE length = MAC_TABLE_ENTRIES
    <3>1. /\ first' = NORM(first + 1) /\ length' = MAC_TABLE_ENTRIES
          /\ last' = first /\ first \in Ids
      BY <1>1, <1>2, <2>2, NextLast DEF next_first, TypeOK
    <3>2. first' = IF first + 1 < MAC_TABLE_ENTRIES THEN first + 1
                   ELSE first + 1 - MAC_TABLE_ENTRIES
      <4>1. /\ first + 1 \in Int /\ -MAC_TABLE_ENTRIES <= first + 1
            /\ first + 1 < 2 * MAC_TABLE_ENTRIES
        BY <3>1 DEF Ids
      <4> DEFINE m == first + 1
      <4>2. ~(m < 0)
        BY <3>1 DEF Ids
      <4> HIDE DEF m
      <4>3. m \in Int /\ -MAC_TABLE_ENTRIES <= m /\ m < 2 * MAC_TABLE_ENTRIES
        BY <4>1 DEF m
      <4>4. NORM(m) = IF m < MAC_TABLE_ENTRIES THEN m ELSE m - MAC_TABLE_ENTRIES
        BY <4>2, <4>3, NormCases
      <4>5. first' = NORM(m)
        BY <3>1 DEF m
      <4>6. first' = IF m < MAC_TABLE_ENTRIES THEN m ELSE m - MAC_TABLE_ENTRIES
        BY ONLY <4>4, <4>5
      <4>7. first \in Int /\ MAC_TABLE_ENTRIES \in Int
        BY <3>1 DEF Ids
      <4> QED
        BY ONLY <4>6, <4>7 DEF m
    <3>3. /\ first' + length' - 1 \in Int
          /\ -MAC_TABLE_ENTRIES <= first' + length' - 1
          /\ first' + length' - 1 < 2 * MAC_TABLE_ENTRIES
      BY <1>3, <3>1 DEF Ids
    <3>4. NORM(first' + length' - 1) = first
      BY <3>1, <3>2, <3>3, NormCases DEF Ids
    <3> QED
      BY <3>1, <3>4
  <2> QED
    BY <2>1, <2>2 DEF TypeOK
<1>8. LiveIds' = LiveIds \cup {next_last}
  <2> DEFINE W(l, n) == {NORM(l - idx) : idx \in 0 .. n - 1}
  <2>1. CASE length < MAC_TABLE_ENTRIES
    <3>1. last' = length /\ length' = length + 1 /\ LiveIds = 0 .. length - 1
      BY <1>1, <1>2, <2>1, NextLast, RingIds
    <3>2. \A idx \in 0 .. length : NORM(length - idx) = length - idx
      BY <2>1, NormInRange DEF Ids, TypeOK
    <3>3. LiveIds' = {length - idx : idx \in 0 .. length}
      BY <3>1, <3>2 DEF LiveIds, TypeOK
    <3>4. \A j \in 0 .. length : length - j \in 0 .. length /\ length - (length - j) = j
      BY DEF TypeOK
    <3>5. LiveIds' = 0 .. length
      BY <3>3, <3>4
    <3> QED
      BY <1>1, <3>1, <3>5 DEF TypeOK
  <2>2. CASE length = MAC_TABLE_ENTRIES
    <3>1. LiveIds = Ids /\ length' = MAC_TABLE_ENTRIES
      BY <1>2, <2>2, RingIds
    <3>2. LiveIds' = {NORM(last' - idx) : idx \in Ids}
      BY <3>1 DEF LiveIds, Ids
    <3>3. LiveIds' = Ids
      BY <1>3, <3>2, NormBackAndForth
    <3> QED
      BY <3>1, <3>3, NextLast
  <2> QED
    BY <2>1, <2>2 DEF TypeOK
<1>9. \A other \in LiveIds' : entries'[other] # NoAddress
  BY <1>1, <1>8, NextLast DEF RingShape, LiveIds, TypeOK
<1>10. RingShape'
  BY <1>7, <1>9 DEF RingShape
<1>11. server' \in [Ids -> Private \cup {NoAddress}] => TypeOK'
  BY <1>3, <1>4, <1>5, <1>6 DEF TypeOK
<1> QED
  BY <1>1, <1>8, <1>10, <1>11

(* Going forward one position before going back one more. *)
LEMMA NormForward ==
  ASSUME NEW m \in Ids, NEW k \in 0 .. MAC_TABLE_ENTRIES - 1
  PROVE  NORM(NORM(m + 1) - (k + 1)) = NORM(m - k)
<1> DEFINE n == NORM(m + 1)
<1>1. /\ m \in Int /\ 0 <= m /\ m < MAC_TABLE_ENTRIES
      /\ k \in Int /\ 0 <= k /\ k < MAC_TABLE_ENTRIES
      /\ MAC_TABLE_ENTRIES \in Int /\ MAC_TABLE_ENTRIES > 1
  BY AddressTableAssumption DEF Ids
<1>2. n = IF m + 1 < MAC_TABLE_ENTRIES THEN m + 1 ELSE 0
  BY <1>1, NormCases
<1> HIDE DEF n
<1>3. n \in Int /\ 0 <= n /\ n < MAC_TABLE_ENTRIES
  BY ONLY <1>1, <1>2
<1>4. NORM(n - (k + 1)) = IF n - (k + 1) < 0 THEN n - (k + 1) + MAC_TABLE_ENTRIES
                          ELSE n - (k + 1)
  BY <1>1, <1>3, NormCases
<1>5. NORM(m - k) = IF m - k < 0 THEN m - k + MAC_TABLE_ENTRIES ELSE m - k
  BY <1>1, NormCases
<1>6. NORM(n - (k + 1)) = NORM(m - k)
  BY ONLY <1>1, <1>2, <1>4, <1>5
<1> QED
  BY <1>6 DEF n

(* The server's numbering: l is the newest id, a the number of pairs sent. *)
LEMMA UpdateNumbering ==
  ASSUME NEW l \in Ids, NEW a \in 0 .. MAC_TABLE_ENTRIES, NEW id \in Ids,
         NEW k, k = NORM(id - NORM(l - a + 1))
  PROVE  /\ k < a => NORM(l - (a - k) + 1) = id
         /\ \A j \in 0 .. a - 1 : NORM(l - j) = id => k < a
<1> DEFINE u == NORM(l - a + 1)
<1>1. /\ l \in Int /\ 0 <= l /\ l < MAC_TABLE_ENTRIES
      /\ a \in Int /\ 0 <= a /\ a <= MAC_TABLE_ENTRIES
      /\ id \in Int /\ 0 <= id /\ id < MAC_TABLE_ENTRIES
      /\ MAC_TABLE_ENTRIES \in Int /\ MAC_TABLE_ENTRIES > 1
  BY AddressTableAssumption DEF Ids
<1>2. u = IF l - a + 1 < 0 THEN l - a + 1 + MAC_TABLE_ENTRIES
          ELSE IF l - a + 1 < MAC_TABLE_ENTRIES THEN l - a + 1
          ELSE l - a + 1 - MAC_TABLE_ENTRIES
  BY <1>1, NormCases
<1>3. k = NORM(id - u)
  OBVIOUS
<1> HIDE DEF u
<1>4. u \in Int /\ 0 <= u /\ u < MAC_TABLE_ENTRIES
  BY ONLY <1>1, <1>2
<1>5. k = IF id - u < 0 THEN id - u + MAC_TABLE_ENTRIES ELSE id - u
  BY <1>1, <1>3, <1>4, NormCases
<1>6. k \in Int /\ 0 <= k /\ k < MAC_TABLE_ENTRIES
  BY ONLY <1>1, <1>4, <1>5
<1>7. ASSUME k < a
      PROVE  NORM(l - (a - k) + 1) = id
  <2>1. NORM(l - (a - k) + 1) = IF l - (a - k) + 1 < 0
                                THEN l - (a - k) + 1 + MAC_TABLE_ENTRIES
                                ELSE l - (a - k) + 1
    BY <1>1, <1>6, <1>7, NormCases
  <2> QED
    BY ONLY <1>1, <1>2, <1>5, <1>6, <1>7, <2>1
<1>8. ASSUME NEW j \in 0 .. a - 1, NORM(l - j) = id
      PROVE  k < a
  <2>1. j \in Int /\ 0 <= j /\ j < a
    BY <1>1
  <2>2. NORM(l - j) = IF l - j < 0 THEN l - j + MAC_TABLE_ENTRIES ELSE l - j
    BY <1>1, <2>1, NormCases
  <2> QED
    BY ONLY <1>1, <1>2, <1>5, <1>8, <2>1, <2>2
<1> QED
  BY <1>7, <1>8

(* A new mapping is unsent, and what was unsent stays so. *)
LEMMA AddKeepsUnsent ==
  ASSUME TypeOK, RingShape, TypeOK', NEW address, NEW id, add_mapping(address, id)
  PROVE  UnsentIds \cup {next_last} \subseteq UnsentIds'
<1> USE AddressTableAssumption
<1> DEFINE a == added_since_last_update
<1>1. last' = next_last /\ a' = next_added
  BY DEF add_mapping
<1>2. /\ last \in Ids /\ next_last \in Ids
      /\ a \in 0 .. MAC_TABLE_ENTRIES
      /\ a' = IF a < MAC_TABLE_ENTRIES THEN a + 1 ELSE a
  BY <1>1, NextLast DEF TypeOK, next_added
<1>3. next_last \in UnsentIds'
  <2>1. 0 \in 0 .. a' - 1
    BY <1>2
  <2>2. NORM(next_last - 0) = next_last
    BY <1>2, NormInRange DEF Ids
  <2> QED
    BY <1>1, <2>1, <2>2 DEF UnsentIds
<1>4. ASSUME NEW k \in 0 .. a - 1
      PROVE  NORM(last - k) \in UnsentIds'
  <2>1. k \in Ids
    BY <1>2 DEF Ids
  <2>2. NORM(last - k) \in Ids
    BY <1>2, <2>1, NormBackAndForth
  <2>3. CASE a = MAC_TABLE_ENTRIES
    <3>1. \E j \in Ids : NORM(next_last - j) = NORM(last - k)
      BY <1>2, <2>2, NormBackAndForth
    <3> QED
      BY <1>1, <1>2, <2>3, <3>1 DEF UnsentIds, Ids
  <2>4. CASE a < MAC_TABLE_ENTRIES
    <3>1. length > 0
      BY DEF TypeOK
    <3>2. next_last = NORM(last + 1)
      BY <3>1 DEF next_last
    <3>3. NORM(next_last - (k + 1)) = NORM(last - k)
      BY <1>2, <2>1, <3>2, NormForward DEF Ids
    <3>4. k + 1 \in 0 .. a' - 1
      BY <1>2, <2>4
    <3> QED
      BY <1>1, <3>3, <3>4 DEF UnsentIds
  <2> QED
    BY <1>2, <2>3, <2>4
<1> QED
  BY <1>3, <1>4 DEF UnsentIds

-----------------------------------------------------------------------------
(* What a step may do to an id that is in use: see OnlyOldestEvicted. *)
EvictsOldest ==
  \A id \in LiveIds :
    entries'[id] # entries[id] => length = MAC_TABLE_ENTRIES /\ id = first

LEMMA LookupStep ==
  ASSUME IInv, NEW address \in Addresses, NEW id, address_table_lookup(address, id)
  PROVE  IInv' /\ EvictsOldest
<1> USE AddressTableAssumption
<1>1. CASE UNCHANGED table_vars
  <2>1. UNCHANGED vars
    BY <1>1 DEF address_table_lookup, vars
  <2> QED
    BY <2>1 DEF IInv, TypeOK, RingShape, OneIdPerAddress, ServerMirrors, LiveIds,
                UnsentIds, EvictsOldest, vars, table_vars
<1>2. CASE address \in Private /\ add_mapping(address, id)
  <2>1. server' = server
    BY DEF address_table_lookup
  <2>2. /\ TypeOK'
        /\ last' = next_last
        /\ entries' = [entries EXCEPT ![next_last] = address]
        /\ LiveIds' = LiveIds \cup {next_last}
        /\ RingShape'
    BY <1>2, <2>1, AddKeepsShape DEF IInv, TypeOK
  <2>3. next_last \in Ids /\ entries \in [Ids -> Private \cup {NoAddress}]
    BY NextLast DEF IInv, TypeOK
  <2>4. \A k \in LiveIds : k \in Ids
    BY NormRange DEF LiveIds, IInv, TypeOK, Ids
  <2>5. OneIdPerAddress'
    <3>1. \A other \in LiveIds : entries[other] # address
      BY <1>2 DEF add_mapping, SearchedIds, LiveIds
    <3>2. \A k, other \in LiveIds : entries[k] = entries[other] => k = other
      BY DEF IInv, OneIdPerAddress
    <3> QED
      BY <2>2, <2>3, <2>4, <3>1, <3>2 DEF OneIdPerAddress
  <2>6. \A k \in LiveIds :
            entries'[k] # entries[k] => length = MAC_TABLE_ENTRIES /\ k = first
    <3>1. CASE length = MAC_TABLE_ENTRIES
      BY <2>2, <2>3, <2>4, <3>1, NextLast DEF IInv
    <3>2. CASE length < MAC_TABLE_ENTRIES
      <4>1. next_last = length /\ LiveIds = 0 .. length - 1
        BY <3>2, NextLast, RingIds DEF IInv
      <4>2. \A k \in LiveIds : k # next_last
        BY <4>1 DEF IInv, TypeOK
      <4> QED
        BY <2>2, <2>3, <2>4, <4>2
    <3> QED
      BY <3>1, <3>2 DEF IInv, TypeOK
  <2>7. ServerMirrors'
    <3>1. UnsentIds \cup {next_last} \subseteq UnsentIds'
      BY <1>2, <2>2, AddKeepsUnsent DEF IInv
    <3>2. \A k \in LiveIds' \ UnsentIds' :
            k \in LiveIds \ UnsentIds /\ k # next_last /\ k \in Ids
      BY <2>2, <2>4, <3>1
    <3>3. \A k \in LiveIds \ UnsentIds : server[k] = entries[k]
      BY DEF IInv, ServerMirrors
    <3> QED
      BY <2>1, <2>2, <2>3, <3>2, <3>3 DEF ServerMirrors
  <2> QED
    BY <2>2, <2>5, <2>6, <2>7 DEF IInv, EvictsOldest
<1> QED
  BY <1>1, <1>2 DEF address_table_lookup, find_mapping

LEMMA WriteUpdateStep ==
  ASSUME IInv, address_table_write_update
  PROVE  IInv' /\ EvictsOldest
<1> USE AddressTableAssumption
<1> DEFINE a == added_since_last_update
<1>1. /\ UNCHANGED <<entries, first, last, length>>
      /\ a' = 0
      /\ server' = ServerAfterUpdate
  BY DEF address_table_write_update
<1>2. /\ last \in Ids /\ a \in 0 .. MAC_TABLE_ENTRIES
      /\ entries \in [Ids -> Private \cup {NoAddress}]
      /\ server \in [Ids -> Private \cup {NoAddress}]
  BY DEF IInv, TypeOK
<1>3. \A k \in LiveIds : k \in Ids
  BY <1>2, NormRange DEF LiveIds, IInv, TypeOK, Ids
<1>4. server' \in [Ids -> Private \cup {NoAddress}]
  <2>1. \A k \in Ids : UpdatePair(k) \in Private \cup {NoAddress}
    <3> SUFFICES ASSUME NEW k \in Ids
                 PROVE  UpdatePair(k) \in Private \cup {NoAddress}
      OBVIOUS
    <3>1. last - (a - k) + 1 \in Int
      BY <1>2 DEF Ids
    <3> QED
      BY <1>2, <3>1, NormRange DEF UpdatePair
  <2>2. \A id \in Ids : NORM(id - UpdateFirstId) \in Ids
    <3>1. UpdateFirstId \in Ids
      BY <1>2, NormRange DEF UpdateFirstId, Ids
    <3> QED
      BY <3>1, NormBackAndForth
  <2> QED
    BY <1>1, <1>2, <2>1, <2>2 DEF ServerAfterUpdate
<1>5. TypeOK' /\ RingShape' /\ OneIdPerAddress' /\ EvictsOldest
  BY <1>1, <1>4 DEF IInv, TypeOK, RingShape, OneIdPerAddress, LiveIds, EvictsOldest
<1>6. ServerMirrors'
  <2> SUFFICES ASSUME NEW id \in LiveIds
               PROVE  server'[id] = entries[id]
    BY <1>1 DEF ServerMirrors, LiveIds
  <2> DEFINE k == NORM(id - UpdateFirstId)
  <2>1. id \in Ids
    BY <1>3
  <2>2. server'[id] = IF k < a THEN UpdatePair(k) ELSE server[id]
    BY <1>1, <2>1 DEF ServerAfterUpdate
  <2>3. k = NORM(id - NORM(last - a + 1))
    BY DEF UpdateFirstId
  <2> HIDE DEF k
  <2>4. /\ k < a => NORM(last - (a - k) + 1) = id
        /\ \A j \in 0 .. a - 1 : NORM(last - j) = id => k < a
    BY <1>2, <2>1, <2>3, UpdateNumbering
  <2>5. CASE k < a
    BY <2>2, <2>4, <2>5 DEF UpdatePair
  <2>6. CASE ~(k < a)
    <3>1. id \notin UnsentIds
      BY <2>4, <2>6 DEF UnsentIds
    <3> QED
      BY <2>2, <2>6, <3>1 DEF IInv, ServerMirrors
  <2> QED
    BY <2>5, <2>6
<1> QED
  BY <1>5, <1>6 DEF IInv

LEMMA InitIInv == Init => IInv
<1> SUFFICES ASSUME Init PROVE IInv
  OBVIOUS
<1> USE AddressTableAssumption
<1>1. TypeOK
  BY DEF Init, address_table_init, TypeOK, Ids
<1>2. LiveIds = {}
  BY DEF Init, address_table_init, LiveIds
<1> QED
  BY <1>1, <1>2 DEF IInv, Init, address_table_init, RingShape, OneIdPerAddress,
                    ServerMirrors

LEMMA StepIInv == IInv /\ [Next]_vars => IInv' /\ [EvictsOldest]_vars
<1> SUFFICES ASSUME IInv, [Next]_vars PROVE IInv' /\ [EvictsOldest]_vars
  OBVIOUS
<1>1. ASSUME NEW address \in Addresses, NEW id \in Ids \cup {-1},
             address_table_lookup(address, id)
      PROVE  IInv' /\ EvictsOldest
  BY <1>1, LookupStep
<1>2. CASE address_table_write_update
  BY <1>2, WriteUpdateStep
<1>3. CASE UNCHANGED vars
  BY <1>3 DEF IInv, TypeOK, RingShape, OneIdPerAddress, ServerMirrors, LiveIds,
              UnsentIds, vars, table_vars
<1> QED
  BY <1>1, <1>2, <1>3 DEF Next

(***************************************************************************)
(* address_table.c keeps a gapless ring of distinct addresses, and the     *)
(* server's copy of it, built from the first id of each update and the     *)
(* order of its lines, agrees with it for every mapping already sent.      *)
(***************************************************************************)
THEOREM AddressTableCorrect ==
  Spec => [](TypeOK /\ RingShape /\ OneIdPerAddress /\ ServerMirrors)
<1>1. Spec => []IInv
  BY InitIInv, StepIInv, PTL DEF Spec
<1> QED
  BY <1>1, PTL DEF IInv

(***************************************************************************)
(* address_table_lookup reuses an id only when the ring is full, and then  *)
(* it is the id of the oldest mapping.                                     *)
(***************************************************************************)
THEOREM AddressTableEviction == Spec => OnlyOldestEvicted
<1>1. Spec => [][EvictsOldest]_vars
  BY InitIInv, StepIInv, PTL DEF Spec
<1> QED
  BY <1>1 DEF EvictsOldest, OnlyOldestEvicted

-----------------------------------------------------------------------------
(***************************************************************************)
(* address_table.c implements DifferentialUpdates: a lookup renames, an    *)
(* update sends.                                                           *)
(***************************************************************************)
AddressOf == [id \in Ids |-> IF id \in LiveIds THEN entries[id] ELSE NoAddress]

LEMMA NamedIds ==
  IInv => /\ Stream!Named = LiveIds
          /\ UnsentIds \subseteq LiveIds
          /\ LiveIds \subseteq Ids
          /\ AddressOf \in [Ids -> Private \cup {NoAddress}]
<1> HAVE IInv
<1> USE AddressTableAssumption
<1>1. TypeOK /\ RingShape
  BY DEF IInv
<1>2. LiveIds \subseteq Ids
  BY <1>1, NormRange DEF LiveIds, TypeOK, Ids
<1>3. AddressOf \in [Ids -> Private \cup {NoAddress}]
  BY <1>1 DEF AddressOf, TypeOK
<1>4. \A id \in Ids : AddressOf[id] # NoAddress <=> id \in LiveIds
  BY <1>1 DEF AddressOf, RingShape
<1>5. Stream!Named = {id \in Ids : AddressOf[id] # NoAddress}
  BY DEF Stream!Named, AddressOf
<1>6. UnsentIds \subseteq LiveIds
  <2>1. 0 .. added_since_last_update - 1 \subseteq 0 .. length - 1
    BY <1>1 DEF TypeOK
  <2> QED
    BY <2>1 DEF UnsentIds, LiveIds
<1> QED
  BY <1>2, <1>3, <1>4, <1>5, <1>6

LEMMA RenamesAddresses ==
  ASSUME IInv, IInv', UNCHANGED server,
         \A id \in LiveIds' \ UnsentIds' :
           id \in LiveIds \ UnsentIds /\ entries'[id] = entries[id]
  PROVE  Stream!RenameThings
<1>1. (IInv => /\ Stream!Named = LiveIds
               /\ UnsentIds \subseteq LiveIds
               /\ LiveIds \subseteq Ids
               /\ AddressOf \in [Ids -> Private \cup {NoAddress}])'
  BY NamedIds, PTL
<1>2. /\ Stream!Named' = LiveIds'
      /\ UnsentIds' \subseteq LiveIds'
      /\ AddressOf' \in [Ids -> Private \cup {NoAddress}]
      /\ LiveIds \subseteq Ids /\ LiveIds' \subseteq Ids
  BY <1>1, NamedIds
<1>3. \A id \in LiveIds' \ UnsentIds' :
        id \notin UnsentIds /\ AddressOf'[id] = AddressOf[id]
  BY <1>2 DEF AddressOf
<1>4. \A id, other \in LiveIds' : AddressOf'[id] = AddressOf'[other] => id = other
  BY <1>2 DEF AddressOf, IInv, OneIdPerAddress
<1> QED
  BY <1>2, <1>3, <1>4 DEF Stream!RenameThings, AddressOf

(* The update's own numbering names exactly the unsent ids. *)
LEMMA SendsUnsent ==
  ASSUME IInv
  PROVE  ServerAfterUpdate =
           [id \in Ids |-> IF id \in UnsentIds THEN AddressOf[id] ELSE server[id]]
<1> USE AddressTableAssumption
<1> DEFINE a == added_since_last_update
<1>1. last \in Ids /\ a \in 0 .. MAC_TABLE_ENTRIES
  BY DEF IInv, TypeOK
<1> SUFFICES ASSUME NEW id \in Ids
             PROVE  ServerAfterUpdate[id] =
                      IF id \in UnsentIds THEN AddressOf[id] ELSE server[id]
  BY DEF ServerAfterUpdate
<1> DEFINE k == NORM(id - UpdateFirstId)
<1>2. ServerAfterUpdate[id] = IF k < a THEN UpdatePair(k) ELSE server[id]
  BY DEF ServerAfterUpdate
<1>3. k = NORM(id - NORM(last - a + 1))
  BY DEF UpdateFirstId
<1>4. k \in Int /\ 0 <= k
  <2>1. UpdateFirstId \in Ids
    BY <1>1, NormRange DEF UpdateFirstId, Ids
  <2>2. k \in Ids
    BY <2>1, NormBackAndForth
  <2> QED
    BY <2>2 DEF Ids
<1> HIDE DEF k
<1>5. /\ k < a => NORM(last - (a - k) + 1) = id
      /\ \A j \in 0 .. a - 1 : NORM(last - j) = id => k < a
  BY <1>1, <1>3, UpdateNumbering
<1>6. CASE k < a
  <2>1. a - k - 1 \in 0 .. a - 1 /\ last - (a - k - 1) = last - (a - k) + 1
    BY <1>1, <1>4, <1>6 DEF Ids
  <2>2. id \in UnsentIds
    BY <1>5, <1>6, <2>1 DEF UnsentIds
  <2> QED
    BY <1>2, <1>5, <1>6, <2>2, NamedIds DEF UpdatePair, AddressOf
<1>7. CASE ~(k < a)
  BY <1>2, <1>5, <1>7 DEF UnsentIds
<1> QED
  BY <1>6, <1>7

LEMMA AddressTableStreamStep ==
  ASSUME IInv, [Next]_vars
  PROVE  [Stream!Next]_(Stream!vars)
<1>1. IInv'
  BY StepIInv
<1>2. ASSUME UNCHANGED vars
      PROVE  UNCHANGED Stream!vars
  BY <1>2 DEF vars, table_vars, Stream!vars, LiveIds, UnsentIds
<1>3. ASSUME NEW address \in Private, NEW id, add_mapping(address, id), UNCHANGED server
      PROVE  Stream!Next
  <2>1. /\ LiveIds' = LiveIds \cup {next_last}
        /\ entries' = [entries EXCEPT ![next_last] = address]
    BY <1>3, AddKeepsShape DEF IInv
  <2>2. UnsentIds \cup {next_last} \subseteq UnsentIds'
    BY <1>1, <1>3, AddKeepsUnsent DEF IInv
  <2>3. LiveIds \subseteq Ids /\ entries \in [Ids -> Private \cup {NoAddress}]
    BY NamedIds DEF IInv, TypeOK
  <2>4. \A k \in LiveIds' \ UnsentIds' :
          k \in LiveIds \ UnsentIds /\ entries'[k] = entries[k]
    BY <2>1, <2>2, <2>3
  <2> QED
    BY <1>1, <1>3, <2>4, RenamesAddresses DEF Stream!Next
<1>4. ASSUME address_table_write_update
      PROVE  Stream!Next
  <2>1. AddressOf' = AddressOf
    BY <1>4 DEF address_table_write_update, AddressOf, LiveIds
  <2>2. UnsentIds' = {}
    BY <1>4 DEF address_table_write_update, UnsentIds
  <2>3. server' = [id \in Ids |-> IF id \in UnsentIds THEN AddressOf[id] ELSE server[id]]
    BY <1>4, SendsUnsent DEF address_table_write_update
  <2> QED
    BY <2>1, <2>2, <2>3 DEF Stream!Next, Stream!SendUpdate, AddressOf
<1>5. ASSUME NEW address \in Addresses, NEW id \in Ids \cup {-1},
             address_table_lookup(address, id)
      PROVE  [Stream!Next]_(Stream!vars)
  <2>1. UNCHANGED server
    BY <1>5 DEF address_table_lookup
  <2>2. CASE UNCHANGED table_vars
    BY <1>2, <2>1, <2>2 DEF vars
  <2>3. CASE address \in Private /\ add_mapping(address, id)
    BY <1>3, <2>1, <2>3
  <2> QED
    BY <1>5, <2>2, <2>3 DEF address_table_lookup, find_mapping
<1> QED
  BY <1>2, <1>4, <1>5 DEF Next

(***************************************************************************)
(* For any ring size, however often the ring wrapped between two updates,  *)
(* what the server makes of the address sections of the updates is what    *)
(* DifferentialUpdates promises.                                           *)
(***************************************************************************)
THEOREM AddressTableInforms == Spec => KeepsServerInformed
<1>1. Init => Stream!Init
  <2> SUFFICES ASSUME Init PROVE Stream!Init
    OBVIOUS
  <2>1. LiveIds = {} /\ UnsentIds = {}
    BY DEF Init, address_table_init, LiveIds, UnsentIds
  <2> QED
    BY <2>1 DEF Init, Stream!Init
<1>2. IInv /\ [Next]_vars => [Stream!Next]_(Stream!vars)
  BY AddressTableStreamStep
<1> QED
  BY <1>1, <1>2, InitIInv, StepIInv, PTL DEF Spec, KeepsServerInformed, Stream!Spec

(***************************************************************************)
(* Its parts: every field keeps its range, the ring has no gap, and no     *)
(* device has two ids.                                                     *)
(***************************************************************************)
THEOREM AddressTableTypes == Spec => []TypeOK
  BY AddressTableCorrect, PTL

THEOREM AddressTableRing == Spec => []RingShape
  BY AddressTableCorrect, PTL

THEOREM AddressTableDistinct == Spec => []OneIdPerAddress
  BY AddressTableCorrect, PTL

=============================================================================
