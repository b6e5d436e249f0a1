--------------------------- MODULE SessionsProofs ---------------------------
(***************************************************************************)
(* Proofs about Sessions and its device throughput table, for any number   *)
(* of sessions, devices and alarms, and a process killed at any step.      *)
(***************************************************************************)
EXTENDS Sessions, FiniteSetTheorems, SequenceTheorems, TLAPS

(* Quotient and remainder exist and are unique. *)
LEMMA Division ==
  ASSUME NEW n \in Int, NEW d \in Nat \ {0}
  PROVE  /\ n \div d \in Int /\ n % d \in 0 .. d - 1
         /\ n = d * (n \div d) + (n % d)
  OBVIOUS

LEMMA DivisionUnique ==
  ASSUME NEW n \in Int, NEW d \in Nat \ {0}, NEW q \in Int, NEW r \in 0 .. d - 1,
         n = d * q + r
  PROVE  n \div d = q /\ n % d = r
<1> DEFINE p == n \div d
           s == n % d
<1>1. p \in Int /\ s \in 0 .. d - 1 /\ d * p + s = d * q + r
  BY Division
<1> HIDE DEF p, s
<1>2. d * (p - q) = r - s
  BY <1>1
<1>3. CASE p - q >= 1
  <2>1. d * (p - q) >= d
    BY <1>1, <1>3
  <2> QED
    BY <1>1, <1>2, <2>1
<1>4. CASE p - q <= -1
  <2>1. d * (q - p) >= d
    BY <1>1, <1>4
  <2>2. d * (q - p) = s - r
    BY <1>1
  <2> QED
    BY <1>1, <2>1, <2>2
<1>5. CASE p = q
  BY <1>1, <1>5 DEF p, s
<1> QED
  BY <1>1, <1>3, <1>4, <1>5

(* What one more alarm does to the number of differential updates due. *)
LEMMA OneMoreAlarm ==
  ASSUME NEW n \in Nat
  PROVE  /\ n + 1 \in Nat
         /\ (n + 1) \div ALARMS_PER_UPDATE =
              IF (n + 1) % ALARMS_PER_UPDATE = 0
              THEN n \div ALARMS_PER_UPDATE + 1 ELSE n \div ALARMS_PER_UPDATE
<1> DEFINE d == ALARMS_PER_UPDATE
           q == (n + 1) \div d
           r == (n + 1) % d
<1>1. d \in Nat \ {0}
  BY SessionsAssumption
<1> HIDE DEF d
<1>2. q \in Int /\ r \in 0 .. d - 1 /\ n + 1 = d * q + r
  BY <1>1, Division
<1> HIDE DEF q, r
<1>3. CASE r = 0
  <2>1. q - 1 \in Int /\ d - 1 \in 0 .. d - 1 /\ n = d * (q - 1) + (d - 1)
    BY <1>1, <1>2, <1>3
  <2>2. n \div d = q - 1
    BY <1>1, <2>1, DivisionUnique
  <2> QED
    BY <1>2, <1>3, <2>2 DEF q, r, d
<1>4. CASE r # 0
  <2>1. r - 1 \in 0 .. d - 1 /\ n = d * q + (r - 1)
    BY <1>1, <1>2, <1>4
  <2>2. n \div d = q
    BY <1>1, <1>2, <2>1, DivisionUnique
  <2> QED
    BY <1>2, <1>4, <2>2 DEF q, r, d
<1> QED
  BY <1>3, <1>4

(* A 32-bit sum of 32-bit sums is the 32-bit sum of everything. *)
LEMMA SumOfRemainders ==
  ASSUME NEW n \in Nat, NEW m \in Nat, NEW d \in Nat \ {0}
  PROVE  ((n % d) + m) % d = (n + m) % d
<1> DEFINE q == n \div d
           r == n % d
           k == r + m
           p == k \div d
           s == k % d
<1>1. q \in Int /\ r \in 0 .. d - 1 /\ n = d * q + r
  BY Division
<1> HIDE DEF q, r
<1>2. k \in Int
  BY <1>1
<1>3. p \in Int /\ s \in 0 .. d - 1 /\ k = d * p + s
  BY <1>2, Division
<1> HIDE DEF p, s
<1>4. d * (p + q) = d * p + d * q
  BY <1>1, <1>3
<1>5. p + q \in Int /\ n + m = d * (p + q) + s
  BY <1>1, <1>3, <1>4
<1>6. (n + m) % d = s
  BY <1>3, <1>5, DivisionUnique
<1> QED
  BY <1>6 DEF s, r

-----------------------------------------------------------------------------
(***************************************************************************)
(* The device throughput table.                                            *)
(***************************************************************************)
Distinct(table) ==
  \A i, j \in DOMAIN table : table[i].mac_address = table[j].mac_address => i = j

(* The line for device, or its absence, says that it had so many bytes. *)
Says(table, device, bytes) ==
  \/ \E idx \in DOMAIN table :
       table[idx].mac_address = device /\ table[idx].bytes_transferred = bytes
  \/ ~Listed(table, device) /\ bytes = 0

TableInv ==
  /\ TableTypeOK
  /\ Distinct(entries)
  /\ refused => Len(entries) = DEVICE_THROUGHPUT_TABLE_SIZE
  /\ ~refused =>
       \A device \in Devices : Says(entries, device, carried[device] % (UINT32_MAX + 1))

LEMMA Wrapped ==
  ASSUME NEW n \in Int
  PROVE  n % (UINT32_MAX + 1) \in 0 .. UINT32_MAX
<1> DEFINE M == UINT32_MAX + 1
<1>1. M \in Nat \ {0} /\ M - 1 = UINT32_MAX
  BY DeviceThroughputAssumption
<1> HIDE DEF M
<1>2. n % M \in 0 .. M - 1
  BY <1>1, Division
<1>3. n % M \in 0 .. UINT32_MAX
  BY <1>1, <1>2
<1> QED
  BY <1>3 DEF M

LEMMA RecordDevice ==
  ASSUME NEW table \in Seq(entry_t), Len(table) <= DEVICE_THROUGHPUT_TABLE_SIZE,
         Distinct(table), NEW device \in Devices, NEW length \in 0 .. UINT32_MAX,
         NEW after, after = device_throughput_table_record(table, device, length)
  PROVE  /\ after \in Seq(entry_t)
         /\ Len(table) <= Len(after) /\ Len(after) <= DEVICE_THROUGHPUT_TABLE_SIZE
         /\ Distinct(after)
         /\ Refuses(table, device) =>
              after = table /\ Len(table) = DEVICE_THROUGHPUT_TABLE_SIZE
         /\ ~Refuses(table, device) =>
              \A other \in Devices, bytes \in 0 .. UINT32_MAX :
                Says(table, other, bytes) =>
                  Says(after, other,
                       IF other = device THEN add_bytes(bytes, length) ELSE bytes)
<1> USE DeviceThroughputAssumption
<1>1. CASE Listed(table, device)
  <2>1. after = [idx \in DOMAIN table |-> Counted(table[idx], device, length)]
    BY <1>1 DEF device_throughput_table_record
  <2>2. DOMAIN table = 1 .. Len(table) /\ Len(table) \in Nat
    OBVIOUS
  <2>3. \A idx \in DOMAIN table :
          /\ table[idx] \in entry_t
          /\ after[idx] \in entry_t
          /\ after[idx].mac_address = table[idx].mac_address
          /\ after[idx].bytes_transferred =
               IF table[idx].mac_address = device
               THEN add_bytes(table[idx].bytes_transferred, length)
               ELSE table[idx].bytes_transferred
    <3> SUFFICES ASSUME NEW idx \in DOMAIN table
                 PROVE  /\ table[idx] \in entry_t
                        /\ after[idx] \in entry_t
                        /\ after[idx].mac_address = table[idx].mac_address
                        /\ after[idx].bytes_transferred =
                             IF table[idx].mac_address = device
                             THEN add_bytes(table[idx].bytes_transferred, length)
                             ELSE table[idx].bytes_transferred
      OBVIOUS
    <3>1. table[idx] \in entry_t
      OBVIOUS
    <3>2. add_bytes(table[idx].bytes_transferred, length) \in 0 .. UINT32_MAX
      BY <3>1, Wrapped DEF add_bytes, entry_t
    <3>3. after[idx] = Counted(table[idx], device, length)
      BY <2>1
    <3> HIDE DEF entry_t
    <3> QED
      BY <3>1, <3>2, <3>3 DEF Counted, entry_t
  <2>4. after \in Seq(entry_t) /\ Len(after) = Len(table) /\ DOMAIN after = DOMAIN table
    BY <2>1, <2>2, <2>3
  <2>5. Distinct(after)
    BY <2>3, <2>4 DEF Distinct
  <2>6. \A other \in Devices, bytes \in 0 .. UINT32_MAX :
          Says(table, other, bytes) =>
            Says(after, other, IF other = device THEN add_bytes(bytes, length) ELSE bytes)
    BY <1>1, <2>3, <2>4 DEF Says, Listed
  <2> QED
    BY <1>1, <2>2, <2>4, <2>5, <2>6 DEF Refuses
<1>2. CASE ~Listed(table, device) /\ table_full(table)
  BY <1>2 DEF device_throughput_table_record, Refuses, table_full
<1>3. CASE ~Listed(table, device) /\ ~table_full(table)
  <2> DEFINE entry == [mac_address |-> device, bytes_transferred |-> length]
             n == Len(table) + 1
  <2>1. after = Append(table, entry) /\ entry \in entry_t
    BY <1>3 DEF device_throughput_table_record, entry_t
  <2>2. /\ after \in Seq(entry_t) /\ Len(after) = n
        /\ DOMAIN after = DOMAIN table \cup {n} /\ n \notin DOMAIN table
        /\ \A idx \in DOMAIN table : after[idx] = table[idx]
        /\ after[n].mac_address = device /\ after[n].bytes_transferred = length
    BY <2>1
  <2>3. \A idx \in DOMAIN table : table[idx].mac_address # device
    BY <1>3 DEF Listed
  <2> HIDE DEF n
  <2>4. Distinct(after)
    BY <2>2, <2>3 DEF Distinct
  <2>5. add_bytes(0, length) = length
    BY DEF add_bytes
  <2>6. ASSUME NEW other \in Devices, NEW bytes \in 0 .. UINT32_MAX, Says(table, other, bytes)
        PROVE  Says(after, other, IF other = device THEN add_bytes(bytes, length) ELSE bytes)
    <3>1. CASE other = device
      <4>1. bytes = 0
        BY <2>3, <2>6, <3>1 DEF Says
      <4> QED
        BY <2>2, <2>5, <3>1, <4>1 DEF Says
    <3>2. CASE other # device
      <4>1. Listed(after, other) => Listed(table, other)
        BY <2>2, <3>2 DEF Listed
      <4> QED
        BY <2>2, <2>6, <3>2, <4>1 DEF Says
    <3> QED
      BY <3>1, <3>2
  <2>7. Len(after) <= DEVICE_THROUGHPUT_TABLE_SIZE
    BY <1>3, <2>2 DEF table_full, n
  <2> QED
    BY <1>3, <2>2, <2>4, <2>6, <2>7 DEF Refuses, n
<1> QED
  BY <1>1, <1>2, <1>3

LEMMA RecordFrame ==
  ASSUME TableInv, NEW source \in Devices, NEW destination \in Devices,
         NEW length \in FrameLengths, record_frame(source, destination, length)
  PROVE  TableInv'
<1> USE DeviceThroughputAssumption
<1> DEFINE recorded == device_throughput_table_record(entries, source, length)
           both == device_throughput_table_record(recorded, destination, length)
           M == UINT32_MAX + 1
<1>1. /\ entries \in Seq(entry_t) /\ Len(entries) <= DEVICE_THROUGHPUT_TABLE_SIZE
      /\ Distinct(entries) /\ carried \in [Devices -> Nat] /\ refused \in BOOLEAN
      /\ length \in 0 .. UINT32_MAX /\ length \in Nat /\ M \in Nat \ {0}
  BY DEF TableInv, TableTypeOK
<1>2. /\ recorded \in Seq(entry_t)
      /\ Len(entries) <= Len(recorded) /\ Len(recorded) <= DEVICE_THROUGHPUT_TABLE_SIZE
      /\ Distinct(recorded)
      /\ Refuses(entries, source) =>
           recorded = entries /\ Len(entries) = DEVICE_THROUGHPUT_TABLE_SIZE
      /\ ~Refuses(entries, source) =>
           \A other \in Devices, bytes \in 0 .. UINT32_MAX :
             Says(entries, other, bytes) =>
               Says(recorded, other,
                    IF other = source THEN add_bytes(bytes, length) ELSE bytes)
  BY <1>1, RecordDevice
<1>3. /\ entries' = IF Refuses(entries, source) THEN entries ELSE both
      /\ refused' = (refused \/ Refuses(entries, source) \/ Refuses(recorded, destination))
      /\ frames' = frames + 1 /\ frames < MaxFrames
      /\ carried' = [device \in Devices |->
                       carried[device] + ((IF device = source THEN length ELSE 0)
                                          + (IF device = destination THEN length ELSE 0))]
  BY DEF record_frame
<1> HIDE DEF recorded
<1>4. /\ both \in Seq(entry_t)
      /\ Len(recorded) <= Len(both) /\ Len(both) <= DEVICE_THROUGHPUT_TABLE_SIZE
      /\ Distinct(both)
      /\ Refuses(recorded, destination) =>
           both = recorded /\ Len(recorded) = DEVICE_THROUGHPUT_TABLE_SIZE
      /\ ~Refuses(recorded, destination) =>
           \A other \in Devices, bytes \in 0 .. UINT32_MAX :
             Says(recorded, other, bytes) =>
               Says(both, other,
                    IF other = destination THEN add_bytes(bytes, length) ELSE bytes)
  BY <1>1, <1>2, RecordDevice
<1> HIDE DEF both
<1>5. TableTypeOK'
  <2>1. entries' \in Seq(entry_t) /\ Len(entries') <= DEVICE_THROUGHPUT_TABLE_SIZE
    BY <1>1, <1>3, <1>4
  <2>2. carried' \in [Devices -> Nat]
    <3>1. \A device \in Devices :
            carried[device] + ((IF device = source THEN length ELSE 0)
                               + (IF device = destination THEN length ELSE 0)) \in Nat
      BY <1>1
    <3> QED
      BY <1>3, <3>1
  <2>3. refused' \in BOOLEAN
    BY <1>3
  <2>4. frames' \in 0 .. MaxFrames
    BY <1>3 DEF TableInv, TableTypeOK
  <2> QED
    BY <2>1, <2>2, <2>3, <2>4 DEF TableTypeOK
<1>6. refused' => Len(entries') = DEVICE_THROUGHPUT_TABLE_SIZE
  BY <1>1, <1>2, <1>3, <1>4 DEF TableInv
<1>7. ASSUME ~refused', NEW device \in Devices
      PROVE  Says(entries', device, carried'[device] % M)
  <2> DEFINE n == carried[device]
             k == IF device = source THEN n + length ELSE n
             l == IF device = destination THEN k + length ELSE k
  <2>1. n \in Nat /\ k \in Nat /\ l \in Nat /\ carried'[device] = l
    <3>1. n \in Nat /\ length \in Nat
      BY <1>1
    <3>2. carried'[device] = n + ((IF device = source THEN length ELSE 0)
                                  + (IF device = destination THEN length ELSE 0))
      BY <1>3
    <3> HIDE DEF n
    <3> QED
      BY <3>1, <3>2
  <2>2. Says(entries, device, n % M)
    BY <1>3, <1>7 DEF TableInv
  <2>3. n % M \in 0 .. UINT32_MAX /\ k % M \in 0 .. UINT32_MAX
    <3> HIDE DEF n, k
    <3>1. n \in Int /\ k \in Int
      BY <2>1
    <3> QED
      BY <3>1, Wrapped
  <2>4. k % M = IF device = source THEN add_bytes(n % M, length) ELSE n % M
    BY <1>1, <2>1, SumOfRemainders DEF add_bytes
  <2>5. l % M = IF device = destination THEN add_bytes(k % M, length) ELSE k % M
    BY <1>1, <2>1, SumOfRemainders DEF add_bytes
  <2> HIDE DEF n, k, l, M
  <2>6. Says(recorded, device, k % M)
    BY <1>2, <1>3, <1>7, <2>2, <2>3, <2>4
  <2>7. Says(both, device, l % M)
    BY <1>3, <1>4, <1>7, <2>3, <2>5, <2>6
  <2> QED
    BY <1>3, <1>7, <2>1, <2>7
<1> QED
  BY <1>1, <1>3, <1>4, <1>5, <1>6, <1>7 DEF TableInv

LEMMA EmptyTable == TableInit => TableInv
<1> HAVE TableInit
<1> USE DeviceThroughputAssumption
<1>1. 0 % (UINT32_MAX + 1) = 0
  <2>1. UINT32_MAX + 1 \in Nat \ {0} /\ 0 = (UINT32_MAX + 1) * 0 + 0
    OBVIOUS
  <2> QED
    BY <2>1, DivisionUnique
<1>2. entries = <<>> /\ carried = NoBytes /\ refused = FALSE /\ frames = 0
  BY DEF TableInit
<1>3. \A device \in Devices : ~Listed(entries, device) /\ carried[device] = 0
  BY <1>2 DEF Listed, NoBytes
<1>4. TableTypeOK
  <2>1. <<>> \in Seq(entry_t) /\ Len(<<>>) = 0
    BY EmptySeq
  <2>2. NoBytes \in [Devices -> Nat]
    BY DEF NoBytes
  <2>3. entries \in Seq(entry_t) /\ Len(entries) <= DEVICE_THROUGHPUT_TABLE_SIZE
    BY <1>2, <2>1
  <2>4. refused \in BOOLEAN
    BY <1>2, Zenon
  <2>5. frames \in 0 .. MaxFrames
    BY <1>2
  <2> QED
    BY <1>2, <2>2, <2>3, <2>4, <2>5 DEF TableTypeOK
<1> QED
  BY <1>1, <1>2, <1>3, <1>4 DEF TableInv, Distinct, Says

LEMMA ClearedTable ==
  ASSUME device_throughput_table_init
  PROVE  TableInv'
<1>1. (TableInit => TableInv)'
  BY EmptyTable, PTL
<1> QED
  BY <1>1 DEF device_throughput_table_init, TableInit

LEMMA SameTable ==
  ASSUME TableInv, UNCHANGED table_vars
  PROVE  TableInv'
  BY DEF TableInv, TableTypeOK, table_vars, Distinct, Says, Listed

(* What the server reads is what the line says. *)
LEMMA TableExact ==
  ASSUME TableInv
  PROVE  BytesExact
<1> USE DeviceThroughputAssumption
<1>1. \A bytes \in 0 .. UINT32_MAX : read_back(printed(bytes)) = bytes
  BY DEF read_back, printed
<1>2. ASSUME NEW device \in Devices, NEW bytes \in 0 .. UINT32_MAX,
             Says(entries, device, bytes)
      PROVE  Written(device) = bytes
  <2>1. CASE Listed(entries, device)
    <3> DEFINE Mine(idx) == idx \in DOMAIN entries /\ entries[idx].mac_address = device
               line == CHOOSE idx \in DOMAIN entries : entries[idx].mac_address = device
    <3>1. Mine(line)
      BY <2>1 DEF Listed
    <3>2. \A idx \in DOMAIN entries : entries[idx].mac_address = device => idx = line
      BY <3>1 DEF TableInv, Distinct
    <3>3. entries[line].bytes_transferred = bytes
      BY <1>2, <2>1, <3>2 DEF Says
    <3> QED
      BY <1>1, <2>1, <3>3 DEF Written
  <2>2. CASE ~Listed(entries, device)
    BY <1>2, <2>2 DEF Written, Says, Listed
  <2> QED
    BY <2>1, <2>2
<1>3. \A device \in Devices : carried[device] % (UINT32_MAX + 1) \in 0 .. UINT32_MAX
  <2>1. \A device \in Devices : carried[device] \in Int
    BY DEF TableInv, TableTypeOK
  <2> QED
    BY <2>1, Wrapped
<1> QED
  BY <1>2, <1>3 DEF TableInv, BytesExact, Distinct

-----------------------------------------------------------------------------
(***************************************************************************)
(* The process.                                                            *)
(***************************************************************************)
ProcessTypes ==
  /\ start_timestamp \in Clocks \cup {NoSession}
  /\ domain_whitelist \subseteq Lines \cup {Null}
  /\ seed \in Keys \cup {NoKey}
  /\ alarm_count \in 0 .. MaxAlarms
  /\ sequence_number \in Nat /\ frequent_sequence_number \in Nat
  /\ failures \in [valid: BOOLEAN, num_failures: Nat]
  /\ counts_read \subseteq FailureCounts
  /\ step \in {"off", "opening", "capture", "differential", "staging", "frequent", "check"}
  /\ resume \in {"off", "opening", "capture"}
  /\ signal \in {"none", "SIGALRM", "SIGTERM"}

Handling == step \in {"differential", "staging", "frequent", "check"}

HandlerInv ==
  /\ Handling => signal \in {"SIGALRM", "SIGTERM"} /\ resume \in {"opening", "capture"}
  /\ step = "check" => signal = "SIGALRM"
  /\ step = "staging" => signal = "SIGTERM" \/ due

(* The three counts between the steps of a handler. *)
NumbersInv ==
  /\ step = "off" => alarm_count = 0 /\ sequence_number = 0 /\ frequent_sequence_number = 0
  /\ step \in {"opening", "capture", "check"} =>
       /\ frequent_sequence_number = alarm_count
       /\ sequence_number = alarm_count \div ALARMS_PER_UPDATE
  /\ signal = "SIGALRM" /\ step \in {"differential", "staging", "frequent"} =>
       frequent_sequence_number + 1 = alarm_count
  /\ signal = "SIGALRM" /\ step \in {"differential", "staging"} =>
       sequence_number = (alarm_count - 1) \div ALARMS_PER_UPDATE
  /\ signal = "SIGALRM" /\ step = "frequent" =>
       sequence_number = alarm_count \div ALARMS_PER_UPDATE

(* The count that is remembered is the only one read. *)
FailuresInv ==
  counts_read = IF failures.valid THEN {failures.num_failures} ELSE {}

ProcessInv == ProcessTypes /\ HandlerInv /\ NumbersInv /\ FailuresInv

LEMMA NothingYet == 0 \div ALARMS_PER_UPDATE = 0
<1>1. ALARMS_PER_UPDATE \in Nat \ {0} /\ 0 = ALARMS_PER_UPDATE * 0 + 0
  BY SessionsAssumption
<1> QED
  BY <1>1, DivisionUnique

LEMMA ProcessEnds ==
  ASSUME process_ends
  PROVE  ProcessInv'
<1>1. ProcessTypes'
  BY SessionsAssumption DEF process_ends, ProcessTypes, NotRead
<1>2. HandlerInv' /\ NumbersInv' /\ FailuresInv'
  BY DEF process_ends, HandlerInv, NumbersInv, FailuresInv, Handling, NotRead
<1> QED
  BY <1>1, <1>2 DEF ProcessInv

LEMMA MainStarts ==
  ASSUME ProcessInv, NEW clock \in Clocks, main_starts(clock)
  PROVE  ProcessInv'
<1>1. domain_whitelist' \subseteq Lines \cup {Null}
  BY SessionsAssumption
  DEF main_starts, initialize_domain_whitelist, domain_whitelist_load, left_unallocated
<1>2. ProcessTypes'
  BY <1>1 DEF main_starts, ProcessInv, ProcessTypes, anonymization_init, number_vars,
     failure_vars, handler_vars
<1>3. HandlerInv' /\ NumbersInv' /\ FailuresInv'
  BY NothingYet DEF main_starts, ProcessInv, HandlerInv, Handling, NumbersInv,
     FailuresInv, number_vars, failure_vars, handler_vars
<1> QED
  BY <1>2, <1>3 DEF ProcessInv

LEMMA CaptureStep ==
  ASSUME ProcessInv, step \in {"opening", "capture"}, step' \in {"opening", "capture"},
         UNCHANGED <<session_vars, number_vars, failure_vars, handler_vars>>
  PROVE  ProcessInv'
  BY DEF ProcessInv, ProcessTypes, HandlerInv, Handling, NumbersInv, FailuresInv,
     session_vars, number_vars, failure_vars, handler_vars

LEMMA SignalArrives ==
  ASSUME ProcessInv, handle_alarm \/ handle_termination
  PROVE  ProcessInv'
<1>1. CASE handle_alarm
  <2>1. ProcessTypes'
    BY <1>1, SessionsAssumption
    DEF handle_alarm, ProcessInv, ProcessTypes, session_vars, failure_vars
  <2>2. HandlerInv' /\ FailuresInv'
    BY <1>1 DEF handle_alarm, ProcessInv, HandlerInv, Handling, FailuresInv, failure_vars
  <2>3. alarm_count \in Nat /\ alarm_count' = alarm_count + 1 /\ alarm_count' - 1 = alarm_count
    BY <1>1 DEF handle_alarm, ProcessInv, ProcessTypes
  <2>4. NumbersInv'
    BY <1>1, <2>3 DEF handle_alarm, ProcessInv, NumbersInv
  <2> QED
    BY <2>1, <2>2, <2>4 DEF ProcessInv
<1>2. CASE handle_termination
  BY <1>2 DEF handle_termination, ProcessInv, ProcessTypes, HandlerInv, Handling,
     NumbersInv, FailuresInv, session_vars, number_vars, failure_vars
<1> QED
  BY <1>1, <1>2

LEMMA UpdateSteps ==
  ASSUME ProcessInv, (\E closed \in BOOLEAN : write_update(closed)) \/ skip_update \/ stage_update
  PROVE  ProcessInv'
<1>1. CASE \E closed \in BOOLEAN : write_update(closed)
  BY <1>1 DEF write_update, WritesUpdate, due, ProcessInv, ProcessTypes, HandlerInv,
     Handling, NumbersInv, FailuresInv, session_vars, number_vars, failure_vars, handler_vars
<1>2. signal = "SIGALRM" /\ step \in {"differential", "staging"} =>
        alarm_count \div ALARMS_PER_UPDATE =
          IF due THEN sequence_number + 1 ELSE sequence_number
  <2> SUFFICES ASSUME signal = "SIGALRM", step \in {"differential", "staging"}
               PROVE  alarm_count \div ALARMS_PER_UPDATE =
                        IF due THEN sequence_number + 1 ELSE sequence_number
    OBVIOUS
  <2> DEFINE n == alarm_count - 1
  <2>1. n \in Nat /\ n + 1 = alarm_count /\ sequence_number = n \div ALARMS_PER_UPDATE
    BY DEF ProcessInv, ProcessTypes, NumbersInv
  <2> HIDE DEF n
  <2> QED
    BY <2>1, OneMoreAlarm DEF due
<1>3. CASE skip_update
  <2>1. signal = "SIGALRM" /\ ~due /\ step = "differential" /\ step' = "frequent"
    BY <1>3 DEF skip_update, WritesUpdate, ProcessInv, HandlerInv, Handling
  <2> QED
    BY <1>2, <1>3, <2>1 DEF skip_update, ProcessInv, ProcessTypes, HandlerInv, Handling,
       NumbersInv, FailuresInv, session_vars, number_vars, failure_vars, handler_vars
<1>4. CASE stage_update
  <2>1. /\ step = "staging" /\ step' = "frequent" /\ sequence_number' = sequence_number + 1
        /\ UNCHANGED <<session_vars, alarm_count, frequent_sequence_number,
                       failure_vars, handler_vars>>
    BY <1>4 DEF stage_update, next_number
  <2>2. signal = "SIGALRM" => sequence_number' = alarm_count \div ALARMS_PER_UPDATE
    BY <1>2, <2>1 DEF ProcessInv, HandlerInv
  <2> QED
    BY <2>1, <2>2 DEF ProcessInv, ProcessTypes, HandlerInv, Handling, NumbersInv,
       FailuresInv, session_vars, failure_vars, handler_vars
<1> QED
  BY <1>1, <1>3, <1>4

LEMMA FrequentStep ==
  ASSUME ProcessInv, write_frequent_update
  PROVE  ProcessInv'
<1>1. CASE process_ends
  BY <1>1, ProcessEnds
<1>2. CASE /\ signal = "SIGALRM" /\ step = "frequent" /\ step' = "check"
           /\ frequent_sequence_number' = frequent_sequence_number + 1
           /\ UNCHANGED <<session_vars, alarm_count, sequence_number, failure_vars,
                          handler_vars>>
  BY <1>2 DEF ProcessInv, ProcessTypes, HandlerInv, Handling, NumbersInv, FailuresInv,
     session_vars, failure_vars, handler_vars
<1> QED
  BY <1>1, <1>2 DEF write_frequent_update

LEMMA CheckSteps ==
  ASSUME ProcessInv, check_failures \/ skip_check
  PROVE  ProcessInv'
<1>1. ASSUME step = "check", return_from_handler, UNCHANGED <<session_vars, number_vars>>,
             \/ UNCHANGED failure_vars
             \/ \E count \in FailureCounts :
                  /\ ~failures.valid \/ failures.num_failures = count
                  /\ failures' = remembered(count)
                  /\ counts_read' = counts_read \cup {count}
      PROVE  ProcessInv'
  <2>1. resume \in {"opening", "capture"}
    BY <1>1 DEF ProcessInv, HandlerInv, Handling
  <2>2. /\ failures' \in [valid: BOOLEAN, num_failures: Nat]
        /\ counts_read' \subseteq FailureCounts
    <3>1. \A count \in FailureCounts : remembered(count) \in [valid: BOOLEAN, num_failures: Nat]
      BY SessionsAssumption DEF remembered
    <3> QED
      BY <1>1, <3>1 DEF ProcessInv, ProcessTypes, failure_vars
  <2>3. FailuresInv'
    BY <1>1 DEF ProcessInv, FailuresInv, failure_vars, remembered
  <2>4. ProcessTypes' /\ HandlerInv' /\ NumbersInv'
    BY <1>1, <2>1, <2>2 DEF return_from_handler, ProcessInv, ProcessTypes, HandlerInv,
       Handling, NumbersInv, session_vars, number_vars
  <2> QED
    BY <2>3, <2>4 DEF ProcessInv
<1>2. CASE skip_check
  BY <1>1, <1>2 DEF skip_check
<1>3. ASSUME NEW log \in FailureCounts \cup {Missing, Truncated},
             NEW num_failures \in ReadValues(log), step = "check",
             \/ process_ends
             \/ upload_failures_check(num_failures) /\ UNCHANGED <<session_vars, number_vars>>
      PROVE  ProcessInv'
  <2>1. num_failures \in FailureCounts \cup {-1}
    BY <1>3 DEF ReadValues
  <2>2. num_failures >= 0 => num_failures \in FailureCounts
    BY <2>1
  <2>3. CASE process_ends
    BY <2>3, ProcessEnds
  <2>4. CASE upload_failures_check(num_failures) /\ UNCHANGED <<session_vars, number_vars>>
    BY <1>1, <1>3, <2>2, <2>4 DEF upload_failures_check
  <2> QED
    BY <1>3, <2>3, <2>4
<1>4. CASE check_failures
  BY <1>3, <1>4 DEF check_failures
<1> QED
  BY <1>2, <1>4

-----------------------------------------------------------------------------
(***************************************************************************)
(* The stream of updates.  An update about to be renamed is cut only if    *)
(* its gzclose failed.                                                     *)
(***************************************************************************)
Pending(whole) ==
  current_update = <<Update(whole)>> /\ (whole \/ pending_name \in failed_closes)

UpdateInv ==
  /\ current_update \in Seq(Updates)
  /\ step = "staging" => \E whole \in BOOLEAN : Pending(whole)

(* The files of the session that runs: their numbers and what update 0 says. *)
RunningInv ==
  step # "off" =>
    /\ start_timestamp \in started /\ seed \in Keys
    /\ \A n \in Nat : <<start_timestamp, n>> \in DOMAIN uploads <=> n < sequence_number
    /\ sequence_number > 0 =>
         /\ uploads[<<start_timestamp, 0>>][1].seed_digest = seed
         /\ uploads[<<start_timestamp, 0>>][1].whitelist = domain_whitelist

UploadsInv ==
  /\ started \subseteq Clocks
  /\ DOMAIN uploads \subseteq started \X Nat
  /\ failed_closes \subseteq Clocks \X Nat
  /\ StreamsReadable

StreamInv == UpdateInv /\ RunningInv /\ UploadsInv

LEMMA UploadsKept ==
  ASSUME UploadsInv, uploads' = uploads, started \subseteq started', started' \subseteq Clocks,
         failed_closes \subseteq failed_closes', failed_closes' \subseteq Clocks \X Nat
  PROVE  UploadsInv'
  BY DEF UploadsInv, StreamsReadable, Readable

LEMMA StreamKept ==
  ASSUME StreamInv, step # "off", step' # "staging",
         UNCHANGED <<session_vars, sequence_number, disk_vars>>
  PROVE  StreamInv'
<1>1. UploadsInv'
  BY UploadsKept DEF StreamInv, disk_vars, UploadsInv
<1>2. UpdateInv' /\ RunningInv'
  BY DEF StreamInv, UpdateInv, RunningInv, disk_vars, session_vars
<1> QED
  BY <1>1, <1>2 DEF StreamInv

LEMMA StreamEnds ==
  ASSUME StreamInv, process_ends, current_update' \in Seq(Updates),
         UNCHANGED <<uploads, started, failed_closes>>
  PROVE  StreamInv'
<1>1. UploadsInv'
  BY UploadsKept DEF StreamInv, UploadsInv
<1>2. UpdateInv' /\ RunningInv'
  BY DEF UpdateInv, RunningInv, process_ends
<1> QED
  BY <1>1, <1>2 DEF StreamInv

LEMMA StreamStarts ==
  ASSUME StreamInv, ProcessInv, NEW clock \in Clocks, main_starts(clock)
  PROVE  StreamInv'
<1>1. /\ step = "off" /\ step' = "opening" /\ clock \notin started
      /\ start_timestamp' = clock /\ started' = started \cup {clock}
      /\ seed' \in Keys /\ sequence_number' = sequence_number
      /\ uploads' = uploads /\ current_update' = current_update
      /\ failed_closes' = failed_closes
  BY DEF main_starts, anonymization_init, number_vars
<1>2. UploadsInv'
  BY <1>1, UploadsKept DEF StreamInv, UploadsInv
<1>3. sequence_number' = 0
  BY <1>1 DEF ProcessInv, NumbersInv
<1>4. \A n \in Nat : <<start_timestamp', n>> \notin DOMAIN uploads'
  BY <1>1 DEF StreamInv, UploadsInv
<1>5. UpdateInv' /\ RunningInv'
  BY <1>1, <1>3, <1>4 DEF StreamInv, UpdateInv, RunningInv
<1> QED
  BY <1>2, <1>5 DEF StreamInv

(* What write_update puts into the pending file. *)
LEMMA UpdateType ==
  ASSUME ProcessTypes, RunningInv, UploadsInv, step # "off", NEW whole \in BOOLEAN
  PROVE  /\ Update(whole) \in Updates /\ Append(opened, Update(whole)) = <<Update(whole)>>
         /\ <<Update(whole)>> \in Seq(Updates)
<1>1. start_timestamp \in Clocks /\ seed \in Keys
  BY DEF RunningInv, UploadsInv
<1>2. /\ domain_whitelist \subseteq Lines \cup {Null}
      /\ domain_whitelist_write_update \subseteq Lines \cup {Null}
  BY DEF ProcessTypes, domain_whitelist_write_update
<1>3. sequence_number \in Nat /\ alarm_count \in Nat
  BY SessionsAssumption DEF ProcessTypes
<1>4. Update(whole) \in Updates
  BY <1>1, <1>2, <1>3 DEF Update, Updates, anonymization_write_update
<1>5. Append(opened, Update(whole)) = <<Update(whole)>>
  BY DEF opened
<1>6. \A u \in Updates : <<u>> \in Seq(Updates)
  OBVIOUS
<1> QED
  BY <1>4, <1>5, <1>6

LEMMA StreamWrites ==
  ASSUME StreamInv, ProcessInv, NEW closed \in BOOLEAN, write_update(closed)
  PROVE  StreamInv'
<1>1. /\ step = "differential" /\ step' = "staging"
      /\ current_update' = Append(opened, Update(closed))
      /\ failed_closes' = failed_closes \cup (IF closed THEN {} ELSE {pending_name})
      /\ UNCHANGED <<session_vars, alarm_count, sequence_number, uploads, started>>
  BY DEF write_update, WritesUpdate, number_vars
<1>2. start_timestamp \in Clocks /\ sequence_number \in Nat
  BY <1>1 DEF StreamInv, RunningInv, UploadsInv, ProcessInv, ProcessTypes
<1>3. UploadsInv'
  <2>1. failed_closes' \subseteq Clocks \X Nat
    BY <1>1, <1>2 DEF StreamInv, UploadsInv, pending_name
  <2> QED
    BY <1>1, <2>1, UploadsKept DEF StreamInv, UploadsInv
<1>4. current_update' = <<Update(closed)>> /\ <<Update(closed)>> \in Seq(Updates)
  BY <1>1, UpdateType DEF StreamInv, ProcessInv
<1>5. Update(closed)' = Update(closed)
  BY <1>1 DEF Update, domain_whitelist_write_update, anonymization_write_update, session_vars
<1>6. closed \/ pending_name' \in failed_closes'
  BY <1>1 DEF pending_name, session_vars
<1>7. UpdateInv'
  BY <1>4, <1>5, <1>6 DEF UpdateInv, Pending
<1>8. RunningInv'
  BY <1>1 DEF StreamInv, RunningInv, session_vars
<1> QED
  BY <1>3, <1>7, <1>8 DEF StreamInv

(***************************************************************************)
(* The pending file takes a name that no file has: those of the running    *)
(* session have smaller numbers.                                           *)
(***************************************************************************)
LEMMA StreamGrows ==
  ASSUME StreamInv, ProcessInv, stage_update
  PROVE  /\ StreamInv'
         /\ \A name \in DOMAIN uploads :
              name \in DOMAIN uploads' /\ uploads'[name] = uploads[name]
<1>0. PICK whole \in BOOLEAN : Pending(whole)
  BY DEF stage_update, StreamInv, UpdateInv
<1> DEFINE name == <<start_timestamp, sequence_number>>
           file == <<Update(whole)>>
<1>1. /\ step = "staging" /\ step' = "frequent" /\ sequence_number' = sequence_number + 1
      /\ uploads' = [n \in DOMAIN uploads \cup {name} |->
                       IF n = name THEN current_update ELSE uploads[n]]
      /\ current_update' = <<>> /\ UNCHANGED <<session_vars, started, failed_closes>>
  BY DEF stage_update, next_number, pending_name
<1>2. /\ start_timestamp \in started /\ started \subseteq Clocks /\ sequence_number \in Nat
      /\ seed \in Keys /\ Blank \notin domain_whitelist
      /\ current_update = file /\ (whole \/ name \in failed_closes)
      /\ DOMAIN uploads \subseteq started \X Nat /\ failed_closes \subseteq Clocks \X Nat
  BY <1>0, <1>1, SessionsAssumption
  DEF StreamInv, Pending, pending_name, RunningInv, UploadsInv, ProcessInv, ProcessTypes
<1>3. \A n \in Nat : <<start_timestamp, n>> \in DOMAIN uploads <=> n < sequence_number
  BY <1>1 DEF StreamInv, RunningInv
<1>4. name \notin DOMAIN uploads
  BY <1>2, <1>3
<1>5. /\ DOMAIN uploads' = DOMAIN uploads \cup {name} /\ uploads'[name] = file
      /\ \A n \in DOMAIN uploads : uploads'[n] = uploads[n]
  BY <1>1, <1>2, <1>4
<1>6. \A n \in Nat : <<start_timestamp, n>> \in DOMAIN uploads' <=> n < sequence_number + 1
  BY <1>2, <1>3, <1>5
<1>7. /\ Len(file) = 1 /\ file[1].whole = whole /\ file[1].session = start_timestamp
      /\ file[1].number = sequence_number /\ file[1].seed_digest = seed
      /\ file[1].filtered_by = domain_whitelist
      /\ sequence_number = 0 => file[1].whitelist = domain_whitelist
  BY DEF Update, domain_whitelist_write_update, anonymization_write_update
<1>8. /\ uploads'[<<start_timestamp, 0>>][1].seed_digest = seed
      /\ uploads'[<<start_timestamp, 0>>][1].whitelist = domain_whitelist
  <2> HIDE DEF file
  <2>1. CASE sequence_number = 0
    BY <1>5, <1>7, <2>1
  <2>2. CASE sequence_number > 0
    <3>1. <<start_timestamp, 0>> \in DOMAIN uploads
      BY <1>3, <2>2
    <3> QED
      BY <1>1, <1>5, <2>2, <3>1 DEF StreamInv, RunningInv
  <2> QED
    BY <1>2, <2>1, <2>2
<1> HIDE DEF file
<1>9. StreamsReadable'
  <2> SUFFICES ASSUME NEW n \in DOMAIN uploads'
               PROVE  Readable(n[1], n[2])'
    BY DEF StreamsReadable
  <2>1. CASE n = name
    <3>1. n[1] = start_timestamp /\ n[2] = sequence_number
      BY <2>1
    <3>2. \A k \in 0 .. sequence_number : <<start_timestamp, k>> \in DOMAIN uploads'
      BY <1>2, <1>6
    <3> QED
      BY <1>1, <1>2, <1>5, <1>7, <1>8, <3>1, <3>2 DEF Readable
  <2>2. CASE n \in DOMAIN uploads
    <3>1. Readable(n[1], n[2]) /\ n = <<n[1], n[2]>> /\ n[2] \in Nat
      BY <1>2, <2>2 DEF StreamInv, UploadsInv, StreamsReadable
    <3>2. \A k \in 0 .. n[2] : <<n[1], k>> \in DOMAIN uploads
      BY <3>1 DEF Readable
    <3>3. 0 \in 0 .. n[2]
      BY <3>1
    <3>4. /\ uploads'[<<n[1], n[2]>>] = uploads[<<n[1], n[2]>>]
          /\ uploads'[<<n[1], 0>>] = uploads[<<n[1], 0>>]
      BY <1>5, <2>2, <3>1, <3>2, <3>3
    <3> QED
      BY <1>1, <1>5, <3>1, <3>2, <3>4 DEF Readable
  <2> QED
    BY <1>5, <2>1, <2>2
<1>10. DOMAIN uploads' \subseteq started' \X Nat
  BY <1>1, <1>2, <1>5
<1>11. UploadsInv'
  BY <1>1, <1>2, <1>9, <1>10 DEF UploadsInv
<1>12. RunningInv'
  BY <1>1, <1>2, <1>6, <1>8 DEF RunningInv, session_vars
<1>13. UpdateInv'
  <2>1. <<>> \in Seq(Updates)
    BY EmptySeq
  <2> QED
    BY <1>1, <2>1 DEF UpdateInv
<1> QED
  BY <1>5, <1>11, <1>12, <1>13 DEF StreamInv

LEMMA StreamDies ==
  ASSUME StreamInv, ProcessInv, die
  PROVE  StreamInv'
<1>1. step # "off" /\ process_ends /\ UNCHANGED <<uploads, started, failed_closes>>
  BY DEF die
<1>2. /\ Append(opened, Update(FALSE)) = <<Update(FALSE)>>
      /\ <<Update(FALSE)>> \in Seq(Updates)
  BY <1>1, UpdateType DEF StreamInv, ProcessInv
<1>3. current_update' \in Seq(Updates)
  BY <1>2 DEF die, StreamInv, UpdateInv
<1> QED
  BY <1>1, <1>3, StreamEnds

-----------------------------------------------------------------------------
(***************************************************************************)
(* All parts together.                                                     *)
(***************************************************************************)
SessionInv == TableInv /\ ProcessInv /\ StreamInv

LEMMA SessionInit == Init => SessionInv
<1> HAVE Init
<1>1. TableInv
  BY EmptyTable DEF Init
<1>2. ProcessInv
  BY SessionsAssumption
  DEF Init, NotRead, ProcessInv, ProcessTypes, HandlerInv, Handling, NumbersInv, FailuresInv
<1>3. StreamInv
  <2>1. <<>> \in Seq(Updates)
    BY EmptySeq
  <2> QED
    BY <2>1 DEF Init, StreamInv, UpdateInv, RunningInv, UploadsInv, StreamsReadable
<1> QED
  BY <1>1, <1>2, <1>3 DEF SessionInv

UploadsRemain ==
  \A name \in DOMAIN uploads : name \in DOMAIN uploads' /\ uploads'[name] = uploads[name]

LEMMA SessionNext ==
  ASSUME SessionInv, [Next]_vars
  PROVE  SessionInv' /\ UploadsRemain
<1> USE DEF SessionInv
<1>1. ASSUME NEW clock \in Clocks, main_starts(clock)
      PROVE  SessionInv' /\ UploadsRemain
  BY <1>1, SameTable, MainStarts, StreamStarts DEF main_starts, UploadsRemain
<1>2. CASE initialize_pcap
  <2>1. /\ step = "opening" /\ step' = "capture"
        /\ UNCHANGED <<table_vars, session_vars, number_vars, failure_vars, handler_vars,
                       disk_vars>>
    BY <1>2 DEF initialize_pcap
  <2> QED
    BY <2>1, SameTable, CaptureStep, StreamKept DEF number_vars, disk_vars, UploadsRemain
<1>3. ASSUME NEW source \in Devices, NEW destination \in Devices, NEW length \in FrameLengths,
             process_packet(source, destination, length)
      PROVE  SessionInv' /\ UploadsRemain
  <2>1. /\ step = "capture" /\ step' = step
        /\ UNCHANGED <<session_vars, number_vars, failure_vars, handler_vars, disk_vars>>
    BY <1>3 DEF process_packet
  <2>2. TableInv'
    BY <1>3, RecordFrame DEF process_packet
  <2> QED
    BY <2>1, <2>2, CaptureStep, StreamKept DEF number_vars, disk_vars, UploadsRemain
<1>4. CASE handle_alarm \/ handle_termination
  <2>1. /\ step # "off" /\ step' # "staging"
        /\ UNCHANGED <<table_vars, session_vars, sequence_number, disk_vars>>
    BY <1>4 DEF handle_alarm, handle_termination, number_vars
  <2> QED
    BY <1>4, <2>1, SameTable, SignalArrives, StreamKept DEF disk_vars, UploadsRemain
<1>5. CASE \E closed \in BOOLEAN : write_update(closed)
  BY <1>5, SameTable, UpdateSteps, StreamWrites DEF write_update, UploadsRemain
<1>6. CASE skip_update
  <2>1. /\ step # "off" /\ step' # "staging"
        /\ UNCHANGED <<table_vars, session_vars, sequence_number, disk_vars>>
    BY <1>6 DEF skip_update, number_vars
  <2> QED
    BY <1>6, <2>1, SameTable, UpdateSteps, StreamKept DEF disk_vars, UploadsRemain
<1>7. CASE stage_update
  BY <1>7, SameTable, UpdateSteps, StreamGrows DEF stage_update, UploadsRemain
<1>8. ASSUME process_ends, current_update' \in Seq(Updates),
             UNCHANGED <<uploads, started, failed_closes>>
      PROVE  SessionInv' /\ UploadsRemain
  <2>1. TableInv'
    BY <1>8, ClearedTable DEF process_ends
  <2> QED
    BY <1>8, <2>1, ProcessEnds, StreamEnds DEF UploadsRemain
<1>9. current_update \in Seq(Updates)
  BY DEF StreamInv, UpdateInv
<1>10. CASE write_frequent_update
  <2>1. CASE process_ends
    BY <1>8, <1>9, <1>10, <2>1 DEF write_frequent_update, disk_vars
  <2>2. CASE device_throughput_table_init /\ step' = "check" /\ UNCHANGED session_vars
             /\ UNCHANGED sequence_number
    BY <1>10, <2>2, ClearedTable, FrequentStep, StreamKept
    DEF write_frequent_update, disk_vars, UploadsRemain
  <2> QED
    BY <1>10, <2>1, <2>2 DEF write_frequent_update
<1>11. ASSUME check_failures \/ skip_check, ~process_ends
       PROVE  SessionInv' /\ UploadsRemain
  <2>1. /\ step = "check" /\ step' = resume
        /\ UNCHANGED <<table_vars, session_vars, number_vars, disk_vars>>
    BY <1>11
    DEF check_failures, skip_check, upload_failures_check, return_from_handler
  <2>2. step' # "staging"
    BY <2>1 DEF ProcessInv, HandlerInv, Handling
  <2> QED
    BY <1>11, <2>1, <2>2, SameTable, CheckSteps, StreamKept
    DEF number_vars, disk_vars, UploadsRemain
<1>12. CASE check_failures \/ skip_check
  <2>1. UNCHANGED disk_vars
    BY <1>12 DEF check_failures, skip_check
  <2>2. CASE process_ends
    BY <1>8, <1>9, <2>1, <2>2 DEF disk_vars
  <2> QED
    BY <1>11, <1>12, <2>2
<1>13. CASE die
  <2>1. StreamInv'
    BY <1>13, StreamDies
  <2> QED
    BY <1>13, <2>1, ClearedTable, ProcessEnds DEF die, process_ends, UploadsRemain
<1>14. CASE UNCHANGED vars
  <2>1. TableInv'
    BY <1>14, SameTable DEF vars
  <2>2. ProcessInv'
    BY <1>14 DEF vars, ProcessInv, ProcessTypes, HandlerInv, Handling, NumbersInv,
       FailuresInv, due, session_vars, number_vars, failure_vars, handler_vars
  <2>3. UploadsInv'
    BY <1>14, UploadsKept DEF vars, disk_vars, StreamInv, UploadsInv
  <2>4. RunningInv'
    BY <1>14 DEF vars, session_vars, number_vars, disk_vars, StreamInv, RunningInv
  <2>5. \A whole \in BOOLEAN : Pending(whole) => Pending(whole)'
    BY <1>14 DEF vars, session_vars, number_vars, disk_vars, Pending, pending_name,
       Update, domain_whitelist_write_update, anonymization_write_update
  <2>6. UpdateInv'
    BY <1>14, <2>5 DEF vars, disk_vars, StreamInv, UpdateInv
  <2> QED
    BY <1>14, <2>1, <2>2, <2>3, <2>4, <2>6 DEF vars, disk_vars, StreamInv, UploadsRemain
<1> QED
  BY <1>1, <1>2, <1>3, <1>4, <1>5, <1>6, <1>7, <1>10, <1>12, <1>13, <1>14
  DEF Next, handle_signals

LEMMA SessionsSafe == Spec => []SessionInv
<1>1. Init => SessionInv
  BY SessionInit
<1>2. SessionInv /\ [Next]_vars => SessionInv'
  BY SessionNext
<1> QED
  BY <1>1, <1>2, PTL DEF Spec

(* Every variable keeps its type through starts, updates and crashes. *)
THEOREM SessionsTypes == Spec => []TypeOK
<1>1. SessionInv => TypeOK
  BY DEF SessionInv, TableInv, ProcessInv, ProcessTypes, StreamInv, UpdateInv, UploadsInv,
     TypeOK
<1> QED
  BY <1>1, SessionsSafe, PTL

(***************************************************************************)
(* The bytes on the lines of a frequent update are those of the frames     *)
(* since the last one, modulo 2^32, through the signed format             *)
(* (device_throughput_table.c:22-60).                                      *)
(***************************************************************************)
THEOREM SessionsBytes == Spec => []BytesExact
<1>1. SessionInv => BytesExact
  BY TableExact DEF SessionInv
<1> QED
  BY <1>1, SessionsSafe, PTL

(* main.c:454-457: the two sequence numbers follow from the alarms. *)
THEOREM SessionsInStep == Spec => []UpdatesInStep
<1>1. SessionInv => UpdatesInStep
  BY DEF SessionInv, ProcessInv, NumbersInv, UpdatesInStep
<1> QED
  BY <1>1, SessionsSafe, PTL

(* A session that goes on has seen one count of upload failures. *)
THEOREM SessionsOneCount == Spec => []OneCountPerSession
<1>1. ASSUME SessionInv
      PROVE  Cardinality(counts_read) <= 1
  <2>1. counts_read = {failures.num_failures} \/ counts_read = {}
    BY <1>1 DEF SessionInv, ProcessInv, FailuresInv
  <2>2. Cardinality({failures.num_failures}) = 1
    BY FS_Singleton, Zenon
  <2>3. Cardinality({}) = 0
    BY FS_EmptySet, Zenon
  <2>4. Cardinality(counts_read) = 1 \/ Cardinality(counts_read) = 0
    BY <2>1, <2>2, <2>3
  <2> QED
    BY <2>4
<1> QED
  BY <1>1, SessionsSafe, PTL DEF OneCountPerSession

(***************************************************************************)
(* Every file handed to the uploader can be read with the files before it, *)
(* whatever a killed process left in the pending file (main.c:303-417).    *)
(***************************************************************************)
THEOREM SessionsReadable == Spec => []StreamsReadable
<1>1. SessionInv => StreamsReadable
  BY DEF SessionInv, StreamInv, UploadsInv
<1> QED
  BY <1>1, SessionsSafe, PTL

(* No update replaces another, as long as start times differ. *)
THEOREM SessionsNoneReplaced == Spec => NoUpdateReplaced
<1>1. SessionInv /\ [Next]_vars => [UploadsRemain]_vars
  BY SessionNext
<1> QED
  BY <1>1, SessionsSafe, PTL DEF Spec, NoUpdateReplaced, UploadsRemain
=============================================================================
