# Verification of bismark-passive

bismark-passive runs on a home router, watches the packets of one interface
and every 30 seconds stages a small compressed update for upload. This
directory has TLA+ models of its core, TLC configurations that check them on
small instances, and proofs checked by TLAPS. Paths below are relative to
`src/src/` of the repository unless they say otherwise.

## 1. The system

One process, one thread. `main` (main.c:593) initialises static tables, installs
one signal handler, sets an alarm and enters `pcap_loop`, which calls
`process_packet` for every packet. Signals are the only concurrency.

| component | state | operations | correct when |
|---|---|---|---|
| flow table (flow_table.c) | open addressed hash table of flows, base timestamp, counters | find/insert/expire, rebase, write update, write threshold log | a flow has one reachable slot; its age is true; the server learns of a flow before its id is used; the log has the busy new flows |
| address table (address_table.c) | ring of (IP, MAC), first, last, length, additions since the last update | lookup, write update | ids are unique and stable until evicted; the server has the same mappings |
| packet series (packet_series.c) | packets of the period, start and last time, discard counter | add, write update, reset | times can be recomputed; kept and discarded packets add up |
| drop statistics (drop_statistics.c) | histogram of the sizes of discarded packets | count, write update, reset | a period's drops, each once |
| DNS table and parser (dns_table.c, dns_parser.c) | A and CNAME records of the period with owned names, drop counters | parse a response, add, write update, destroy | records and drops add up; what the table frees it frees once; a name that no list matches leaves only as a digest |
| domain whitelist (whitelist.c), Bloom whitelist (bloom-whitelist.c) | lists loaded at start | load, look up, write | label-wise suffix match; a list that did not load matches as documented |
| device throughput (device_throughput_table.c) | bytes per MAC address | record, write, reset | every frame is counted for both its ends |
| upload failures (upload_failures.c) | last failure count | check | the process restarts only when uploads fail |
| HTTP table and parser (http_table.c, http_parser.c; optional) | requested URLs with the id of their flow, drop counter | parse a request, add, write, destroy | requests and drops add up; the server resolves the flow of each |
| anonymization (anonymization.c, util.c) | key | read the key, keyed digest | a session uses one key, and its updates say which |
| capture and update cycle (main.c) | sequence number, alarm count, mask, files | process_packet, write_update, handle_signals | below |

How they interact. `process_packet` blocks SIGALRM, SIGINT and SIGTERM, looks
the packet's addresses up in the address table, gets the flow id from the flow
table, adds the packet to the series under that id, counts it in the drop
statistics if the series is full, and parses DNS responses and HTTP requests. `handle_signals`
writes the threshold log and the update on SIGALRM, resets the tables and sets
the next alarm; on SIGINT and SIGTERM it writes a last update and exits. The
flow table and the address table live on across updates: they send only what is
new, and the server resolves ids from what it was sent before. The other tables
start every period empty.

What is hard: ids that outlive their records (a slot reused after expiry, a ring
that wraps); narrow integers (4-bit packet counts, 16-bit ages relative to a
moving base, 32-bit time deltas, saturating and wrapping counters, unsigned counters
printed as signed numbers); processes that are killed between two steps and leave a
pending file to the next one; handlers
that interrupt packet processing and each other between the steps of
`write_update`; a wall clock that steps; partial failure of an update; tables at
their limits. `PROJECT.json` lists these hazards line by line.

## 2. The modules

| module | models | variables that are history only |
|---|---|---|
| `FlowTable` | flow_table.c | `server`, `last_seen`, `packets_seen`, `busy_flows`, `log_complete` |
| `AddressTable` | address_table.c | `server` |
| `PacketSeries` | packet_series.c | `arrivals` |
| `DifferentialUpdates` | the abstract specification of what the two tables above promise: the server knows what every id stands for | |
| `DropStatistics` | drop_statistics.c | |
| `HttpTable` | http_table.c, http_parser.c | |
| `Passive` | process_packet and write_update over instances of FlowTable, PacketSeries, DropStatistics and HttpTable | `protocols`, `carried`, `requests` and those of its parts |
| `SignalHandlers` | the signal mask, nested handlers, the steps of write_update, the DNS names it frees and the files | `closed` of a file |
| `DnsTable` | dns_table.c and dns_parser.c, a record at a time | `a_read`, `cname_read` |
| `Whitelist` | the lookup of whitelist.c | |
| `DnsUpdates` | a packet's way through instances of AddressTable and DnsTable into an update, with Whitelist and the Bloom filter | `packet_data` keeps destinations; those of its parts |
| `DeviceThroughput` | device_throughput_table.c | `carried`, `refused`, `frames` |
| `Sessions` | the build with ENABLE_FREQUENT_UPDATES from one start to the next: the start of main, the alarms, both kinds of update, upload_failures.c, exits and crashes; extends DeviceThroughput | `started`, `uploads`, `failed_closes`, `counts_read` |
| `FlowTableProofs`, `AddressTableProofs`, `PacketSeriesProofs`, `SignalHandlersProofs`, `DnsTableProofs`, `DnsUpdatesProofs`, `PassiveProofs`, `SessionsProofs` | the theorems (that of `Whitelist` is in `DnsUpdatesProofs`) | |
| `MC...` | instances for TLC | |

Variables and operators have the names of the C code; a definition without a C
name is an idea the code spells out in place. Actions are whole calls: for
example `flow_table_process_flow` is the disjunction of `drop_out_of_bounds`,
`refresh_flow`, `drop_no_space` and `insert_flow`, one per `return`, each with
the expiries the probing loop did on its way. A history variable is written and
never read by a guard.

**FlowTable.** A 5-tuple is a model value and its hash a constant function, so
that every collision pattern can be chosen. The probe index is computed in
doubles by the code; a value above 2^32 - 1 is converted back with undefined
result, which the constant `DoubleOverflow` fixes per build. `ClockStepBack` is
how far the wall clock used by `flow_table_advance_base_timestamp` may lag behind
the packet times already in the table. The other fields of a deleted entry are
never read by the code; the model forgets them. Writing the threshold log may fail at any line,
after which main.c:280-284 goes on: `log_complete` says whether the log has its end.

**AddressTable.** An address is a pair of IP and MAC. `server` is what a reader
of the updates holds: the k-th pair of an update has id (first id + k) modulo the
table size.

**PacketSeries.** Conversions to `int32_t` and `uint16_t` are taken modulo.

**Passive.** The update is three steps (threshold log; sections; start of the next
period) that nothing interleaves with, because here handlers are atomic. After
SIGINT or SIGTERM it is the last one. `time(NULL)` is read once for both the header and the rebasing.

**HttpTable.** A TCP segment to port 80 is the length of its header and the offsets at
which its bytes read as a request, so that where the parser begins to read is part of the
model. `Passive` gives the table the flow ids of its packets, also of those the series has
no place for. The URL's anonymization cannot fail (anonymization.c:76-79 always returns 0), so the check of
it at http_parser.c:22-25 never fires and has no step.

**DifferentialUpdates.** Ids stand for things; the router renames at will, as long as every
id that stands for something else than the server believes is on the list of those to be
sent, and no thing has two ids. `FlowTable` and `AddressTable` end with the mapping: a flow
is named by its slot, and the ids to be sent are the entries marked unsent in the one and
the last `added_since_last_update` ids in the other.

**SignalHandlers.** Each packet is the first of a flow of its own and a DNS response, so the packet
series, the unsent part of the flow table and the names of the DNS table are sets of packets. The stack
`handlers` has the running handlers; a signal can interrupt the next step of
anything unless it is blocked by `process_packet` or is the signal of a handler
that runs (`sa_mask` is empty, so only its own signal is masked). The loops over the packets and
the flows take a step for each turn, and read the tables as they are at that turn; `dns_table_destroy`
and `dns_table_init` are two steps.

A file is an inode. `gzopen` with "wb" truncates the pending one if there is one, and a handler that
was interrupted keeps its descriptor, which writes at its own offset also when the file has been
renamed. `closed` is the set of updates that were closed into the file, `readable` what the uploader
can read of it: nothing while it is written, since zlib may flush at any `gzprintf` (`flush`); after a close
the update just closed, the one that was there before if nothing of it was written over, or neither,
because the result of `gzclose` is ignored (main.c:371). Any other write may fail, which exits.
(main.c tests `!gzprintf(...)`; newer versions of zlib return a negative number on an error, which
passes the test, and the update then ends as one whose close failed.)

A name that is used or freed again after it was freed is undefined behaviour: the process may end there
or go on (`freed_names` stands for the state of the heap).

**DnsTable.** A step is a record that reaches the table; a response that stops
parsing ends there, with the records before the fault kept. `strdup` returns a block that is
not allocated; an entry points to one block or two, and `dns_table_destroy` frees what the entries point to.
The blocks that a full table or a malformed CNAME lost stay allocated for good: they leak, and when all of `Blocks`
are in use no more records are read, a bound. Between `dns_table_destroy` and `dns_table_init` the entries
point to freed blocks (`destroyed`).

**DnsUpdates.** The steps of `process_packet` that concern DNS, in their order, and
the sections of an update. A packet that is not IP does what one between two public
addresses does here: it takes a place in the series. The texts of names are made
of labels by `dn_expand` and compared as characters by `Whitelist`, so that "ends in the
same letters" and "is below" can be told apart. A label is a text of any characters as `dn_expand` prints it, so a dot
inside one is there, after a backslash, and the comparison takes it for the end of a label as the code does. The filter either loaded or did not;
if it did not, the first lookup calls through a null pointer (`crash`).

**DeviceThroughput.** `record_frame` is both calls of `device_throughput_table_record` with
the `||` between them. A counter is printed as a signed number, which a reader undoes.

**Sessions.** A process is started, captures, handles signals without being interrupted in
the handler, and ends: by `exit`, by `return` from `main`, or killed at any step. Its memory
is then gone; the pending file, whole or cut, and the uploads stay. `step` is where it is,
and an alarm may come before pcap is open. The uploader, another program, rewrites its log at any
moment; a log that ends within its passive line makes `read_failures` return whatever was in an
uninitialised variable, any count here. What the server needs to read an update is in the record
`Update`: the session, the number, the list that update 0 has, the digest of the key. `filtered_by` is what no update
says and the reader must infer. A `gzclose` that fails leaves the update cut, and `failed_closes` has its name;
the handler goes on, as the code does. A whitelist that is loaded in part has `Null` for the entries that no memory was
found for: they are written as a word, and a lookup that reaches one ends the process, which `die` covers. The file of a frequent update is left out but for its table and its number.
Alarm and sequence numbers are not taken modulo 2^32, which takes 680 years.

## 3. What TLC checks

| run | instance | checks |
|---|---|---|
| `flow_table` | 3 flows, 2 reachable slots with colliding probe paths, 3 probes of which one overflows, 4 timestamps, offsets -2..1, clock lag 1, up to 2 packets in a counter of one bit, threshold 1 | `TypeOK`, `NumElementsExact`, `LiveFlowsReachable`, `OneSlotPerFlow`, `ServerKnowsSentFlows`, `AgesExact`, `ThresholdLogExact`, `KeepsServerInformed` |
| `address_table` | 5 devices for a ring of 4, one public address | `TypeOK`, `RingShape`, `ServerMirrors`, `OnlyOldestEvicted`, `KeepsServerInformed` |
| `packet_series` | a buffer of 3, up to 5 packets at 4 times, deltas -2..1, sizes that are cut, a counter that saturates at 1 | `TypeOK`, `TimesDecodable`, `EveryPacketCounted` |
| `passive` | 2 flows with one hash, both to port 80, and ARP, a table of 4, a series of 2, one place for a URL, up to 3 packets a period, 3 timestamps, offsets -1..1 | `TypeOK`, `PacketsAttributed`, `HistogramExact`, `HttpAttributed`, `NoUnsentFlowLost` |
| `signal_handlers` | 2 packets, SIGALRM, SIGINT and SIGTERM | `TypeOK`, `WholePackets`, `StagedComplete`, `ExactlyOnce`, `NamesFreedOnce`, `PacketsKept`, `ReplacedByNestedOnly`, `PacketsDelivered` |
| `dns_updates` | 3 devices for a ring of 2 and a resolver outside, a series of 2, one A and one CNAME entry, up to 2 records a period, 4 blocks of memory; one listed name, and names that are shorter, equal, below it, longer without a dot and with an escaped one, and one that the filter matches | `TypeOK`, `RecordsAccounted`, `NamesOwned`, `RecordsResolved`, `OnlyListedInClear` |
| `sessions` | 2 sessions with 2 keys and a list of one line, 3 devices for a table of 2, 3-bit byte counters, 2 alarms per differential update, 6 alarms a session, 2 frames between alarms | `TypeOK`, `BytesExact`, `UpdatesInStep`, `OneCountPerSession`, `StreamsReadable`, `NoUpdateReplaced` |
| `flow_threshold_wraps`, `drops_not_reset`, `flow_ids_unreported`, `nested_signals`, `bloom_failure` | section 6 | one property each, violated |

**Bounds.** The constants of the code are scaled down so that every limit is
reached: the flow table is full, expires, and reuses tombstones; offsets reach both
ends of their type; the ring wraps more than once; the buffer overflows and its
counter saturates. Scaling keeps the relations the code relies on, and the
proofs show for most properties that the size does not matter. `MaxPackets`
bounds the packets of an unsent flow, `MaxArrivals` those of a period.
In `flow_table` the packet counter has one bit, so that it wraps on the second packet as the code's does on the
sixteenth; `flow_threshold_wraps` has the real widths. `MaxRecords` bounds the DNS records of a period (one more than the
tables hold together is not needed: each table is overrun on its own) and `Blocks` the names
in use: four let a period with two CNAMEs follow one that lost names. `MaxFrames` and
`MaxAlarms` bound `Sessions`: a frame fills the table, the second is refused or wraps a counter;
six alarms are three checks of the log. Two sessions are enough for a crash to leave a pending file
and for a second process to find it.

`RecordsResolved` has an exception that is the code's: within a period the ring may give
up a mapping that a DNS record of the same period names, and the server then resolves the record to
the device that took its place. With 256 places that takes 256 new devices in 30 seconds.

`PeriodSpan` in `Passive` is the one bound that is a statement about the
environment: the packets of one period are at most one second of the model apart,
where flows expire after more than one. In the code a period has 30 seconds and
expiry needs 1800, so packets of one period are never an expiry apart (unless the clock
is stepped). Without that margin an id could be given to another flow within
the period and `PacketsAttributed` would not hold.

**Symmetry and views.** `SameHash` permutes flows with equal hashes only, `DeviceSymmetry`
private addresses; no liveness is checked with symmetry. `TableView` and
`PassiveView` leave out counters that are only ever incremented and, in `passive`, the packet counts and the threshold log:
no guard and no checked property of the run reads them (the type of the packet counts is `flow_table`'s to check). `MCSymmetry` permutes devices and keys, `Symmetry` in `dns_updates` devices.
`UpdatesView` has of the blocks of memory which pointers share one, which of theirs are allocated and how many others are, which is all
that their names tell apart, and of the records read how many there were and whether the first ones are those in the table.
`SessionsView` leaves out the contents of files of sessions that ended: they were checked when they were written, and no
later session writes under their names, since it has another start time.

**Fairness.** `SignalHandlers!FairSpec` assumes weak fairness of `alarm_expires`
and `Deliver` (the kernel expires a set alarm and delivers a signal that is not
blocked), `process_packet` (a call of the capture callback goes on to its end) and
`handle_signals` (so does a handler). Nothing is assumed of packets arriving or
of `kill`. An alarm in a period without packets is left out, a bound: its update
would be empty.

`CHECK_DEADLOCK FALSE` is set where the process may end: `passive` after
SIGTERM, `signal_handlers` after `exit`, `sessions` when no start time is left, `dns_updates` after a crash, and the runs derived from them.

Every checked property has a mutant in `PROJECT.json`: a plausible bug, written
above the definition it replaces, under which TLC finds the property violated.

## 4. What is proved

TLAPS checks these for every value of the constants that satisfies the named
assumptions (`FlowTableAssumption`, `PassiveAssumption` and so on, all evaluated by TLC in the runs; the
theorems on `DnsTable` name theirs, `Sizes`, `WidthsOK` and `NamesOK`).

- `FlowTableCounts`: `[](TypeOK /\ NumElementsExact)`. Each call changes
  `num_elements` by the number of slots that change between live and not live;
  the lemmas count sets that differ by the expired slots and by one slot.
- `FlowTableStructure`: `[](LiveFlowsReachable /\ OneSlotPerFlow /\ ServerKnowsSentFlows)`.
  The three are inductive only together with the type: a flow is not inserted
  twice because a live one would have been found, and it would have been found
  because no slot on its probe path is ever set back to `ENTRY_EMPTY`. The proof
  is for any probe table, so it does not depend on how the out-of-range conversion turns out.
- `FlowTableAges`: `[]AgesExact` if `ClockStepBack <= FLOW_TABLE_MAX_UPDATE_OFFSET`.
  It uses `NumElementsExact`: the base is replaced only when no live offset depends on it.
- `FlowTableThresholds`: `[]ThresholdLogExact` if `NUM_PACKETS_MODULUS <= NUM_PACKETS_LIMIT`, as it is in the code (16
  and 63), for any number of packets: the counter of an entry is the flow's packets modulo its width. That is what the
  code does, not what it says: `flow_threshold_wraps` shows the flows that the modulus hides.
- `AddressTableCorrect`, `AddressTableEviction`: the ring invariants and the action
  property. The inductive invariant is the conjunction of the four: `ServerMirrors` is
  preserved by an update because by `RingShape` the ids since the last update are
  consecutive and distinct.
- `PacketSeriesCorrect`: `[](TypeOK /\ TimesDecodable /\ EveryPacketCounted)`. The invariant adds
  that `last_time_microseconds` is the time of the last packet kept.
- `SignalHandlersSafe`: `[](WholePackets /\ StagedComplete /\ NamesFreedOnce)` for
  any number of packets and terminating signals. The invariant `IInv` says what each
  handler on the stack knows at its step, however many others ran since (`HandlerProgress`): the flows in its update came
  with packets that are in it, and what it has written has been in the tables. It says more of the innermost one
  (`PendingOf`): if the pending file is there it is this handler's own and its update has the packets of the series; if it is
  gone, another handler that ran inside has staged it and emptied the tables. Freed names are in the table only
  while a handler stands before `dns_table_init` (`NamesKept`). The properties alone say nothing of a handler that is
  interrupted half way.
- `SignalHandlersKept`: the action property `PacketsKept`, from `IInv`. The series is emptied at one step, and there its
  packets are in the update staged last if that can be read at all (`Carried`); a file is written at the other steps, and
  it is a staged one only for a handler that was interrupted and whose signal is SIGINT or SIGTERM.
- `SignalHandlersExactlyOnce`, `SignalHandlersReplace`: `[]ExactlyOnce` and the action property `ReplacedByNestedOnly`, from `IInv` and a
  second invariant, `EInv`. A handler masks its own signal, so of two handlers one is that of SIGINT or SIGTERM; it exits and never leaves the
  stack. Hence when no handler runs, or that of SIGALRM alone (`Alone`), none was ever interrupted by another, and only for these states does
  `EInv` say anything: which of the rename, the increment and the resets are done at each step of that handler, what it has in its file, and that
  what is staged and what is in memory are disjoint until the rename. `ReplacedByNestedOnly` needs less: a taken number is that of a handler
  below on the stack which stands before its increment (`StagedCurrent`).
- `DnsRecordsAccounted`, `DnsNamesOwned`: `[]RecordsAccounted` and `[]NamesOwned` for arrays and
  integers of any size, by induction over `TypeOK` and the two together: an array that is not full has dropped nothing,
  so what was read is what it has and one append keeps them the same. A new entry points to blocks that were not
  allocated before, so to none that another pointer has; `dns_table_destroy` runs once between two `dns_table_init`.
  What is lost stays allocated: `NamesOwned` is about each pointer and its block, and nothing is counted.
- `ImplementsTables`: `DnsUpdates` implements `AddressTable` and `DnsTable`, the two as they
  stand. Every invariant proved of a table alone thereby holds in the composition;
  `DnsUpdatesAccounted`, `DnsUpdatesNames` and `DnsUpdatesMappings` have them, `DnsRecordsResolved` uses them. Its own invariant,
  `Tracing`, follows an id from the lookup over the packet and the response to the records: it is
  live when it is looked up, live ids stay live, and the packet keeps its place in the series.
  With nothing left to send, `ServerMirrors` then says that the server has the id.
- `MatchesAtOrBelow`: for names of any length over any characters, `Matches` holds
  exactly if the domain is the listed name or ends in a dot and the listed name. It is
  the whitelist's promise in whitelist.h, for texts; the proof compares both characters by position.
- `DnsUpdatesInClear`: `[]OnlyListedInClear`, for names of any number of labels over any characters, dots in labels
  included. The property is about labels
  and the code compares characters, so the proof is about the text in between, `dn_expand`. A text matches a line that is the
  text itself or what follows a dot in it (`MatchesAfterDot`). The dots of a text are the one behind its first label, those
  inside that label and those of the rest (`FromPrepend`), so a label in front adds the lines that begin with it or
  within it (`MatchesPrepended`), and label by label a match is at a label or at a dot inside one (`MatchesAtALabel`). `dn_expand` is a recursive function on the numbers of labels, and the induction is that of the lemma `NatSet`: a set of numbers that
  has 0 and with every number the next one has them all, which follows from the library's `WFMin` and needs no predicate as a parameter.
- `DnsUpdatesInform`, `DnsUpdatesMappings`, `PassiveInforms`, `PassiveSeries`: what was proved of a table alone, for the runs of main.c.

- `FlowTableInforms`, `AddressTableInforms`: the two tables implement `DifferentialUpdates`.
  Every call is a step of it under the mapping above. For the flow table that takes
  `OneSlotPerFlow` and the fact that a slot whose flow changes is marked unsent; for the ring it takes the arithmetic
  of `RingShape`: an addition moves the window of unsent ids by one, and the id that falls out of the
  ring is never one whose name is kept.
- `SessionsBytes`, `SessionsInStep`, `SessionsOneCount`, `SessionsReadable`, `SessionsNoneReplaced`,
  `SessionsTypes`: all of `Sessions`, for any number of sessions, devices, keys, texts and alarms.
  The invariant has three parts. `TableInv`: the line of a device says its bytes modulo 2^32 (sums of remainders;
  the library has no division, so `Division` and its uniqueness come first). `ProcessInv`: what the three counts are at each step of a handler
  and that the remembered count of failures is the only one read. `StreamInv`: the files of the running session
  have the numbers below `sequence_number`, update 0 has its key and its list, and the pending file, when it
  is about to be renamed, is one update, whole unless its close failed; what a dead process left under that name is truncated before.
- `PassiveImplementsTables`: `Passive` implements `FlowTable` and `PacketSeries`. The one thing a table asks
  of its caller is shown on the way: no unsent flow has more packets than the period, and the time that the base is
  replaced by is one the sections were written at (`CycleInv`).
- `PassiveNoUnsentFlowLost`: an action property, for any clock: only `flow_table_process_flow` and the rebase remove a slot's
  flow; the first only one that was sent, the second runs when `CycleInv` says that none is unsent.
- `PassiveAttributes`, `PassiveAttributesHttp`: `[]PacketsAttributed` and `[]HttpAttributed`. Assumed are `ClockOK` (the clock steps back by at
  most `FLOW_TABLE_MAX_UPDATE_OFFSET` and `PeriodSpan` is at most the expiry) and, for the second, `SegmentsOK`
  (a segment without TCP options has no text that the parser, 20 bytes too late, takes for a request). The invariant, `Attributed`, says
  that the slot of a packet's id still has the packet's flow, and that the last packet of that slot is one of the period: by `AgesExact`
  the slot is then as old as that packet, and no other packet of the period can expire it. The conditions are what the two
  properties need: a flow that expires within a period gives its id to another one.
- `PassiveHistogram`, `PassiveTypes`: `[]HistogramExact` and `[]TypeOK`. A packet is lost only when the series is full, and
  a series with room has lost none (`EveryPacketCounted`), so the lost packets are the arrivals behind the kept ones.
- `PassiveDropsCleared`: what remains true beside `drops_not_reset`. The buckets below `RESET_BUCKETS` start every period with nothing
  (`Cleared`), so that with `HistogramExact` they count the drops of their own period.
- The other theorems in `PROJECT.json` name one conjunct each of those above.

Only model-checked: `PacketsDelivered`, because it is a liveness property under fairness. The five properties of section 6 that the
code violates are false; the theorems `FlowTableThresholds`, `PassiveDropsCleared`, `SignalHandlersReplace` and `SignalHandlersKept` say how far three of them hold.

## 5. Not modelled, and what is left

- One composition of all tables: the components share ids only, and `Passive`, `DnsUpdates` and `Sessions`
  each have the ones that meet.
- Frequent updates in `SignalHandlers`: a handler interrupted between the two kinds of update.
- Two sessions with one start time. `main_starts` assumes that no clock value comes twice (main.c:87-89 promises it);
  a router whose clock was reset can break that, and then updates of both have the same names.
- What the buffer of the whitelist has behind its end (main.c:565 allocates no place for a zero): the list is any of the texts.
- The content of names, URLs and digests, SHA-1; the layout of the update beyond what is read back; debug statistics; pcap;
  the unit tests.

## 6. Where the code disagrees with its documents

- `flow_threshold_wraps`: a flow's packet counter has 4 bits and is compared with 63; a new flow
  of 16 packets is missing from the threshold log (flow_table.c:80, constants.h:13).
- `drops_not_reset`: `memset` with the size of a pointer leaves the histogram of earlier
  periods in place (drop_statistics.c:8).
- `flow_ids_unreported`: the ids of the last seven slots are written as -1 (packet_series.c:52).
- `nested_signals`: SIGTERM inside the handler of SIGALRM, between `rename` and the increment,
  replaces the staged update by another with its number (main.c:380, 487).
- `bloom_failure`: a Bloom filter that does not load is reported as disabled and looked up all
  the same (main.c:613, dns_table.c:87, bloom-whitelist.c:45).

These, where a document says more than the code does, have no run of their own. The checked properties are stated as the code
does it, so that they hold with the disagreement in the open:

- constants.h:13-16 and flow_table.h:80-82 log flows that "exceed" FLOW_THRESHOLD packets; the code logs those that reach it
  (`>=`, flow_table.c:216). `ThresholdLogExact` has the code's comparison.
- The result of `gzclose` is ignored (main.c:371). On a full disk a cut update is staged under its number and the tables
  are emptied as if it were whole: the first exception of `PacketsKept`, the one of `StreamsReadable`. Every other write of
  the update is checked. `fclose` of a frequent update is ignored as well (main.c:426).
- A handler of SIGINT or SIGTERM that SIGALRM interrupts goes on, after the nested handler has staged its file, through
  its own descriptor: it writes over the staged update, whose packets are no longer in memory. This is the second exception of
  `PacketsKept`, beside the replaced name that `nested_signals` shows.
- A handler that runs inside another one between `dns_table_destroy` and `dns_table_init` (main.c:389-390) reads and frees names that are
  freed already: the exception of `NamesFreedOnce`.
- dns_table.h:53-59 says that the table "claims ownership" of the names and "will free()" them. A full table returns without
  doing so (dns_table.c:41-43, 52-54), and the name of a CNAME whose target does not expand is lost before the table sees it
  (dns_parser.c:97-103). These names leak; those that the table has are freed once (`NamesOwned`).
- whitelist.h:21-24 and PRIVACY.md:57-64, 101-103 say that only listed names and those below them match, or are recorded. The code also sends those that
  the Bloom filter matches, false positives included (dns_table.c:87), and those whose label has a dot, printed as `\.`,
  before something listed (whitelist.c:61-62). `OnlyListedInClear` names all three.
- A whitelist whose load fails half way (whitelist.c:31-35) is reported by main.c:608-610 as "whitelisting disabled", but its size is set: the
  names loaded so far go on matching, the others are written as "(null)" and end the process when a lookup reaches them.

No run shows, but `FlowTableAges` must assume away: a base set back by more than INT16_MAX
seconds wraps offsets where flow_table.h:67 says flows are deleted (flow_table.c:124).

Nor does a run show these of the optional HTTP table; there is nothing in the documents to hold them against but
http_parser.h:8. A request in a segment whose TCP header has no options is missed (main.c:149): the parser starts 20 bytes too late, so
`HttpAttributed` is about the other segments. The binary digest is copied as a string (http_parser.c:26) and cut at its
first zero byte. A URL that finds the table full is counted and its copy never freed, although http_table.h says that the table
claims it (http_parser.c:27).
