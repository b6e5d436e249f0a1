------------------------------ MODULE Sessions ------------------------------
(***************************************************************************)
(* bismark-passive from one start to the next (main.c, built with          *)
(* ENABLE_FREQUENT_UPDATES): what main reads before it captures, the two   *)
(* kinds of update that alarms trigger, the count of upload failures that  *)
(* ends a session (upload_failures.c), and what a process that exits or    *)
(* is killed at any step leaves on disk for the next one.                  *)
(*                                                                         *)
(* The server names an update by its session, the start time, and its      *)
(* number.  It knows the whitelist and the key of a session from update 0  *)
(* and the key's digest in each update.  Frames are handled with signals   *)
(* blocked; SignalHandlers has the interruptions of a handler and the      *)
(* packets.  started, uploads, failed_closes and counts_read are history:  *)
(* the start times so far, the files put into the directory of the         *)
(* uploader, the updates whose gzclose failed, and the counts of upload    *)
(* failures read in this session.                                          *)
(***************************************************************************)
EXTENDS DeviceThroughput

CONSTANTS
  Clocks,                         \* start_timestamp_microseconds
  NoSession,
  Lines, Blank,                   \* lines of a whitelist, and an empty one
  Null,                           \* the entry of a line that strdup failed on
  Texts,                          \* texts of a whitelist, as sets of lines
  Keys,                           \* contents of ANONYMIZATION_SEED_FILE
  NoKey,                          \* the seed before anonymization_init
  ALARMS_PER_UPDATE,
  FailureCounts,                  \* counts of upload failures in the log
  Missing, Truncated,             \* no log, or one without the whole passive line
  MaxAlarms                       \* bound on the alarms of a session

ASSUME SessionsAssumption ==
  /\ NoSession \notin Clocks
  /\ Texts \subseteq SUBSET (Lines \cup {Blank})
  /\ Blank \notin Lines /\ Null \notin Lines /\ Null # Blank
  /\ ALARMS_PER_UPDATE \in Nat \ {0}
  /\ FailureCounts \subseteq Nat
  /\ Missing \notin FailureCounts /\ Truncated \notin FailureCounts
  /\ MaxAlarms \in Nat

VARIABLES
  start_timestamp,                \* start_timestamp_microseconds
  domain_whitelist, seed,
  alarm_count, sequence_number, frequent_sequence_number,
  failures, counts_read,
  step, resume, signal,           \* where the process is, and where it returns to
  current_update,                 \* what is in PENDING_UPDATE_FILENAME
  uploads, started, failed_closes

session_vars == <<start_timestamp, domain_whitelist, seed>>
number_vars == <<alarm_count, sequence_number, frequent_sequence_number>>
failure_vars == <<failures, counts_read>>
handler_vars == <<resume, signal>>
disk_vars == <<current_update, uploads, started, failed_closes>>
vars == <<table_vars, session_vars, number_vars, failure_vars, step, handler_vars,
          disk_vars>>

NotRead == [valid |-> FALSE, num_failures |-> 0]

Init ==
  /\ TableInit
  /\ start_timestamp = NoSession /\ domain_whitelist = {} /\ seed = NoKey
  /\ alarm_count = 0 /\ sequence_number = 0 /\ frequent_sequence_number = 0
  /\ failures = NotRead /\ counts_read = {}
  /\ step = "off" /\ resume = "off" /\ signal = "none"
  /\ current_update = <<>> /\ uploads = <<>> /\ started = {}
  /\ failed_closes = {}

-----------------------------------------------------------------------------
(***************************************************************************)
(* The process ends and its memory is gone: by exit in any function, by    *)
(* return from main, or because it is killed.                              *)
(***************************************************************************)
process_ends ==
  /\ step' = "off"
  /\ device_throughput_table_init
  /\ start_timestamp' = NoSession /\ domain_whitelist' = {} /\ seed' = NoKey
  /\ alarm_count' = 0 /\ sequence_number' = 0 /\ frequent_sequence_number' = 0
  /\ failures' = NotRead /\ counts_read' = {}
  /\ resume' = "off" /\ signal' = "none"

(* Mutant: an empty line becomes a domain. *)
keep_blank_lines(text) == text

(***************************************************************************)
(* strtok never returns an empty line.  The buffer that main fills has no  *)
(* terminating zero, so text may go on behind the end of the file.         *)
(***************************************************************************)
domain_whitelist_load(text) == text \ {Blank}

(* The loop ends at the first strdup that fails; size is set already. *)
left_unallocated(lines, loaded) == IF loaded = lines THEN loaded ELSE loaded \cup {Null}

(* A file that cannot be read leaves the list empty; main goes on either way. *)
initialize_domain_whitelist ==
  \/ domain_whitelist' = {}
  \/ \E text \in Texts :
       \E loaded \in SUBSET domain_whitelist_load(text) :
         domain_whitelist' = left_unallocated(domain_whitelist_load(text), loaded)

(* main returns when the key cannot be read to its end. *)
anonymization_init == seed' \in Keys

(***************************************************************************)
(* main, up to the first alarm that is set.  No session started in the     *)
(* same microsecond before: see the README on clocks that are reset.       *)
(***************************************************************************)
main_starts(clock) ==
  /\ step = "off"
  /\ clock \notin started
  /\ start_timestamp' = clock
  /\ started' = started \cup {clock}
  /\ initialize_domain_whitelist
  /\ anonymization_init
  /\ step' = "opening"
  /\ UNCHANGED <<table_vars, number_vars, failure_vars, handler_vars, current_update,
                 uploads, failed_closes>>

(* initialize_pcap, during which alarms may be handled. *)
initialize_pcap ==
  /\ step = "opening"
  /\ step' = "capture"
  /\ UNCHANGED <<table_vars, session_vars, number_vars, failure_vars, handler_vars,
                 disk_vars>>

process_packet(source, destination, length) ==
  /\ step = "capture"
  /\ record_frame(source, destination, length)
  /\ UNCHANGED <<session_vars, number_vars, failure_vars, step, handler_vars, disk_vars>>

-----------------------------------------------------------------------------
(* Mutant: the alarm is counted after it was looked at. *)
due_late == (alarm_count - 1) % ALARMS_PER_UPDATE = 0

due == alarm_count % ALARMS_PER_UPDATE = 0

handle_alarm ==
  /\ step \in {"opening", "capture"}
  /\ alarm_count < MaxAlarms
  /\ alarm_count' = alarm_count + 1
  /\ signal' = "SIGALRM"
  /\ resume' = step
  /\ step' = "differential"
  /\ UNCHANGED <<table_vars, session_vars, sequence_number, frequent_sequence_number,
                 failure_vars, disk_vars>>

handle_termination ==
  /\ step \in {"opening", "capture"}
  /\ signal' = "SIGTERM"
  /\ resume' = step
  /\ step' = "differential"
  /\ UNCHANGED <<table_vars, session_vars, number_vars, failure_vars, disk_vars>>

(* The list is written in update 0 only, a Null as a word; an empty line ends it. *)
domain_whitelist_write_update ==
  IF sequence_number = 0 THEN domain_whitelist ELSE {}

(* The digest of the key, which tells keys apart. *)
anonymization_write_update == seed

(***************************************************************************)
(* time is current_timestamp, counted in alarms; filtered_by is the list   *)
(* that decided which DNS names are in clear.                              *)
(***************************************************************************)
Update(whole) ==
  [session |-> start_timestamp, number |-> sequence_number, time |-> alarm_count,
   whitelist |-> domain_whitelist_write_update, seed_digest |-> anonymization_write_update,
   filtered_by |-> domain_whitelist, whole |-> whole]

(* Mutant: the pending file is opened to append. *)
opened_to_append == current_update

(* gzopen(PENDING_UPDATE_FILENAME, "wb") *)
opened == <<>>

WritesUpdate == step = "differential" /\ (signal = "SIGTERM" \/ due)

pending_name == <<start_timestamp, sequence_number>>

(* write_update up to gzclose, which cuts the file if it fails: nobody looks. *)
write_update(closed) ==
  /\ WritesUpdate
  /\ current_update' = Append(opened, Update(closed))
  /\ failed_closes' = failed_closes \cup (IF closed THEN {} ELSE {pending_name})
  /\ step' = "staging"
  /\ UNCHANGED <<table_vars, session_vars, number_vars, failure_vars, handler_vars,
                 uploads, started>>

skip_update ==
  /\ step = "differential"
  /\ ~WritesUpdate
  /\ step' = "frequent"
  /\ UNCHANGED <<table_vars, session_vars, number_vars, failure_vars, handler_vars,
                 disk_vars>>

(* Mutant: the number is taken at the next due alarm. *)
same_number == sequence_number

next_number == sequence_number + 1

(* The rename: the pending file takes the name of the update. *)
stage_update ==
  /\ step = "staging"
  /\ uploads' = [n \in DOMAIN uploads \cup {pending_name} |->
                   IF n = pending_name THEN current_update ELSE uploads[n]]
  /\ current_update' = <<>>
  /\ sequence_number' = next_number
  /\ step' = "frequent"
  /\ UNCHANGED <<table_vars, session_vars, alarm_count, frequent_sequence_number,
                 failure_vars, handler_vars, started, failed_closes>>

(***************************************************************************)
(* It counts and clears the table whatever fclose says of the file.        *)
(* handle_signals then exits or looks at the failures.                     *)
(***************************************************************************)
write_frequent_update ==
  /\ step = "frequent"
  /\ UNCHANGED disk_vars
  /\ \/ signal = "SIGTERM" /\ process_ends
     \/ /\ signal = "SIGALRM"
        /\ frequent_sequence_number' = frequent_sequence_number + 1
        /\ device_throughput_table_init
        /\ step' = "check"
        /\ UNCHANGED <<session_vars, alarm_count, sequence_number, failure_vars,
                       handler_vars>>

(***************************************************************************)
(* read_failures.  When the log ends before the number of its passive line *)
(* the number of an earlier line or of an earlier call is still in         *)
(* num_failures, or anything; without that line, -1 or the same.  The      *)
(* uploader, another program, may rewrite the log at any time.             *)
(***************************************************************************)
ReadValues(log) == IF log = Missing THEN {-1}
                   ELSE IF log = Truncated THEN FailureCounts \cup {-1}
                   ELSE {log}

(* Mutant: the first count is not remembered as valid. *)
forgotten(num_failures) == [failures EXCEPT !.num_failures = num_failures]

remembered(num_failures) == [valid |-> TRUE, num_failures |-> num_failures]

return_from_handler == step' = resume /\ resume' = "off" /\ signal' = "none"

(* num_failures is what read_failures returned. *)
upload_failures_check(num_failures) ==
  \/ num_failures < 0 /\ return_from_handler /\ UNCHANGED failure_vars
  \/ /\ num_failures >= 0
     /\ ~failures.valid \/ failures.num_failures = num_failures
     /\ return_from_handler
     /\ failures' = remembered(num_failures)
     /\ counts_read' = counts_read \cup {num_failures}

FailuresChanged(num_failures) ==
  num_failures >= 0 /\ failures.valid /\ failures.num_failures # num_failures

check_failures ==
  /\ step = "check"
  /\ due
  /\ \E log \in FailureCounts \cup {Missing, Truncated} :
       \E num_failures \in ReadValues(log) :
         \/ FailuresChanged(num_failures) /\ process_ends
         \/ /\ upload_failures_check(num_failures)
            /\ UNCHANGED <<table_vars, session_vars, number_vars>>
  /\ UNCHANGED disk_vars

skip_check ==
  /\ step = "check"
  /\ ~due
  /\ return_from_handler
  /\ UNCHANGED <<table_vars, session_vars, number_vars, failure_vars, disk_vars>>

(***************************************************************************)
(* pcap that cannot be opened or stops, a write or a rename that fails, a  *)
(* name that is compared with a Null, or a signal that cannot be caught.   *)
(* An update may be cut anywhere.                                          *)
(***************************************************************************)
die ==
  /\ step # "off"
  /\ process_ends
  /\ \/ UNCHANGED current_update
     \/ WritesUpdate /\ current_update' = Append(opened, Update(FALSE))
  /\ UNCHANGED <<uploads, started, failed_closes>>

handle_signals ==
  \/ handle_alarm
  \/ handle_termination
  \/ \E closed \in BOOLEAN : write_update(closed)
  \/ skip_update
  \/ stage_update
  \/ write_frequent_update
  \/ check_failures
  \/ skip_check

Next ==
  \/ \E clock \in Clocks : main_starts(clock)
  \/ initialize_pcap
  \/ \E source, destination \in Devices, length \in FrameLengths :
       process_packet(source, destination, length)
  \/ handle_signals
  \/ die

Spec == Init /\ [][Next]_vars

-----------------------------------------------------------------------------
Updates ==
  [session: Clocks, number: Nat, time: Nat, whitelist: SUBSET (Lines \cup {Blank, Null}),
   seed_digest: Keys, filtered_by: SUBSET (Lines \cup {Blank, Null}), whole: BOOLEAN]

TypeOK ==
  /\ TableTypeOK
  /\ start_timestamp \in Clocks \cup {NoSession}
  /\ domain_whitelist \subseteq Lines \cup {Blank, Null}
  /\ seed \in Keys \cup {NoKey}
  /\ alarm_count \in 0 .. MaxAlarms
  /\ sequence_number \in Nat /\ frequent_sequence_number \in Nat
  /\ failures \in [valid: BOOLEAN, num_failures: Nat]
  /\ counts_read \subseteq FailureCounts
  /\ step \in {"off", "opening", "capture", "differential", "staging", "frequent", "check"}
  /\ resume \in {"off", "opening", "capture"}
  /\ signal \in {"none", "SIGALRM", "SIGTERM"}
  /\ current_update \in Seq(Updates)
  /\ DOMAIN uploads \subseteq Clocks \X Nat
  /\ started \subseteq Clocks
  /\ failed_closes \subseteq Clocks \X Nat

(***************************************************************************)
(* main.c:454-457: each alarm writes a frequent update, every              *)
(* ALARMS_PER_UPDATE-th one a differential update too, whatever was        *)
(* captured and read in between, and the counts start over with a session. *)
(***************************************************************************)
UpdatesInStep ==
  step \in {"opening", "capture"} =>
    /\ frequent_sequence_number = alarm_count
    /\ sequence_number = alarm_count \div ALARMS_PER_UPDATE

(***************************************************************************)
(* A session that goes on has read one count of upload failures, however   *)
(* often the log was unreadable in between: the first change ends it.      *)
(***************************************************************************)
OneCountPerSession ==
  step \in {"opening", "capture"} => Cardinality(counts_read) <= 1

(***************************************************************************)
(* A file in the directory of the uploader is the update that its name     *)
(* says, alone, after those before it in the session, and whole unless its *)
(* own gzclose failed: what a killed process left is never among them.     *)
(* The server can read it with update 0 if both are whole: the pseudonyms  *)
(* are made with the key of update 0 and the DNS names in clear were       *)
(* chosen with the list in update 0, which no empty line ends too early.   *)
(***************************************************************************)
Readable(session, number) ==
  LET file == uploads[<<session, number>>]
      zero == uploads[<<session, 0>>]
  IN  /\ Len(file) = 1
      /\ file[1].whole \/ <<session, number>> \in failed_closes
      /\ file[1].session = session /\ file[1].number = number
      /\ \A n \in 0 .. number : <<session, n>> \in DOMAIN uploads
      /\ file[1].whole /\ zero[1].whole =>
           /\ file[1].seed_digest = zero[1].seed_digest
           /\ file[1].filtered_by = zero[1].whitelist
           /\ Blank \notin zero[1].whitelist

StreamsReadable ==
  \A name \in DOMAIN uploads : Readable(name[1], name[2])

(***************************************************************************)
(* main.c:87-89, 92: start time and sequence number identify an update.  A *)
(* file in the directory of the uploader is not replaced by a later one,   *)
(* of this process or of one that was started after it was killed.         *)
(***************************************************************************)
NoUpdateReplaced ==
  [][\A name \in DOMAIN uploads :
       name \in DOMAIN uploads' /\ uploads'[name] = uploads[name]]_vars
=============================================================================
