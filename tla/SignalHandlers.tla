--------------------------- MODULE SignalHandlers ---------------------------
(***************************************************************************)
(* Capture and signal handlers of bismark-passive (main.c), step by step.  *)
(* SIGALRM, SIGINT and SIGTERM share the handler handle_signals, which     *)
(* writes an update.  process_packet blocks all three; the handler's own   *)
(* sa_mask is empty, so it is safe from its own signal only and another    *)
(* signal may run it again inside itself.                                  *)
(*                                                                         *)
(* Every packet stands for the first one of a flow of its own and for a    *)
(* DNS response: packet_data holds the packets of the period, unsent_flows *)
(* the flow records that no update carries yet, dns_names the names that   *)
(* the entries of the DNS table point to.                                  *)
(*                                                                         *)
(* A file is an inode.  gzopen truncates the pending one if there is one,  *)
(* and a descriptor that another handler opened before still writes to it, *)
(* at an offset of its own, even once the file is renamed.  zlib keeps     *)
(* most of an update to the close, whose result main.c:371 ignores.        *)
(***************************************************************************)
EXTENDS Integers, Sequences

CONSTANTS
  ALRM,
  TerminateSignals,     \* SIGINT and SIGTERM
  MaxPackets            \* bound on the packets captured

Signals == {ALRM} \cup TerminateSignals
Packets == 1 .. MaxPackets

ASSUME SignalHandlersAssumption ==
  /\ ALRM \notin TerminateSignals
  /\ MaxPackets \in Nat

VARIABLES
  capture,             \* where process_packet is
  captured,            \* number of packets captured so far
  blocked,             \* the signal mask of the capture loop
  pending_signals,
  alarm,               \* alarm() is set
  handlers,            \* the handlers that run, the innermost last
  running,             \* FALSE after exit()
  packet_data,
  unsent_flows,
  dns_names,
  freed_names,         \* the names that dns_table_destroy has freed
  sequence_number,
  files,               \* file -> the updates closed into it, the one readable
  pending_update,      \* the file called PENDING_UPDATE_FILENAME, or 0
  staged               \* sequence number -> the file of UPDATE_FILENAME

names == <<dns_names, freed_names>>
memory == <<packet_data, unsent_flows, names, sequence_number>>
disk == <<files, pending_update, staged>>
loop == <<capture, captured, blocked>>
vars == <<loop, pending_signals, alarm, handlers, running, memory, disk>>

Init ==
  /\ capture = "idle"
  /\ captured = 0
  /\ blocked = {}
  /\ pending_signals = {}
  /\ alarm = TRUE
  /\ handlers = <<>>
  /\ running = TRUE
  /\ packet_data = {}
  /\ unsent_flows = {}
  /\ dns_names = {}
  /\ freed_names = {}
  /\ sequence_number = 0
  /\ files = <<>>
  /\ pending_update = 0
  /\ staged = <<>>

-----------------------------------------------------------------------------
(***************************************************************************)
(* Signals.  A signal that is not masked interrupts what runs before its   *)
(* next step.                                                              *)
(***************************************************************************)
(* Mutant: a signal may interrupt its own handler. *)
loop_mask_only == blocked

Masked == blocked \cup {handlers[i].signal : i \in DOMAIN handlers}
Deliverable == pending_signals \ Masked
Undisturbed == running /\ Deliverable = {}

(* Bound: an alarm in a period without packets is left out. *)
alarm_expires ==
  /\ running
  /\ alarm
  /\ packet_data # {}
  /\ alarm' = FALSE
  /\ pending_signals' = pending_signals \cup {ALRM}
  /\ UNCHANGED <<loop, handlers, running, memory, disk>>

(* Bound: a signal comes again while its handler runs only if no other one *)
(* does.  It stays masked: the handlers of INT and TERM never return.      *)
kill(signal) ==
  /\ running
  /\ signal \notin pending_signals
  /\ (\E i \in DOMAIN handlers : handlers[i].signal = signal) => Len(handlers) = 1
  /\ pending_signals' = pending_signals \cup {signal}
  /\ UNCHANGED <<loop, alarm, handlers, running, memory, disk>>

empty_update == [number |-> 0, packets |-> {}, flows |-> {}]

deliver(signal) ==
  /\ running
  /\ signal \in Deliverable
  /\ pending_signals' = pending_signals \ {signal}
  /\ handlers' = Append(handlers, [signal |-> signal, step |-> "open", file |-> 0,
                                   update |-> empty_update])
  /\ UNCHANGED <<loop, alarm, running, memory, disk>>

-----------------------------------------------------------------------------
(***************************************************************************)
(* process_packet: the flow table, the packet series, the DNS table.       *)
(***************************************************************************)
InLoop == Undisturbed /\ handlers = <<>>

(* Mutant: nothing is blocked. *)
no_block_set == {}

block_set == Signals

begin_packet ==
  /\ InLoop
  /\ capture = "idle"
  /\ captured < MaxPackets
  /\ capture' = "flow"
  /\ captured' = captured + 1
  /\ blocked' = block_set
  /\ UNCHANGED <<pending_signals, alarm, handlers, running, memory, disk>>

process_flow ==
  /\ InLoop
  /\ capture = "flow"
  /\ capture' = "series"
  /\ unsent_flows' = unsent_flows \cup {captured}
  /\ UNCHANGED <<captured, blocked, pending_signals, alarm, handlers, running,
                 packet_data, names, sequence_number, disk>>

add_packet ==
  /\ InLoop
  /\ capture = "series"
  /\ capture' = "dns"
  /\ packet_data' = packet_data \cup {captured}
  /\ UNCHANGED <<captured, blocked, pending_signals, alarm, handlers, running,
                 unsent_flows, names, sequence_number, disk>>

process_dns_packet ==
  /\ InLoop
  /\ capture = "dns"
  /\ capture' = "end"
  /\ dns_names' = dns_names \cup {captured}
  /\ UNCHANGED <<captured, blocked, pending_signals, alarm, handlers, running,
                 packet_data, unsent_flows, freed_names, sequence_number, disk>>

end_packet ==
  /\ InLoop
  /\ capture = "end"
  /\ capture' = "idle"
  /\ blocked' = {}
  /\ UNCHANGED <<captured, pending_signals, alarm, handlers, running, memory,
                 disk>>

-----------------------------------------------------------------------------
(* Mutant: the tables are emptied before the update is staged. *)
reset_first ==
  [open |-> "header", header |-> "packets", packets |-> "flows", flows |-> "names",
   names |-> "close", close |-> "reset", reset |-> "destroy", destroy |-> "init",
   init |-> "rename", rename |-> "increment", increment |-> "finish"]

(* Mutant: the update is staged before it is complete. *)
rename_first ==
  [open |-> "header", header |-> "packets", packets |-> "flows", flows |-> "names",
   names |-> "rename", rename |-> "close", close |-> "increment",
   increment |-> "reset", reset |-> "destroy", destroy |-> "init",
   init |-> "finish"]

(* Mutant: the sequence number is incremented before the update is staged. *)
increment_first ==
  [open |-> "header", header |-> "packets", packets |-> "flows", flows |-> "names",
   names |-> "close", close |-> "increment", increment |-> "rename",
   rename |-> "reset", reset |-> "destroy", destroy |-> "init", init |-> "finish"]

(* The order of the steps of write_update. *)
next_step ==
  [open |-> "header", header |-> "packets", packets |-> "flows", flows |-> "names",
   names |-> "close", close |-> "rename", rename |-> "increment",
   increment |-> "reset", reset |-> "destroy", destroy |-> "init",
   init |-> "finish"]

(* The handler that runs, and the change of its locals with each step. *)
me == handlers[Len(handlers)]
At(step) == Undisturbed /\ handlers # <<>> /\ me.step = step
advance(h) ==
  handlers' = [handlers EXCEPT ![Len(handlers)] = [h EXCEPT !.step = next_step[@]]]
continue(h) == handlers' = [handlers EXCEPT ![Len(handlers)] = h]

new_file == [closed |-> {}, readable |-> {}]

open_update ==
  /\ At("open")
  /\ files' = IF pending_update = 0 THEN Append(files, new_file)
              ELSE [files EXCEPT ![pending_update] = new_file]
  /\ pending_update' = IF pending_update = 0 THEN Len(files) + 1 ELSE pending_update
  /\ advance([me EXCEPT !.file = pending_update'])
  /\ UNCHANGED <<loop, pending_signals, alarm, running, memory, staged>>

(* gzprintf may write what zlib has kept so far: over an update, if another *)
(* handler has closed one into the same file since.                         *)
flush == files' \in {files, [files EXCEPT ![me.file].readable = {}]}

write_header ==
  /\ At("header")
  /\ flush
  /\ advance([me EXCEPT !.update.number = sequence_number])
  /\ UNCHANGED <<loop, pending_signals, alarm, running, memory, pending_update,
                 staged>>

(* The loops over the packet series and over the flow table go on with what *)
(* the tables hold at each turn.                                            *)
PacketsLeft == packet_data \ me.update.packets

write_packet ==
  /\ At("packets")
  /\ flush
  /\ \E packet \in PacketsLeft :
       /\ \A other \in PacketsLeft : packet <= other
       /\ continue([me EXCEPT !.update.packets = @ \cup {packet}])
  /\ UNCHANGED <<loop, pending_signals, alarm, running, memory, pending_update,
                 staged>>

end_packets ==
  /\ At("packets")
  /\ PacketsLeft = {}
  /\ flush
  /\ advance(me)
  /\ UNCHANGED <<loop, pending_signals, alarm, running, memory, pending_update,
                 staged>>

write_flow ==
  /\ At("flows")
  /\ flush
  /\ unsent_flows \cap me.update.flows = {}
  /\ \E flow \in unsent_flows : continue([me EXCEPT !.update.flows = @ \cup {flow}])
  /\ UNCHANGED <<loop, pending_signals, alarm, running, memory, pending_update,
                 staged>>

mark_flow_sent ==
  /\ At("flows")
  /\ unsent_flows \cap me.update.flows # {}
  /\ unsent_flows' = unsent_flows \ me.update.flows
  /\ UNCHANGED <<loop, pending_signals, alarm, handlers, running, packet_data, names,
                 sequence_number, disk>>

end_flows ==
  /\ At("flows")
  /\ unsent_flows = {}
  /\ flush
  /\ advance(me)
  /\ UNCHANGED <<loop, pending_signals, alarm, running, memory, pending_update,
                 staged>>

(* To read or free a name that was freed is undefined: the process may end. *)
use_names == running' \in IF dns_names \cap freed_names = {} THEN {TRUE} ELSE BOOLEAN

write_names ==
  /\ At("names")
  /\ use_names
  /\ flush
  /\ advance(me)
  /\ UNCHANGED <<loop, pending_signals, alarm, memory, pending_update, staged>>

(* The close leaves this update, the one that was there, or neither of them *)
(* to be read, and the handler goes on all the same.                        *)
close_update ==
  /\ At("close")
  /\ \E readable \in {{}, {me.update}, files[me.file].readable} :
       files' = [files EXCEPT ![me.file] = [closed |-> @.closed \cup {me.update},
                                            readable |-> readable]]
  /\ advance(me)
  /\ UNCHANGED <<loop, pending_signals, alarm, running, memory, pending_update,
                 staged>>

(* The name has the sequence number of now, not of the header. *)
rename_update ==
  /\ At("rename")
  /\ pending_update # 0
  /\ staged' = [number \in DOMAIN staged \cup {sequence_number} |->
                  IF number = sequence_number THEN pending_update ELSE staged[number]]
  /\ pending_update' = 0
  /\ advance(me)
  /\ UNCHANGED <<loop, pending_signals, alarm, running, memory, files>>

(* Mutant: the sequence number stays. *)
keep_sequence_number ==
  /\ At("increment")
  /\ advance(me)
  /\ UNCHANGED <<loop, pending_signals, alarm, running, memory, disk>>

increment_sequence_number ==
  /\ At("increment")
  /\ sequence_number' = sequence_number + 1
  /\ advance(me)
  /\ UNCHANGED <<loop, pending_signals, alarm, running, packet_data, unsent_flows,
                 names, disk>>

packet_series_init ==
  /\ At("reset")
  /\ packet_data' = {}
  /\ advance(me)
  /\ UNCHANGED <<loop, pending_signals, alarm, running, unsent_flows, names,
                 sequence_number, disk>>

(* The entries keep their pointers until dns_table_init. *)
dns_table_destroy ==
  /\ At("destroy")
  /\ use_names
  /\ freed_names' = freed_names \cup dns_names
  /\ advance(me)
  /\ UNCHANGED <<loop, pending_signals, alarm, packet_data, unsent_flows, dns_names,
                 sequence_number, disk>>

(* Mutant: the entries stay in the table. *)
keep_dns_entries ==
  /\ At("init")
  /\ advance(me)
  /\ UNCHANGED <<loop, pending_signals, alarm, running, memory, disk>>

dns_table_init ==
  /\ At("init")
  /\ dns_names' = {}
  /\ advance(me)
  /\ UNCHANGED <<loop, pending_signals, alarm, running, packet_data, unsent_flows,
                 freed_names, sequence_number, disk>>

(* Mutant: the alarm is not set again. *)
leave_alarm == alarm' = alarm

set_next_alarm == alarm' = TRUE

return_from_alarm ==
  /\ At("finish")
  /\ me.signal = ALRM
  /\ set_next_alarm
  /\ handlers' = SubSeq(handlers, 1, Len(handlers) - 1)
  /\ UNCHANGED <<loop, pending_signals, running, memory, disk>>

(* SIGINT and SIGTERM end the process; so do failed uploads, after an alarm. *)
exit_from_handler ==
  /\ At("finish")
  /\ running' = FALSE
  /\ UNCHANGED <<loop, pending_signals, alarm, handlers, memory, disk>>

(* Any write may fail; a rename must, once the pending file is gone. *)
exit_on_error ==
  /\ \/ (At("open") \/ At("rename")) /\ UNCHANGED files
     \/ (\E step \in {"header", "packets", "flows", "names"} : At(step)) /\ flush
  /\ running' = FALSE
  /\ UNCHANGED <<loop, pending_signals, alarm, handlers, memory, pending_update,
                 staged>>

write_update ==
  \/ open_update \/ write_header
  \/ write_packet \/ end_packets
  \/ write_flow \/ mark_flow_sent \/ end_flows
  \/ write_names \/ close_update
  \/ rename_update \/ increment_sequence_number
  \/ packet_series_init \/ dns_table_destroy \/ dns_table_init

handle_signals == write_update \/ return_from_alarm \/ exit_from_handler \/ exit_on_error

process_packet == process_flow \/ add_packet \/ process_dns_packet \/ end_packet

Deliver == \E signal \in Signals : deliver(signal)

Next ==
  \/ alarm_expires
  \/ \E signal \in TerminateSignals : kill(signal)
  \/ Deliver
  \/ begin_packet
  \/ process_packet
  \/ handle_signals

Spec == Init /\ [][Next]_vars

(***************************************************************************)
(* The kernel expires alarms and delivers signals, and a process that is   *)
(* not stopped goes on.  Nothing is assumed of packets and of kill.        *)
(***************************************************************************)
FairSpec ==
  /\ Spec
  /\ WF_vars(alarm_expires)
  /\ WF_vars(Deliver)
  /\ WF_vars(process_packet)
  /\ WF_vars(handle_signals)

-----------------------------------------------------------------------------
update_t == [number: Nat, packets: SUBSET Packets, flows: SUBSET Packets]
file_t == [closed: SUBSET update_t, readable: SUBSET update_t]

TypeOK ==
  /\ capture \in {"idle", "flow", "series", "dns", "end"}
  /\ captured \in 0 .. MaxPackets
  /\ blocked \subseteq Signals
  /\ pending_signals \subseteq Signals
  /\ alarm \in BOOLEAN
  /\ \A i \in DOMAIN handlers :
       /\ handlers[i].signal \in Signals
       /\ handlers[i].step \in DOMAIN next_step \cup {"finish"}
       /\ handlers[i].file \in 0 .. Len(files)
       /\ handlers[i].update \in update_t
       /\ \A j \in DOMAIN handlers :
            handlers[i].signal = handlers[j].signal => i = j
  /\ running \in BOOLEAN
  /\ packet_data \subseteq Packets
  /\ unsent_flows \subseteq Packets
  /\ dns_names \subseteq Packets
  /\ freed_names \subseteq Packets
  /\ sequence_number \in Nat
  /\ \A file \in DOMAIN files : files[file] \in file_t
  /\ pending_update \in 0 .. Len(files)
  /\ \A number \in DOMAIN staged : number \in Nat /\ staged[number] \in DOMAIN files

(***************************************************************************)
(* The updates that the uploader can read under a staged name, and those   *)
(* that were closed there, if only to be cut or written over.              *)
(***************************************************************************)
StagedUpdates == UNION {files[staged[number]].readable : number \in DOMAIN staged}
StagedPackets == UNION {u.packets : u \in StagedUpdates}

ClosedUpdates == UNION {files[staged[number]].closed : number \in DOMAIN staged}
ClosedPackets == UNION {u.packets : u \in ClosedUpdates}

(***************************************************************************)
(* Handlers see whole packets: no update has the record of a flow without  *)
(* the packet that brought it.                                             *)
(***************************************************************************)
WholePackets == \A u \in StagedUpdates : u.flows \subseteq u.packets

(***************************************************************************)
(* However handlers nest, fail or exit, there are two ways only for a      *)
(* packet to be neither in the packet series nor in an update that can be  *)
(* read: a handler empties the series after the close of the very update   *)
(* it has staged failed; and a handler of SIGINT or SIGTERM that another   *)
(* one interrupted goes on with a file that the other has staged.          *)
(***************************************************************************)
Kept == packet_data \cup StagedPackets

ResetsAfterCut ==
  /\ At("reset")
  /\ sequence_number - 1 \in DOMAIN staged
  /\ files[staged[sequence_number - 1]].readable = {}

WritesOverStaged ==
  /\ \E step \in {"header", "packets", "flows", "names", "close"} : At(step)
  /\ me.signal \in TerminateSignals
  /\ \E number \in DOMAIN staged : staged[number] = me.file

PacketsKept ==
  [][\A p \in Kept : p \in Kept' \/ ResetsAfterCut \/ WritesOverStaged]_vars

(***************************************************************************)
(* What the uploader finds under a staged name was closed before.          *)
(***************************************************************************)
StagedComplete == \A number \in DOMAIN staged : files[staged[number]].closed # {}

(***************************************************************************)
(* While no handler runs, the staged updates are the exact record of what  *)
(* left the tables: numbered without a gap, one update to a file and under *)
(* its own number, with the flow of every packet, and no packet twice; and *)
(* a file can be read unless the close of its update failed.  A handler    *)
(* that was interrupted by another one never returns to the loop.          *)
(***************************************************************************)
Intact(number) ==
  \E u \in files[staged[number]].closed :
    /\ files[staged[number]].closed = {u}
    /\ files[staged[number]].readable \subseteq {u}
    /\ u.number = number
    /\ u.flows = u.packets
    /\ u.packets \cap packet_data = {}
    /\ \A other \in DOMAIN staged \ {number} :
         \A v \in files[staged[other]].closed : u.packets \cap v.packets = {}

ExactlyOnce ==
  handlers = <<>> =>
    /\ DOMAIN staged = 0 .. sequence_number - 1
    /\ \A number \in DOMAIN staged : Intact(number)

(***************************************************************************)
(* The DNS table's names are read and freed once they are freed only by a  *)
(* handler that runs inside another one: a handler leaves no entry behind  *)
(* that points to a freed name.                                            *)
(***************************************************************************)
NamesFreedOnce ==
  dns_names \cap freed_names # {} /\ (At("names") \/ At("destroy")) =>
    Len(handlers) > 1

(***************************************************************************)
(* Every captured packet gets, in the end, into an update that is closed   *)
(* and staged, or the process exited: no path through the handlers stops   *)
(* the updates.  PacketsKept says which of these cannot be read.           *)
(***************************************************************************)
PacketsDelivered ==
  \A p \in Packets : (p \in packet_data) ~> (p \in ClosedPackets \/ ~running)

(***************************************************************************)
(* The sequence number is incremented with each update: no update is       *)
(* staged under the number of another.                                     *)
(***************************************************************************)
EachUpdateOwnNumber ==
  [][\A number \in DOMAIN staged : staged'[number] = staged[number]]_vars

(***************************************************************************)
(* That takes two handlers, one inside the other.                          *)
(***************************************************************************)
ReplacedByNestedOnly ==
  [][\A number \in DOMAIN staged :
       staged'[number] = staged[number] \/ Len(handlers) > 1]_vars
=============================================================================
