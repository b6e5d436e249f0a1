------------------------ MODULE SignalHandlersProofs ------------------------
(***************************************************************************)
(* Proofs about SignalHandlers, for any set of signals that end the        *)
(* process, any number of packets and any nesting of the handlers.         *)
(***************************************************************************)
EXTENDS SignalHandlers, TLAPS

Steps == DOMAIN next_step \cup {"finish"}
Writing == {"header", "packets", "flows", "names", "close"}

(* Handlers run only between two packets. *)
HandlersBetweenPackets ==
  /\ capture \in {"idle", "flow", "series", "dns", "end"}
  /\ capture # "idle" => handlers = <<>> /\ blocked = Signals /\ captured # 0
  /\ captured \in Nat

(* The tables that a packet fills step by step agree at the end of it. *)
TablesAgree ==
  unsent_flows \subseteq IF capture = "series" THEN packet_data \cup {captured}
                         ELSE packet_data

(***************************************************************************)
(* Only a handler before dns_table_init leaves freed names in the table,   *)
(* and the name of a new packet was never freed.                           *)
(***************************************************************************)
Named == IF capture \in {"flow", "series", "dns"} THEN captured - 1 ELSE captured

NamesKept ==
  /\ dns_names \cup freed_names \subseteq 1 .. Named
  /\ dns_names \cap freed_names # {} =>
       \E i \in DOMAIN handlers : handlers[i].step = "init"

(* What each handler has done, however many others ran since. *)
HandlerProgress(h) ==
  /\ h.signal \in Signals
  /\ h.step \in Steps
  /\ h.file \in 0 .. Len(files)
  /\ h.step \in Writing => h.file > 0
  /\ h.step \in {"open", "header"} => h.update.packets = {}
  /\ h.step \in {"open", "header", "packets"} => h.update.flows = {}
  /\ h.step \in {"flows", "names", "close"} => packet_data \subseteq h.update.packets
  /\ h.step \in Steps \ {"open", "header", "packets", "flows"} => unsent_flows = {}
  /\ h.step \in {"destroy", "init", "finish"} => packet_data = {}
  /\ h.update.flows \subseteq h.update.packets

(* The packets of the period are in the update staged under the number, if *)
(* one can be read there at all.                                           *)
Carried(number) ==
  /\ number \in DOMAIN staged
  /\ \A u \in files[staged[number]].readable : packet_data \subseteq u.packets

(***************************************************************************)
(* The pending file, if there is one, is that of the innermost handler.    *)
(* If it is gone before the handler has renamed it, another one that ran   *)
(* inside it has staged it and emptied the tables.                         *)
(***************************************************************************)
PendingOf(h) ==
  /\ h.step \in {"increment", "reset", "destroy", "init", "finish"} => pending_update = 0
  /\ h.step \in Writing /\ pending_update # 0 =>
       h.file = pending_update /\ files[pending_update] = new_file
  /\ h.step = "rename" /\ pending_update # 0 => files[pending_update].closed = {h.update}
  /\ h.step \in {"packets", "flows", "names", "close", "rename"} /\ pending_update # 0 =>
       h.update.number = sequence_number
  /\ h.step = "packets" /\ pending_update # 0 => h.update.packets \subseteq packet_data
  /\ h.step \in {"flows", "names", "close", "rename"} /\ pending_update # 0 =>
       h.update.packets = packet_data
  /\ h.step \in Writing \cup {"rename"} /\ pending_update = 0 => packet_data = {}
  /\ h.step = "increment" => packet_data = {} \/ Carried(sequence_number)
  /\ h.step = "reset" => packet_data = {} \/ Carried(sequence_number - 1)

FilesKept ==
  /\ \A file \in DOMAIN files :
       /\ files[file].readable \subseteq files[file].closed
       /\ \A u \in files[file].closed : u.flows \subseteq u.packets
  /\ pending_update \in 0 .. Len(files)
  /\ \A number \in DOMAIN staged :
       /\ staged[number] \in DOMAIN files
       /\ staged[number] # pending_update
       /\ files[staged[number]].closed # {}

(* The handler, or one that ran inside it, has incremented the number. *)
Incremented(h) ==
  \/ h.step \in {"reset", "destroy", "init", "finish"}
  \/ pending_update = 0 /\ h.step \in Writing \cup {"rename"}

(***************************************************************************)
(* An update under the present number can be replaced only while the       *)
(* handler that staged it is before its increment, and by packets that are *)
(* all in the packet series still.                                         *)
(***************************************************************************)
StagedCurrent ==
  /\ DOMAIN staged \subseteq 0 .. sequence_number
  /\ sequence_number \in DOMAIN staged =>
       /\ \E i \in DOMAIN handlers : handlers[i].step = "increment"
       /\ ~Incremented(me)
       /\ \A u \in files[staged[sequence_number]].closed : u.packets \subseteq packet_data

update_record == [number: Nat, packets: SUBSET Nat, flows: SUBSET Nat]
handler_record == [signal: Signals, step: Steps, file: Nat, update: update_record]
file_record == [closed: SUBSET update_record, readable: SUBSET update_record]

Shape ==
  /\ handlers \in Seq(handler_record)
  /\ files \in Seq(file_record)
  /\ sequence_number \in Nat
  /\ packet_data \subseteq Nat
  /\ unsent_flows \subseteq Nat

IInv ==
  /\ Shape
  /\ HandlersBetweenPackets
  /\ TablesAgree
  /\ NamesKept
  /\ \A i \in DOMAIN handlers : HandlerProgress(handlers[i])
  /\ handlers # <<>> => PendingOf(me)
  /\ FilesKept
  /\ StagedCurrent

-----------------------------------------------------------------------------
LEMMA StepOrder ==
  /\ DOMAIN next_step = {"open", "header", "packets", "flows", "names", "close",
                         "rename", "increment", "reset", "destroy", "init"}
  /\ next_step["open"] = "header"
  /\ next_step["header"] = "packets"
  /\ next_step["packets"] = "flows"
  /\ next_step["flows"] = "names"
  /\ next_step["names"] = "close"
  /\ next_step["close"] = "rename"
  /\ next_step["rename"] = "increment"
  /\ next_step["increment"] = "reset"
  /\ next_step["reset"] = "destroy"
  /\ next_step["destroy"] = "init"
  /\ next_step["init"] = "finish"
  /\ Steps = {"open", "header", "packets", "flows", "names", "close", "rename",
              "increment", "reset", "destroy", "init", "finish"}
  BY DEF next_step, Steps

LEMMA Innermost ==
  ASSUME IInv, handlers # <<>>
  PROVE  /\ Len(handlers) \in DOMAIN handlers
         /\ me = handlers[Len(handlers)]
         /\ me \in handler_record
         /\ HandlerProgress(me)
         /\ PendingOf(me)
         /\ capture = "idle"
         /\ unsent_flows \subseteq packet_data
         /\ handlers \in Seq(handler_record)
<1>1. handlers \in Seq(handler_record)
  BY DEF IInv, Shape
<1>2. Len(handlers) \in DOMAIN handlers /\ me \in handler_record
  BY <1>1 DEF me
<1>3. HandlerProgress(me) /\ PendingOf(me)
  BY <1>2 DEF IInv, me
<1>4. capture = "idle"
  BY DEF IInv, HandlersBetweenPackets
<1> QED
  BY <1>1, <1>2, <1>3, <1>4 DEF IInv, TablesAgree, me

LEMMA Continue ==
  ASSUME handlers \in Seq(handler_record), handlers # <<>>,
         NEW h \in handler_record, continue(h)
  PROVE  /\ handlers' \in Seq(handler_record)
         /\ handlers' # <<>>
         /\ DOMAIN handlers' = DOMAIN handlers
         /\ Len(handlers') = Len(handlers)
         /\ \A i \in DOMAIN handlers :
              handlers'[i] = IF i = Len(handlers) THEN h ELSE handlers[i]
         /\ me' = h
<1> DEFINE n == Len(handlers)
<1>1. n \in DOMAIN handlers
  OBVIOUS
<1>2. handlers' = [handlers EXCEPT ![n] = h]
  BY DEF continue
<1>3. /\ handlers' \in Seq(handler_record)
      /\ Len(handlers') = n
      /\ DOMAIN handlers' = DOMAIN handlers
      /\ handlers'[n] = h
      /\ \A i \in DOMAIN handlers : i # n => handlers'[i] = handlers[i]
  BY <1>1, <1>2
<1>4. me' = h
  BY <1>3 DEF me
<1> QED
  BY <1>1, <1>3, <1>4

LEMMA Advance ==
  ASSUME handlers \in Seq(handler_record), handlers # <<>>,
         NEW h \in handler_record, h.step \in DOMAIN next_step, advance(h)
  PROVE  \E g \in handler_record :
           /\ continue(g)
           /\ g.signal = h.signal
           /\ g.step = next_step[h.step]
           /\ g.file = h.file
           /\ g.update = h.update
<1> DEFINE g == [h EXCEPT !.step = next_step[@]]
<1>1. next_step[h.step] \in Steps
  BY StepOrder
<1>2. /\ g \in handler_record
      /\ g.signal = h.signal
      /\ g.step = next_step[h.step]
      /\ g.file = h.file
      /\ g.update = h.update
  BY <1>1 DEF handler_record
<1>3. continue(g)
  BY DEF advance, continue
<1> QED
  BY <1>2, <1>3

(***************************************************************************)
(* What a step of the innermost handler may do to the tables for the       *)
(* others to keep their progress.                                          *)
(***************************************************************************)
TablesShrink ==
  /\ packet_data' \subseteq packet_data
  /\ unsent_flows' \subseteq unsent_flows
  /\ unsent_flows' \subseteq packet_data'
  /\ Len(files) <= Len(files')
  /\ files' \in Seq(file_record)
  /\ sequence_number' \in Nat

LEMMA ContinueKeepsIInv ==
  ASSUME IInv, handlers # <<>>, UNCHANGED loop, TablesShrink,
         NEW h \in handler_record, continue(h),
         HandlerProgress(h)', PendingOf(h)', FilesKept', StagedCurrent', NamesKept'
  PROVE  IInv'
<1>1. /\ handlers' \in Seq(handler_record)
      /\ handlers' # <<>>
      /\ DOMAIN handlers' = DOMAIN handlers
      /\ \A i \in DOMAIN handlers : handlers'[i] = handlers[i] \/ handlers'[i] = h
      /\ me' = h
  BY Innermost, Continue
<1>2. Shape'
  BY <1>1 DEF Shape, TablesShrink, IInv
<1>3. HandlersBetweenPackets'
  BY DEF IInv, HandlersBetweenPackets, loop
<1>4. TablesAgree'
  BY Innermost DEF TablesAgree, TablesShrink, loop
<1>5. ASSUME NEW i \in DOMAIN handlers'
      PROVE  HandlerProgress(handlers[i])'
  <2>1. CASE handlers'[i] = h
    BY <2>1 DEF HandlerProgress
  <2>2. CASE handlers'[i] = handlers[i]
    <3>1. HandlerProgress(handlers[i])
      BY <1>1 DEF IInv
    <3>2. Len(files) \in Nat /\ Len(files') \in Nat
      BY DEF IInv, Shape, TablesShrink
    <3> QED
      BY <2>2, <3>1, <3>2 DEF HandlerProgress, TablesShrink
  <2> QED
    BY <1>1, <2>1, <2>2
<1>6. PendingOf(me)'
  BY <1>1 DEF PendingOf, Carried
<1> QED
  BY <1>1, <1>2, <1>3, <1>4, <1>5, <1>6 DEF IInv

(* A handler that is not before dns_table_init leaves the names alone. *)
LEMMA NamesStep ==
  ASSUME IInv, handlers # <<>>, NEW h \in handler_record, continue(h),
         me.step # "init", UNCHANGED <<loop, names>>
  PROVE  NamesKept'
<1>1. /\ DOMAIN handlers' = DOMAIN handlers
      /\ \A i \in DOMAIN handlers :
           handlers'[i] = IF i = Len(handlers) THEN h ELSE handlers[i]
  BY Innermost, Continue
<1>2. \A i \in DOMAIN handlers : handlers[i].step = "init" => i # Len(handlers)
  BY DEF me
<1> QED
  BY <1>1, <1>2 DEF IInv, NamesKept, Named, loop, names

(* The steps up to the rename leave the staged updates of now as they are. *)
LEMMA BeforeRename ==
  ASSUME IInv, handlers # <<>>, NEW h \in handler_record, continue(h),
         me.step \in {"open"} \cup Writing,
         h.step \in Writing \cup {"rename"},
         pending_update' = 0 => pending_update = 0 /\ me.step # "open",
         UNCHANGED <<sequence_number, staged, packet_data>>,
         sequence_number \in DOMAIN staged /\ pending_update' # 0 =>
           files'[staged[sequence_number]].closed = files[staged[sequence_number]].closed
  PROVE  StagedCurrent'
<1>1. /\ DOMAIN handlers' = DOMAIN handlers
      /\ \A i \in DOMAIN handlers :
           handlers'[i] = IF i = Len(handlers) THEN h ELSE handlers[i]
      /\ me' = h
  BY Innermost, Continue
<1>2. DOMAIN staged' \subseteq 0 .. sequence_number'
  BY DEF IInv, StagedCurrent
<1>3. SUFFICES ASSUME sequence_number \in DOMAIN staged
               PROVE  /\ \E i \in DOMAIN handlers' : handlers'[i].step = "increment"
                      /\ ~Incremented(me)'
                      /\ \A u \in files'[staged[sequence_number]].closed :
                           u.packets \subseteq packet_data
  BY <1>2 DEF StagedCurrent
<1>4. /\ ~Incremented(me)
      /\ \A u \in files[staged[sequence_number]].closed : u.packets \subseteq packet_data
  BY <1>3 DEF IInv, StagedCurrent
<1>5. PICK i \in DOMAIN handlers : handlers[i].step = "increment"
  BY <1>3 DEF IInv, StagedCurrent
<1>6. i # Len(handlers)
  BY <1>5 DEF me, Writing
<1>7. handlers'[i].step = "increment" /\ i \in DOMAIN handlers'
  BY <1>1, <1>5, <1>6
<1>8. pending_update' # 0
  BY <1>4 DEF Incremented
<1>9. ~Incremented(me)'
  BY <1>1, <1>8 DEF Incremented, Writing
<1> QED
  BY <1>3, <1>4, <1>7, <1>8, <1>9

-----------------------------------------------------------------------------
(***************************************************************************)
(* The steps that write into the file, and what each does to the handler.  *)
(***************************************************************************)
write_step ==
  \/ write_header \/ write_packet \/ end_packets
  \/ write_flow \/ mark_flow_sent \/ end_flows \/ write_names

HeaderWritten(h) ==
  /\ me.step = "header" /\ h.step = "packets"
  /\ h.update.number = sequence_number
  /\ h.update.packets = me.update.packets
  /\ h.update.flows = me.update.flows
  /\ unsent_flows' = unsent_flows

PacketWritten(h) ==
  /\ me.step = "packets" /\ h.step = "packets"
  /\ h.update.number = me.update.number
  /\ \E packet \in packet_data : h.update.packets = me.update.packets \cup {packet}
  /\ h.update.flows = me.update.flows
  /\ unsent_flows' = unsent_flows

PacketsWritten(h) ==
  /\ me.step = "packets" /\ h.step = "flows"
  /\ packet_data \subseteq me.update.packets
  /\ h.update = me.update
  /\ unsent_flows' = unsent_flows

FlowWritten(h) ==
  /\ me.step = "flows" /\ h.step = "flows"
  /\ h.update.number = me.update.number
  /\ h.update.packets = me.update.packets
  /\ \E flow \in unsent_flows : h.update.flows = me.update.flows \cup {flow}
  /\ unsent_flows' = unsent_flows

FlowMarked(h) ==
  /\ me.step = "flows" /\ h.step = "flows"
  /\ h.update = me.update
  /\ unsent_flows' = unsent_flows \ me.update.flows

FlowsWritten(h) ==
  /\ me.step = "flows" /\ h.step = "names"
  /\ h.update = me.update
  /\ unsent_flows = {} /\ unsent_flows' = {}

NamesWritten(h) ==
  /\ me.step = "names" /\ h.step = "close"
  /\ h.update = me.update
  /\ unsent_flows' = unsent_flows

WriteEffect(h) ==
  /\ continue(h)
  /\ h.signal = me.signal /\ h.file = me.file
  /\ \/ HeaderWritten(h) \/ PacketWritten(h) \/ PacketsWritten(h)
     \/ FlowWritten(h) \/ FlowMarked(h) \/ FlowsWritten(h) \/ NamesWritten(h)

LEMMA WriteStep ==
  ASSUME IInv, write_step
  PROVE  /\ handlers # <<>>
         /\ me.step \in {"header", "packets", "flows", "names"}
         /\ At(me.step)
         /\ flush
         /\ UNCHANGED <<loop, packet_data, names, sequence_number, pending_update, staged>>
         /\ \E h \in handler_record : WriteEffect(h)
<1>1. /\ handlers # <<>>
      /\ me.step \in {"header", "packets", "flows", "names"}
      /\ At(me.step)
  BY DEF write_step, write_header, write_packet, end_packets, write_flow, mark_flow_sent,
         end_flows, write_names, At
<1>2. flush
  BY DEF write_step, write_header, write_packet, end_packets, write_flow, mark_flow_sent,
         end_flows, write_names, flush, disk
<1>3. UNCHANGED <<loop, packet_data, names, sequence_number, pending_update, staged>>
  BY DEF write_step, write_header, write_packet, end_packets, write_flow, mark_flow_sent,
         end_flows, write_names, memory, disk
<1>4. /\ handlers \in Seq(handler_record) /\ me \in handler_record
      /\ Len(handlers) \in DOMAIN handlers /\ me = handlers[Len(handlers)]
      /\ packet_data \subseteq Nat /\ unsent_flows \subseteq Nat /\ sequence_number \in Nat
  BY <1>1, Innermost DEF IInv, Shape
<1>5. \E h \in handler_record : WriteEffect(h)
  <2>1. CASE write_header
    <3> DEFINE h == [me EXCEPT !.update.number = sequence_number]
    <3>1. /\ h \in handler_record /\ h.step = me.step /\ h.signal = me.signal
          /\ h.file = me.file /\ h.update.number = sequence_number
          /\ h.update.packets = me.update.packets /\ h.update.flows = me.update.flows
      BY <1>4 DEF handler_record, update_record
    <3>2. advance(h) /\ me.step = "header" /\ unsent_flows' = unsent_flows
      BY <2>1 DEF write_header, At, memory
    <3> HIDE DEF h
    <3>3. PICK g \in handler_record :
            /\ continue(g) /\ g.signal = h.signal /\ g.step = next_step[h.step]
            /\ g.file = h.file /\ g.update = h.update
      BY <1>1, <1>4, <3>1, <3>2, Advance, StepOrder
    <3> QED
      BY <3>1, <3>2, <3>3, StepOrder DEF WriteEffect, HeaderWritten
  <2>2. CASE write_packet
    <3>1. PICK packet \in PacketsLeft :
            continue([me EXCEPT !.update.packets = @ \cup {packet}])
      BY <2>2 DEF write_packet
    <3> DEFINE h == [me EXCEPT !.update.packets = @ \cup {packet}]
    <3>2. packet \in packet_data /\ packet \in Nat
      BY <1>4, <3>1 DEF PacketsLeft
    <3>3. /\ h \in handler_record /\ h.step = me.step /\ h.signal = me.signal
          /\ h.file = me.file /\ h.update.number = me.update.number
          /\ h.update.packets = me.update.packets \cup {packet}
          /\ h.update.flows = me.update.flows
      BY <1>4, <3>2 DEF handler_record, update_record
    <3>4. continue(h) /\ me.step = "packets" /\ unsent_flows' = unsent_flows
      BY <2>2, <3>1 DEF write_packet, At, memory
    <3> HIDE DEF h
    <3> QED
      BY <3>2, <3>3, <3>4 DEF WriteEffect, PacketWritten
  <2>3. CASE end_packets
    <3>1. /\ advance(me) /\ me.step = "packets" /\ unsent_flows' = unsent_flows
          /\ packet_data \subseteq me.update.packets
      BY <2>3 DEF end_packets, At, memory, PacketsLeft
    <3>2. PICK g \in handler_record :
            /\ continue(g) /\ g.signal = me.signal /\ g.step = next_step[me.step]
            /\ g.file = me.file /\ g.update = me.update
      BY <1>1, <1>4, <3>1, Advance, StepOrder
    <3> QED
      BY <3>1, <3>2, StepOrder DEF WriteEffect, PacketsWritten
  <2>4. CASE write_flow
    <3>1. PICK flow \in unsent_flows :
            continue([me EXCEPT !.update.flows = @ \cup {flow}])
      BY <2>4 DEF write_flow
    <3> DEFINE h == [me EXCEPT !.update.flows = @ \cup {flow}]
    <3>2. flow \in Nat
      BY <1>4, <3>1
    <3>3. /\ h \in handler_record /\ h.step = me.step /\ h.signal = me.signal
          /\ h.file = me.file /\ h.update.number = me.update.number
          /\ h.update.flows = me.update.flows \cup {flow}
          /\ h.update.packets = me.update.packets
      BY <1>4, <3>2 DEF handler_record, update_record
    <3>4. continue(h) /\ me.step = "flows" /\ unsent_flows' = unsent_flows
      BY <2>4, <3>1 DEF write_flow, At, memory
    <3> HIDE DEF h
    <3> QED
      BY <3>1, <3>3, <3>4 DEF WriteEffect, FlowWritten
  <2>5. CASE mark_flow_sent
    <3>1. /\ me.step = "flows" /\ unsent_flows' = unsent_flows \ me.update.flows
          /\ handlers' = handlers
      BY <2>5 DEF mark_flow_sent, At
    <3>2. handlers = [handlers EXCEPT ![Len(handlers)] = me]
      BY <1>4
    <3>3. continue(me)
      BY <3>1, <3>2 DEF continue
    <3> QED
      BY <1>4, <3>1, <3>3 DEF WriteEffect, FlowMarked
  <2>6. CASE end_flows
    <3>1. advance(me) /\ me.step = "flows" /\ unsent_flows = {} /\ unsent_flows' = {}
      BY <2>6 DEF end_flows, At, memory
    <3>2. PICK g \in handler_record :
            /\ continue(g) /\ g.signal = me.signal /\ g.step = next_step[me.step]
            /\ g.file = me.file /\ g.update = me.update
      BY <1>1, <1>4, <3>1, Advance, StepOrder
    <3> QED
      BY <3>1, <3>2, StepOrder DEF WriteEffect, FlowsWritten
  <2>7. CASE write_names
    <3>1. advance(me) /\ me.step = "names" /\ unsent_flows' = unsent_flows
      BY <2>7 DEF write_names, At, memory
    <3>2. PICK g \in handler_record :
            /\ continue(g) /\ g.signal = me.signal /\ g.step = next_step[me.step]
            /\ g.file = me.file /\ g.update = me.update
      BY <1>1, <1>4, <3>1, Advance, StepOrder
    <3> QED
      BY <3>1, <3>2, StepOrder DEF WriteEffect, NamesWritten
  <2> QED
    BY <2>1, <2>2, <2>3, <2>4, <2>5, <2>6, <2>7 DEF write_step
<1> QED
  BY <1>1, <1>2, <1>3, <1>5

(* What the handler may have flushed leaves every file as it was closed. *)
LEMMA Flushed ==
  ASSUME IInv, handlers # <<>>, me.step \in Writing, flush
  PROVE  /\ files' \in Seq(file_record)
         /\ Len(files') = Len(files)
         /\ DOMAIN files' = DOMAIN files
         /\ \A file \in DOMAIN files :
              /\ files'[file].closed = files[file].closed
              /\ files'[file].readable \subseteq files[file].readable
              /\ file # me.file => files'[file] = files[file]
         /\ pending_update # 0 => files'[pending_update] = new_file
<1>1. /\ files \in Seq(file_record)
      /\ me.file \in DOMAIN files
      /\ pending_update # 0 => me.file = pending_update /\ files[pending_update] = new_file
      /\ pending_update \in 0 .. Len(files)
  BY Innermost DEF IInv, Shape, HandlerProgress, PendingOf, FilesKept
<1>2. CASE files' = files
  BY <1>1, <1>2
<1>3. CASE files' = [files EXCEPT ![me.file].readable = {}]
  <2> DEFINE f == me.file
             new == [files[f] EXCEPT !.readable = {}]
  <2>1. files[f] \in file_record
    BY <1>1
  <2>2. new \in file_record /\ new.closed = files[f].closed /\ new.readable = {}
    BY <2>1 DEF file_record
  <2>3. files' = [files EXCEPT ![f] = new]
    BY <1>1, <1>3
  <2>4. files[f] = new_file => new = new_file
    <3>1. files[f] = new_file => new.closed = {}
      BY <2>2 DEF new_file
    <3> HIDE DEF new
    <3> QED
      BY <2>2, <3>1 DEF file_record, new_file
  <2> HIDE DEF new
  <2>5. /\ files' \in Seq(file_record) /\ Len(files') = Len(files)
        /\ DOMAIN files' = DOMAIN files /\ files'[f] = new
        /\ \A file \in DOMAIN files : file # f => files'[file] = files[file]
    BY <1>1, <2>2, <2>3
  <2> QED
    BY <1>1, <2>2, <2>4, <2>5
<1> QED
  BY <1>2, <1>3 DEF flush

LEMMA WriteIInv ==
  ASSUME IInv, write_step
  PROVE  IInv'
<1>1. /\ handlers # <<>>
      /\ me.step \in {"header", "packets", "flows", "names"}
      /\ flush
      /\ UNCHANGED <<loop, packet_data, names, sequence_number, pending_update, staged>>
  BY WriteStep
<1>2. PICK h \in handler_record : WriteEffect(h)
  BY WriteStep
<1>3. me.step \in Writing /\ h.step \in Writing /\ me.step # "init"
  BY <1>1, <1>2 DEF WriteEffect, HeaderWritten, PacketWritten, PacketsWritten, FlowWritten,
                    FlowMarked, FlowsWritten, NamesWritten, Writing
<1>4. /\ files' \in Seq(file_record)
      /\ Len(files') = Len(files)
      /\ DOMAIN files' = DOMAIN files
      /\ \A file \in DOMAIN files :
           /\ files'[file].closed = files[file].closed
           /\ files'[file].readable \subseteq files[file].readable
      /\ pending_update # 0 => files'[pending_update] = new_file
  BY <1>1, <1>3, Flushed
<1>5. /\ me \in handler_record /\ HandlerProgress(me) /\ PendingOf(me)
      /\ unsent_flows \subseteq packet_data
  BY <1>1, Innermost
<1>6. /\ continue(h) /\ h.signal = me.signal /\ h.file = me.file
      /\ unsent_flows' \subseteq unsent_flows
  BY <1>2 DEF WriteEffect, HeaderWritten, PacketWritten, PacketsWritten, FlowWritten,
              FlowMarked, FlowsWritten, NamesWritten
<1>7. TablesShrink
  BY <1>1, <1>4, <1>5, <1>6 DEF TablesShrink, IInv, Shape
<1>8. HandlerProgress(h)'
  <2>1. /\ h.signal \in Signals /\ h.step \in Steps /\ h.file \in 0 .. Len(files')
        /\ h.file > 0
    BY <1>3, <1>4, <1>5, <1>6 DEF HandlerProgress, handler_record
  <2>2. /\ h.step \in {"open", "header"} => h.update.packets = {}
        /\ h.step \in {"open", "header", "packets"} => h.update.flows = {}
        /\ h.step \in {"flows", "names", "close"} => packet_data' \subseteq h.update.packets
        /\ h.step \in Steps \ {"open", "header", "packets", "flows"} => unsent_flows' = {}
        /\ h.update.flows \subseteq h.update.packets
    BY <1>1, <1>2, <1>5, StepOrder
       DEF WriteEffect, HeaderWritten, PacketWritten, PacketsWritten, FlowWritten,
           FlowMarked, FlowsWritten, NamesWritten, HandlerProgress
  <2> QED
    BY <1>3, <2>1, <2>2 DEF HandlerProgress, Writing
<1>9. PendingOf(h)'
  <2>1. pending_update # 0 => h.file = pending_update
    BY <1>3, <1>5, <1>6 DEF PendingOf
  <2>2. pending_update = 0 => packet_data = {}
    BY <1>3, <1>5 DEF PendingOf
  <2>3. pending_update # 0 =>
          /\ h.step \in {"packets", "flows", "names", "close"} =>
               h.update.number = sequence_number
          /\ h.step = "packets" => h.update.packets \subseteq packet_data
          /\ h.step \in {"flows", "names", "close"} => h.update.packets = packet_data
    BY <1>2, <1>5
       DEF WriteEffect, HeaderWritten, PacketWritten, PacketsWritten, FlowWritten,
           FlowMarked, FlowsWritten, NamesWritten, HandlerProgress, PendingOf
  <2> QED
    BY <1>1, <1>3, <1>4, <2>1, <2>2, <2>3 DEF PendingOf, Writing
<1>10. FilesKept'
  BY <1>1, <1>4 DEF IInv, FilesKept
<1>11. StagedCurrent'
  <2>1. sequence_number \in DOMAIN staged =>
          files'[staged[sequence_number]].closed = files[staged[sequence_number]].closed
    BY <1>4 DEF IInv, FilesKept
  <2>2. me.step # "open"
    BY <1>1
  <2> QED
    BY <1>1, <1>3, <1>6, <2>1, <2>2, BeforeRename
<1>12. NamesKept'
  BY <1>1, <1>3, <1>6, NamesStep
<1> QED
  BY <1>1, <1>6, <1>7, <1>8, <1>9, <1>10, <1>11, <1>12, ContinueKeepsIInv

-----------------------------------------------------------------------------
LEMMA OpenUpdateStep ==
  ASSUME IInv, open_update
  PROVE  IInv'
<1>1. /\ handlers # <<>> /\ me.step = "open"
      /\ files' = IF pending_update = 0 THEN Append(files, new_file)
                  ELSE [files EXCEPT ![pending_update] = new_file]
      /\ pending_update' = IF pending_update = 0 THEN Len(files) + 1 ELSE pending_update
      /\ advance([me EXCEPT !.file = pending_update'])
      /\ UNCHANGED <<loop, memory, staged>>
  BY DEF open_update, At
<1>2. /\ me \in handler_record /\ HandlerProgress(me) /\ capture = "idle"
      /\ unsent_flows \subseteq packet_data /\ handlers \in Seq(handler_record)
  BY <1>1, Innermost
<1>3. /\ files \in Seq(file_record) /\ Len(files) \in Nat
      /\ pending_update \in 0 .. Len(files)
      /\ FilesKept
      /\ new_file \in file_record
  BY DEF IInv, Shape, FilesKept, new_file, file_record
<1>4. /\ files' \in Seq(file_record)
      /\ Len(files') \in Nat /\ Len(files) <= Len(files')
      /\ pending_update' \in 1 .. Len(files')
  BY <1>1, <1>3
<1>5. /\ files'[pending_update'] = new_file
      /\ \A file \in DOMAIN files :
           /\ file \in DOMAIN files'
           /\ file # pending_update => file # pending_update' /\ files'[file] = files[file]
      /\ \A file \in DOMAIN files' :
           file = pending_update' \/ (file \in DOMAIN files /\ files'[file] = files[file])
  <2>1. CASE pending_update = 0
    <3> DEFINE n == Len(files)
    <3>1. files' = Append(files, new_file) /\ pending_update' = n + 1
      BY <1>1, <2>1
    <3>2. /\ DOMAIN files = 1 .. n
          /\ DOMAIN files' = 1 .. n + 1
          /\ files'[n + 1] = new_file
      BY <1>3, <3>1
    <3>3. \A file \in 1 .. n : files'[file] = files[file]
      BY <1>3, <3>1
    <3>4. n \in Nat
      BY <1>3
    <3> HIDE DEF n
    <3>5. \A file \in 1 .. n : file \in 1 .. n + 1 /\ file # n + 1
      BY ONLY <3>4
    <3>6. \A file \in 1 .. n + 1 : file = n + 1 \/ file \in 1 .. n
      BY ONLY <3>4
    <3>7. files'[pending_update'] = new_file
      BY ONLY <3>1, <3>2
    <3>8. ASSUME NEW file \in DOMAIN files
          PROVE  /\ file \in DOMAIN files'
                 /\ file # pending_update'
                 /\ files'[file] = files[file]
      <4>1. file \in 1 .. n
        BY ONLY <3>2, <3>8
      <4>2. file \in 1 .. n + 1 /\ file # n + 1 /\ files'[file] = files[file]
        BY ONLY <4>1, <3>3, <3>5
      <4> QED
        BY ONLY <4>2, <3>1, <3>2
    <3>9. ASSUME NEW file \in DOMAIN files'
          PROVE  file = pending_update' \/ (file \in DOMAIN files /\ files'[file] = files[file])
      <4>1. file \in 1 .. n + 1
        BY ONLY <3>2, <3>9
      <4>2. CASE file = n + 1
        BY ONLY <4>2, <3>1
      <4>3. CASE file \in 1 .. n
        BY ONLY <4>3, <3>2, <3>3
      <4> QED
        BY ONLY <4>1, <4>2, <4>3, <3>6
    <3> QED
      BY ONLY <3>7, <3>8, <3>9
  <2>2. CASE pending_update # 0
    <3> DEFINE p == pending_update
    <3>1. /\ files' = [files EXCEPT ![p] = new_file]
          /\ pending_update' = p
          /\ p \in DOMAIN files
      BY <1>1, <1>3, <2>2
    <3> HIDE DEF p
    <3>2. DOMAIN files' = DOMAIN files /\ files'[p] = new_file
      BY ONLY <3>1
    <3>3. \A file \in DOMAIN files : file # p => files'[file] = files[file]
      BY ONLY <3>1
    <3>4. files'[pending_update'] = new_file
      BY ONLY <3>1, <3>2
    <3>5. \A file \in DOMAIN files :
            /\ file \in DOMAIN files'
            /\ file # p => file # pending_update' /\ files'[file] = files[file]
      BY ONLY <3>1, <3>2, <3>3
    <3>6. \A file \in DOMAIN files' :
            file = pending_update' \/ (file \in DOMAIN files /\ files'[file] = files[file])
      <4> SUFFICES ASSUME NEW file \in DOMAIN files', file # pending_update'
                   PROVE  file \in DOMAIN files /\ files'[file] = files[file]
        OBVIOUS
      <4>1. file \in DOMAIN files
        BY <3>2
      <4>2. file # p
        BY <3>1
      <4> QED
        BY <4>1, <4>2, <3>3
    <3> QED
      BY <3>4, <3>5, <3>6 DEF p
  <2> QED
    BY <2>1, <2>2
<1>6. PICK h \in handler_record :
        /\ continue(h) /\ h.signal = me.signal /\ h.step = "header"
        /\ h.file = pending_update' /\ h.update = me.update
  <2> DEFINE g == [me EXCEPT !.file = pending_update']
  <2>1. /\ g \in handler_record /\ g.step = "open" /\ g.signal = me.signal
        /\ g.file = pending_update' /\ g.update = me.update
    BY <1>1, <1>2, <1>4 DEF handler_record
  <2>2. advance(g)
    BY <1>1
  <2> HIDE DEF g
  <2> QED
    BY <1>1, <1>2, <2>1, <2>2, Advance, StepOrder
<1>7. \A number \in DOMAIN staged : files'[staged[number]] = files[staged[number]]
  BY <1>3, <1>5 DEF FilesKept
<1>8. TablesShrink
  BY <1>1, <1>2, <1>4 DEF TablesShrink, memory, IInv, Shape
<1>9. HandlerProgress(h)'
  BY <1>1, <1>2, <1>4, <1>6, StepOrder DEF HandlerProgress, Writing
<1>10. PendingOf(h)'
  BY <1>4, <1>5, <1>6 DEF PendingOf, Writing
<1>11. StagedCurrent'
  <2>1. pending_update' # 0
    BY <1>4
  <2>2. sequence_number \in DOMAIN staged =>
          files'[staged[sequence_number]].closed = files[staged[sequence_number]].closed
    BY <1>7
  <2> QED
    BY <1>1, <1>6, <2>1, <2>2, BeforeRename DEF memory, Writing
<1>12. FilesKept'
  <2>1. new_file.readable = {} /\ new_file.closed = {}
    BY DEF new_file
  <2>2. \A file \in DOMAIN files' :
          /\ files'[file].readable \subseteq files'[file].closed
          /\ \A u \in files'[file].closed : u.flows \subseteq u.packets
    BY <1>3, <1>5, <2>1 DEF FilesKept
  <2>3. \A number \in DOMAIN staged :
          /\ staged[number] \in DOMAIN files /\ staged[number] # pending_update
          /\ files[staged[number]].closed # {}
    BY <1>3 DEF FilesKept
  <2>4. \A number \in DOMAIN staged :
          /\ staged[number] \in DOMAIN files' /\ staged[number] # pending_update'
          /\ files'[staged[number]].closed # {}
    BY <1>5, <2>3
  <2> QED
    BY <1>1, <1>4, <2>2, <2>4 DEF FilesKept
<1>13. NamesKept'
  BY <1>1, <1>6, NamesStep DEF memory
<1> QED
  BY <1>1, <1>6, <1>8, <1>9, <1>10, <1>11, <1>12, <1>13, ContinueKeepsIInv

(* The file that is closed, whoever has staged it in the meantime. *)
LEMMA Closed ==
  ASSUME IInv, close_update
  PROVE  /\ handlers # <<>> /\ me.step = "close" /\ advance(me)
         /\ UNCHANGED <<loop, memory, pending_update, staged>>
         /\ me.file \in DOMAIN files
         /\ files' \in Seq(file_record)
         /\ Len(files') = Len(files)
         /\ DOMAIN files' = DOMAIN files
         /\ files'[me.file].closed = files[me.file].closed \cup {me.update}
         /\ files'[me.file].readable \in {{}, {me.update}, files[me.file].readable}
         /\ \A file \in DOMAIN files : file # me.file => files'[file] = files[file]
<1> DEFINE f == me.file
<1>1. PICK readable \in {{}, {me.update}, files[f].readable} :
        files' = [files EXCEPT ![f] = [closed |-> @.closed \cup {me.update},
                                       readable |-> readable]]
  BY DEF close_update
<1>2. /\ handlers # <<>> /\ me.step = "close" /\ advance(me)
      /\ UNCHANGED <<loop, memory, pending_update, staged>>
  BY DEF close_update, At
<1>3. /\ files \in Seq(file_record) /\ f \in DOMAIN files /\ me.update \in update_record
  BY <1>2, Innermost DEF IInv, Shape, HandlerProgress, handler_record, Writing
<1> DEFINE new == [closed |-> files[f].closed \cup {me.update}, readable |-> readable]
<1>4. files[f] \in file_record
  BY <1>3
<1>5. /\ new \in file_record /\ new.closed = files[f].closed \cup {me.update}
      /\ new.readable = readable
  BY <1>1, <1>3, <1>4 DEF file_record
<1>6. files' = [files EXCEPT ![f] = new]
  BY <1>1, <1>3
<1> HIDE DEF new
<1>7. /\ files' \in Seq(file_record) /\ Len(files') = Len(files)
      /\ DOMAIN files' = DOMAIN files /\ files'[f] = new
      /\ \A file \in DOMAIN files : file # f => files'[file] = files[file]
  BY <1>3, <1>5, <1>6
<1> QED
  BY <1>1, <1>2, <1>3, <1>5, <1>7

LEMMA CloseUpdateStep ==
  ASSUME IInv, close_update
  PROVE  IInv'
<1>1. /\ handlers # <<>> /\ me.step = "close" /\ advance(me)
      /\ UNCHANGED <<loop, memory, pending_update, staged>>
      /\ me.file \in DOMAIN files
      /\ files' \in Seq(file_record)
      /\ Len(files') = Len(files)
      /\ DOMAIN files' = DOMAIN files
      /\ files'[me.file].closed = files[me.file].closed \cup {me.update}
      /\ files'[me.file].readable \in {{}, {me.update}, files[me.file].readable}
      /\ \A file \in DOMAIN files : file # me.file => files'[file] = files[file]
  BY Closed
<1>2. /\ me \in handler_record /\ HandlerProgress(me) /\ PendingOf(me)
      /\ unsent_flows \subseteq packet_data /\ handlers \in Seq(handler_record)
  BY <1>1, Innermost
<1>3. FilesKept /\ pending_update \in 0 .. Len(files) /\ Len(files) \in Nat
  BY DEF IInv, Shape, FilesKept
<1>4. PICK h \in handler_record :
        /\ continue(h) /\ h.signal = me.signal /\ h.step = "rename"
        /\ h.file = me.file /\ h.update = me.update
  BY <1>1, <1>2, Advance, StepOrder
<1>5. TablesShrink
  BY <1>1, <1>2, <1>3 DEF TablesShrink, memory, IInv, Shape
<1>6. HandlerProgress(h)'
  BY <1>1, <1>2, <1>4, StepOrder DEF HandlerProgress, Writing, memory
<1>7. pending_update # 0 => /\ me.file = pending_update
                            /\ files[pending_update] = new_file
                            /\ me.update.number = sequence_number
                            /\ me.update.packets = packet_data
  BY <1>1, <1>2 DEF PendingOf, Writing
<1>8. PendingOf(h)'
  <2>1. pending_update # 0 => files'[pending_update].closed = {me.update}
    BY <1>1, <1>7 DEF new_file
  <2>2. pending_update = 0 => packet_data = {}
    BY <1>1, <1>2 DEF PendingOf, Writing
  <2> QED
    BY <1>1, <1>4, <1>7, <2>1, <2>2 DEF PendingOf, Writing, memory
<1>9. StagedCurrent'
  <2>1. \A number \in DOMAIN staged :
          pending_update # 0 => files'[staged[number]] = files[staged[number]]
    BY <1>1, <1>3, <1>7 DEF FilesKept
  <2>2. sequence_number \in DOMAIN staged /\ pending_update # 0 =>
          files'[staged[sequence_number]].closed = files[staged[sequence_number]].closed
    BY <2>1
  <2>3. me.step \in Writing /\ me.step # "open"
    BY <1>1 DEF Writing
  <2> QED
    BY <1>1, <1>4, <2>2, <2>3, BeforeRename DEF memory
<1>10. FilesKept'
  <2>1. me.update.flows \subseteq me.update.packets
    BY <1>2 DEF HandlerProgress
  <2>2. \A file \in DOMAIN files' :
          /\ files'[file].readable \subseteq files'[file].closed
          /\ \A u \in files'[file].closed : u.flows \subseteq u.packets
    BY <1>1, <1>3, <2>1 DEF FilesKept
  <2>3. \A number \in DOMAIN staged :
          /\ staged[number] \in DOMAIN files /\ staged[number] # pending_update
          /\ files[staged[number]].closed # {}
    BY <1>3 DEF FilesKept
  <2>4. \A number \in DOMAIN staged : files'[staged[number]].closed # {}
    BY <1>1, <2>3
  <2> QED
    BY <1>1, <1>3, <2>2, <2>3, <2>4 DEF FilesKept
<1>11. NamesKept'
  BY <1>1, <1>4, NamesStep DEF memory
<1> QED
  BY <1>1, <1>4, <1>5, <1>6, <1>8, <1>9, <1>10, <1>11, ContinueKeepsIInv

LEMMA RenameUpdateStep ==
  ASSUME IInv, rename_update
  PROVE  IInv'
<1>1. /\ handlers # <<>> /\ me.step = "rename" /\ advance(me)
      /\ pending_update # 0
      /\ staged' = [number \in DOMAIN staged \cup {sequence_number} |->
                      IF number = sequence_number THEN pending_update ELSE staged[number]]
      /\ pending_update' = 0
      /\ UNCHANGED <<loop, memory, files>>
  BY DEF rename_update, At
<1>2. /\ me \in handler_record /\ HandlerProgress(me) /\ PendingOf(me)
      /\ unsent_flows \subseteq packet_data /\ handlers \in Seq(handler_record)
  BY <1>1, Innermost
<1>3. /\ files[pending_update].closed = {me.update}
      /\ me.update.packets = packet_data
  BY <1>1, <1>2 DEF PendingOf
<1>4. PICK h \in handler_record :
        /\ continue(h) /\ h.signal = me.signal /\ h.step = "increment"
        /\ h.file = me.file /\ h.update = me.update
  BY <1>1, <1>2, Advance, StepOrder
<1>5. /\ DOMAIN staged' = DOMAIN staged \cup {sequence_number}
      /\ staged'[sequence_number] = pending_update
      /\ \A number \in DOMAIN staged : number # sequence_number => staged'[number] = staged[number]
  BY <1>1
<1>6. FilesKept /\ pending_update \in DOMAIN files
  BY <1>1 DEF IInv, Shape, FilesKept
<1>7. Carried(sequence_number)'
  <2>1. files[pending_update].readable \subseteq {me.update}
    BY <1>3, <1>6 DEF FilesKept
  <2> QED
    BY <1>1, <1>3, <1>5, <2>1 DEF Carried, memory
<1>8. TablesShrink
  BY <1>1, <1>2 DEF TablesShrink, memory, IInv, Shape
<1>9. HandlerProgress(h)'
  BY <1>1, <1>2, <1>4, StepOrder DEF HandlerProgress, Writing, memory
<1>10. PendingOf(h)'
  BY <1>1, <1>4, <1>7 DEF PendingOf, Writing
<1>11. FilesKept'
  <2>1. \A file \in DOMAIN files : file # 0
    BY DEF IInv, Shape
  <2>2. ASSUME NEW number \in DOMAIN staged'
        PROVE  /\ staged'[number] \in DOMAIN files'
               /\ staged'[number] # pending_update'
               /\ files'[staged'[number]].closed # {}
    <3>1. CASE number = sequence_number
      BY <1>1, <1>3, <1>5, <1>6, <3>1
    <3>2. CASE number # sequence_number
      BY <1>1, <1>5, <1>6, <2>1, <3>2 DEF FilesKept
    <3> QED
      BY <3>1, <3>2
  <2>3. /\ \A file \in DOMAIN files' :
             /\ files'[file].readable \subseteq files'[file].closed
             /\ \A u \in files'[file].closed : u.flows \subseteq u.packets
        /\ pending_update' \in 0 .. Len(files')
    <3>1. files' = files
      BY <1>1
    <3>2. 0 \in 0 .. Len(files)
      BY DEF IInv, Shape
    <3> QED
      BY <1>1, <1>6, <3>1, <3>2 DEF FilesKept
  <2> QED
    BY <2>2, <2>3 DEF FilesKept
<1>12. StagedCurrent'
  <2>1. Len(handlers) \in DOMAIN handlers' /\ handlers'[Len(handlers)].step = "increment"
    BY <1>1, <1>4, Innermost, Continue
  <2>2. ~Incremented(me)'
    BY <1>1, <1>4, Innermost, Continue DEF Incremented, Writing
  <2>3. sequence_number \in Nat /\ DOMAIN staged \subseteq 0 .. sequence_number
    BY DEF IInv, Shape, StagedCurrent
  <2>4. DOMAIN staged' \subseteq 0 .. sequence_number'
    BY <1>1, <1>5, <2>3 DEF memory
  <2>5. \A u \in files'[staged'[sequence_number]].closed : u.packets \subseteq packet_data'
    BY <1>1, <1>3, <1>5 DEF memory
  <2> QED
    BY <1>1, <2>1, <2>2, <2>4, <2>5 DEF StagedCurrent, memory
<1>13. NamesKept'
  BY <1>1, <1>4, NamesStep DEF memory
<1> QED
  BY <1>1, <1>4, <1>8, <1>9, <1>10, <1>11, <1>12, <1>13, ContinueKeepsIInv

LEMMA IncrementStep ==
  ASSUME IInv, increment_sequence_number
  PROVE  IInv'
<1>1. /\ handlers # <<>> /\ me.step = "increment" /\ advance(me)
      /\ sequence_number' = sequence_number + 1
      /\ UNCHANGED <<loop, packet_data, unsent_flows, names, disk>>
  BY DEF increment_sequence_number, At
<1>2. /\ me \in handler_record /\ HandlerProgress(me) /\ PendingOf(me)
      /\ unsent_flows \subseteq packet_data /\ handlers \in Seq(handler_record)
  BY <1>1, Innermost
<1>3. PICK h \in handler_record :
        /\ continue(h) /\ h.signal = me.signal /\ h.step = "reset"
        /\ h.file = me.file /\ h.update = me.update
  BY <1>1, <1>2, Advance, StepOrder
<1>4. sequence_number \in Nat /\ DOMAIN staged \subseteq 0 .. sequence_number
  BY DEF IInv, Shape, StagedCurrent
<1>5. TablesShrink
  BY <1>1, <1>2 DEF TablesShrink, disk, IInv, Shape
<1>6. HandlerProgress(h)' /\ FilesKept'
  BY <1>1, <1>2, <1>3, StepOrder DEF HandlerProgress, FilesKept, Writing, IInv, disk
<1>7. PendingOf(h)'
  <2>1. packet_data = {} \/ Carried(sequence_number)
    BY <1>1, <1>2 DEF PendingOf
  <2>2. sequence_number' - 1 = sequence_number
    BY <1>1, <1>4
  <2>3. packet_data' = {} \/ Carried(sequence_number - 1)'
    BY <1>1, <2>1, <2>2 DEF Carried, disk
  <2>4. pending_update' = 0
    BY <1>1, <1>2 DEF PendingOf, disk
  <2> QED
    BY <1>3, <2>3, <2>4 DEF PendingOf, Writing
<1>8. StagedCurrent'
  <2>1. /\ DOMAIN staged' \subseteq 0 .. sequence_number'
        /\ sequence_number' \notin DOMAIN staged'
    BY <1>1, <1>4 DEF disk
  <2> QED
    BY <2>1 DEF StagedCurrent
<1>9. NamesKept'
  BY <1>1, <1>3, NamesStep
<1> QED
  BY <1>1, <1>3, <1>5, <1>6, <1>7, <1>8, <1>9, ContinueKeepsIInv

(* The steps that empty the tables, after the increment. *)
LEMMA ResetStep ==
  ASSUME IInv, packet_series_init \/ dns_table_destroy \/ dns_table_init
  PROVE  IInv'
<1>1. /\ handlers # <<>> /\ me.step \in {"reset", "destroy", "init"} /\ advance(me)
      /\ packet_data' \in {{}, packet_data}
      /\ UNCHANGED <<loop, unsent_flows, sequence_number, disk>>
  BY DEF packet_series_init, dns_table_destroy, dns_table_init, At
<1>2. /\ me \in handler_record /\ HandlerProgress(me) /\ PendingOf(me)
      /\ handlers \in Seq(handler_record) /\ Len(handlers) \in DOMAIN handlers
      /\ me = handlers[Len(handlers)]
  BY <1>1, Innermost
<1>3. packet_data' = {} /\ unsent_flows = {} /\ pending_update = 0
  <2>1. me.step = "reset" => packet_data' = {}
    BY DEF packet_series_init, dns_table_destroy, dns_table_init, At
  <2>2. me.step \in {"destroy", "init"} => packet_data = {}
    BY <1>2 DEF HandlerProgress
  <2>3. unsent_flows = {} /\ pending_update = 0
    BY <1>1, <1>2, StepOrder DEF HandlerProgress, PendingOf
  <2> QED
    BY <1>1, <2>1, <2>2, <2>3
<1>4. PICK h \in handler_record :
        /\ continue(h) /\ h.signal = me.signal /\ h.step = next_step[me.step]
        /\ h.file = me.file /\ h.update = me.update
  BY <1>1, <1>2, Advance, StepOrder
<1>5. h.step \in {"destroy", "init", "finish"}
  BY <1>1, <1>4, StepOrder
<1>6. TablesShrink
  BY <1>1, <1>3 DEF TablesShrink, disk, IInv, Shape
<1>7. HandlerProgress(h)' /\ FilesKept'
  BY <1>1, <1>2, <1>3, <1>4, <1>5, StepOrder
     DEF HandlerProgress, FilesKept, Writing, IInv, disk
<1>8. PendingOf(h)'
  BY <1>1, <1>3, <1>5 DEF PendingOf, Writing, disk
<1>9. StagedCurrent'
  <2>1. sequence_number \notin DOMAIN staged
    BY <1>1 DEF IInv, StagedCurrent, Incremented
  <2> QED
    BY <1>1, <2>1 DEF IInv, StagedCurrent, disk
<1>10. NamesKept'
  <2>1. CASE packet_series_init
    <3>1. me.step # "init" /\ UNCHANGED <<loop, names>>
      BY <2>1 DEF packet_series_init, At
    <3> QED
      BY <1>1, <1>4, <3>1, NamesStep
  <2>2. CASE dns_table_destroy
    <3>1. me.step = "destroy" /\ freed_names' = freed_names \cup dns_names
          /\ UNCHANGED <<loop, dns_names>>
      BY <2>2 DEF dns_table_destroy, At
    <3>2. Len(handlers) \in DOMAIN handlers' /\ handlers'[Len(handlers)].step = "init"
      BY <1>1, <1>2, <1>4, <3>1, Continue, StepOrder
    <3> QED
      BY <3>1, <3>2 DEF IInv, NamesKept, Named, loop
  <2>3. CASE dns_table_init
    BY <2>3 DEF dns_table_init, IInv, NamesKept, Named, loop
  <2> QED
    BY <2>1, <2>2, <2>3
<1> QED
  BY <1>1, <1>4, <1>6, <1>7, <1>8, <1>9, <1>10, ContinueKeepsIInv

-----------------------------------------------------------------------------
LEMMA ReturnStep ==
  ASSUME IInv, return_from_alarm
  PROVE  IInv'
<1> DEFINE n == Len(handlers) - 1
<1>1. /\ handlers # <<>> /\ me.step = "finish"
      /\ handlers' = SubSeq(handlers, 1, n)
      /\ UNCHANGED <<loop, memory, disk>>
  BY DEF return_from_alarm, At
<1>2. pending_update = 0 /\ packet_data = {}
  BY <1>1, Innermost DEF PendingOf, HandlerProgress
<1>3. handlers \in Seq(handler_record) /\ me = handlers[Len(handlers)]
  BY <1>1, Innermost
<1>4. /\ handlers' \in Seq(handler_record)
      /\ \A i \in DOMAIN handlers' : i \in DOMAIN handlers /\ handlers'[i] = handlers[i]
      /\ \A i \in DOMAIN handlers : i = Len(handlers) \/ i \in DOMAIN handlers'
  BY <1>1, <1>3
<1>5. Shape'
  BY <1>1, <1>4 DEF IInv, Shape, memory, disk
<1>6. HandlersBetweenPackets'
  BY <1>1 DEF IInv, HandlersBetweenPackets, loop
<1>7. TablesAgree' /\ FilesKept'
  BY <1>1 DEF IInv, TablesAgree, FilesKept, loop, memory, disk
<1>8. \A i \in DOMAIN handlers' : HandlerProgress(handlers[i])'
  BY <1>1, <1>4 DEF IInv, HandlerProgress, memory, disk
<1>9. StagedCurrent'
  <2>1. sequence_number \notin DOMAIN staged
    BY <1>1 DEF IInv, StagedCurrent, Incremented
  <2> QED
    BY <1>1, <2>1 DEF IInv, StagedCurrent, memory, disk
<1>10. PendingOf(me)'
  BY <1>1, <1>2 DEF PendingOf, memory, disk
<1>11. NamesKept'
  <2>1. ASSUME NEW i \in DOMAIN handlers, handlers[i].step = "init"
        PROVE  i \in DOMAIN handlers' /\ handlers'[i].step = "init"
    BY <1>1, <1>3, <1>4, <2>1
  <2> QED
    BY <1>1, <2>1 DEF IInv, NamesKept, Named, loop, memory, names
<1> QED
  BY <1>5, <1>6, <1>7, <1>8, <1>9, <1>10, <1>11 DEF IInv

LEMMA DeliverStep ==
  ASSUME IInv, NEW signal \in Signals, deliver(signal)
  PROVE  IInv'
<1> DEFINE h == [signal |-> signal, step |-> "open", file |-> 0, update |-> empty_update]
<1>1. /\ signal \notin Masked
      /\ handlers' = Append(handlers, h)
      /\ UNCHANGED <<loop, memory, disk>>
  BY DEF deliver, Deliverable
<1>2. handlers \in Seq(handler_record)
  BY DEF IInv, Shape
<1>3. /\ h \in handler_record /\ h.signal \in Signals /\ h.step = "open" /\ h.file = 0
      /\ h.update.flows = {} /\ h.update.packets = {}
  BY StepOrder DEF handler_record, update_record, empty_update
<1> HIDE DEF h
<1>4. /\ handlers' \in Seq(handler_record)
      /\ Len(handlers') = Len(handlers) + 1
      /\ handlers'[Len(handlers')] = h
      /\ \A i \in DOMAIN handlers : i \in DOMAIN handlers' /\ handlers'[i] = handlers[i]
      /\ \A i \in DOMAIN handlers' :
           (i \in DOMAIN handlers /\ handlers'[i] = handlers[i]) \/ handlers'[i] = h
  BY <1>1, <1>2, <1>3
<1>5. capture = "idle"
  BY <1>1 DEF IInv, HandlersBetweenPackets, Masked
<1>6. HandlersBetweenPackets'
  BY <1>1, <1>5 DEF IInv, HandlersBetweenPackets, loop
<1>7. Shape' /\ TablesAgree' /\ FilesKept'
  BY <1>1, <1>4 DEF IInv, Shape, TablesAgree, FilesKept, loop, memory, disk
<1>8. ASSUME NEW i \in DOMAIN handlers'
      PROVE  HandlerProgress(handlers[i])'
  <2>1. CASE i \in DOMAIN handlers /\ handlers'[i] = handlers[i]
    BY <1>1, <2>1 DEF IInv, HandlerProgress, memory, disk
  <2>2. CASE handlers'[i] = h
    <3>1. Len(files') \in Nat
      BY <1>7 DEF Shape
    <3> QED
      BY <1>3, <2>2, <3>1, StepOrder DEF HandlerProgress, Writing
  <2> QED
    BY <1>4, <2>1, <2>2
<1>9. PendingOf(me)'
  BY <1>3, <1>4 DEF PendingOf, me, Writing
<1>10. StagedCurrent'
  <2>1. me'.step = "open"
    BY <1>3, <1>4 DEF me
  <2> QED
    BY <1>1, <1>4, <2>1 DEF IInv, StagedCurrent, Incremented, Writing, memory, disk
<1>11. NamesKept'
  BY <1>1, <1>4 DEF IInv, NamesKept, Named, loop, memory, names
<1> QED
  BY <1>6, <1>7, <1>8, <1>9, <1>10, <1>11 DEF IInv

(* The steps of the capture loop: no handler runs. *)
capture_step ==
  begin_packet \/ process_flow \/ add_packet \/ process_dns_packet \/ end_packet

LEMMA CaptureStep ==
  ASSUME IInv, capture_step
  PROVE  IInv'
<1>1. /\ handlers = <<>> /\ handlers' = <<>>
      /\ DOMAIN handlers = {} /\ DOMAIN handlers' = {}
      /\ UNCHANGED <<disk, sequence_number>>
  BY DEF capture_step, begin_packet, process_flow, add_packet, process_dns_packet,
         end_packet, InLoop, memory
<1>2. captured \in Nat
  BY DEF IInv, HandlersBetweenPackets
<1>3. HandlersBetweenPackets'
  BY <1>1, <1>2 DEF IInv, HandlersBetweenPackets, capture_step, begin_packet,
                    process_flow, add_packet, process_dns_packet, end_packet, block_set
<1>4. FilesKept'
  BY <1>1 DEF IInv, FilesKept, disk
<1>5. Shape'
  BY <1>1, <1>2 DEF IInv, Shape, capture_step, begin_packet, process_flow, add_packet,
                    process_dns_packet, end_packet, memory, disk
<1>6. TablesAgree'
  BY DEF IInv, TablesAgree, capture_step, begin_packet, process_flow, add_packet,
         process_dns_packet, end_packet, memory
<1>7. StagedCurrent'
  <2>1. sequence_number \notin DOMAIN staged
    BY <1>1 DEF IInv, StagedCurrent
  <2> QED
    BY <1>1, <2>1 DEF IInv, StagedCurrent, disk
<1>8. NamesKept'
  <2>1. dns_names \cup freed_names \subseteq 1 .. Named /\ dns_names \cap freed_names = {}
    BY <1>1 DEF IInv, NamesKept
  <2>2. CASE begin_packet
    <3>1. Named' = Named /\ UNCHANGED names
      BY <1>2, <2>2 DEF begin_packet, Named, memory
    <3> QED
      BY <2>1, <3>1 DEF NamesKept, names
  <2>3. CASE process_flow \/ add_packet \/ end_packet
    <3>1. Named' = Named /\ UNCHANGED names
      BY <2>3 DEF process_flow, add_packet, end_packet, Named, memory
    <3> QED
      BY <2>1, <3>1 DEF NamesKept, names
  <2>4. CASE process_dns_packet
    <3>1. /\ Named = captured - 1 /\ Named' = captured
          /\ dns_names' = dns_names \cup {captured} /\ freed_names' = freed_names
      BY <2>4 DEF process_dns_packet, Named
    <3>2. captured # 0
      BY <2>4 DEF IInv, HandlersBetweenPackets, process_dns_packet
    <3>3. /\ 1 .. captured - 1 \subseteq 1 .. captured
          /\ captured \notin 1 .. captured - 1 /\ captured \in 1 .. captured
      BY <1>2, <3>2
    <3>4. dns_names' \cup freed_names' \subseteq 1 .. captured
      BY <2>1, <3>1, <3>3
    <3>5. dns_names' \cap freed_names' = {}
      BY <2>1, <3>1, <3>3
    <3> QED
      BY <3>1, <3>4, <3>5 DEF NamesKept
  <2> QED
    BY <2>2, <2>3, <2>4 DEF capture_step
<1> QED
  BY <1>1, <1>3, <1>4, <1>5, <1>6, <1>7, <1>8 DEF IInv

(* No step of the program, and what exit leaves of a file that is open. *)
LEMMA OtherStep ==
  ASSUME IInv, UNCHANGED <<loop, handlers, memory, disk>>
  PROVE  IInv'
  BY DEF IInv, Shape, HandlersBetweenPackets, TablesAgree, NamesKept, Named,
         HandlerProgress, PendingOf, Carried, FilesKept, StagedCurrent, Incremented,
         me, loop, memory, names, disk

LEMMA ErrorStep ==
  ASSUME IInv, exit_on_error
  PROVE  IInv'
<1>1. UNCHANGED <<loop, handlers, memory, pending_update, staged>>
  BY DEF exit_on_error
<1>2. CASE UNCHANGED files
  BY <1>1, <1>2, OtherStep DEF disk
<1>3. CASE flush /\ handlers # <<>> /\ me.step \in {"header", "packets", "flows", "names"}
  <2>1. me.step \in Writing
    BY <1>3 DEF Writing
  <2>2. /\ files' \in Seq(file_record)
        /\ Len(files') = Len(files)
        /\ DOMAIN files' = DOMAIN files
        /\ \A file \in DOMAIN files :
             /\ files'[file].closed = files[file].closed
             /\ files'[file].readable \subseteq files[file].readable
        /\ pending_update # 0 => files'[pending_update] = new_file
    BY <1>3, <2>1, Flushed
  <2>3. me' = me
    BY <1>1 DEF me
  <2>4. PendingOf(me) /\ PendingOf(me)'
    BY <1>1, <1>3, <2>1, <2>2, <2>3, Innermost DEF PendingOf, memory
  <2>5. FilesKept'
    <3>1. FilesKept
      BY DEF IInv
    <3>2. \A file \in DOMAIN files' :
            /\ files'[file].readable \subseteq files'[file].closed
            /\ \A u \in files'[file].closed : u.flows \subseteq u.packets
      BY <2>2, <3>1 DEF FilesKept
    <3>3. \A number \in DOMAIN staged :
            /\ staged[number] \in DOMAIN files'
            /\ staged[number] # pending_update
            /\ files'[staged[number]].closed # {}
      BY <2>2, <3>1 DEF FilesKept
    <3> QED
      BY <1>1, <2>2, <3>1, <3>2, <3>3 DEF FilesKept
  <2>6. StagedCurrent'
    BY <1>1, <2>2, <2>3 DEF IInv, StagedCurrent, FilesKept, Incremented, memory
  <2>7. \A i \in DOMAIN handlers' : HandlerProgress(handlers[i])'
    BY <1>1, <2>2 DEF IInv, HandlerProgress, memory
  <2>8. /\ Shape' /\ HandlersBetweenPackets' /\ TablesAgree' /\ NamesKept'
    BY <1>1, <2>2 DEF IInv, Shape, HandlersBetweenPackets, TablesAgree, NamesKept, Named,
                      loop, memory, names
  <2> QED
    BY <2>4, <2>5, <2>6, <2>7, <2>8 DEF IInv
<1> QED
  BY <1>2, <1>3 DEF exit_on_error, At

LEMMA InitIInv == Init => IInv
  BY DEF Init, IInv, Shape, HandlersBetweenPackets, TablesAgree, NamesKept, Named,
         HandlerProgress, PendingOf, FilesKept, StagedCurrent

LEMMA StepIInv == IInv /\ [Next]_vars => IInv'
<1> SUFFICES ASSUME IInv, [Next]_vars PROVE IInv'
  OBVIOUS
<1>1. CASE alarm_expires \/ (\E signal \in TerminateSignals : kill(signal))
  BY <1>1, OtherStep DEF alarm_expires, kill
<1>2. CASE Deliver
  BY <1>2, DeliverStep DEF Deliver
<1>3. CASE begin_packet \/ process_packet
  BY <1>3, CaptureStep DEF process_packet, capture_step
<1>4. CASE write_update
  BY <1>4, WriteIInv, OpenUpdateStep, CloseUpdateStep, RenameUpdateStep, IncrementStep,
     ResetStep DEF write_update, write_step
<1>5. CASE return_from_alarm
  BY <1>5, ReturnStep
<1>6. CASE exit_from_handler \/ UNCHANGED vars
  BY <1>6, OtherStep DEF exit_from_handler, vars
<1>7. CASE exit_on_error
  BY <1>7, ErrorStep
<1> QED
  BY <1>1, <1>2, <1>3, <1>4, <1>5, <1>6, <1>7 DEF Next, handle_signals

LEMMA IInvHolds == Spec => []IInv
  BY InitIInv, StepIInv, PTL DEF Spec

(***************************************************************************)
(* However the handlers of main.c nest, fail or exit: an update that can   *)
(* be read under a staged name has whole packets only, and a file gets     *)
(* such a name only after a close; and a handler finds a freed name in the *)
(* DNS table only when it runs inside another one.                         *)
(***************************************************************************)
THEOREM SignalHandlersSafe ==
  Spec => [](WholePackets /\ StagedComplete /\ NamesFreedOnce)
<1>1. IInv => WholePackets /\ StagedComplete /\ NamesFreedOnce
  <2> SUFFICES ASSUME IInv PROVE WholePackets /\ StagedComplete /\ NamesFreedOnce
    OBVIOUS
  <2>1. WholePackets
    BY DEF IInv, FilesKept, WholePackets, StagedUpdates
  <2>2. StagedComplete
    BY DEF IInv, FilesKept, StagedComplete
  <2>3. NamesFreedOnce
    <3> SUFFICES ASSUME dns_names \cap freed_names # {}, At("names") \/ At("destroy")
                 PROVE  Len(handlers) > 1
      BY DEF NamesFreedOnce
    <3>1. PICK i \in DOMAIN handlers : handlers[i].step = "init"
      BY DEF IInv, NamesKept
    <3>2. i # Len(handlers)
      BY <3>1 DEF At, me
    <3> QED
      BY <3>1, <3>2 DEF IInv, Shape
  <2> QED
    BY <2>1, <2>2, <2>3
<1> QED
  BY <1>1, IInvHolds, PTL

(* A packet of a staged update has its flow, whichever signal came when. *)
THEOREM SignalHandlersWhole == Spec => []WholePackets
  BY SignalHandlersSafe, PTL

(* main.c:371-380: what is staged was closed. *)
THEOREM SignalHandlersStaged == Spec => []StagedComplete
  BY SignalHandlersSafe, PTL

(* main.c:389-390: only a nested handler comes between destroy and init. *)
THEOREM SignalHandlersNames == Spec => []NamesFreedOnce
  BY SignalHandlersSafe, PTL

-----------------------------------------------------------------------------
(***************************************************************************)
(* Types.  The handlers have distinct signals, as each one's is masked     *)
(* while it runs; a packet between begin_packet and end_packet is one of   *)
(* the packets captured.                                                   *)
(***************************************************************************)
HandlersTyped ==
  \A i \in DOMAIN handlers :
    /\ handlers[i].update \in update_t
    /\ \A j \in DOMAIN handlers : handlers[i].signal = handlers[j].signal => i = j

SignalsTyped ==
  /\ blocked \subseteq Signals
  /\ pending_signals \subseteq Signals
  /\ alarm \in BOOLEAN
  /\ running \in BOOLEAN

TablesTyped ==
  /\ captured \in 0 .. MaxPackets
  /\ capture # "idle" => captured \in Packets
  /\ packet_data \subseteq Packets
  /\ unsent_flows \subseteq Packets
  /\ dns_names \subseteq Packets
  /\ freed_names \subseteq Packets

FilesTyped ==
  /\ \A file \in DOMAIN files : files[file] \in file_t
  /\ \A number \in DOMAIN staged : number \in Nat

TInv == SignalsTyped /\ HandlersTyped /\ TablesTyped /\ FilesTyped

LEMMA ContinueKeepsTypes ==
  ASSUME IInv, HandlersTyped, handlers # <<>>, NEW h \in handler_record,
         h.signal = me.signal, h.update \in update_t, continue(h)
  PROVE  HandlersTyped'
<1> DEFINE n == Len(handlers)
<1>1. n \in DOMAIN handlers /\ me = handlers[n]
  BY Innermost
<1>2. /\ DOMAIN handlers' = DOMAIN handlers
      /\ \A i \in DOMAIN handlers :
           handlers'[i] = IF i = n THEN h ELSE handlers[i]
  BY Innermost, Continue
<1>3. \A i \in DOMAIN handlers :
        handlers'[i].signal = handlers[i].signal /\ handlers'[i].update \in update_t
  BY <1>1, <1>2 DEF HandlersTyped
<1> QED
  BY <1>2, <1>3 DEF HandlersTyped

LEMMA FlushedTypes ==
  ASSUME FilesTyped, flush, staged' = staged
  PROVE  FilesTyped'
<1>1. CASE files' = files
  BY <1>1 DEF FilesTyped
<1>2. CASE files' = [files EXCEPT ![me.file].readable = {}]
  <2>1. DOMAIN files' = DOMAIN files
    BY <1>2
  <2>2. ASSUME NEW file \in DOMAIN files PROVE files'[file] \in file_t
    <3>1. files[file] \in file_t
      BY DEF FilesTyped
    <3>2. files'[file] = files[file] \/ files'[file] = [files[file] EXCEPT !.readable = {}]
      BY <1>2
    <3> QED
      BY <3>1, <3>2 DEF file_t
  <2> QED
    BY <2>1, <2>2 DEF FilesTyped
<1> QED
  BY <1>1, <1>2 DEF flush

LEMMA WriteTypes ==
  ASSUME IInv, TInv, write_step
  PROVE  TInv'
<1>1. /\ handlers # <<>> /\ flush
      /\ UNCHANGED <<loop, packet_data, names, sequence_number, pending_update, staged>>
  BY WriteStep
<1>2. PICK h \in handler_record : WriteEffect(h)
  BY WriteStep
<1>3. /\ me \in handler_record /\ sequence_number \in Nat
      /\ me = handlers[Len(handlers)] /\ Len(handlers) \in DOMAIN handlers
  BY <1>1, Innermost DEF IInv, Shape
<1>4. me.update \in update_t /\ packet_data \subseteq Packets /\ unsent_flows \subseteq Packets
  BY <1>3 DEF TInv, HandlersTyped, TablesTyped
<1>5. /\ continue(h) /\ h.signal = me.signal
      /\ unsent_flows' \subseteq unsent_flows
  BY <1>2 DEF WriteEffect, HeaderWritten, PacketWritten, PacketsWritten, FlowWritten,
              FlowMarked, FlowsWritten, NamesWritten
<1>6. h.update \in update_t
  <2>1. /\ h.update.number \in Nat /\ h.update.packets \subseteq Packets
        /\ h.update.flows \subseteq Packets
    BY <1>2, <1>3, <1>4
       DEF update_t, WriteEffect, HeaderWritten, PacketWritten, PacketsWritten, FlowWritten,
           FlowMarked, FlowsWritten, NamesWritten
  <2>2. h.update \in update_record
    BY DEF handler_record
  <2> QED
    BY <2>1, <2>2 DEF update_record, update_t
<1>7. HandlersTyped'
  BY <1>1, <1>5, <1>6, ContinueKeepsTypes DEF TInv
<1>8. FilesTyped'
  BY <1>1, FlushedTypes DEF TInv
<1>9. TablesTyped'
  BY <1>1, <1>5 DEF TInv, TablesTyped, loop, names
<1>10. SignalsTyped'
  BY DEF write_step, write_header, write_packet, end_packets, write_flow, mark_flow_sent,
         end_flows, write_names, use_names, TInv, SignalsTyped, loop
<1> QED
  BY <1>7, <1>8, <1>9, <1>10 DEF TInv

(* The steps of write_update that write nothing into a file but its end. *)
LEMMA UpdateTypes ==
  ASSUME IInv, TInv,
         open_update \/ close_update \/ rename_update \/ increment_sequence_number
           \/ packet_series_init \/ dns_table_destroy \/ dns_table_init
  PROVE  TInv'
<1>1. handlers # <<>> /\ me.step \in DOMAIN next_step
  BY StepOrder
     DEF open_update, close_update, rename_update, increment_sequence_number,
         packet_series_init, dns_table_destroy, dns_table_init, At
<1>2. /\ me \in handler_record /\ handlers \in Seq(handler_record)
      /\ me = handlers[Len(handlers)] /\ Len(handlers) \in DOMAIN handlers
      /\ files \in Seq(file_record) /\ pending_update \in 0 .. Len(files)
      /\ sequence_number \in Nat
  BY <1>1, Innermost DEF IInv, Shape, FilesKept
<1>3. me.update \in update_t
  BY <1>2 DEF TInv, HandlersTyped
<1>4. SignalsTyped'
  BY DEF open_update, close_update, rename_update, increment_sequence_number,
         packet_series_init, dns_table_destroy, dns_table_init, use_names, TInv,
         SignalsTyped, loop
<1>5. TablesTyped'
  BY DEF open_update, close_update, rename_update, increment_sequence_number,
         packet_series_init, dns_table_destroy, dns_table_init, TInv, TablesTyped, loop,
         memory, names
<1>6. FilesTyped'
  <2>1. CASE open_update
    <3>1. new_file \in file_t
      BY DEF new_file, file_t
    <3>2. \A file \in DOMAIN files' : files'[file] \in file_t
      BY <1>2, <2>1, <3>1 DEF open_update, TInv, FilesTyped
    <3> QED
      BY <2>1, <3>2 DEF open_update, TInv, FilesTyped
  <2>2. CASE close_update
    <3>1. PICK readable \in {{}, {me.update}, files[me.file].readable} :
            files' = [files EXCEPT ![me.file] = [closed |-> @.closed \cup {me.update},
                                                 readable |-> readable]]
      BY <2>2 DEF close_update
    <3>2. me.file \in DOMAIN files /\ DOMAIN files' = DOMAIN files
      BY <2>2, Closed
    <3>3. files[me.file] \in file_t
      BY <3>2 DEF TInv, FilesTyped
    <3> DEFINE new == [closed |-> files[me.file].closed \cup {me.update},
                       readable |-> readable]
    <3>4. new \in file_t
      BY <1>3, <3>1, <3>3 DEF file_t
    <3>5. files' = [files EXCEPT ![me.file] = new]
      BY <3>1, <3>2
    <3> HIDE DEF new
    <3>6. \A file \in DOMAIN files' : files'[file] \in file_t
      BY <3>2, <3>4, <3>5 DEF TInv, FilesTyped
    <3>7. staged' = staged
      BY <2>2 DEF close_update
    <3> QED
      BY <3>6, <3>7 DEF TInv, FilesTyped
  <2>3. CASE rename_update
    BY <1>2, <2>3 DEF rename_update, TInv, FilesTyped
  <2>4. CASE increment_sequence_number \/ packet_series_init \/ dns_table_destroy
             \/ dns_table_init
    BY <2>4 DEF increment_sequence_number, packet_series_init, dns_table_destroy,
                dns_table_init, TInv, FilesTyped, disk
  <2> QED
    BY <2>1, <2>2, <2>3, <2>4
<1>7. HandlersTyped'
  <2> SUFFICES \E h \in handler_record :
                 h.signal = me.signal /\ h.update \in update_t /\ continue(h)
    BY <1>1, ContinueKeepsTypes DEF TInv
  <2>1. CASE open_update
    <3> DEFINE h == [me EXCEPT !.file = pending_update']
    <3>1. pending_update' \in Nat /\ advance(h)
      BY <1>2, <2>1 DEF open_update
    <3>2. /\ h \in handler_record /\ h.signal = me.signal /\ h.update = me.update
          /\ h.step = me.step
      BY <1>2, <3>1 DEF handler_record
    <3> HIDE DEF h
    <3> QED
      BY <1>1, <1>2, <1>3, <3>1, <3>2, Advance
  <2>2. CASE close_update \/ rename_update \/ increment_sequence_number
             \/ packet_series_init \/ dns_table_destroy \/ dns_table_init
    <3>1. advance(me)
      BY <2>2 DEF close_update, rename_update, increment_sequence_number,
                  packet_series_init, dns_table_destroy, dns_table_init
    <3> QED
      BY <1>1, <1>2, <1>3, <3>1, Advance
  <2> QED
    BY <2>1, <2>2
<1> QED
  BY <1>4, <1>5, <1>6, <1>7 DEF TInv

LEMMA ReturnTypes ==
  ASSUME IInv, TInv, return_from_alarm
  PROVE  TInv'
<1>1. handlers \in Seq(handler_record) /\ handlers # <<>>
  BY DEF IInv, Shape, return_from_alarm, At
<1>2. handlers' = SubSeq(handlers, 1, Len(handlers) - 1)
  BY DEF return_from_alarm
<1>3. \A i \in DOMAIN handlers' : i \in DOMAIN handlers /\ handlers'[i] = handlers[i]
  BY <1>1, <1>2
<1>4. HandlersTyped'
  BY <1>3 DEF TInv, HandlersTyped
<1> QED
  BY <1>4 DEF return_from_alarm, set_next_alarm, TInv, SignalsTyped, TablesTyped,
              FilesTyped, loop, memory, names, disk

(* A handler starts for a signal that no running handler has. *)
LEMMA DeliverTypes ==
  ASSUME IInv, TInv, NEW signal \in Signals, deliver(signal)
  PROVE  TInv'
<1> DEFINE h == [signal |-> signal, step |-> "open", file |-> 0, update |-> empty_update]
<1>1. handlers \in Seq(handler_record)
  BY DEF IInv, Shape
<1>2. /\ handlers' = Append(handlers, h)
      /\ \A i \in DOMAIN handlers : handlers[i].signal # signal
  BY DEF deliver, Deliverable, Masked
<1>3. h.signal = signal /\ h.update \in update_t /\ h \in handler_record
  BY StepOrder DEF update_t, update_record, handler_record, empty_update
<1> HIDE DEF h
<1>4. /\ DOMAIN handlers' = DOMAIN handlers \cup {Len(handlers) + 1}
      /\ handlers'[Len(handlers) + 1] = h
      /\ \A i \in DOMAIN handlers : handlers'[i] = handlers[i]
  BY <1>1, <1>2, <1>3
<1>5. HandlersTyped'
  BY <1>2, <1>3, <1>4 DEF TInv, HandlersTyped
<1> QED
  BY <1>5 DEF deliver, TInv, SignalsTyped, TablesTyped, FilesTyped, loop, memory, names,
              disk

LEMMA CaptureTypes ==
  ASSUME IInv, TInv, begin_packet \/ process_packet
  PROVE  TInv'
<1>1. MaxPackets \in Nat
  BY SignalHandlersAssumption
<1>2. TablesTyped'
  <2>1. CASE begin_packet
    <3>1. captured' \in Packets
      BY <1>1, <2>1 DEF begin_packet, TInv, TablesTyped, Packets
    <3> QED
      BY <1>1, <2>1, <3>1 DEF begin_packet, TInv, TablesTyped, Packets, memory, names
  <2>2. CASE process_packet
    <3>1. captured \in Packets
      BY <2>2 DEF process_packet, process_flow, add_packet, process_dns_packet,
                  end_packet, TInv, TablesTyped
    <3> QED
      BY <2>2, <3>1 DEF process_packet, process_flow, add_packet, process_dns_packet,
                        end_packet, TInv, TablesTyped, memory, names
  <2> QED
    BY <2>1, <2>2
<1>3. SignalsTyped' /\ FilesTyped' /\ UNCHANGED handlers
  BY DEF TInv, SignalsTyped, FilesTyped, begin_packet, process_packet, process_flow,
         add_packet, process_dns_packet, end_packet, block_set, disk
<1> QED
  BY <1>2, <1>3 DEF TInv, HandlersTyped

LEMMA OtherTypes ==
  ASSUME TInv, UNCHANGED <<loop, handlers, memory, staged>>, FilesTyped', SignalsTyped'
  PROVE  TInv'
  BY DEF TInv, HandlersTyped, TablesTyped, loop, memory, names

LEMMA StepTypes == IInv /\ TInv /\ [Next]_vars => TInv'
<1> SUFFICES ASSUME IInv, TInv, [Next]_vars PROVE TInv'
  OBVIOUS
<1>1. CASE alarm_expires \/ (\E signal \in TerminateSignals : kill(signal))
  <2>1. SignalsTyped' /\ FilesTyped'
    BY <1>1 DEF alarm_expires, kill, TInv, SignalsTyped, FilesTyped, loop, disk, Signals
  <2> QED
    BY <1>1, <2>1, OtherTypes DEF alarm_expires, kill, disk
<1>2. CASE Deliver
  BY <1>2, DeliverTypes DEF Deliver
<1>3. CASE begin_packet \/ process_packet
  BY <1>3, CaptureTypes
<1>4. CASE write_update
  BY <1>4, WriteTypes, UpdateTypes DEF write_update, write_step
<1>5. CASE return_from_alarm
  BY <1>5, ReturnTypes
<1>6. CASE exit_from_handler \/ UNCHANGED vars
  <2>1. SignalsTyped' /\ FilesTyped'
    BY <1>6 DEF exit_from_handler, vars, TInv, SignalsTyped, FilesTyped, loop, disk
  <2> QED
    BY <1>6, <2>1, OtherTypes DEF exit_from_handler, vars, disk
<1>7. CASE exit_on_error
  <2>1. SignalsTyped'
    BY <1>7 DEF exit_on_error, TInv, SignalsTyped, loop
  <2>2. FilesTyped'
    BY <1>7, FlushedTypes DEF exit_on_error, flush, TInv
  <2> QED
    BY <1>7, <2>1, <2>2, OtherTypes DEF exit_on_error
<1> QED
  BY <1>1, <1>2, <1>3, <1>4, <1>5, <1>6, <1>7 DEF Next, handle_signals

LEMMA InitTypes == Init => TInv
  BY SignalHandlersAssumption
     DEF Init, TInv, SignalsTyped, HandlersTyped, TablesTyped, FilesTyped

(***************************************************************************)
(* Every variable of the handlers keeps its type, and no signal has two    *)
(* handlers at once, for any set of signals that end the process.          *)
(***************************************************************************)
THEOREM SignalHandlersTypes == Spec => []TypeOK
<1>1. IInv /\ TInv => TypeOK
  <2> SUFFICES ASSUME IInv, TInv PROVE TypeOK
    OBVIOUS
  <2>1. \A i \in DOMAIN handlers :
          /\ handlers[i].signal \in Signals
          /\ handlers[i].step \in DOMAIN next_step \cup {"finish"}
          /\ handlers[i].file \in 0 .. Len(files)
    BY DEF IInv, HandlerProgress, Steps
  <2>2. \A number \in DOMAIN staged : number \in Nat /\ staged[number] \in DOMAIN files
    BY DEF IInv, FilesKept, TInv, FilesTyped
  <2>3. alarm \in BOOLEAN /\ running \in BOOLEAN
    BY DEF TInv, SignalsTyped
  <2>4. /\ capture \in {"idle", "flow", "series", "dns", "end"}
        /\ captured \in 0 .. MaxPackets
        /\ blocked \subseteq Signals /\ pending_signals \subseteq Signals
        /\ packet_data \subseteq Packets /\ unsent_flows \subseteq Packets
        /\ dns_names \subseteq Packets /\ freed_names \subseteq Packets
        /\ sequence_number \in Nat /\ pending_update \in 0 .. Len(files)
        /\ \A file \in DOMAIN files : files[file] \in file_t
    BY DEF IInv, Shape, HandlersBetweenPackets, FilesKept, TInv, SignalsTyped,
           TablesTyped, FilesTyped
  <2>5. HandlersTyped
    BY DEF TInv
  <2> QED
    BY <2>1, <2>2, <2>3, <2>4, <2>5, Zenon DEF TypeOK, HandlersTyped
<1>2. Spec => [](IInv /\ TInv)
  BY InitTypes, InitIInv, StepIInv, StepTypes, PTL DEF Spec
<1> QED
  BY <1>1, <1>2, PTL

-----------------------------------------------------------------------------
(***************************************************************************)
(* The only step that changes a staged name is rename_update, and under a  *)
(* number that is taken only inside the handler that took it.              *)
(***************************************************************************)
LEMMA StepReplaces ==
  ASSUME IInv, [Next]_vars, NEW number \in DOMAIN staged, staged'[number] # staged[number]
  PROVE  Len(handlers) > 1
<1>1. rename_update
  <2>1. ~write_step
    BY WriteStep
  <2> QED
    BY <2>1 DEF Next, vars, alarm_expires, kill, Deliver, deliver, begin_packet,
           process_packet, process_flow, add_packet, process_dns_packet, end_packet,
           handle_signals, write_update, write_step, open_update, close_update,
           increment_sequence_number, packet_series_init, dns_table_destroy,
           dns_table_init, return_from_alarm, exit_from_handler, exit_on_error, disk
<1>2. handlers # <<>> /\ me.step = "rename" /\ number = sequence_number
  BY <1>1 DEF rename_update, At
<1>3. PICK i \in DOMAIN handlers : handlers[i].step = "increment"
  BY <1>2 DEF IInv, StagedCurrent
<1>4. i # Len(handlers)
  BY <1>2, <1>3 DEF me
<1> QED
  BY <1>3, <1>4 DEF IInv, Shape

(***************************************************************************)
(* The number of one update is given to another only while one handler     *)
(* runs inside another (main.c:380-385): write_update alone never does it. *)
(***************************************************************************)
THEOREM SignalHandlersReplace == Spec => ReplacedByNestedOnly
<1>1. IInv /\ [Next]_vars =>
        [\A number \in DOMAIN staged :
           staged'[number] = staged[number] \/ Len(handlers) > 1]_vars
  BY StepReplaces
<1> QED
  BY <1>1, IInvHolds, PTL DEF Spec, ReplacedByNestedOnly

-----------------------------------------------------------------------------
(***************************************************************************)
(* The handler of SIGALRM always has its pending file until the rename:    *)
(* the handlers that can run inside it, those of other signals, exit.      *)
(***************************************************************************)
AlarmsPending ==
  handlers # <<>> /\ me.signal = ALRM /\ me.step \in Writing \cup {"rename"} =>
    pending_update # 0

LEMMA InitAlarms == Init => AlarmsPending
  BY DEF Init, AlarmsPending

LEMMA StepAlarms == IInv /\ TInv /\ AlarmsPending /\ [Next]_vars => AlarmsPending'
<1> SUFFICES ASSUME IInv, TInv, AlarmsPending, [Next]_vars PROVE AlarmsPending'
  OBVIOUS
<1>1. CASE write_step
  <2>1. PICK h \in handler_record : WriteEffect(h)
    BY <1>1, WriteStep
  <2>2. /\ handlers # <<>> /\ pending_update' = pending_update
        /\ me.step \in {"header", "packets", "flows", "names"}
    BY <1>1, WriteStep
  <2>3. me' = h /\ h.signal = me.signal
    BY <2>1, <2>2, Innermost, Continue DEF WriteEffect
  <2> QED
    BY <2>2, <2>3 DEF AlarmsPending, Writing
<1>2. CASE open_update
  <2>1. pending_update' # 0
    <3>1. Len(files) \in Nat
      BY DEF IInv, Shape
    <3> QED
      BY <1>2, <3>1 DEF open_update
  <2> QED
    BY <2>1 DEF AlarmsPending
<1>3. CASE close_update \/ rename_update \/ increment_sequence_number
           \/ packet_series_init \/ dns_table_destroy \/ dns_table_init
  <2>1. handlers # <<>> /\ advance(me) /\ me.step \in DOMAIN next_step
    BY <1>3, StepOrder
       DEF close_update, rename_update, increment_sequence_number, packet_series_init,
           dns_table_destroy, dns_table_init, At
  <2>2. me'.step = next_step[me.step] /\ me'.signal = me.signal
    BY <2>1, Innermost, Advance, Continue
  <2>3. CASE close_update
    BY <2>2, <2>3, StepOrder DEF AlarmsPending, Writing, close_update, At
  <2>4. CASE ~close_update
    <3>1. me.step \in {"rename", "increment", "reset", "destroy", "init"}
      BY <1>3, <2>4 DEF rename_update, increment_sequence_number, packet_series_init,
                        dns_table_destroy, dns_table_init, At
    <3>2. me'.step \notin Writing \cup {"rename"}
      BY <2>2, <3>1, StepOrder DEF Writing
    <3> QED
      BY <3>2 DEF AlarmsPending
  <2> QED
    BY <2>3, <2>4
<1>4. CASE return_from_alarm
  <2> DEFINE n == Len(handlers)
  <2>1. /\ handlers' = SubSeq(handlers, 1, n - 1)
        /\ handlers[n].signal = ALRM /\ n \in DOMAIN handlers
        /\ handlers \in Seq(handler_record)
    BY <1>4, Innermost DEF return_from_alarm, At
  <2>2. SUFFICES ASSUME handlers' # <<>> PROVE me'.signal # ALRM
    BY DEF AlarmsPending
  <2>3. n - 1 \in DOMAIN handlers /\ me' = handlers[n - 1] /\ n - 1 # n
    <3>1. n \in Nat /\ n # 0
      BY <2>1
    <3>2. n # 1
      BY <2>1, <2>2
    <3>3. n - 1 \in 1 .. n /\ n - 1 \in Nat /\ n - 1 # n
      BY <3>1, <3>2
    <3>4. Len(handlers') = n - 1 /\ handlers'[n - 1] = handlers[n - 1]
      BY <2>1, <3>1, <3>3
    <3>5. n - 1 \in DOMAIN handlers
      BY <2>1, <3>3
    <3>6. me' = handlers'[n - 1]
      BY <3>4 DEF me
    <3> QED
      BY <3>3, <3>4, <3>5, <3>6
  <2> QED
    BY <2>1, <2>3 DEF TInv, HandlersTyped
<1>5. CASE Deliver
  <2>1. PICK signal \in Signals : deliver(signal)
    BY <1>5 DEF Deliver
  <2>2. me'.step = "open"
    BY <2>1 DEF deliver, me, IInv, Shape
  <2> QED
    BY <2>2 DEF AlarmsPending, Writing
<1>6. CASE capture_step
  BY <1>6 DEF AlarmsPending, capture_step, begin_packet, process_flow, add_packet,
              process_dns_packet, end_packet, InLoop
<1>7. CASE UNCHANGED <<handlers, pending_update>>
  BY <1>7 DEF AlarmsPending, me
<1>8. alarm_expires \/ (\E signal \in TerminateSignals : kill(signal))
        \/ exit_from_handler \/ exit_on_error \/ UNCHANGED vars
        => UNCHANGED <<handlers, pending_update>>
  BY DEF alarm_expires, kill, exit_from_handler, exit_on_error, vars, disk
<1> QED
  BY <1>1, <1>2, <1>3, <1>4, <1>5, <1>6, <1>7, <1>8
     DEF Next, handle_signals, write_update, write_step, process_packet, capture_step

(***************************************************************************)
(* A step that writes leaves the staged updates as they are, unless it     *)
(* writes over one.                                                        *)
(***************************************************************************)
LEMMA WritesKeep ==
  ASSUME IInv, AlarmsPending, handlers # <<>>, me.step \in Writing, At(me.step),
         staged' = staged, DOMAIN files' = DOMAIN files,
         \A file \in DOMAIN files : file # me.file => files'[file] = files[file],
         ~WritesOverStaged
  PROVE  StagedPackets' = StagedPackets
<1>1. \A number \in DOMAIN staged : staged[number] # me.file
  <2> SUFFICES ASSUME NEW number \in DOMAIN staged, staged[number] = me.file
               PROVE  FALSE
    OBVIOUS
  <2>1. me.signal \notin TerminateSignals
    BY DEF WritesOverStaged, Writing
  <2>2. me.signal = ALRM
    BY <2>1, Innermost DEF HandlerProgress, Signals
  <2>3. pending_update # 0
    BY <2>2 DEF AlarmsPending
  <2>4. me.file = pending_update
    BY <2>3, Innermost DEF PendingOf
  <2> QED
    BY <2>4 DEF IInv, FilesKept
<1>2. \A number \in DOMAIN staged : files'[staged[number]] = files[staged[number]]
  BY <1>1 DEF IInv, FilesKept
<1>3. {files'[staged'[number]].readable : number \in DOMAIN staged'}
        = {files[staged[number]].readable : number \in DOMAIN staged}
  BY <1>2
<1> QED
  BY <1>3 DEF StagedPackets, StagedUpdates

LEMMA StagedSame ==
  ASSUME staged' = staged,
         \A number \in DOMAIN staged : files'[staged[number]] = files[staged[number]]
  PROVE  StagedPackets' = StagedPackets
<1>1. {files'[staged'[number]].readable : number \in DOMAIN staged'}
        = {files[staged[number]].readable : number \in DOMAIN staged}
  OBVIOUS
<1> QED
  BY <1>1 DEF StagedPackets, StagedUpdates

LEMMA StepKeeps ==
  ASSUME IInv, AlarmsPending, [Next]_vars, ~ResetsAfterCut, ~WritesOverStaged
  PROVE  Kept \subseteq Kept'
<1>1. CASE write_step
  <2>1. /\ handlers # <<>> /\ me.step \in Writing /\ At(me.step) /\ flush
        /\ packet_data' = packet_data /\ staged' = staged
    BY <1>1, WriteStep DEF Writing
  <2>2. StagedPackets' = StagedPackets
    BY <2>1, Flushed, WritesKeep
  <2> QED
    BY <2>1, <2>2 DEF Kept
<1>2. CASE close_update
  <2>1. /\ handlers # <<>> /\ me.step \in Writing /\ At(me.step)
        /\ packet_data' = packet_data /\ staged' = staged
    BY <1>2 DEF close_update, At, Writing, memory
  <2>2. StagedPackets' = StagedPackets
    BY <1>2, <2>1, Closed, WritesKeep
  <2> QED
    BY <2>1, <2>2 DEF Kept
<1>3. CASE exit_on_error
  <2>1. packet_data' = packet_data /\ staged' = staged
    BY <1>3 DEF exit_on_error, memory
  <2>2. CASE UNCHANGED files
    BY <2>1, <2>2, StagedSame DEF Kept
  <2>3. CASE flush /\ \E step \in {"header", "packets", "flows", "names"} : At(step)
    <3>1. handlers # <<>> /\ me.step \in Writing /\ At(me.step)
      BY <2>3 DEF At, Writing
    <3>2. StagedPackets' = StagedPackets
      BY <2>1, <2>3, <3>1, Flushed, WritesKeep
    <3> QED
      BY <2>1, <3>2 DEF Kept
  <2> QED
    BY <1>3, <2>2, <2>3 DEF exit_on_error
<1>4. CASE open_update
  <2>1. /\ packet_data' = packet_data /\ staged' = staged
        /\ files' = IF pending_update = 0 THEN Append(files, new_file)
                    ELSE [files EXCEPT ![pending_update] = new_file]
    BY <1>4 DEF open_update, memory
  <2>2. files \in Seq(file_record) /\ FilesKept
    BY DEF IInv, Shape
  <2>3. \A number \in DOMAIN staged : files'[staged[number]] = files[staged[number]]
    BY <2>1, <2>2 DEF FilesKept
  <2> QED
    BY <2>1, <2>3, StagedSame DEF Kept
<1>5. CASE rename_update
  <2>1. /\ packet_data' = packet_data /\ files' = files
        /\ DOMAIN staged' = DOMAIN staged \cup {sequence_number}
        /\ \A number \in DOMAIN staged :
             number # sequence_number => staged'[number] = staged[number]
    BY <1>5 DEF rename_update, memory
  <2>2. \A u \in files[staged[sequence_number]].readable :
          sequence_number \in DOMAIN staged => u.packets \subseteq packet_data
    BY DEF IInv, StagedCurrent, FilesKept
  <2> SUFFICES ASSUME NEW number \in DOMAIN staged,
                      NEW u \in files[staged[number]].readable
               PROVE  u.packets \subseteq Kept'
    BY <2>1 DEF Kept, StagedPackets, StagedUpdates
  <2>3. CASE number = sequence_number
    BY <2>1, <2>2, <2>3 DEF Kept
  <2>4. CASE number # sequence_number
    <3>1. u \in StagedUpdates'
      BY <2>1, <2>4 DEF StagedUpdates
    <3> QED
      BY <3>1 DEF Kept, StagedPackets
  <2> QED
    BY <2>3, <2>4
<1>6. CASE packet_series_init
  <2>1. /\ At("reset") /\ handlers # <<>> /\ me.step = "reset"
        /\ staged' = staged /\ files' = files
    BY <1>6 DEF packet_series_init, At, disk
  <2>2. StagedPackets' = StagedPackets
    BY <2>1, StagedSame
  <2>3. packet_data = {} \/ Carried(sequence_number - 1)
    BY <2>1, Innermost DEF PendingOf
  <2>4. packet_data \subseteq StagedPackets
    <3> SUFFICES ASSUME Carried(sequence_number - 1) PROVE packet_data \subseteq StagedPackets
      BY <2>3
    <3>1. PICK u \in files[staged[sequence_number - 1]].readable : TRUE
      BY <2>1 DEF Carried, ResetsAfterCut
    <3>2. packet_data \subseteq u.packets /\ u \in StagedUpdates
      BY <3>1 DEF Carried, StagedUpdates
    <3> QED
      BY <3>2 DEF StagedPackets
  <2> QED
    BY <2>2, <2>4 DEF Kept
<1>7. CASE UNCHANGED disk /\ packet_data \subseteq packet_data'
  BY <1>7, StagedSame DEF Kept, disk
<1>8. CASE alarm_expires \/ (\E signal \in TerminateSignals : kill(signal)) \/ Deliver
           \/ capture_step \/ increment_sequence_number \/ dns_table_destroy
           \/ dns_table_init \/ return_from_alarm \/ exit_from_handler \/ UNCHANGED vars
  BY <1>7, <1>8
     DEF alarm_expires, kill, Deliver, deliver, capture_step, begin_packet, process_flow,
         add_packet, process_dns_packet, end_packet, increment_sequence_number,
         dns_table_destroy, dns_table_init, return_from_alarm, exit_from_handler, vars,
         memory
<1> QED
  BY <1>1, <1>2, <1>3, <1>4, <1>5, <1>6, <1>8
     DEF Next, handle_signals, write_update, write_step, process_packet, capture_step

(***************************************************************************)
(* However the handlers of main.c nest, fail or exit, a packet is lost to  *)
(* both the tables and the uploader in two ways only: the close of the     *)
(* update failed, and main.c:387 empties the tables all the same; or a     *)
(* handler of SIGINT or SIGTERM writes into a file that another handler,   *)
(* which ran inside it, has staged.                                        *)
(***************************************************************************)
THEOREM SignalHandlersKept == Spec => PacketsKept
<1>1. IInv /\ AlarmsPending /\ [Next]_vars =>
        [\A p \in Kept : p \in Kept' \/ ResetsAfterCut \/ WritesOverStaged]_vars
  BY StepKeeps
<1>2. Spec => [](IInv /\ TInv /\ AlarmsPending)
  BY InitIInv, InitTypes, InitAlarms, StepIInv, StepTypes, StepAlarms, PTL DEF Spec
<1> QED
  BY <1>1, <1>2, PTL DEF Spec, PacketsKept

-----------------------------------------------------------------------------
(***************************************************************************)
(* Exactly once.  A handler that ends the process stays on the stack, so   *)
(* when no handler runs, or the one of SIGALRM alone, none was ever        *)
(* interrupted by another: what write_update did, it did in one piece.     *)
(***************************************************************************)
Alone == \A i \in DOMAIN handlers : i = 1 /\ handlers[i].signal = ALRM

(* The number of packets that have come as far as the packet series. *)
Added == IF capture \in {"flow", "series"} THEN captured - 1 ELSE captured

(* The update of the present period is staged. *)
Renamed == handlers # <<>> /\ me.step = "increment"
Reported == handlers # <<>> /\ me.step \in {"increment", "reset"}

Single(number) ==
  \E u \in files[staged[number]].closed :
    /\ files[staged[number]].closed = {u}
    /\ u.number = number
    /\ u.flows = u.packets

NumbersExact ==
  DOMAIN staged = 0 .. IF Renamed THEN sequence_number ELSE sequence_number - 1

StagedExact ==
  /\ \A number \in DOMAIN staged : Single(number)
  /\ \A number \in DOMAIN staged : \A other \in DOMAIN staged \ {number} :
       \A u \in files[staged[number]].closed : \A v \in files[staged[other]].closed :
         u.packets \cap v.packets = {}

PeriodExact ==
  /\ packet_data \subseteq 1 .. Added
  /\ ClosedPackets \subseteq 1 .. Added
  /\ ~Reported => ClosedPackets \cap packet_data = {}

(* The flow of each packet of the period is unsent or in the update. *)
FlowsExact ==
  /\ handlers = <<>> \/ me.step \in {"open", "header", "packets"} =>
       unsent_flows = IF capture = "series" THEN packet_data \cup {captured}
                      ELSE packet_data
  /\ handlers # <<>> /\ me.step = "flows" =>
       unsent_flows \cup me.update.flows = packet_data
  /\ handlers # <<>> /\ me.step \in {"names", "close", "rename"} =>
       me.update.flows = packet_data

PendingExact ==
  /\ handlers = <<>> \/ me.step = "open" => pending_update = 0
  /\ handlers # <<>> /\ me.step \in Writing \cup {"rename"} => pending_update # 0

Exact == NumbersExact /\ StagedExact /\ PeriodExact /\ FlowsExact /\ PendingExact

EInv == Alone => Exact

LEMMA ContinueAlone ==
  ASSUME IInv, handlers # <<>>, NEW h \in handler_record, h.signal = me.signal,
         continue(h), Alone'
  PROVE  Alone
<1>1. /\ DOMAIN handlers' = DOMAIN handlers
      /\ \A i \in DOMAIN handlers :
           handlers'[i] = IF i = Len(handlers) THEN h ELSE handlers[i]
  BY Innermost, Continue
<1>2. \A i \in DOMAIN handlers : handlers'[i].signal = handlers[i].signal
  BY <1>1 DEF me
<1> QED
  BY <1>1, <1>2 DEF Alone

LEMMA ClosedSame ==
  ASSUME staged' = staged,
         \A number \in DOMAIN staged :
           files'[staged[number]].closed = files[staged[number]].closed
  PROVE  ClosedPackets' = ClosedPackets /\ (StagedExact => StagedExact')
<1>1. {files'[staged'[number]].closed : number \in DOMAIN staged'}
        = {files[staged[number]].closed : number \in DOMAIN staged}
  OBVIOUS
<1>2. ClosedPackets' = ClosedPackets
  BY <1>1 DEF ClosedPackets, ClosedUpdates
<1>3. ASSUME StagedExact PROVE StagedExact'
  <2>1. ASSUME NEW number \in DOMAIN staged PROVE Single(number)'
    BY <1>3 DEF StagedExact, Single
  <2>2. \A number \in DOMAIN staged : \A other \in DOMAIN staged \ {number} :
          \A u \in files'[staged[number]].closed : \A v \in files'[staged[other]].closed :
            u.packets \cap v.packets = {}
    BY <1>3 DEF StagedExact
  <2> QED
    BY <2>1, <2>2 DEF StagedExact
<1> QED
  BY <1>2, <1>3

LEMMA WriteExact ==
  ASSUME IInv, EInv, write_step, Alone'
  PROVE  Exact'
<1>1. /\ handlers # <<>> /\ me.step \in {"header", "packets", "flows", "names"} /\ flush
      /\ UNCHANGED <<loop, packet_data, names, sequence_number, pending_update, staged>>
  BY WriteStep
<1>2. PICK h \in handler_record : WriteEffect(h)
  BY WriteStep
<1>3. continue(h) /\ h.signal = me.signal
  BY <1>2 DEF WriteEffect
<1>4. /\ handlers' # <<>> /\ me' = h /\ HandlerProgress(me) /\ capture = "idle"
      /\ Alone
  BY <1>1, <1>3, Innermost, Continue, ContinueAlone
<1>5. NumbersExact /\ StagedExact /\ PeriodExact /\ FlowsExact /\ PendingExact
  BY <1>4 DEF EInv, Exact
<1>6. h.step \in {"packets", "flows", "names", "close"}
  BY <1>2 DEF WriteEffect, HeaderWritten, PacketWritten, PacketsWritten, FlowWritten,
              FlowMarked, FlowsWritten, NamesWritten
<1>7. \A number \in DOMAIN staged :
        files'[staged[number]].closed = files[staged[number]].closed
  BY <1>1, Flushed DEF IInv, FilesKept, Writing
<1>8. ClosedPackets' = ClosedPackets /\ StagedExact'
  BY <1>1, <1>5, <1>7, ClosedSame
<1>9. NumbersExact'
  BY <1>1, <1>4, <1>5, <1>6 DEF NumbersExact, Renamed
<1>10. PeriodExact'
  BY <1>1, <1>4, <1>5, <1>6, <1>8 DEF PeriodExact, Reported, Added, loop
<1>11. PendingExact'
  BY <1>1, <1>4, <1>5, <1>6 DEF PendingExact, Writing
<1>12. FlowsExact'
  <2>1. me.step \in {"header", "packets"} => unsent_flows = packet_data
    BY <1>1, <1>4, <1>5 DEF FlowsExact
  <2>2. me.step = "packets" => me.update.flows = {}
    BY <1>4 DEF HandlerProgress
  <2>3. h.step = "packets" => unsent_flows' = packet_data
    BY <1>2, <2>1
       DEF WriteEffect, HeaderWritten, PacketWritten, PacketsWritten, FlowWritten,
           FlowMarked, FlowsWritten, NamesWritten
  <2>4. h.step = "flows" => unsent_flows' \cup h.update.flows = packet_data
    BY <1>1, <1>2, <1>5, <2>1, <2>2
       DEF WriteEffect, HeaderWritten, PacketWritten, PacketsWritten, FlowWritten,
           FlowMarked, FlowsWritten, NamesWritten, FlowsExact
  <2>5. h.step \in {"names", "close"} => h.update.flows = packet_data
    BY <1>1, <1>2, <1>5
       DEF WriteEffect, HeaderWritten, PacketWritten, PacketsWritten, FlowWritten,
           FlowMarked, FlowsWritten, NamesWritten, FlowsExact
  <2> QED
    BY <1>1, <1>4, <1>6, <2>3, <2>4, <2>5 DEF FlowsExact, loop
<1> QED
  BY <1>8, <1>9, <1>10, <1>11, <1>12 DEF Exact

LEMMA OpenExact ==
  ASSUME IInv, EInv, open_update, Alone'
  PROVE  Exact'
<1>1. /\ handlers # <<>> /\ me.step = "open"
      /\ advance([me EXCEPT !.file = pending_update'])
      /\ UNCHANGED <<loop, memory, staged>>
  BY DEF open_update, At
<1>2. /\ me \in handler_record /\ handlers \in Seq(handler_record) /\ capture = "idle"
  BY <1>1, Innermost
<1>3. files \in Seq(file_record) /\ FilesKept
  BY DEF IInv, Shape
<1>4. pending_update' \in Nat \ {0}
  BY <1>3 DEF open_update, FilesKept
<1>5. PICK h \in handler_record :
        continue(h) /\ h.signal = me.signal /\ h.step = "header"
  <2> DEFINE g == [me EXCEPT !.file = pending_update']
  <2>1. g \in handler_record /\ g.step = "open" /\ g.signal = me.signal
    BY <1>1, <1>2, <1>4 DEF handler_record
  <2>2. advance(g)
    BY <1>1
  <2> HIDE DEF g
  <2> QED
    BY <1>1, <1>2, <2>1, <2>2, Advance, StepOrder
<1>6. handlers' # <<>> /\ me'.step = "header" /\ Alone
  BY <1>1, <1>2, <1>5, Continue, ContinueAlone
<1>7. NumbersExact /\ StagedExact /\ PeriodExact /\ FlowsExact /\ PendingExact
  BY <1>6 DEF EInv, Exact
<1>8. files' = Append(files, new_file)
  BY <1>1, <1>7 DEF PendingExact, open_update
<1>9. \A number \in DOMAIN staged : files'[staged[number]] = files[staged[number]]
  BY <1>3, <1>8 DEF FilesKept
<1>10. ClosedPackets' = ClosedPackets /\ StagedExact'
  BY <1>1, <1>7, <1>9, ClosedSame
<1>11. NumbersExact' /\ PendingExact'
  BY <1>1, <1>4, <1>6, <1>7 DEF NumbersExact, PendingExact, Renamed, Writing, memory
<1>12. PeriodExact' /\ FlowsExact'
  BY <1>1, <1>6, <1>7, <1>10 DEF PeriodExact, FlowsExact, Reported, Added, loop, memory
<1> QED
  BY <1>10, <1>11, <1>12 DEF Exact

LEMMA CloseExact ==
  ASSUME IInv, EInv, close_update, Alone'
  PROVE  Exact'
<1>1. /\ handlers # <<>> /\ me.step = "close" /\ advance(me)
      /\ UNCHANGED <<loop, memory, pending_update, staged>>
      /\ \A file \in DOMAIN files : file # me.file => files'[file] = files[file]
  BY Closed
<1>2. /\ me \in handler_record /\ handlers \in Seq(handler_record)
      /\ PendingOf(me) /\ FilesKept
  BY <1>1, Innermost DEF IInv
<1>3. PICK h \in handler_record :
        continue(h) /\ h.signal = me.signal /\ h.step = "rename" /\ h.update = me.update
  BY <1>1, <1>2, Advance, StepOrder
<1>4. handlers' # <<>> /\ me'.step = "rename" /\ me'.update = me.update /\ Alone
  BY <1>1, <1>2, <1>3, Continue, ContinueAlone
<1>5. NumbersExact /\ StagedExact /\ PeriodExact /\ FlowsExact /\ PendingExact
  BY <1>4 DEF EInv, Exact
<1>6. pending_update # 0 /\ me.file = pending_update
  BY <1>1, <1>2, <1>5 DEF PendingExact, PendingOf, Writing
<1>7. \A number \in DOMAIN staged : files'[staged[number]] = files[staged[number]]
  BY <1>1, <1>2, <1>6 DEF FilesKept
<1>8. ClosedPackets' = ClosedPackets /\ StagedExact'
  BY <1>1, <1>5, <1>7, ClosedSame
<1>9. NumbersExact' /\ PendingExact'
  BY <1>1, <1>4, <1>5, <1>6 DEF NumbersExact, PendingExact, Renamed, memory
<1>10. PeriodExact' /\ FlowsExact'
  BY <1>1, <1>4, <1>5, <1>8 DEF PeriodExact, FlowsExact, Reported, Added, loop, memory
<1> QED
  BY <1>8, <1>9, <1>10 DEF Exact

LEMMA RenameExact ==
  ASSUME IInv, EInv, rename_update, Alone'
  PROVE  Exact'
<1>1. /\ handlers # <<>> /\ me.step = "rename" /\ advance(me)
      /\ pending_update # 0 /\ pending_update' = 0
      /\ staged' = [number \in DOMAIN staged \cup {sequence_number} |->
                      IF number = sequence_number THEN pending_update ELSE staged[number]]
      /\ UNCHANGED <<files, capture, captured, packet_data, unsent_flows, sequence_number>>
  BY DEF rename_update, At, loop, memory
<1>2. /\ me \in handler_record /\ PendingOf(me)
      /\ handlers \in Seq(handler_record) /\ sequence_number \in Nat
  BY <1>1, Innermost DEF IInv, Shape
<1>3. PICK h \in handler_record :
        continue(h) /\ h.signal = me.signal /\ h.step = "increment"
  BY <1>1, <1>2, Advance, StepOrder
<1>4. handlers' # <<>> /\ me'.step = "increment" /\ Alone
  BY <1>1, <1>2, <1>3, Continue, ContinueAlone
<1>5. NumbersExact /\ StagedExact /\ PeriodExact /\ FlowsExact
  BY <1>4 DEF EInv, Exact
<1>6. DOMAIN staged = 0 .. sequence_number - 1 /\ ClosedPackets \cap packet_data = {}
  BY <1>1, <1>5 DEF NumbersExact, PeriodExact, Renamed, Reported
<1>7. /\ files[pending_update].closed = {me.update} /\ me.update.number = sequence_number
      /\ me.update.packets = packet_data /\ me.update.flows = packet_data
  BY <1>1, <1>2, <1>5 DEF PendingOf, FlowsExact
<1>8. /\ DOMAIN staged' = 0 .. sequence_number
      /\ staged'[sequence_number] = pending_update
      /\ \A number \in DOMAIN staged : number \in DOMAIN staged' /\ staged'[number] = staged[number]
      /\ \A number \in DOMAIN staged' : number = sequence_number \/ number \in DOMAIN staged
  BY <1>1, <1>2, <1>6
<1>9. \A number \in DOMAIN staged : \A u \in files[staged[number]].closed :
        u.packets \subseteq ClosedPackets
  BY DEF ClosedPackets, ClosedUpdates
<1>10. \A number \in DOMAIN staged : \A u \in files[staged[number]].closed :
         u.packets \cap packet_data = {}
  BY <1>6, <1>9
<1>11. StagedExact'
  <2>1. ASSUME NEW number \in DOMAIN staged' PROVE Single(number)'
    <3>1. CASE number = sequence_number
      BY <1>1, <1>7, <1>8, <3>1 DEF Single
    <3>2. CASE number \in DOMAIN staged
      BY <1>1, <1>5, <1>8, <3>2 DEF Single, StagedExact
    <3> QED
      BY <1>8, <3>1, <3>2
  <2>2. ASSUME NEW number \in DOMAIN staged', NEW other \in DOMAIN staged' \ {number},
               NEW u \in files'[staged'[number]].closed,
               NEW v \in files'[staged'[other]].closed
        PROVE  u.packets \cap v.packets = {}
    <3>1. CASE number = sequence_number
      <4>1. /\ u.packets = packet_data /\ other \in DOMAIN staged
            /\ v \in files[staged[other]].closed
        BY <1>1, <1>7, <1>8, <3>1
      <4> QED
        BY <1>10, <4>1
    <3>2. CASE other = sequence_number
      <4>1. /\ v.packets = packet_data /\ number \in DOMAIN staged
            /\ u \in files[staged[number]].closed
        BY <1>1, <1>7, <1>8, <3>2
      <4> QED
        BY <1>10, <4>1
    <3>3. CASE number # sequence_number /\ other # sequence_number
      <4>1. /\ number \in DOMAIN staged /\ u \in files[staged[number]].closed
            /\ other \in DOMAIN staged \ {number} /\ v \in files[staged[other]].closed
        BY <1>1, <1>8, <3>3
      <4> QED
        BY <1>5, <4>1 DEF StagedExact
    <3> QED
      BY <3>1, <3>2, <3>3
  <2> QED
    BY <2>1, <2>2 DEF StagedExact
<1>12. ClosedPackets' \subseteq ClosedPackets \cup packet_data
  <2> SUFFICES ASSUME NEW number \in DOMAIN staged', NEW u \in files'[staged'[number]].closed
               PROVE  u.packets \subseteq ClosedPackets \cup packet_data
    BY DEF ClosedPackets, ClosedUpdates
  <2>1. CASE number = sequence_number
    BY <1>1, <1>7, <1>8, <2>1
  <2>2. CASE number \in DOMAIN staged
    BY <1>1, <1>8, <1>9, <2>2
  <2> QED
    BY <1>8, <2>1, <2>2
<1>13. NumbersExact' /\ PendingExact' /\ FlowsExact'
  BY <1>1, <1>4, <1>8 DEF NumbersExact, PendingExact, FlowsExact, Renamed, Writing
<1>14. PeriodExact'
  BY <1>1, <1>4, <1>5, <1>12 DEF PeriodExact, Reported, Added
<1> QED
  BY <1>11, <1>13, <1>14 DEF Exact

LEMMA MemoryExact ==
  ASSUME IInv, EInv, Alone',
         increment_sequence_number \/ packet_series_init \/ dns_table_destroy
           \/ dns_table_init
  PROVE  Exact'
<1>1. /\ handlers # <<>> /\ me.step \in {"increment", "reset", "destroy", "init"}
      /\ advance(me) /\ UNCHANGED <<loop, unsent_flows, disk>>
  BY DEF increment_sequence_number, packet_series_init, dns_table_destroy,
         dns_table_init, At
<1>2. /\ me \in handler_record /\ handlers \in Seq(handler_record)
      /\ PendingOf(me) /\ HandlerProgress(me)
  BY <1>1, Innermost
<1>3. PICK h \in handler_record :
        continue(h) /\ h.signal = me.signal /\ h.step = next_step[me.step]
  BY <1>1, <1>2, Advance, StepOrder
<1>4. handlers' # <<>> /\ me'.step = next_step[me.step] /\ Alone
  BY <1>1, <1>2, <1>3, Continue, ContinueAlone
<1>5. NumbersExact /\ StagedExact /\ PeriodExact
  BY <1>4 DEF EInv, Exact
<1>6. me'.step \in {"reset", "destroy", "init", "finish"}
  BY <1>1, <1>4, StepOrder
<1>7. ClosedPackets' = ClosedPackets /\ StagedExact'
  BY <1>1, <1>5, ClosedSame DEF disk
<1>8. PendingExact' /\ FlowsExact'
  BY <1>4, <1>6 DEF PendingExact, FlowsExact, Writing
<1>9. CASE increment_sequence_number
  <2>1. /\ me.step = "increment" /\ me'.step = "reset"
        /\ packet_data' = packet_data /\ sequence_number' = sequence_number + 1
        /\ sequence_number \in Nat
    BY <1>4, <1>9, StepOrder DEF increment_sequence_number, At, IInv, Shape
  <2>2. NumbersExact'
    BY <1>1, <1>5, <2>1 DEF NumbersExact, Renamed, disk
  <2>3. PeriodExact'
    BY <1>1, <1>4, <1>5, <1>7, <2>1 DEF PeriodExact, Reported, Added, loop
  <2> QED
    BY <1>7, <1>8, <2>2, <2>3 DEF Exact
<1>10. CASE packet_series_init \/ dns_table_destroy \/ dns_table_init
  <2>1. /\ me.step \in {"reset", "destroy", "init"}
        /\ me'.step \in {"destroy", "init", "finish"}
        /\ sequence_number' = sequence_number
    BY <1>4, <1>10, StepOrder DEF packet_series_init, dns_table_destroy, dns_table_init, At
  <2>2. packet_data' = {}
    BY <1>2, <1>10
       DEF packet_series_init, dns_table_destroy, dns_table_init, At, HandlerProgress
  <2>3. NumbersExact'
    BY <1>1, <1>5, <2>1 DEF NumbersExact, Renamed, disk
  <2>4. PeriodExact'
    BY <1>1, <1>5, <1>7, <2>2 DEF PeriodExact, Added, loop
  <2> QED
    BY <1>7, <1>8, <2>3, <2>4 DEF Exact
<1> QED
  BY <1>9, <1>10

(* Only the handler of SIGALRM returns, and here to the capture loop. *)
LEMMA ReturnExact ==
  ASSUME IInv, TInv, EInv, return_from_alarm, Alone'
  PROVE  Exact'
<1>1. /\ handlers # <<>> /\ me.step = "finish" /\ me.signal = ALRM
      /\ handlers' = SubSeq(handlers, 1, Len(handlers) - 1)
      /\ UNCHANGED <<loop, memory, disk>>
  BY DEF return_from_alarm, At
<1>2. handlers \in Seq(handler_record) /\ Len(handlers) \in Nat \ {0}
  BY <1>1 DEF IInv, Shape
<1>3. Len(handlers) = 1
  <2> DEFINE n == Len(handlers)
  <2>1. ASSUME n > 1 PROVE FALSE
    <3>1. 1 \in DOMAIN handlers' /\ handlers'[1] = handlers[1]
      BY <1>1, <1>2, <2>1
    <3>2. handlers[1].signal = handlers[n].signal
      BY <1>1, <3>1 DEF Alone, me
    <3> QED
      BY <1>2, <2>1, <3>2 DEF TInv, HandlersTyped
  <2>2. n \in Nat \ {0}
    BY <1>2
  <2> HIDE DEF n
  <2>3. n = 1
    BY ONLY <2>1, <2>2
  <2> QED
    BY <2>3 DEF n
<1>4. handlers' = <<>>
  BY <1>1, <1>2, <1>3
<1>5. Alone
  BY <1>1, <1>2, <1>3 DEF Alone, me
<1>6. NumbersExact /\ StagedExact /\ PeriodExact
  BY <1>5 DEF EInv, Exact
<1>7. /\ pending_update = 0 /\ packet_data = {} /\ unsent_flows = {}
      /\ capture = "idle"
  BY <1>1, Innermost DEF PendingOf, HandlerProgress
<1>8. ClosedPackets' = ClosedPackets /\ StagedExact'
  BY <1>1, <1>6, ClosedSame DEF disk
<1>9. NumbersExact'
  BY <1>1, <1>4, <1>6 DEF NumbersExact, Renamed, memory, disk
<1>10. PeriodExact'
  BY <1>1, <1>6, <1>7, <1>8 DEF PeriodExact, Added, loop, memory
<1>11. FlowsExact' /\ PendingExact'
  BY <1>1, <1>4, <1>7 DEF FlowsExact, PendingExact, loop, memory, disk
<1> QED
  BY <1>8, <1>9, <1>10, <1>11 DEF Exact

LEMMA DeliverExact ==
  ASSUME IInv, EInv, NEW signal \in Signals, deliver(signal), Alone'
  PROVE  Exact'
<1> DEFINE h == [signal |-> signal, step |-> "open", file |-> 0, update |-> empty_update]
<1>1. /\ handlers' = Append(handlers, h) /\ h.step = "open" /\ signal \notin Masked
      /\ UNCHANGED <<loop, memory, disk>>
  BY DEF deliver, Deliverable
<1>2. handlers \in Seq(handler_record) /\ h \in handler_record
  BY StepOrder DEF IInv, Shape, handler_record, update_record, empty_update, Steps
<1> HIDE DEF h
<1>3. /\ Len(handlers') = Len(handlers) + 1 /\ Len(handlers') \in DOMAIN handlers'
      /\ handlers'[Len(handlers')] = h
  BY <1>1, <1>2
<1>4. Len(handlers) = 0 /\ handlers = <<>>
  BY <1>2, <1>3 DEF Alone
<1>5. me'.step = "open" /\ handlers' # <<>>
  BY <1>1, <1>3, <1>4 DEF me
<1>6. NumbersExact /\ StagedExact /\ PeriodExact /\ FlowsExact /\ PendingExact
  BY <1>4 DEF EInv, Exact, Alone
<1>7. capture = "idle"
  BY <1>1 DEF IInv, HandlersBetweenPackets, Masked
<1>8. ClosedPackets' = ClosedPackets /\ StagedExact'
  BY <1>1, <1>6, ClosedSame DEF disk
<1>9. NumbersExact'
  BY <1>1, <1>4, <1>5, <1>6 DEF NumbersExact, Renamed, memory, disk
<1>10. PeriodExact'
  BY <1>1, <1>4, <1>5, <1>6, <1>8 DEF PeriodExact, Reported, Added, loop, memory
<1>11. FlowsExact' /\ PendingExact'
  BY <1>1, <1>4, <1>5, <1>6, <1>7
     DEF FlowsExact, PendingExact, Writing, loop, memory, disk
<1> QED
  BY <1>8, <1>9, <1>10, <1>11 DEF Exact

(* A packet gets into the tables when it is in no staged update yet. *)
LEMMA CaptureExact ==
  ASSUME IInv, TInv, EInv, capture_step
  PROVE  Exact'
<1>1. /\ handlers = <<>> /\ handlers' = <<>>
      /\ UNCHANGED <<disk, sequence_number>>
      /\ captured \in Nat
  BY DEF capture_step, begin_packet, process_flow, add_packet, process_dns_packet,
         end_packet, InLoop, memory, IInv, HandlersBetweenPackets
<1>2. NumbersExact /\ StagedExact /\ PeriodExact /\ FlowsExact /\ PendingExact
  BY <1>1 DEF EInv, Alone, Exact
<1>3. ClosedPackets' = ClosedPackets /\ StagedExact'
  BY <1>1, <1>2, ClosedSame DEF disk
<1>4. NumbersExact' /\ PendingExact'
  BY <1>1, <1>2 DEF NumbersExact, PendingExact, Renamed, disk
<1>5. /\ packet_data \subseteq 1 .. Added /\ ClosedPackets \subseteq 1 .. Added
      /\ ClosedPackets \cap packet_data = {}
      /\ unsent_flows = IF capture = "series" THEN packet_data \cup {captured}
                        ELSE packet_data
  BY <1>1, <1>2 DEF PeriodExact, FlowsExact, Reported
<1>6. PeriodExact' /\ FlowsExact'
  <2>1. CASE begin_packet
    <3>1. /\ Added' = Added /\ capture = "idle" /\ capture' = "flow"
          /\ packet_data' = packet_data /\ unsent_flows' = unsent_flows
      BY <1>1, <2>1 DEF begin_packet, Added, memory
    <3> QED
      BY <1>1, <1>3, <1>5, <3>1 DEF PeriodExact, FlowsExact
  <2>2. CASE process_flow
    <3>1. /\ Added' = Added /\ capture = "flow" /\ capture' = "series"
          /\ packet_data' = packet_data /\ captured' = captured
          /\ unsent_flows' = unsent_flows \cup {captured}
      BY <2>2 DEF process_flow, Added
    <3> QED
      BY <1>1, <1>3, <1>5, <3>1 DEF PeriodExact, FlowsExact
  <2>3. CASE add_packet
    <3>1. /\ Added = captured - 1 /\ Added' = captured
          /\ capture = "series" /\ capture' = "dns"
          /\ packet_data' = packet_data \cup {captured}
          /\ unsent_flows' = unsent_flows
      BY <2>3 DEF add_packet, Added
    <3>2. 1 .. captured - 1 \subseteq 1 .. captured /\ captured \notin 1 .. captured - 1
      BY <1>1
    <3>3. captured \in 1 .. captured
      <4>1. captured # 0
        BY <2>3 DEF TInv, TablesTyped, add_packet, Packets
      <4> QED
        BY <1>1, <4>1
    <3> QED
      BY <1>1, <1>3, <1>5, <3>1, <3>2, <3>3 DEF PeriodExact, FlowsExact
  <2>4. CASE process_dns_packet \/ end_packet
    <3>1. /\ Added' = Added /\ capture # "series" /\ capture' # "series"
          /\ packet_data' = packet_data /\ unsent_flows' = unsent_flows
      BY <2>4 DEF process_dns_packet, end_packet, Added, memory
    <3> QED
      BY <1>1, <1>3, <1>5, <3>1 DEF PeriodExact, FlowsExact
  <2> QED
    BY <2>1, <2>2, <2>3, <2>4 DEF capture_step
<1> QED
  BY <1>3, <1>4, <1>6 DEF Exact

LEMMA OtherExact ==
  ASSUME EInv, UNCHANGED <<loop, handlers, memory, pending_update, staged>>,
         \A number \in DOMAIN staged :
           files'[staged[number]].closed = files[staged[number]].closed
  PROVE  EInv'
<1>1. ClosedPackets' = ClosedPackets /\ (StagedExact => StagedExact')
  BY ClosedSame
<1>2. (NumbersExact => NumbersExact') /\ (PeriodExact => PeriodExact')
  BY <1>1 DEF NumbersExact, PeriodExact, Renamed, Reported, Added, me, loop, memory
<1>3. (FlowsExact => FlowsExact') /\ (PendingExact => PendingExact')
  BY DEF FlowsExact, PendingExact, me, loop, memory
<1>4. Alone' => Alone
  BY DEF Alone
<1> QED
  BY <1>1, <1>2, <1>3, <1>4 DEF EInv, Exact

LEMMA StepExact == IInv /\ TInv /\ EInv /\ [Next]_vars => EInv'
<1> SUFFICES ASSUME IInv, TInv, EInv, [Next]_vars PROVE EInv'
  OBVIOUS
<1>1. CASE alarm_expires \/ (\E signal \in TerminateSignals : kill(signal))
             \/ exit_from_handler \/ UNCHANGED vars
  BY <1>1, OtherExact DEF alarm_expires, kill, exit_from_handler, vars, disk
<1>2. CASE Deliver
  BY <1>2, DeliverExact DEF Deliver, EInv
<1>3. CASE begin_packet \/ process_packet
  BY <1>3, CaptureExact DEF EInv, process_packet, capture_step
<1>4. CASE write_update
  BY <1>4, WriteExact, OpenExact, CloseExact, RenameExact, MemoryExact
     DEF EInv, write_update, write_step
<1>5. CASE return_from_alarm
  BY <1>5, ReturnExact DEF EInv
<1>6. CASE exit_on_error
  <2>1. UNCHANGED <<loop, handlers, memory, pending_update, staged>>
    BY <1>6 DEF exit_on_error
  <2>2. \A number \in DOMAIN staged :
          files'[staged[number]].closed = files[staged[number]].closed
    <3>1. CASE UNCHANGED files
      BY <3>1
    <3>2. CASE flush /\ \E step \in {"header", "packets", "flows", "names"} : At(step)
      BY <3>2, Flushed DEF IInv, FilesKept, At, Writing
    <3> QED
      BY <1>6, <3>1, <3>2 DEF exit_on_error
  <2> QED
    BY <2>1, <2>2, OtherExact
<1> QED
  BY <1>1, <1>2, <1>3, <1>4, <1>5, <1>6 DEF Next, handle_signals

LEMMA InitExact == Init => EInv
  BY DEF Init, EInv, Exact, NumbersExact, StagedExact, PeriodExact, FlowsExact,
         PendingExact, Renamed, Reported, Added, ClosedPackets, ClosedUpdates

(***************************************************************************)
(* While process_packet goes on, the staged updates are numbered without a *)
(* gap, each has a file of its own, complete unless its close failed, and  *)
(* no packet is in two of them or still to be sent: however often the      *)
(* alarm went off before.                                                  *)
(***************************************************************************)
THEOREM SignalHandlersExactlyOnce == Spec => []ExactlyOnce
<1>1. IInv /\ EInv => ExactlyOnce
  <2> SUFFICES ASSUME IInv, EInv, handlers = <<>>
               PROVE  /\ DOMAIN staged = 0 .. sequence_number - 1
                      /\ \A number \in DOMAIN staged : Intact(number)
    BY DEF ExactlyOnce
  <2>1. NumbersExact /\ StagedExact /\ ClosedPackets \cap packet_data = {}
    BY DEF EInv, Exact, Alone, PeriodExact, Reported
  <2>2. ASSUME NEW number \in DOMAIN staged PROVE Intact(number)
    <3>1. PICK u \in files[staged[number]].closed :
            /\ files[staged[number]].closed = {u}
            /\ u.number = number
            /\ u.flows = u.packets
      BY <2>1 DEF StagedExact, Single
    <3>2. u.packets \subseteq ClosedPackets
      BY DEF ClosedPackets, ClosedUpdates
    <3>3. \A other \in DOMAIN staged \ {number} :
            \A v \in files[staged[other]].closed : u.packets \cap v.packets = {}
      BY <2>1 DEF StagedExact
    <3>4. files[staged[number]].readable \subseteq {u}
      BY <3>1 DEF IInv, FilesKept
    <3> QED
      BY <2>1, <3>1, <3>2, <3>3, <3>4 DEF Intact
  <2> QED
    BY <2>1, <2>2 DEF NumbersExact, Renamed
<1>2. Init => IInv /\ TInv /\ EInv
  BY InitIInv, InitTypes, InitExact
<1>3. IInv /\ TInv /\ EInv /\ [Next]_vars => (IInv /\ TInv /\ EInv)'
  BY StepIInv, StepTypes, StepExact
<1>4. Spec => [](IInv /\ TInv /\ EInv)
  BY <1>2, <1>3, PTL DEF Spec
<1> QED
  BY <1>1, <1>4, PTL

=============================================================================
