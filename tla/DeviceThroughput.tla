-------------------------- MODULE DeviceThroughput --------------------------
(***************************************************************************)
(* The device throughput table of bismark-passive                          *)
(* (device_throughput_table.c), compiled in with ENABLE_FREQUENT_UPDATES:  *)
(* the bytes to and from each MAC address since the last frequent update.  *)
(* Sessions says when it is filled, written and cleared.                   *)
(*                                                                         *)
(* carried and refused are history: the bytes of each device's frames      *)
(* since the table was cleared, and whether the table refused a device.    *)
(***************************************************************************)
EXTENDS Integers, Sequences, FiniteSets

CONSTANTS
  Devices,                        \* MAC addresses
  FrameLengths,
  DEVICE_THROUGHPUT_TABLE_SIZE,
  UINT32_MAX,
  MaxFrames                       \* bound on the frames between two updates

ASSUME DeviceThroughputAssumption ==
  /\ UINT32_MAX \in Nat
  /\ FrameLengths \subseteq 1 .. UINT32_MAX
  /\ DEVICE_THROUGHPUT_TABLE_SIZE \in Nat
  /\ MaxFrames \in Nat

VARIABLES entries, carried, refused, frames

table_vars == <<entries, carried, refused, frames>>

NoBytes == [device \in Devices |-> 0]

TableInit == entries = <<>> /\ carried = NoBytes /\ refused = FALSE /\ frames = 0

device_throughput_table_init ==
  /\ entries' = <<>>
  /\ carried' = NoBytes
  /\ refused' = FALSE
  /\ frames' = 0

-----------------------------------------------------------------------------
(* Mutant: the bytes of a further frame are not added. *)
first_frame(bytes, length) == bytes

(* uint32_t addition. *)
add_bytes(bytes, length) == (bytes + length) % (UINT32_MAX + 1)

(* Mutant: one device too many. *)
table_overfull(table) == Len(table) > DEVICE_THROUGHPUT_TABLE_SIZE

table_full(table) == Len(table) >= DEVICE_THROUGHPUT_TABLE_SIZE

Listed(table, device) == \E idx \in DOMAIN table : table[idx].mac_address = device

Refuses(table, device) == ~Listed(table, device) /\ table_full(table)

Counted(entry, device, length) ==
  IF entry.mac_address = device
  THEN [entry EXCEPT !.bytes_transferred = add_bytes(@, length)] ELSE entry

(* The table that device_throughput_table_record leaves. *)
device_throughput_table_record(table, device, length) ==
  IF Listed(table, device)
  THEN [idx \in DOMAIN table |-> Counted(table[idx], device, length)]
  ELSE IF table_full(table) THEN table
  ELSE Append(table, [mac_address |-> device, bytes_transferred |-> length])

(***************************************************************************)
(* get_flow_entry_for_packet records the source, and the destination only  *)
(* when that succeeded.                                                    *)
(***************************************************************************)
record_frame(source, destination, length) ==
  LET recorded == device_throughput_table_record(entries, source, length)
      bytes(device) == (IF device = source THEN length ELSE 0)
                         + (IF device = destination THEN length ELSE 0)
  IN  /\ frames < MaxFrames
      /\ entries' = IF Refuses(entries, source) THEN entries
                    ELSE device_throughput_table_record(recorded, destination, length)
      /\ refused' = (refused \/ Refuses(entries, source) \/ Refuses(recorded, destination))
      /\ carried' = [device \in Devices |-> carried[device] + bytes(device)]
      /\ frames' = frames + 1

-----------------------------------------------------------------------------
entry_t == [mac_address: Devices, bytes_transferred: 0 .. UINT32_MAX]

TableTypeOK ==
  /\ entries \in Seq(entry_t) /\ Len(entries) <= DEVICE_THROUGHPUT_TABLE_SIZE
  /\ carried \in [Devices -> Nat]
  /\ refused \in BOOLEAN
  /\ frames \in 0 .. MaxFrames

(* The counter is printed as a signed number, which the server must undo. *)
printed(bytes) == IF bytes > UINT32_MAX \div 2 THEN bytes - (UINT32_MAX + 1) ELSE bytes
read_back(number) == IF number < 0 THEN number + UINT32_MAX + 1 ELSE number

(* The bytes that the server reads for a device; no line says zero. *)
Written(device) ==
  IF Listed(entries, device)
  THEN LET idx == CHOOSE idx \in DOMAIN entries : entries[idx].mac_address = device
       IN  read_back(printed(entries[idx].bytes_transferred))
  ELSE 0

(***************************************************************************)
(* Every device has one line, and the bytes on it are those of all frames  *)
(* to and from it since the previous frequent update, until the table is   *)
(* full and refuses a device.                                              *)
(***************************************************************************)
BytesExact ==
  /\ \A i, j \in DOMAIN entries :
       entries[i].mac_address = entries[j].mac_address => i = j
  /\ refused => Len(entries) = DEVICE_THROUGHPUT_TABLE_SIZE
  /\ ~refused =>
       \A device \in Devices : Written(device) = carried[device] % (UINT32_MAX + 1)
=============================================================================
