--------------------------- MODULE MCAddressTable ---------------------------
(* Five devices compete for a ring of four; one address is not private. *)
EXTENDS AddressTable, TLC

CONSTANTS d1, d2, d3, d4, d5, public

Devices == {d1, d2, d3, d4, d5}
MCAddresses == Devices \cup {public}
DeviceSymmetry == Permutations(Devices)
=============================================================================
