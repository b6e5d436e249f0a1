-------------------------- MODULE MCSignalHandlers --------------------------
(* Three signals that nest, two packets. *)
EXTENDS SignalHandlers

CONSTANTS INT, TERM

=============================================================================
