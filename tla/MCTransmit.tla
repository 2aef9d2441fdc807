----------------------------- MODULE MCTransmit -----------------------------
(* A small instance of Transmit for TLC. *)
EXTENDS Transmit
=============================================================================
