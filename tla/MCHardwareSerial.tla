-------------------------- MODULE MCHardwareSerial -------------------------
(***************************************************************************)
(* HardwareSerial on a small instance for TLC: a ring of three slots, so   *)
(* that two queued bytes fill it, and enough bytes in either direction to  *)
(* wrap the indices around.                                                *)
(***************************************************************************)
EXTENDS HardwareSerial
=============================================================================
