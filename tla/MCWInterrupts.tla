--------------------------- MODULE MCWInterrupts ---------------------------
(***************************************************************************)
(* WInterrupts for TLC: two pins of the port, so that the handler's        *)
(* rewrite of P1IFG for one pin meets a change of the other.               *)
(***************************************************************************)
EXTENDS WInterrupts

(* The modes of attachInterrupt, which a cfg cannot name.                  *)
MCModes == {RISING, FALLING, CHANGE}
=============================================================================
