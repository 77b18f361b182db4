---------------------------- MODULE MCLm4fSerial ---------------------------
(***************************************************************************)
(* Lm4fSerial for TLC: both rings and both FIFOs can be filled.            *)
(***************************************************************************)
EXTENDS Lm4fSerial

(* Bound: a port of which begin has spoilt both directions is not followed *)
(* further; of such a one only TypeOK says anything.                       *)
OneDirectionSpoilt == ~(torn /\ freed)
=============================================================================
