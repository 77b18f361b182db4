------------------------------ MODULE MCWiring -----------------------------
(***************************************************************************)
(* Wiring on small instances for TLC.  The code's numbers are scaled down: *)
(* a second has three milliseconds, or five where no time is counted, and  *)
(* in the passing run the counters wrap after seven, so that it passes     *)
(* through every carry and every rollover.                                 *)
(***************************************************************************)
EXTENDS Wiring

MCSecondsTick == << 2, 0 >>   \* 250 ms in the code
MCSleepTick == << 1, 1 >>     \* 1.95 ms in the code
=============================================================================
