----------------------------- MODULE MCTimerA0 -----------------------------
(***************************************************************************)
(* TimerA0 for TLC: bytes of two bits, two tone channels for three pins,   *)
(* two servos whose pulses may leave less than the least wait.             *)
(***************************************************************************)
EXTENDS TimerA0

(* A rest, an endless tone, one whose product wraps as unsigned long, one  *)
(* whose count is negative as int16_t, and two that fit.                   *)
MCTones == { << 0, 3 >>, << 1, 0 >>, << 1, 9 >>, << 1, 5 >>, << 1, 2 >>,
             << 2, 1 >> }
=============================================================================
