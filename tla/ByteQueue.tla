----------------------------- MODULE ByteQueue -----------------------------
(***************************************************************************)
(* What each half of a serial port promises its client: a bounded FIFO     *)
(* queue of bytes.  One side puts a byte at the end while there is room,   *)
(* the other takes the oldest byte.  Clear is the receive half of          *)
(* HardwareSerial::end, which throws away what was not read.               *)
(*                                                                         *)
(* Nothing here knows of a ring, an index or an interrupt: the detailed    *)
(* module HardwareSerial implements this one twice, once for the transmit  *)
(* ring (the sketch puts, the interrupt takes) and once for the receive    *)
(* ring (the interrupt puts, the sketch takes).                            *)
(***************************************************************************)
EXTENDS Naturals, Sequences

CONSTANTS
  Byte,       \* what a queue holds
  Capacity    \* how many of them it can hold

VARIABLE q

Init == q = << >>

Put(c) ==
  /\ Len(q) < Capacity
  /\ q' = Append(q, c)

Get ==
  /\ q # << >>
  /\ q' = Tail(q)

Clear == q' = << >>

Next == Get \/ \E c \in Byte : Put(c)

(* A queue that loses nothing, and one that may also be cleared.           *)
Spec == Init /\ [][Next]_q

ClearableSpec == Init /\ [][Next \/ Clear]_q
=============================================================================
