------------------------------- MODULE MCTwi -------------------------------
(***************************************************************************)
(* Twi for TLC: buffers of two bytes, an index of four values.             *)
(***************************************************************************)
EXTENDS Twi

(* No reply, one of a byte, one that fills the buffer, one that does not   *)
(* fit.                                                                    *)
MCReplies == { << >>, << 1 >>, << 2, 1 >>, << 1, 2, 1 >> }

(* What came last for the sketch and what it has to send are a bufferful   *)
(* together: the two directions meet, though not with both buffers full.   *)
OneBufferful == Len(message) + Len(txBuffer) <= BUFFER_LENGTH
=============================================================================
