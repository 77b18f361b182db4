----------------------------- MODULE RingBuffer ----------------------------
(***************************************************************************)
(* The ring buffer of the msp430 serial port: struct ring_buffer of        *)
(* HardwareSerial.cpp and the index arithmetic its functions share.        *)
(*                                                                         *)
(* head is the slot the producer writes next, tail the slot the consumer   *)
(* reads next.  The ring is empty when they are equal and holds at most    *)
(* SERIAL_BUFFER_SIZE - 1 bytes, because a full ring would look empty.     *)
(***************************************************************************)
EXTENDS Integers, Sequences

CONSTANT SERIAL_BUFFER_SIZE

(* A ring of one slot could never hold anything.                           *)
ASSUME SizeAssumption == SERIAL_BUFFER_SIZE \in Nat /\ SERIAL_BUFFER_SIZE > 1

Index == 0 .. SERIAL_BUFFER_SIZE - 1

RingType(Byte) == [buffer : [Index -> Byte], head : Index, tail : Index]

EmptyRing == [buffer |-> [i \in Index |-> 0], head |-> 0, tail |-> 0]

(* Definitions whose names begin with Bug are faulty variants of the one    *)
(* that follows them: a check that puts one in its place must fail.        *)
BugSuccUnwrapped(i) == i + 1

Succ(i) == (i + 1) % SERIAL_BUFFER_SIZE

IsEmpty(r) == r.head = r.tail

BugIsFullNever(r) == FALSE

IsFull(r) == Succ(r.head) = r.tail

Available(r) == (SERIAL_BUFFER_SIZE + r.head - r.tail) % SERIAL_BUFFER_SIZE

Oldest(r) == r.buffer[r.tail]

(* The bytes of the ring, oldest first: what the ring stands for.          *)
Contents(r) ==
  [k \in 1 .. Available(r) |->
     r.buffer[(r.tail + k - 1) % SERIAL_BUFFER_SIZE]]

PutSlot(r, c) == [r EXCEPT !.buffer[r.head] = c]

PublishHead(r) == [r EXCEPT !.head = Succ(r.head)]

AdvanceTail(r) == [r EXCEPT !.tail = Succ(r.tail)]

(* HardwareSerial::end empties the receive ring from the producer's end.   *)
Discard(r) == [r EXCEPT !.head = r.tail]

BugStoreCharOverwrites(r, c) == PublishHead(PutSlot(r, c))

BugStoreCharDropsOldest(r, c) ==
  PublishHead(PutSlot(IF IsFull(r) THEN AdvanceTail(r) ELSE r, c))

(* store_char: a byte that finds the ring full is dropped.                 *)
StoreChar(r, c) == IF IsFull(r) THEN r ELSE PublishHead(PutSlot(r, c))
=============================================================================
