---------------------------- MODULE TimerSerial ----------------------------
(***************************************************************************)
(* The software UART of boards that have none: TimerSerial.cpp, whose two  *)
(* interrupt handlers shift one bit per match of Timer A0, the timer, the  *)
(* two lines and the peer at their other end.                              *)
(*                                                                         *)
(* Time passes in Tick, a fraction of a bit.  The code runs within a tick: *)
(* a pending handler, a read and a poll that finds the transmitter free    *)
(* come before the next one.                                               *)
(***************************************************************************)
EXTENDS RingBuffer

CONSTANTS
  TICKS_PER_BIT,   \* ticks of the model in a bit
  DATA_BITS,       \* bits of a byte, 8 in the code
  Bytes,           \* the bytes sent in either direction
  MaxBytes         \* bound: bytes that write and the peer send together

(* The weights of the bits of a byte, lowest first, and of the stop bit.   *)
Weight[k \in 0 .. DATA_BITS] == IF k = 0 THEN 1 ELSE 2 * Weight[k - 1]

STOP_BIT == Weight[DATA_BITS]

ASSUME BitAssumption ==
  /\ TICKS_PER_BIT \in Nat /\ TICKS_PER_BIT % 4 = 0 /\ TICKS_PER_BIT > 0
  /\ DATA_BITS \in Nat \ {0} /\ Bytes \subseteq 0 .. STOP_BIT - 1
  /\ MaxBytes \in Nat

TICKS_PER_BIT_DIV2 == TICKS_PER_BIT \div 2

VARIABLES
  txd,          \* level of the transmit pin
  cctl0,        \* TA0CCTL0: interrupt enable and flag, level a match puts out
  ccr0,         \* ticks until the timer reaches TA0CCR0, 0 once it has
  USARTTXBUF,   \* the bits that are not yet handed to the timer
  cctl1,        \* TA0CCTL1: capture mode, interrupt flag, receive latch
  ccr1,         \* ticks until the timer reaches TA0CCR1
  rx_bits,      \* the byte being received, and the mask of its next bit
  rx_buffer,    \* the receive ring
  call, arg,    \* the call the sketch is in, the byte it handed or fetched
  open,         \* the transmit pin is an output
  line,         \* what the peer is sending: its bits left, ticks to the next
  ear           \* what it hears: byte and mask, ticks to its next sample

transmitter == << txd, cctl0, ccr0, USARTTXBUF >>
receiver == << cctl1, ccr1, rx_bits, rx_buffer >>
sketch == << call, arg, open >>

(* History: what write accepted, what the peer heard and sent, which bytes *)
(* end cut short.                                                          *)
VARIABLES written, heard, sent, cut

serialHistory == << written, heard, sent, cut >>

serialVars == << transmitter, receiver, sketch, line, ear, serialHistory >>

(* A byte on the line, lowest bit first: start bit 0, data, stop bit 1.    *)
Frame(b) == 2 * (b + STOP_BIT)

NoFrame == [frame |-> 0, t |-> 0]

Level(l) == IF l.frame = 0 THEN 1 ELSE l.frame % 2

NoBits == [data |-> 0, mask |-> 1]

AddBit(bits, b) == [data |-> bits.data + bits.mask * b,
                    mask |-> (2 * bits.mask) % STOP_BIT]

Deaf == [bits |-> NoBits, t |-> 0]

SerialInit ==
  /\ txd = 1 /\ cctl0 = [ie |-> FALSE, ifg |-> FALSE, out |-> 1]
  /\ ccr0 = 0 /\ USARTTXBUF = 0
  /\ cctl1 = [cap |-> TRUE, ifg |-> FALSE, scci |-> 1]
  /\ ccr1 = 0 /\ rx_bits = NoBits /\ rx_buffer = EmptyRing
  /\ call = "idle" /\ arg = 0 /\ open = TRUE
  /\ line = NoFrame /\ ear = Deaf
  /\ written = << >> /\ heard = << >> /\ sent = << >> /\ cut = {}

-----------------------------------------------------------------------------
(* The sketch.  write, flush and end poll the interrupt enable of the      *)
(* transmitter, which its handler clears.                                  *)
Invoke(c) ==
  /\ call = "idle" /\ open
  /\ call' = c
  /\ UNCHANGED << transmitter, receiver, open, line, ear, serialHistory >>

WriteSerial ==
  /\ Len(written) + Len(sent) < MaxBytes
  /\ Invoke("write")
  /\ arg' \in Bytes

FlushSerial == Invoke("flush") /\ UNCHANGED arg

EndSerial == Invoke("end") /\ UNCHANGED arg

Polled(c) == call = c /\ ~cctl0.ie

WriteStart ==
  /\ Polled("write")
  /\ call' = "idle" /\ arg' = 0
  /\ ccr0' = TICKS_PER_BIT
  /\ cctl0' = [ie |-> TRUE, ifg |-> FALSE, out |-> 1]
  /\ USARTTXBUF' = Frame(arg)
  /\ written' = Append(written, arg)
  /\ UNCHANGED << txd, receiver, open, line, ear, heard, sent, cut >>

FlushDone ==
  /\ Polled("flush")
  /\ call' = "idle"
  /\ UNCHANGED << transmitter, receiver, arg, open, line, ear, serialHistory >>

(* end lets go of the pin; the peer's pull-up makes the line high.         *)
EndDone ==
  /\ Polled("end")
  /\ call' = "idle"
  /\ open' = FALSE /\ txd' = 1
  /\ cut' = IF Len(heard) < Len(written) THEN {Len(written)} \cup cut ELSE cut
  /\ UNCHANGED << cctl0, ccr0, USARTTXBUF, receiver, arg, line, ear, written,
                  heard, sent >>

(* begin, called again while both lines are quiet.                         *)
BeginSerial ==
  /\ call = "idle" /\ ~open /\ ear.t = 0 /\ line = NoFrame
  /\ ~cctl1.ifg
  /\ open' = TRUE /\ txd' = 1
  /\ cctl0' = [ie |-> FALSE, ifg |-> FALSE, out |-> cctl0.out]
  /\ cctl1' = [cctl1 EXCEPT !.cap = TRUE]
  /\ UNCHANGED << ccr0, USARTTXBUF, ccr1, rx_bits, rx_buffer, call, arg, line,
                  ear, serialHistory >>

ReadSerial ==
  /\ call = "idle" /\ ~IsEmpty(rx_buffer)
  /\ call' = "read" /\ arg' = Oldest(rx_buffer)
  /\ UNCHANGED << transmitter, receiver, open, line, ear, serialHistory >>

ReadDone ==
  /\ call = "read"
  /\ call' = "idle" /\ arg' = 0
  /\ rx_buffer' = AdvanceTail(rx_buffer)
  /\ UNCHANGED << transmitter, cctl1, ccr1, rx_bits, open, line, ear,
                  serialHistory >>

-----------------------------------------------------------------------------
(* TimerSerial__TxIsr chooses the level of the next match.  It turns itself*)
(* off with the last bit, the stop bit, when that is still two matches off.*)
BugTxIsrMore(bits) == bits > 1

BugTxIsrNeverDone(bits) == TRUE

TxIsrMore(bits) == bits # 0

SerialTxIsr ==
  /\ cctl0.ie /\ cctl0.ifg
  /\ ccr0' = TICKS_PER_BIT
  /\ cctl0' = [ie |-> TxIsrMore(USARTTXBUF \div 2), ifg |-> FALSE,
               out |-> USARTTXBUF % 2]
  /\ USARTTXBUF' = USARTTXBUF \div 2
  /\ UNCHANGED << txd, receiver, sketch, line, ear, serialHistory >>

(* store_rxchar stores the byte even if it finds the ring full, and then   *)
(* does not publish it.                                                    *)
BugStoreRxChar(r, c) == PublishHead(PutSlot(r, c))

StoreRxChar(r, c) ==
  IF IsFull(r) THEN PutSlot(r, c) ELSE PublishHead(PutSlot(r, c))

BugFirstSample == TICKS_PER_BIT_DIV2

FirstSample == TICKS_PER_BIT + TICKS_PER_BIT_DIV2

(* TimerSerial__RxIsr, called for the edge of a start bit ...              *)
SerialRxStart ==
  /\ cctl1.ifg /\ cctl1.cap
  /\ ccr1' = FirstSample
  /\ rx_bits' = NoBits
  /\ cctl1' = [cctl1 EXCEPT !.ifg = FALSE, !.cap = FALSE]
  /\ UNCHANGED << transmitter, rx_buffer, sketch, line, ear, serialHistory >>

(* ... and in the middle of each data bit.                                 *)
SerialRxBit ==
  /\ cctl1.ifg /\ ~cctl1.cap
  /\ LET bits == AddBit(rx_bits, cctl1.scci)
         whole == bits.mask = 0
     IN /\ rx_bits' = bits
        /\ ccr1' = IF whole THEN 0 ELSE TICKS_PER_BIT
        /\ cctl1' = [cctl1 EXCEPT !.ifg = FALSE, !.cap = whole]
        /\ rx_buffer' = IF whole THEN StoreRxChar(rx_buffer, bits.data)
                                 ELSE rx_buffer
  /\ UNCHANGED << transmitter, sketch, line, ear, serialHistory >>

-----------------------------------------------------------------------------
(* The peer: it starts a byte at any tick, holds each bit for its time, and*)
(* samples what it hears in the middle of a bit, the stop bit included.    *)
PeerSend ==
  /\ line = NoFrame /\ Len(written) + Len(sent) < MaxBytes
  /\ \E b \in Bytes :
       /\ line' = [frame |-> Frame(b), t |-> TICKS_PER_BIT]
       /\ sent' = Append(sent, b)
  /\ cctl1' = [cctl1 EXCEPT !.ifg = @ \/ cctl1.cap]
  /\ UNCHANGED << transmitter, ccr1, rx_bits, rx_buffer, sketch, ear, written,
                  heard, cut >>

Down(n) == IF n > 0 THEN n - 1 ELSE 0

NextOnLine ==
  IF line.t > 1 THEN [line EXCEPT !.t = @ - 1]
  ELSE IF line.frame > 1
       THEN [frame |-> line.frame \div 2, t |-> TICKS_PER_BIT]
       ELSE NoFrame

Listen(level) ==
  LET starts == ear.t = 0 /\ txd = 1 /\ level = 0
      samples == ear.t = 1
      stops == samples /\ ear.bits.mask = 0
      half == TICKS_PER_BIT_DIV2
  IN /\ ear' = IF starts THEN [bits |-> NoBits, t |-> TICKS_PER_BIT + half]
               ELSE IF stops THEN Deaf
               ELSE IF samples
                    THEN [bits |-> AddBit(ear.bits, level),
                          t |-> TICKS_PER_BIT]
                    ELSE [ear EXCEPT !.t = Down(@)]
     /\ heard' = IF stops
                 THEN Append(heard, [byte |-> ear.bits.data, stop |-> level])
                 ELSE heard

(* The timer counts.  A match of TA0CCR0 drives the pin; in capture mode a *)
(* falling edge sets the receive flag, in compare mode a match of TA0CCR1  *)
(* does and latches the line.                                              *)
Tick ==
  /\ ~(cctl0.ie /\ cctl0.ifg) /\ ~cctl1.ifg
  /\ call # "read" /\ \A c \in {"write", "flush", "end"} : ~Polled(c)
  /\ LET match0 == ccr0 = 1
         level == IF match0 /\ open THEN cctl0.out ELSE txd
         falls == Level(line) = 1 /\ Level(NextOnLine) = 0
         match1 == ~cctl1.cap /\ ccr1 = 1
     IN /\ txd' = level /\ Listen(level)
        /\ cctl0' = [cctl0 EXCEPT !.ifg = @ \/ match0]
        /\ cctl1' = [cctl1 EXCEPT
             !.ifg = IF cctl1.cap THEN falls ELSE match1,
             !.scci = IF match1 THEN Level(NextOnLine) ELSE @]
  /\ line' = NextOnLine
  /\ ccr0' = Down(ccr0) /\ ccr1' = Down(ccr1)
  /\ UNCHANGED << USARTTXBUF, rx_bits, rx_buffer, sketch, written, sent, cut >>

SerialRun ==
  \/ WriteStart \/ FlushDone \/ EndDone \/ ReadDone
  \/ SerialTxIsr \/ SerialRxStart \/ SerialRxBit \/ Tick

SerialNext ==
  \/ SerialRun \/ WriteSerial \/ FlushSerial \/ EndSerial \/ BeginSerial
  \/ ReadSerial \/ PeerSend
-----------------------------------------------------------------------------
(* Type invariant of the timer serial port.                                *)
SerialTypeOK ==
  /\ txd \in {0, 1} /\ cctl0 \in [ie : BOOLEAN, ifg : BOOLEAN, out : {0, 1}]
  /\ ccr0 \in 0 .. TICKS_PER_BIT /\ USARTTXBUF \in 0 .. 4 * STOP_BIT - 1
  /\ cctl1 \in [cap : BOOLEAN, ifg : BOOLEAN, scci : {0, 1}]
  /\ ccr1 \in 0 .. TICKS_PER_BIT + TICKS_PER_BIT_DIV2
  /\ rx_bits \in [data : 0 .. STOP_BIT - 1, mask : 0 .. STOP_BIT - 1]
  /\ rx_buffer \in RingType(0 .. STOP_BIT - 1)
  /\ call \in {"idle", "write", "flush", "end", "read"}
  /\ arg \in 0 .. STOP_BIT - 1 /\ open \in BOOLEAN

(* Every byte that write accepted reaches the peer bit for bit and in      *)
(* order, however long the sketch lets pass between two writes, unless end *)
(* let go of the pin before it was heard.                                  *)
HeardAsWritten ==
  /\ Len(heard) <= Len(written)
  /\ \A k \in DOMAIN heard \ cut : heard[k].byte = written[k]

(* What the receive handler puts in the ring is the byte the peer sent,    *)
(* whatever bits came before it, whatever the transmitter does meanwhile.  *)
StoredAsSent ==
  [][rx_buffer'.head # rx_buffer.head
       => Contents(rx_buffer')[Available(rx_buffer')] = sent[Len(sent)]
    ]_serialVars

(* write, flush and end, which poll with no timeout, return.               *)
PollEnds == call \in {"write", "flush", "end"} ~> call = "idle"

(* write waits so that "we don't stomp on the the stop bit from our        *)
(* previous xmt" (TimerSerial.cpp:172-173): the peer finds the line high   *)
(* when it samples the stop bit.                                           *)
StopBitKept == \A k \in DOMAIN heard \ cut : heard[k].stop = 1
=============================================================================
