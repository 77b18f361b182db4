--------------------------------- MODULE Twi --------------------------------
(***************************************************************************)
(* The I2C engine twi.c and the Wire object over it, built for a device    *)
(* with a USCI_B0 (__MSP430_HAS_USCI__).  The sketch talks to one slave;   *)
(* another master may talk to the sketch.  A buffer is the sequence of its *)
(* live bytes, a register Empty once its byte has been taken; what lies    *)
(* beyond a buffer's live bytes is any byte.                               *)
(*                                                                         *)
(* Handlers run whole, before the sketch goes on; they may come between    *)
(* any two statements of it that they share a variable with, which are     *)
(* actions of their own, in the order of the source.  A byte takes longer  *)
(* than the handlers it raises and than a turn of a waiting loop, so the   *)
(* module and the bus go on when neither is due (Settled).                 *)
(***************************************************************************)
EXTENDS Integers, Sequences, SequencesExt

CONSTANTS
  BUFFER_LENGTH,  \* BUFFER_LENGTH and TWI_BUFFER_LENGTH
  UINT8,          \* values of uint8_t
  Bytes,          \* what is sent, both ways
  Quantities,     \* what the sketch asks requestFrom for
  Stops,          \* the sendStop it gives endTransmission
  Replies,        \* what its onRequest callback writes
  RemoteMax       \* bytes the other master writes or clocks out at most

ASSUME TwiAssumption ==
  /\ BUFFER_LENGTH \in Nat \ {0} /\ UINT8 \in Nat \ {0} /\ RemoteMax \in Nat
  /\ BUFFER_LENGTH < UINT8
  /\ Bytes \subseteq 1 .. UINT8 - 1 /\ Quantities \subseteq Nat \ {0}
  /\ Stops \subseteq BOOLEAN /\ Replies \subseteq Seq(Bytes)

Empty == -1

Data == Bytes \cup {0}

VARIABLES
  twi_state, twi_error, twi_sendStop,
  twi_masterBuffer, twi_masterBufferIndex, twi_masterBufferLength,
  twi_rxBuffer, twi_txBuffer, twi_txBufferIndex,
  rxBuffer, rxBufferIndex, txBuffer, txBufferIndex, txBufferLength,
  transmitting,   \* these six of Wire
  length,         \* the argument of twi_writeTo, while it is not used yet
  ctl, ifg,       \* bits set in the control and in the flag registers
  UCTXBUF, UCRXBUF, shift,
  bus,            \* what the bus is doing
  call,           \* where the sketch is: idle, or in a call
  wire,           \* the bytes accepted in the transfer on the bus
  lost,           \* the call under way has lost the bus to another master
  wrote, killed,  \* what the sketch wrote, and whether a request emptied it
  message, got,   \* what came for rxBuffer, and what has been read of it
  reply, diverted \* what the callback wrote at the request on the bus, and
                  \* whether that went to txBuffer

master == << twi_masterBuffer, twi_masterBufferIndex, twi_masterBufferLength >>

slave == << twi_rxBuffer, twi_txBuffer, twi_txBufferIndex >>

toRead == << rxBuffer, rxBufferIndex, message, got >>

txBufferIndices == << txBufferIndex, txBufferLength >>

toWrite == << txBuffer, txBufferIndices, transmitting, length, wrote, killed >>

asked == << reply, diverted >>

regs == << ctl, ifg, UCTXBUF, UCRXBUF, shift >>

doing == << call, lost >>

twi == << twi_state, twi_error, twi_sendStop >>

twiVars ==
  << twi, master, slave, toRead, toWrite, asked, regs, bus, doing, wire >>

(* The state interrupts have the vector of the higher priority.            *)
StatePending == ifg \cap {"AL", "NACK", "START", "STOP"} # {}

Pending ==
  \/ StatePending \/ "TX" \in ifg
  \/ "RX" \in ifg /\ "RXIE" \in ctl

Handler == ~StatePending /\ Pending

(* The sketch is in a call that waits for the bus.                         *)
Waiting == call \in {"writing", "single", "reading"}

Settled == ~Pending /\ ~(call = "single" /\ "STT" \notin ctl)

(* begin(address): a slave that no one has addressed.                      *)
Init ==
  /\ twi_state = "IDLE" /\ twi_error = 0 /\ twi_sendStop = TRUE
  /\ twi_masterBuffer = << >> /\ twi_masterBufferIndex = 0
  /\ twi_masterBufferLength = 0
  /\ twi_rxBuffer = << >> /\ twi_txBuffer = << >> /\ twi_txBufferIndex = 0
  /\ rxBuffer = << >> /\ rxBufferIndex = 0 /\ message = << >> /\ got = << >>
  /\ txBuffer = << >> /\ transmitting = FALSE /\ wrote = << >>
  /\ txBufferIndex = 0 /\ txBufferLength = 0 /\ length = 0
  /\ killed = FALSE /\ reply = << >> /\ diverted = FALSE
  /\ ctl = {"RXIE"} /\ ifg = {} /\ UCTXBUF = Empty /\ UCRXBUF = Empty
  /\ shift = Empty /\ bus = "free" /\ call = "idle" /\ lost = FALSE
  /\ wire = << >>

(* UCSWRST: the module lets go of the bus, and of a transfer of the other  *)
(* master's, which goes on with no one; the bits of UCB0CTL1 are written.  *)
(* What twi_rxBuffer held is not read before a start has emptied it.       *)
Reset(bits) ==
  /\ ctl' = bits /\ ifg' = {}
  /\ UCTXBUF' = Empty /\ UCRXBUF' = Empty /\ shift' = Empty
  /\ bus' = IF bus \in {"rin", "rout", "other"} THEN "other" ELSE "free"
  /\ wire' = << >> /\ twi_rxBuffer' = << >>
  /\ reply' = << >> /\ diverted' = FALSE

Sketch(from, to) ==
  /\ ~Pending /\ call = from /\ call' = to
  /\ lost' = (lost /\ to # "idle")

(* begin: the indices of rxBuffer, then the engine, then the module.  The  *)
(* indices of txBuffer, which it resets too, are 0 between transmissions.  *)
Begin ==
  /\ Sketch("idle", "begin_length") /\ ~transmitting
  /\ rxBufferIndex' = 0 /\ got' = << >>
  /\ UNCHANGED << twi, master, slave, rxBuffer, message, toWrite, asked, regs,
                  bus, wire >>

BeginLength ==
  /\ Sketch("begin_length", "begin_state")
  /\ rxBuffer' = << >> /\ message' = << >> /\ got' = << >>
  /\ UNCHANGED << twi, master, slave, rxBufferIndex, toWrite, asked, regs, bus,
                  wire >>

BeginState ==
  /\ Sketch("begin_state", "begin_reset")
  /\ twi_state' = "IDLE" /\ twi_sendStop' = TRUE
  /\ UNCHANGED << twi_error, master, slave, toRead, toWrite, asked, regs, bus,
                  wire >>

BeginReset ==
  /\ Sketch("begin_reset", "idle")
  /\ Reset({"RXIE"})
  /\ UNCHANGED << twi, master, twi_txBuffer, twi_txBufferIndex, toRead,
                  toWrite >>

BeginTransmission ==
  /\ Sketch("idle", "begin_tx_index")
  /\ transmitting' = TRUE
  /\ UNCHANGED << twi, master, slave, toRead, txBuffer, txBufferIndices,
                  length, wrote, killed, asked, regs, bus, wire >>

BeginTxIndex ==
  /\ Sketch("begin_tx_index", "begin_tx_length")
  /\ txBufferIndex' = 0 /\ txBuffer' = << >>
  /\ wrote' = << >> /\ killed' = FALSE
  /\ UNCHANGED << twi, master, slave, toRead, txBufferLength, transmitting,
                  length, asked, regs, bus, wire >>

BeginTxLength ==
  /\ Sketch("begin_tx_length", "idle")
  /\ txBufferLength' = 0
  /\ UNCHANGED << twi, master, slave, toRead, txBuffer, txBufferIndex,
                  transmitting, length, wrote, killed, asked, regs, bus,
                  wire >>

(* Wire.write while transmitting.  A byte that does not fit is refused,    *)
(* and then nothing changes.                                               *)
BugRoom == txBufferLength <= BUFFER_LENGTH

Room == txBufferLength < BUFFER_LENGTH

Write ==
  /\ Sketch("idle", "write_store")
  /\ transmitting /\ Room
  /\ UNCHANGED << twi, master, slave, toRead, toWrite, asked, regs, bus,
                  wire >>

(* A request since then may have left no room: the byte then goes to a     *)
(* variable behind the buffer, which may be txBufferIndex.                 *)
WriteStore ==
  \E b \in Bytes :
    /\ Sketch("write_store", "write_count")
    /\ IF txBufferIndex < BUFFER_LENGTH
       THEN /\ txBuffer' = IF txBufferIndex <= Len(txBuffer)
                           THEN Append(SubSeq(txBuffer, 1, txBufferIndex), b)
                           ELSE txBuffer
            /\ UNCHANGED txBufferIndex
       ELSE txBufferIndex' \in {txBufferIndex, b} /\ UNCHANGED txBuffer
    /\ wrote' = IF killed THEN wrote ELSE Append(wrote, b)
    /\ UNCHANGED << twi, master, slave, toRead, txBufferLength, transmitting,
                    length, killed, asked, regs, bus, wire >>

WriteCount ==
  /\ Sketch("write_count", "write_length")
  /\ txBufferIndex' = (txBufferIndex + 1) % UINT8
  /\ UNCHANGED << twi, master, slave, toRead, txBuffer, txBufferLength,
                  transmitting, length, wrote, killed, asked, regs, bus,
                  wire >>

WriteLength ==
  /\ Sketch("write_length", "idle")
  /\ txBufferLength' = txBufferIndex
  /\ UNCHANGED << twi, master, slave, toRead, txBuffer, txBufferIndex,
                  transmitting, length, wrote, killed, asked, regs, bus,
                  wire >>

(* endTransmission calls twi_writeTo, which resets the module and is then  *)
(* master: no request comes before the next begin.                         *)
End ==
  /\ Sketch("idle", "end") /\ transmitting
  /\ length' = txBufferLength
  /\ UNCHANGED << twi, master, slave, toRead, txBuffer, txBufferIndices,
                  transmitting, wrote, killed, asked, regs, bus, wire >>

(* endTransmission ends.                                                   *)
Ended ==
  /\ txBuffer' = << >> /\ txBufferIndex' = 0 /\ txBufferLength' = 0
  /\ transmitting' = FALSE /\ length' = 0
  /\ wrote' = << >> /\ killed' = FALSE

(* Nothing to send is a success at once, too much an error.                *)
EndUnsent ==
  /\ Sketch("end", "idle") /\ length \notin 1 .. BUFFER_LENGTH
  /\ Reset({"MST", "TR"})
  /\ twi_error' = 0 /\ twi_sendStop' \in Stops
  /\ Ended
  /\ UNCHANGED << twi_state, master, twi_txBuffer, twi_txBufferIndex, toRead >>

(* n bytes of txBuffer.                                                    *)
Sent(n) ==
  {s \in [1 .. n -> Data] :
     \A i \in 1 .. n : i <= Len(txBuffer) => s[i] = txBuffer[i]}

EndTransmission ==
  /\ Sketch("end", "writing") /\ length \in 1 .. BUFFER_LENGTH
  /\ Reset({"MST", "TR", "STT"})
  /\ twi_error' = 0 /\ twi_sendStop' \in Stops /\ twi_state' = "MTX"
  /\ twi_masterBuffer' \in Sent(length) /\ twi_masterBufferIndex' = 0
  /\ twi_masterBufferLength' = length /\ length' = 0
  /\ UNCHANGED << twi_txBuffer, twi_txBufferIndex, toRead, txBuffer,
                  txBufferIndices, transmitting, wrote, killed >>

(* What no one reads before the next call sets it.                         *)
Forgotten ==
  /\ twi_masterBuffer' = << >> /\ twi_masterBufferIndex' = 0
  /\ twi_masterBufferLength' = 0 /\ twi_error' = 0 /\ wire' = << >>

(* The wait for the interrupts, then for the stop or the second start.     *)
WriteReturns ==
  /\ Sketch("writing", "idle")
  /\ twi_state = "IDLE"
  /\ (IF twi_sendStop THEN "STP" ELSE "STT") \notin ctl
  /\ Ended /\ Forgotten
  /\ UNCHANGED << twi_state, twi_sendStop, slave, toRead, asked, regs, bus >>

(* requestFrom and twi_readFrom: one byte needs its stop asked for here.   *)
RequestFrom ==
  \E quantity \in Quantities :
    LET n == Min({quantity, BUFFER_LENGTH})
    IN /\ Sketch("idle", IF n = 1 THEN "single" ELSE "reading")
       /\ ~transmitting
       /\ Reset({"MST", "RXIE", "STT"})
       /\ twi_state' = "MRX"
       /\ twi_masterBuffer' = << >> /\ twi_masterBufferIndex' = 0
       /\ twi_masterBufferLength' = n - 1
       /\ UNCHANGED << twi_error, twi_sendStop, twi_txBuffer,
                       twi_txBufferIndex, toRead, toWrite >>

StopSingle ==
  /\ Sketch("single", "reading")
  /\ "STT" \notin ctl /\ ctl' = ctl \cup {"STP"}
  /\ UNCHANGED << twi, master, slave, toRead, toWrite, asked, ifg, UCTXBUF,
                  UCRXBUF, shift, bus, wire >>

ReadReturns ==
  /\ Sketch("reading", "idle")
  /\ twi_state = "IDLE" /\ "STP" \notin ctl
  /\ rxBuffer' = SubSeq(twi_masterBuffer, 1, Min({twi_masterBufferIndex,
                                                 twi_masterBufferLength + 1}))
  /\ rxBufferIndex' = 0 /\ message' = wire /\ got' = << >>
  /\ Forgotten
  /\ UNCHANGED << twi_state, twi_sendStop, slave, toWrite, asked, regs, bus >>

(* Wire.read takes the byte, then counts it.                               *)
Read ==
  /\ Sketch("idle", "read")
  /\ rxBufferIndex < Len(rxBuffer)
  /\ got' = Append(got, rxBuffer[rxBufferIndex + 1])
  /\ UNCHANGED << twi, master, slave, rxBuffer, rxBufferIndex, message,
                  toWrite, asked, regs, bus, wire >>

ReadCounted ==
  /\ Sketch("read", "idle")
  /\ rxBufferIndex' = rxBufferIndex + 1
  /\ UNCHANGED << twi, master, slave, rxBuffer, message, got, toWrite, asked,
                  regs, bus, wire >>
-----------------------------------------------------------------------------
(* i2c_txrx_isr.  Reading UCB0RXBUF and writing UCB0TXBUF end its request. *)
BugStopDue(n) == n = twi_masterBufferLength + 1

StopDue(n) == n = twi_masterBufferLength

RxMaster ==
  /\ Handler /\ "RX" \in ifg /\ twi_state = "MRX"
  /\ twi_masterBuffer' = Append(twi_masterBuffer, UCRXBUF)
  /\ twi_masterBufferIndex' = twi_masterBufferIndex + 1
  /\ ctl' = IF StopDue(twi_masterBufferIndex') THEN ctl \cup {"STP"} ELSE ctl
  /\ twi_state' = IF twi_masterBufferIndex' > twi_masterBufferLength
                  THEN "IDLE" ELSE twi_state
  /\ ifg' = ifg \ {"RX"} /\ UCRXBUF' = Empty
  /\ UNCHANGED << twi_error, twi_sendStop, twi_masterBufferLength, slave,
                  toRead, toWrite, asked, UCTXBUF, shift, bus, doing, wire >>

(* A byte that does not fit stays in UCB0RXBUF, and so does its request.   *)
RxSlave ==
  /\ Handler /\ "RX" \in ifg /\ twi_state # "MRX"
  /\ IF Len(twi_rxBuffer) < BUFFER_LENGTH
     THEN /\ twi_rxBuffer' = Append(twi_rxBuffer, UCRXBUF)
          /\ ifg' = ifg \ {"RX"} /\ UCRXBUF' = Empty /\ UNCHANGED ctl
     ELSE /\ ctl' = ctl \cup {"UCTXNACK"}
          /\ UNCHANGED << twi_rxBuffer, ifg, UCRXBUF >>
  /\ UNCHANGED << twi, master, twi_txBuffer, twi_txBufferIndex, toRead,
                  toWrite, asked, UCTXBUF, shift, bus, doing, wire >>

BugAllSent == twi_masterBufferIndex >= twi_masterBufferLength - 1

AllSent == twi_masterBufferIndex >= twi_masterBufferLength

TxMaster ==
  /\ Handler /\ "TX" \in ifg /\ "RX" \notin ifg /\ twi_state = "MTX"
  /\ ~AllSent
  /\ UCTXBUF' = twi_masterBuffer[twi_masterBufferIndex + 1]
  /\ twi_masterBufferIndex' = twi_masterBufferIndex + 1
  /\ ifg' = ifg \ {"TX"}
  /\ UNCHANGED << twi, twi_masterBuffer, twi_masterBufferLength, slave, toRead,
                  toWrite, asked, ctl, UCRXBUF, shift, bus, doing, wire >>

(* After the last byte the request stays: TxSlave then ends it.            *)
TxMasterDone ==
  /\ Handler /\ "TX" \in ifg /\ "RX" \notin ifg /\ twi_state = "MTX"
  /\ AllSent
  /\ ctl' = ctl \cup {IF twi_sendStop THEN "STP" ELSE "STT"}
  /\ twi_state' = "IDLE"
  /\ UNCHANGED << twi_error, twi_sendStop, master, slave, toRead, toWrite,
                  asked, ifg, UCTXBUF, UCRXBUF, shift, bus, doing, wire >>

(* Past the reply the code reads on in memory, and finds any byte there.   *)
BugTxBytes(i) ==
  IF i + 1 < Len(twi_txBuffer) THEN {twi_txBuffer[i + 2]} ELSE Data

TxBytes(i) == IF i < Len(twi_txBuffer) THEN {twi_txBuffer[i + 1]} ELSE Data

TxSlave ==
  /\ Handler /\ "TX" \in ifg /\ "RX" \notin ifg /\ twi_state # "MTX"
  /\ UCTXBUF' \in TxBytes(twi_txBufferIndex)
  /\ twi_txBufferIndex' = (twi_txBufferIndex + 1) % UINT8
  /\ ctl' = IF twi_txBufferIndex' < Len(twi_txBuffer) THEN ctl
            ELSE ctl \cup {"UCTXNACK"}
  /\ ifg' = ifg \ {"TX"}
  /\ UNCHANGED << twi, master, twi_rxBuffer, twi_txBuffer, toRead, toWrite,
                  asked, UCRXBUF, shift, bus, doing, wire >>
-----------------------------------------------------------------------------
(* i2c_state_isr.  A lost arbitration is noted, and nothing else.          *)
ArbitrationIsr ==
  /\ "AL" \in ifg /\ ifg' = ifg \ {"AL"}
  /\ UNCHANGED << twi, master, slave, toRead, toWrite, asked, ctl, UCTXBUF,
                  UCRXBUF, shift, bus, doing, wire >>

BugNackIsr ==
  /\ "NACK" \in ifg /\ ifg' = ifg \ {"NACK"}
  /\ ctl' = ctl \cup {"STP"}
  /\ twi_error' = 3
  /\ UNCHANGED << twi_state, twi_sendStop, master, slave, toRead, toWrite,
                  asked, UCTXBUF, UCRXBUF, shift, bus, doing, wire >>

NackIsr ==
  /\ "NACK" \in ifg /\ ifg' = ifg \ {"NACK"}
  /\ ctl' = ctl \cup {"STP"}
  /\ twi_state' = "IDLE" /\ twi_error' = 3
  /\ UNCHANGED << twi_sendStop, master, slave, toRead, toWrite, asked, UCTXBUF,
                  UCRXBUF, shift, bus, doing, wire >>

(* What fits into the buffer of Wire of the bytes written.                 *)
Written(r) == SubSeq(r, 1, Min({BUFFER_LENGTH, Len(r)}))

(* Addressed to be read: onRequestService empties the buffer of Wire, and  *)
(* the callback writes one reply, which goes there while the sketch is     *)
(* transmitting.  No reply, or one too long, is answered with a 0.         *)
StartTxIsr ==
  \E r \in Replies :
    /\ "START" \in ifg /\ ifg' = ifg \ {"START"} /\ "TR" \in ctl
    /\ twi_state' = "STX" /\ twi_txBufferIndex' = 0
    /\ reply' = r /\ diverted' = transmitting
    /\ txBuffer' = IF transmitting THEN Written(r) ELSE << >>
    /\ txBufferIndex' = Len(txBuffer') /\ txBufferLength' = Len(txBuffer')
    /\ killed' = transmitting /\ wrote' = << >>
    /\ twi_txBuffer' = IF ~transmitting /\ Len(r) \in 1 .. BUFFER_LENGTH
                       THEN r ELSE << 0 >>
    /\ UNCHANGED << twi_error, twi_sendStop, master, twi_rxBuffer, toRead,
                    transmitting, length, ctl, UCTXBUF, UCRXBUF, shift, bus,
                    doing, wire >>

StartRxIsr ==
  /\ "START" \in ifg /\ ifg' = ifg \ {"START"} /\ "TR" \notin ctl
  /\ twi_state' = "SRX" /\ twi_rxBuffer' = << >>
  /\ UNCHANGED << twi_error, twi_sendStop, master, twi_txBuffer,
                  twi_txBufferIndex, toRead, toWrite, asked, ctl, UCTXBUF,
                  UCRXBUF, shift, bus, doing, wire >>

(* onReceiveService drops a message while one before it is not read; the   *)
(* callback reads as many bytes as it likes.  Until the next start no byte *)
(* of the two buffers of the engine is live; that twi_rxBuffer is full     *)
(* matters while the byte that did not fit still waits.                    *)
BugDelivered ==
  /\ rxBuffer' = twi_rxBuffer /\ message' = wire
  /\ rxBufferIndex' \in 0 .. Len(twi_rxBuffer)
  /\ got' = SubSeq(twi_rxBuffer, 1, rxBufferIndex')

Delivered ==
  /\ rxBufferIndex >= Len(rxBuffer)
  /\ rxBuffer' = twi_rxBuffer /\ message' = wire
  /\ rxBufferIndex' \in 0 .. Len(twi_rxBuffer)
  /\ got' = SubSeq(twi_rxBuffer, 1, rxBufferIndex')

Dropped == rxBufferIndex < Len(rxBuffer) /\ UNCHANGED toRead

StopIsr ==
  /\ "STOP" \in ifg /\ ifg' = ifg \ {"STOP"}
  /\ IF twi_state = "SRX" THEN Delivered \/ Dropped ELSE UNCHANGED toRead
  /\ twi_state' = "IDLE" /\ wire' = << >>
  /\ twi_rxBuffer' = (IF "RX" \in ifg THEN twi_rxBuffer ELSE << >>)
  /\ twi_txBuffer' = << >> /\ reply' = << >> /\ diverted' = FALSE
  /\ UNCHANGED << twi_error, twi_sendStop, master, twi_txBufferIndex, toWrite,
                  ctl, UCTXBUF, UCRXBUF, shift, bus, doing >>
-----------------------------------------------------------------------------
(* The module as master: start, address, bytes, stop.                      *)
HwStart ==
  /\ Settled /\ {"MST", "STT"} \subseteq ctl
  /\ bus = "free" \/ (bus = "out" /\ shift = Empty)
  /\ bus' = "addr" /\ wire' = << >>
  /\ ifg' = IF "TR" \in ctl THEN ifg \cup {"TX"} ELSE ifg
  /\ UNCHANGED << twi, master, slave, toRead, toWrite, asked, ctl, UCTXBUF,
                  UCRXBUF, shift, doing >>

HwAddress ==
  /\ Settled /\ bus = "addr"
  /\ ctl' = ctl \ {"STT"}
  /\ \/ bus' = (IF "TR" \in ctl THEN "out" ELSE "in") /\ UNCHANGED ifg
     \/ bus' = "held" /\ ifg' = ifg \cup {"NACK"}
  /\ UNCHANGED << twi, master, slave, toRead, toWrite, asked, UCTXBUF, UCRXBUF,
                  shift, doing, wire >>

(* The next byte leaves the buffer, unless the transfer is to end.         *)
HwLoad ==
  /\ Settled /\ shift = Empty
  /\ \/ bus = "out" /\ ctl \cap {"STP", "STT"} = {}
     \/ bus = "rout"
  /\ shift' = UCTXBUF /\ UCTXBUF' = Empty
  /\ ifg' = ifg \cup {"TX"}
  /\ UNCHANGED << twi, master, slave, toRead, toWrite, asked, ctl, UCRXBUF,
                  bus, doing, wire >>

HwSent ==
  /\ Settled /\ bus = "out" /\ shift # Empty /\ shift' = Empty
  /\ \/ wire' = Append(wire, shift) /\ UNCHANGED << bus, ifg >>
     \/ bus' = "held" /\ ifg' = ifg \cup {"NACK"} /\ UNCHANGED wire
  /\ UNCHANGED << twi, master, slave, toRead, toWrite, asked, ctl, UCTXBUF,
                  UCRXBUF, doing >>

HwRecv ==
  /\ Settled /\ bus = "in"
  /\ UCRXBUF' \in Bytes /\ ifg' = ifg \cup {"RX"}
  /\ wire' = Append(wire, UCRXBUF')
  /\ bus' = IF "STP" \in ctl THEN "held" ELSE bus
  /\ UNCHANGED << twi, master, slave, toRead, toWrite, asked, ctl, UCTXBUF,
                  shift, doing >>

HwStop ==
  /\ Settled /\ "STP" \in ctl
  /\ bus = "held" \/ (bus = "out" /\ shift = Empty)
  /\ ctl' = ctl \ {"STP"} /\ bus' = "free"
  /\ UNCHANGED << twi, master, slave, toRead, toWrite, asked, ifg, UCTXBUF,
                  UCRXBUF, shift, doing, wire >>

HwArbitrationLost ==
  /\ Settled /\ bus \in {"addr", "out"}
  /\ ctl' = ctl \ {"MST", "STT"} /\ ifg' = ifg \cup {"AL"}
  /\ shift' = Empty /\ bus' = "other" /\ lost' = Waiting
  /\ UNCHANGED << twi, master, slave, toRead, toWrite, asked, UCTXBUF, UCRXBUF,
                  call, wire >>

(* Another master, which may address the sketch while it is no master; one *)
(* that won the bus from it does not, before its call has returned.        *)
RemoteStart ==
  /\ Settled /\ bus = "free" /\ "MST" \notin ctl /\ ~lost
  /\ bus' \in {"rin", "rout"} /\ wire' = << >>
  /\ ctl' = (ctl \ {"TR", "UCTXNACK"})
              \cup (IF bus' = "rout" THEN {"TR"} ELSE {})
  /\ ifg' = ifg \cup {"START"} \cup (IF bus' = "rout" THEN {"TX"} ELSE {})
  /\ UCTXBUF' = Empty
  /\ UNCHANGED << twi, master, slave, toRead, toWrite, asked, UCRXBUF, shift,
                  doing >>

RemoteWrites ==
  /\ Settled /\ bus = "rin" /\ Len(wire) < RemoteMax /\ "RX" \notin ifg
  /\ UCRXBUF' \in Bytes /\ ifg' = ifg \cup {"RX"}
  /\ wire' = Append(wire, UCRXBUF')
  /\ UNCHANGED << twi, master, slave, toRead, toWrite, asked, ctl, UCTXBUF,
                  shift, bus, doing >>

RemoteReads ==
  /\ Settled /\ bus = "rout" /\ shift # Empty /\ Len(wire) < RemoteMax
  /\ wire' = Append(wire, shift) /\ shift' = Empty
  /\ UNCHANGED << twi, master, slave, toRead, toWrite, asked, ctl, ifg,
                  UCTXBUF, UCRXBUF, bus, doing >>

RemoteStop ==
  /\ Settled /\ bus \in {"rin", "rout"}
  /\ bus' = "free" /\ shift' = Empty /\ ifg' = ifg \cup {"STOP"}
  /\ UNCHANGED << twi, master, slave, toRead, toWrite, asked, ctl, UCTXBUF,
                  UCRXBUF, doing, wire >>

(* A transfer the sketch has no part in ends.                              *)
OtherEnds ==
  /\ bus = "other" /\ bus' = "free"
  /\ UNCHANGED << twi, master, slave, toRead, toWrite, asked, regs, doing,
                  wire >>
-----------------------------------------------------------------------------
SketchAsks ==
  Begin \/ BeginTransmission \/ Write \/ End \/ RequestFrom \/ Read

SketchRuns ==
  \/ BeginLength \/ BeginState \/ BeginReset
  \/ BeginTxIndex \/ BeginTxLength
  \/ WriteStore \/ WriteCount \/ WriteLength
  \/ EndUnsent \/ EndTransmission \/ WriteReturns
  \/ StopSingle \/ ReadReturns \/ ReadCounted

Isr ==
  \/ RxMaster \/ RxSlave \/ TxMaster \/ TxMasterDone \/ TxSlave
  \/ ArbitrationIsr \/ NackIsr \/ StartTxIsr \/ StartRxIsr \/ StopIsr

Hw == HwStart \/ HwAddress \/ HwLoad \/ HwSent \/ HwRecv \/ HwStop

Remote == RemoteStart \/ RemoteWrites \/ RemoteReads \/ RemoteStop

Next ==
  SketchAsks \/ SketchRuns \/ Isr \/ Hw \/ HwArbitrationLost \/ Remote
    \/ OtherEnds

(* The CPU runs what is due, and the sketch between two bytes; the slave   *)
(* and the others let the bus go on.                                       *)
Fairness ==
  /\ SF_twiVars(SketchRuns) /\ WF_twiVars(Isr)
  /\ WF_twiVars(Hw) /\ WF_twiVars(OtherEnds)

Spec == Init /\ [][Next]_twiVars /\ Fairness
-----------------------------------------------------------------------------
Upto(S, n) == BoundedSeq(S, n)

(* Type invariant.  No index of the engine leaves its buffer, and none of  *)
(* Wire's where no request has come since beginTransmission: after one the *)
(* byte under way may be stored past txBuffer, and the length be too long. *)
TypeOK ==
  /\ twi_state \in {"IDLE", "MRX", "MTX", "SRX", "STX"}
  /\ twi_error \in {0, 3} /\ twi_sendStop \in BOOLEAN
  /\ twi_masterBuffer \in Upto(Data, BUFFER_LENGTH)
  /\ twi_masterBufferIndex \in 0 .. BUFFER_LENGTH
  /\ twi_masterBufferLength \in 0 .. BUFFER_LENGTH
  /\ twi_rxBuffer \in Upto(Bytes, BUFFER_LENGTH)
  /\ twi_txBuffer \in Upto(Data, BUFFER_LENGTH)
  /\ twi_txBufferIndex \in 0 .. UINT8 - 1
  /\ rxBuffer \in Upto(Data, BUFFER_LENGTH)
  /\ rxBufferIndex \in 0 .. BUFFER_LENGTH
  /\ txBuffer \in Upto(Bytes, BUFFER_LENGTH)
  /\ {txBufferIndex, txBufferLength, length} \subseteq 0 .. UINT8 - 1
  /\ ~killed => /\ length <= BUFFER_LENGTH
                /\ call # "begin_tx_length" => txBufferLength <= BUFFER_LENGTH
                /\ call = "write_store" => txBufferIndex < BUFFER_LENGTH
  /\ {transmitting, killed, diverted} \subseteq BOOLEAN
  /\ ctl \subseteq {"MST", "TR", "STT", "STP", "UCTXNACK", "RXIE"}
  /\ ifg \subseteq {"RX", "TX", "AL", "NACK", "START", "STOP"}
  /\ {UCTXBUF, UCRXBUF, shift} \subseteq Data \cup {Empty}
  /\ bus \in {"free", "addr", "out", "in", "held", "rin", "rout", "other"}
  /\ call \in {"idle", "begin_length", "begin_state", "begin_reset",
               "begin_tx_index", "begin_tx_length", "write_store",
               "write_count", "write_length", "end", "writing", "single",
               "reading", "read"}

(* The slave never accepts a byte that is not the next the sketch wrote,   *)
(* and endTransmission sends nothing, or returns success, only when it has *)
(* accepted them all, unless a request to the sketch as a slave came       *)
(* between, whose handler rewrites the buffer and its indices.             *)
WrittenAsAsked ==
  [][/\ HwSent /\ ~killed => IsPrefix(wire', wrote)
     /\ EndUnsent /\ ~killed => wrote = << >>
     /\ WriteReturns /\ twi_error = 0 /\ ~killed /\ ~lost =>
          wire = wrote]_twiVars

(* A slave is clocked for no more bytes than requestFrom asks, and what it *)
(* returns are the bytes the slave sent: all that were asked, or none when *)
(* no slave answered.                                                      *)
ReadAsAsked ==
  [][/\ HwRecv => Len(wire') <= twi_masterBufferLength + 1
     /\ ReadReturns /\ ~lost =>
          /\ rxBuffer' = wire
          /\ Len(wire) \in {0, twi_masterBufferLength + 1}]_twiVars

(* What the sketch and its callback read is one message, in order and with *)
(* no byte of another, whenever the next one comes.                        *)
MessageReadWhole == IsPrefix(got, message)

(* A master that reads the sketch gets what the callback of this request   *)
(* wrote, from its first byte on, whatever the handler left in the index   *)
(* and in UCB0TXBUF.  A reply during a transmission goes to txBuffer, and  *)
(* it, none, or one too long is answered with a 0 instead.                 *)
RequestAnswered ==
  bus = "rout" /\ ~diverted /\ Len(reply) \in 1 .. BUFFER_LENGTH =>
    \A i \in 1 .. Min({Len(wire), Len(reply)}) : wire[i] = reply[i]

(* endTransmission and requestFrom return, with a slave that refuses the   *)
(* address or a byte as with one that does not, unless arbitration is lost.*)
CallsReturn == call # "idle" ~> call = "idle" \/ lost

(* Every handler ends what requested it.                                   *)
HandlersEnd == Pending ~> ~Pending

(* What a slave accepts is sent by a call that has not returned.           *)
SentOnlyInCalls == [][HwSent /\ wire' # wire => call # "idle"]_twiVars
=============================================================================
