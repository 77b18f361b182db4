--------------------------- MODULE HardwareSerial --------------------------
(***************************************************************************)
(* One serial port of the msp430 core: HardwareSerial.cpp, its interrupt   *)
(* handlers (uart_rx_isr, uart_tx_isr and the vectors that call them in    *)
(* usci_isr_handler.c) and the UART they drive.                            *)
(*                                                                         *)
(* Three parties share the state:                                          *)
(*  - the sketch, which calls begin, write, read, peek, available, flush,  *)
(*    end, noInterrupts and interrupts, and runs one statement that touches*)
(*    shared state per step (pc says which is next);                       *)
(*  - the interrupt handlers, each one step, because the CPU clears GIE    *)
(*    when it enters one and they do not nest;                             *)
(*  - the UART: a holding register (TXBUF) and a shift register on the way *)
(*    out, a holding register (RXBUF) on the way in.                       *)
(*                                                                         *)
(* The code never looks at a byte's value, so bytes are named by the order *)
(* in which they were handed over: the n-th byte written is n, the n-th    *)
(* byte that arrives is n, and 0 is no byte.                               *)
(***************************************************************************)
EXTENDS RingBuffer

CONSTANTS
  SharedVector,  \* TRUE where UART and I2C share their vectors (USCI parts)
  MaxWrites,     \* bound: bytes the sketch writes
  MaxArrivals,   \* bound: bytes that arrive on the line
  MaxBegins      \* bound: calls of begin

ASSUME SerialAssumption ==
  /\ SharedVector \in BOOLEAN
  /\ MaxWrites \in Nat
  /\ MaxArrivals \in Nat
  /\ MaxBegins \in Nat

VARIABLES
  tx, rx,     \* the rings tx_buffer and rx_buffer
  ie,         \* the interrupt enable register of the UART
  gie,        \* the CPU's general interrupt enable
  txbuf,      \* UCAxTXBUF; UCTXIFG is set exactly when it holds no byte
  shift,      \* the transmit shift register
  rxbuf,      \* UCAxRXBUF; UCRXIFG is set exactly when it holds a byte
  begins,     \* how often begin has configured the UART
  pc,         \* what the sketch does next
  idx,        \* local i of write
  ieCopy,     \* IE as write read it, before it is written back
  held        \* local c of read

hardware == << ie, txbuf, shift, rxbuf >>
locals == << idx, ieCopy, held >>

(* History: what an observer of the port has seen.  No step depends on it, *)
(* but for written and arrived, which name the next byte.                  *)
VARIABLES
  written,    \* bytes published in tx by write
  wire,       \* the last byte whose last bit left the shift register
  cut,        \* the last byte that begin's reset of the UART threw away
  stranded,   \* begin reset the UART while bytes waited in tx
  arrived,    \* bytes that arrived on the line
  lastRead,   \* the last byte read returned
  lossy,      \* some arrived byte was overrun, dropped or discarded
  promise,    \* what available last returned, less the bytes read since
  peeked      \* what peek last returned, 0 once it was read or discarded

txHistory == << written, wire, cut, stranded >>
rxHistory == << arrived, lastRead, lossy, promise, peeked >>

vars == << tx, rx, gie, begins, pc, hardware, locals, txHistory, rxHistory >>

RXIE == "UCRXIE"
TXIE == "UCTXIE"

Labels == { "idle", "begin_reset", "begin_enable",
            "write_wait", "write_store", "write_publish", "write_load_ie",
            "write_enable", "read_fetch", "read_advance", "peek_fetch",
            "flush_wait", "end_wait", "end_discard" }

(* The sketch starts in setup(), inside its first call of begin.           *)
Init ==
  /\ tx = EmptyRing /\ rx = EmptyRing
  /\ ie = {} /\ gie = TRUE
  /\ txbuf = 0 /\ shift = 0 /\ rxbuf = 0
  /\ begins = 0 /\ pc = "begin_reset"
  /\ idx = 0 /\ ieCopy = {} /\ held = 0
  /\ written = 0 /\ wire = 0 /\ cut = 0 /\ stranded = FALSE
  /\ arrived = 0 /\ lastRead = 0 /\ lossy = FALSE
  /\ promise = 0 /\ peeked = 0

-----------------------------------------------------------------------------
(* begin: after delay(10) UCSWRST clears the enables and both directions of*)
(* the UART, but neither ring is reset; then the UART is released and      *)
(* receive interrupts are enabled.  delay needs interrupts.                *)
BeginCall ==
  /\ pc = "idle" /\ gie /\ begins < MaxBegins
  /\ pc' = "begin_reset"
  /\ UNCHANGED << tx, rx, gie, begins, hardware, locals, txHistory, rxHistory >>

BeginReset ==
  /\ pc = "begin_reset"
  /\ pc' = "begin_enable"
  /\ begins' = begins + 1
  /\ ie' = {} /\ txbuf' = 0 /\ shift' = 0 /\ rxbuf' = 0
  /\ cut' = IF txbuf # 0 THEN txbuf ELSE IF shift # 0 THEN shift ELSE cut
  /\ stranded' = (stranded \/ ~IsEmpty(tx))
  /\ lossy' = (lossy \/ rxbuf # 0)
  /\ UNCHANGED << tx, rx, gie, locals, written, wire,
                  arrived, lastRead, promise, peeked >>

BeginEnable ==
  /\ pc = "begin_enable"
  /\ pc' = "idle"
  /\ ie' = ie \cup {RXIE}
  /\ UNCHANGED << tx, rx, gie, begins, txbuf, shift, rxbuf, locals,
                  txHistory, rxHistory >>

-----------------------------------------------------------------------------
(* write: the index is computed before the wait, the byte is stored before *)
(* the head is published, the interrupt is enabled last.  The enable is a  *)
(* read and a write of IE that an interrupt may separate.                  *)
WriteCall ==
  /\ pc = "idle" /\ gie /\ written < MaxWrites
  /\ pc' = "write_wait"
  /\ idx' = Succ(tx.head)
  /\ UNCHANGED << tx, rx, gie, begins, hardware, ieCopy, held,
                  txHistory, rxHistory >>

BugWriteNoWait ==
  /\ pc = "write_wait"
  /\ pc' = "write_store"
  /\ UNCHANGED << tx, rx, gie, begins, hardware, locals, txHistory, rxHistory >>

WriteRoom ==
  /\ pc = "write_wait" /\ idx # tx.tail
  /\ pc' = "write_store"
  /\ UNCHANGED << tx, rx, gie, begins, hardware, locals, txHistory, rxHistory >>

WriteStore ==
  /\ pc = "write_store"
  /\ pc' = "write_publish"
  /\ tx' = PutSlot(tx, written + 1)
  /\ UNCHANGED << rx, gie, begins, hardware, locals, txHistory, rxHistory >>

WritePublish ==
  /\ pc = "write_publish"
  /\ pc' = "write_load_ie"
  /\ tx' = [tx EXCEPT !.head = idx]
  /\ written' = written + 1
  /\ UNCHANGED << rx, gie, begins, hardware, locals, wire, cut, stranded,
                  rxHistory >>

WriteLoadIE ==
  /\ pc = "write_load_ie"
  /\ pc' = "write_enable"
  /\ ieCopy' = ie
  /\ UNCHANGED << tx, rx, gie, begins, hardware, idx, held,
                  txHistory, rxHistory >>

BugWriteEnableForgotten ==
  /\ pc = "write_enable"
  /\ pc' = "idle"
  /\ ie' = ieCopy
  /\ UNCHANGED << tx, rx, gie, begins, txbuf, shift, rxbuf, locals,
                  txHistory, rxHistory >>

WriteEnable ==
  /\ pc = "write_enable"
  /\ pc' = "idle"
  /\ ie' = ieCopy \cup {TXIE}
  /\ UNCHANGED << tx, rx, gie, begins, txbuf, shift, rxbuf, locals,
                  txHistory, rxHistory >>

-----------------------------------------------------------------------------
(* read, peek and available run with interrupts on or off.  A read or peek *)
(* that finds the ring empty returns -1 and changes nothing.               *)
ReadCall ==
  /\ pc = "idle" /\ ~IsEmpty(rx)
  /\ pc' = "read_fetch"
  /\ UNCHANGED << tx, rx, gie, begins, hardware, locals, txHistory, rxHistory >>

ReadFetch ==
  /\ pc = "read_fetch"
  /\ pc' = "read_advance"
  /\ held' = Oldest(rx)
  /\ UNCHANGED << tx, rx, gie, begins, hardware, idx, ieCopy,
                  txHistory, rxHistory >>

ReadAdvance ==
  /\ pc = "read_advance"
  /\ pc' = "idle"
  /\ rx' = AdvanceTail(rx)
  /\ lastRead' = held
  /\ peeked' = 0
  /\ promise' = IF promise > 0 THEN promise - 1 ELSE 0
  /\ UNCHANGED << tx, gie, begins, hardware, locals, txHistory,
                  arrived, lossy >>

PeekCall ==
  /\ pc = "idle" /\ ~IsEmpty(rx)
  /\ pc' = "peek_fetch"
  /\ UNCHANGED << tx, rx, gie, begins, hardware, locals, txHistory, rxHistory >>

PeekFetch ==
  /\ pc = "peek_fetch"
  /\ pc' = "idle"
  /\ peeked' = Oldest(rx)
  /\ UNCHANGED << tx, rx, gie, begins, hardware, locals, txHistory,
                  arrived, lastRead, lossy, promise >>

AvailableCall ==
  /\ pc = "idle"
  /\ promise' = Available(rx)
  /\ UNCHANGED << tx, rx, gie, begins, pc, hardware, locals, txHistory,
                  arrived, lastRead, lossy, peeked >>

-----------------------------------------------------------------------------
(* flush waits until tx is empty and does nothing else; end waits in the   *)
(* same way, then empties the receive ring and leaves the UART running.    *)
FlushCall ==
  /\ pc = "idle" /\ gie
  /\ pc' = "flush_wait"
  /\ UNCHANGED << tx, rx, gie, begins, hardware, locals, txHistory, rxHistory >>

FlushReturn ==
  /\ pc = "flush_wait" /\ IsEmpty(tx)
  /\ pc' = "idle"
  /\ UNCHANGED << tx, rx, gie, begins, hardware, locals, txHistory, rxHistory >>

EndCall ==
  /\ pc = "idle" /\ gie
  /\ pc' = "end_wait"
  /\ UNCHANGED << tx, rx, gie, begins, hardware, locals, txHistory, rxHistory >>

EndDrained ==
  /\ pc = "end_wait" /\ IsEmpty(tx)
  /\ pc' = "end_discard"
  /\ UNCHANGED << tx, rx, gie, begins, hardware, locals, txHistory, rxHistory >>

EndDiscard ==
  /\ pc = "end_discard"
  /\ pc' = "idle"
  /\ rx' = Discard(rx)
  /\ lossy' = (lossy \/ ~IsEmpty(rx))
  /\ promise' = 0 /\ peeked' = 0
  /\ UNCHANGED << tx, gie, begins, hardware, locals, txHistory,
                  arrived, lastRead >>

(* The sketch's critical sections.  Calls that wait for an interrupt are   *)
(* made with interrupts on: write, flush, end and begin require gie.       *)
NoInterrupts ==
  /\ pc = "idle" /\ gie
  /\ gie' = FALSE
  /\ UNCHANGED << tx, rx, begins, pc, hardware, locals, txHistory, rxHistory >>

Interrupts ==
  /\ pc = "idle" /\ ~gie
  /\ gie' = TRUE
  /\ UNCHANGED << tx, rx, begins, pc, hardware, locals, txHistory, rxHistory >>

-----------------------------------------------------------------------------
(* The transmit vector is entered when the holding register is empty and   *)
(* its interrupt enabled.  Where I2C shares the vector, an I2C request also*)
(* enters it, and the handler then looks at UCTXIFG alone.                 *)
TxVector == gie /\ begins > 0 /\ txbuf = 0 /\ (TXIE \in ie \/ SharedVector)

BugTxIsrStopsEarly ==
  /\ TxVector /\ Available(tx) <= 1
  /\ ie' = ie \ {TXIE}
  /\ UNCHANGED << tx, rx, gie, begins, pc, txbuf, shift, rxbuf, locals,
                  txHistory, rxHistory >>

TxIsrEmpty ==
  /\ TxVector /\ IsEmpty(tx)
  /\ ie' = ie \ {TXIE}
  /\ UNCHANGED << tx, rx, gie, begins, pc, txbuf, shift, rxbuf, locals,
                  txHistory, rxHistory >>

BugTxIsrKeepsTail ==
  /\ TxVector /\ ~IsEmpty(tx)
  /\ txbuf' = Oldest(tx)
  /\ UNCHANGED << tx, rx, gie, begins, pc, ie, shift, rxbuf, locals,
                  txHistory, rxHistory >>

TxIsrSend ==
  /\ TxVector /\ ~IsEmpty(tx)
  /\ txbuf' = Oldest(tx)
  /\ tx' = AdvanceTail(tx)
  /\ UNCHANGED << rx, gie, begins, pc, ie, shift, rxbuf, locals,
                  txHistory, rxHistory >>

RxVector == gie /\ begins > 0 /\ rxbuf # 0 /\ (RXIE \in ie \/ SharedVector)

RxIsr ==
  /\ RxVector
  /\ rx' = StoreChar(rx, rxbuf)
  /\ rxbuf' = 0
  /\ lossy' = (lossy \/ IsFull(rx))
  /\ UNCHANGED << tx, gie, begins, pc, ie, txbuf, shift, locals, txHistory,
                  arrived, lastRead, promise, peeked >>

(* The UART.  A byte that arrives while RXBUF holds one overwrites it.     *)
Shift ==
  /\ txbuf # 0 /\ shift = 0
  /\ shift' = txbuf /\ txbuf' = 0
  /\ UNCHANGED << tx, rx, gie, begins, pc, ie, rxbuf, locals,
                  txHistory, rxHistory >>

ShiftOut ==
  /\ shift # 0
  /\ wire' = shift /\ shift' = 0
  /\ UNCHANGED << tx, rx, gie, begins, pc, ie, txbuf, rxbuf, locals,
                  written, cut, stranded, rxHistory >>

Arrive ==
  /\ begins > 0 /\ arrived < MaxArrivals
  /\ arrived' = arrived + 1
  /\ rxbuf' = arrived + 1
  /\ lossy' = (lossy \/ rxbuf # 0)
  /\ UNCHANGED << tx, rx, gie, begins, pc, ie, txbuf, shift, locals, txHistory,
                  lastRead, promise, peeked >>

-----------------------------------------------------------------------------
(* The steps of a call the sketch has made, but for the three waits.       *)
Begin == BeginReset \/ BeginEnable
Write == WriteRoom \/ WriteStore \/ WritePublish \/ WriteLoadIE \/ WriteEnable
Read == ReadFetch \/ ReadAdvance \/ PeekFetch
Drain == FlushReturn \/ EndDrained \/ EndDiscard

Call ==
  \/ BeginCall \/ WriteCall \/ ReadCall \/ PeekCall \/ AvailableCall
  \/ FlushCall \/ EndCall \/ NoInterrupts \/ Interrupts

TxIsr == TxIsrEmpty \/ TxIsrSend

Uart == Shift \/ ShiftOut \/ Arrive

Next == Call \/ Begin \/ Write \/ Read \/ Drain \/ TxIsr \/ RxIsr \/ Uart

(* The CPU keeps running the sketch, whose critical sections end; it takes *)
(* a pending interrupt whenever GIE lets it; and the UART keeps shifting.  *)
(* Nothing makes the sketch call anything or a byte arrive.                *)
Fairness ==
  /\ WF_vars(Begin \/ Write \/ Read \/ Drain)
  /\ SF_vars(Interrupts)
  /\ SF_vars(TXIE \in ie /\ TxIsr)
  /\ SF_vars(RXIE \in ie /\ RxIsr)
  /\ WF_vars(Shift)
  /\ WF_vars(ShiftOut)

Spec == Init /\ [][Next]_vars

FairSpec == Spec /\ Fairness
-----------------------------------------------------------------------------
(* Type invariant of the serial port: the rings, the UART's registers, the *)
(* sketch's position and locals, and the history.                          *)
TypeOK ==
  /\ tx \in RingType(0 .. MaxWrites)
  /\ rx \in RingType(0 .. MaxArrivals)
  /\ ie \in SUBSET {RXIE, TXIE} /\ gie \in BOOLEAN
  /\ txbuf \in 0 .. MaxWrites /\ shift \in 0 .. MaxWrites
  /\ rxbuf \in 0 .. MaxArrivals
  /\ begins \in Nat /\ pc \in Labels
  /\ idx \in Index /\ ieCopy \in SUBSET {RXIE, TXIE}
  /\ held \in 0 .. MaxArrivals
  /\ written \in 0 .. MaxWrites /\ wire \in 0 .. MaxWrites
  /\ cut \in 0 .. MaxWrites /\ stranded \in BOOLEAN
  /\ arrived \in 0 .. MaxArrivals /\ lastRead \in 0 .. MaxArrivals
  /\ lossy \in BOOLEAN /\ promise \in Index /\ peeked \in 0 .. MaxArrivals

(* The next byte the wire must carry: after the last one sent or cut off.  *)
NextOut == 1 + (IF wire > cut THEN wire ELSE cut)

InFlight(b) == IF b = 0 THEN 0 ELSE 1

(* Transmit stream: shift register, holding register and ring together     *)
(* hold, in this order, exactly the written bytes that are not out yet.    *)
(* So write and uart_tx_isr, which share the ring without a lock, never    *)
(* lose, repeat, overwrite or reorder a byte.                              *)
TxStream ==
  /\ shift # 0 => shift = NextOut
  /\ txbuf # 0 => txbuf = NextOut + InFlight(shift)
  /\ \A k \in 1 .. Available(tx) :
       Contents(tx)[k] = NextOut + InFlight(shift) + InFlight(txbuf) + k - 1
  /\ written + 1 =
       NextOut + InFlight(shift) + InFlight(txbuf) + Available(tx)

(* Receive stream: what read returned, the ring and RXBUF hold ever later  *)
(* bytes, and, as long as no byte found RXBUF occupied or the ring full and*)
(* none was discarded, every byte since the last one read.                 *)
RxStream ==
  /\ \A k \in 1 .. Available(rx) :
       /\ lastRead < Contents(rx)[k]
       /\ Contents(rx)[k] <= arrived - InFlight(rxbuf)
       /\ \A j \in 1 .. k - 1 : Contents(rx)[j] < Contents(rx)[k]
  /\ lastRead <= arrived - InFlight(rxbuf)
  /\ rxbuf # 0 => rxbuf = arrived
  /\ ~lossy =>
       /\ arrived = lastRead + Available(rx) + InFlight(rxbuf)
       /\ \A k \in 1 .. Available(rx) : Contents(rx)[k] = lastRead + k

(* What holds between the steps of a call: write's index is the slot after *)
(* the head, the slot it stores to stays free until the head is published, *)
(* and a byte read or peek is about to fetch stays there.                  *)
CallInv ==
  /\ pc \in {"write_wait", "write_store", "write_publish"} =>
       written < MaxWrites /\ idx = Succ(tx.head)
  /\ pc \in {"write_store", "write_publish"} => ~IsFull(tx)
  /\ pc = "write_publish" => tx.buffer[tx.head] = written + 1
  /\ pc \in {"read_fetch", "read_advance", "peek_fetch"} => ~IsEmpty(rx)

(* available is a promise: as many reads as it returned find a byte, as    *)
(* serialEventRun and Stream's callers assume, whatever arrives meanwhile. *)
PromiseKept == promise <= Available(rx)

(* A byte that peek returned is the byte the next read returns, although   *)
(* the receive interrupt may fill and overflow the ring in between.        *)
PeekedIsNext ==
  /\ peeked # 0 => ~IsEmpty(rx) /\ Oldest(rx) = peeked
  /\ pc = "read_advance" => Oldest(rx) = held

(* Queued bytes never wait for an interrupt that is off, but in the window *)
(* of write between publishing the head and setting UCTXIE, and after a    *)
(* begin that reset the UART with bytes still queued.                      *)
QueuedBytesEnabled ==
  ~IsEmpty(tx) /\ ~stranded /\ pc \notin {"write_load_ie", "write_enable"}
    => TXIE \in ie

(* The line sees the bytes in the order they were written, none twice and  *)
(* none skipped but those that begin cut off.                              *)
TransmittedInOrder == [][wire' # wire => wire' = NextOut]_vars

(* Each ring, with the functions that use it, is a FIFO queue that holds   *)
(* one byte less than it has slots.                                        *)
TxQueue == INSTANCE ByteQueue WITH
             Byte <- 0 .. MaxWrites, Capacity <- SERIAL_BUFFER_SIZE - 1,
             q <- Contents(tx)
RxQueue == INSTANCE ByteQueue WITH
             Byte <- 0 .. MaxArrivals, Capacity <- SERIAL_BUFFER_SIZE - 1,
             q <- Contents(rx)

(* The transmit ring implements the queue: write puts, uart_tx_isr gets.   *)
TxImplementsQueue == TxQueue!Spec

(* The receive ring implements the queue: uart_rx_isr puts or drops, read  *)
(* gets and end clears.                                                    *)
RxImplementsQueue == RxQueue!ClearableSpec

(* write, flush and end, which spin on the transmit ring with no timeout,  *)
(* return, unless a begin has stranded the bytes they wait for.            *)
WaitEnds ==
  pc \in {"write_wait", "flush_wait", "end_wait"} ~> (pc = "idle" \/ stranded)

(* Every byte that write accepted reaches the line, unless a begin cut it  *)
(* off or stranded it: there comes, as the writes are bounded, a moment    *)
(* when none is left.                                                      *)
EveryByteTransmitted ==
  NextOut <= written ~> (NextOut = written + 1 \/ stranded)

(* write (HardwareSerial.cpp:228-229) says of a full buffer that there is  *)
(* nothing for it but "to wait for the interrupt handler to empty it a     *)
(* bit": a write that waits goes on.                                       *)
FullBufferIsEmptied == pc = "write_wait" ~> pc # "write_wait"
=============================================================================
