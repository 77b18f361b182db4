----------------------------- MODULE Lm4fSerial ----------------------------
(***************************************************************************)
(* One serial port of the lm4f core: HardwareSerial.cpp, its handler and   *)
(* the two FIFOs of the UART.  The rings are those of the msp430 port; but *)
(* here the sketch moves the bytes on itself, in primeTransmit, with the   *)
(* port's interrupt off, and the handler, which does the same, may come    *)
(* before any of its other statements.                                     *)
(*                                                                         *)
(* The n-th byte written and the n-th that arrives are n; 0 is a byte of   *)
(* which nothing is known.  Statements run in the order of the source.     *)
(***************************************************************************)
EXTENDS RingBuffer

CONSTANTS
  FIFO,         \* characters each FIFO of the UART holds
  MaxWrites,    \* bound: bytes the sketch writes
  MaxArrivals   \* bound: bytes that arrive

ASSUME FifoAssumption ==
  FIFO \in Nat \ {0} /\ MaxWrites \in Nat /\ MaxArrivals \in Nat

VARIABLES
  tx, rx,           \* the rings
  txFifo, rxFifo,   \* the FIFOs, the transmitter's with its shift register
  nvic,             \* IntEnable: the CPU takes the interrupt of the port
  ie, ris,          \* UARTIntEnable: TX, RX with RT; what is requested
  pc,               \* what the sketch does next
  isr, also         \* what the handler does next, and whether RX after TX

(* History: what begin on a running port can spoil is told by torn (bytes  *)
(* were sent by indices of which it had set one) and freed (a character    *)
(* was in the receive buffer that it frees).                               *)
VARIABLES written, wire, arrived, lastRead, lossy, torn, freed

uart == << txFifo, rxFifo, ris >>

enables == << nvic, ie >>

handler == << isr, also >>

spoilt == << torn, freed >>

history == << written, wire, arrived, lastRead, lossy, spoilt >>

vars == << tx, rx, uart, enables, pc, handler, history >>

(* In setup(), after begin.                                                *)
Init ==
  /\ tx = EmptyRing /\ rx = EmptyRing /\ txFifo = << >> /\ rxFifo = << >>
  /\ nvic = TRUE /\ ie = {"RX"} /\ ris = {}
  /\ pc = "idle" /\ isr = "off" /\ also = FALSE
  /\ written = 0 /\ wire = 0 /\ arrived = 0 /\ lastRead = 0 /\ lossy = FALSE
  /\ torn = FALSE /\ freed = FALSE

Sketch(from, to) == isr = "off" /\ pc = from /\ pc' = to

(* begin waits, in the driver library, until nothing is being sent.  The   *)
(* library empties the FIFOs; what the port has requested stays.           *)
BeginConfig ==
  /\ Sketch("idle", "begin_tx_tail")
  /\ txFifo = << >> /\ rxFifo' = << >>
  /\ lossy' = (lossy \/ rxFifo # << >>)
  /\ UNCHANGED << tx, rx, txFifo, ris, enables, handler, written, wire,
                  arrived, lastRead, spoilt >>

(* flushAll waits for the transmit ring; then both rings start anew.  The  *)
(* handler may come between the indices of a ring.                         *)
BeginTxTail ==
  /\ Sketch("begin_tx_tail", "begin_tx_head")
  /\ IsEmpty(tx) /\ tx' = [tx EXCEPT !.tail = 0]
  /\ UNCHANGED << rx, uart, enables, handler, history >>

BeginTxHead ==
  /\ Sketch("begin_tx_head", "begin_rx_tail")
  /\ tx' = [tx EXCEPT !.head = 0]
  /\ UNCHANGED << rx, uart, enables, handler, history >>

BeginRxTail ==
  /\ Sketch("begin_rx_tail", "begin_rx_head")
  /\ rx' = [rx EXCEPT !.tail = 0] /\ lossy' = (lossy \/ ~IsEmpty(rx))
  /\ UNCHANGED << tx, uart, enables, handler, written, wire, arrived,
                  lastRead, spoilt >>

BeginRxHead ==
  /\ Sketch("begin_rx_head", "begin_enable")
  /\ rx' = [rx EXCEPT !.head = 0]
  /\ UNCHANGED << tx, uart, enables, handler, history >>

(* UARTIntDisable of everything, UARTIntEnable, IntEnable: the handler can *)
(* come only before the first and after the last.                          *)
BeginEnable ==
  /\ Sketch("begin_enable", "begin_free")
  /\ nvic' = TRUE /\ ie' = {"RX"}
  /\ UNCHANGED << tx, rx, uart, handler, history >>

(* Without its memory a ring keeps its indices and loses its bytes.        *)
Forgotten(r) == [r EXCEPT !.buffer = EmptyRing.buffer]

BeginFree ==
  /\ Sketch("begin_free", "begin_alloc")
  /\ tx' = Forgotten(tx) /\ rx' = Forgotten(rx)
  /\ freed' = (freed \/ ~IsEmpty(rx))
  /\ UNCHANGED << uart, enables, handler, written, wire, arrived, lastRead,
                  lossy, torn >>

BeginAlloc ==
  /\ Sketch("begin_alloc", "idle")
  /\ tx' = Forgotten(tx) /\ rx' = Forgotten(rx)
  /\ UNCHANGED << uart, enables, handler, history >>

(* flushAll in one step, for end has masked all interrupts.                *)
EndFlush ==
  /\ Sketch("idle", "end_disable")
  /\ IsEmpty(tx)
  /\ tx' = [tx EXCEPT !.head = 0, !.tail = 0]
  /\ rx' = [rx EXCEPT !.head = 0, !.tail = 0]
  /\ lossy' = (lossy \/ ~IsEmpty(rx))
  /\ UNCHANGED << uart, enables, handler, written, wire, arrived, lastRead,
                  spoilt >>

EndDisable ==
  /\ Sketch("end_disable", "end_mask")
  /\ nvic' = FALSE
  /\ UNCHANGED << tx, rx, uart, ie, handler, history >>

EndMask ==
  /\ Sketch("end_mask", "idle")
  /\ ie' = ie \ {"RX"}
  /\ UNCHANGED << tx, rx, uart, nvic, handler, history >>

WriteCall ==
  /\ Sketch("idle", "write_wait") /\ written < MaxWrites
  /\ UNCHANGED << tx, rx, uart, enables, handler, history >>

WriteStore ==
  /\ Sketch("write_wait", "write_publish")
  /\ ~IsFull(tx)
  /\ tx' = PutSlot(tx, written + 1)
  /\ UNCHANGED << rx, uart, enables, handler, history >>

WritePublish ==
  /\ Sketch("write_publish", "write_test")
  /\ tx' = PublishHead(tx) /\ written' = written + 1
  /\ UNCHANGED << rx, uart, enables, handler, wire, arrived, lastRead, lossy,
                  spoilt >>

(* The handler may have sent the byte before write, or primeTransmit, looks *)
WriteTest ==
  /\ Sketch("write_test", IF IsEmpty(tx) THEN "idle" ELSE "prime_test")
  /\ UNCHANGED << tx, rx, uart, enables, handler, history >>

(* Waits for the byte that write stored, though the handler may have it.   *)
BugPrimeTest ==
  /\ Sketch("prime_test", IF IsEmpty(tx) THEN "prime_test"
                          ELSE "prime_disable")
  /\ UNCHANGED << tx, rx, uart, enables, handler, history >>

PrimeTest ==
  /\ Sketch("prime_test", IF IsEmpty(tx) THEN "write_enable"
                          ELSE "prime_disable")
  /\ UNCHANGED << tx, rx, uart, enables, handler, history >>

BugPrimeDisable ==
  /\ Sketch("prime_disable", "prime")
  /\ UNCHANGED << tx, rx, uart, enables, handler, history >>

PrimeDisable ==
  /\ Sketch("prime_disable", "prime")
  /\ nvic' = FALSE
  /\ UNCHANGED << tx, rx, uart, ie, handler, history >>

(* The byte goes to the FIFO, then the index is moved on.                  *)
PrimePut ==
  /\ Sketch("prime", "prime_advance")
  /\ ~IsEmpty(tx) /\ Len(txFifo) < FIFO
  /\ txFifo' = Append(txFifo, Oldest(tx))
  /\ UNCHANGED << tx, rx, rxFifo, ris, enables, handler, history >>

PrimeAdvance ==
  /\ Sketch("prime_advance", "prime")
  /\ tx' = AdvanceTail(tx)
  /\ UNCHANGED << rx, uart, enables, handler, history >>

BugPrimeDone ==
  /\ Sketch("prime", "write_enable")
  /\ nvic' = TRUE
  /\ UNCHANGED << tx, rx, uart, ie, handler, history >>

PrimeDone ==
  /\ Sketch("prime", "write_enable")
  /\ IsEmpty(tx) /\ nvic' = TRUE
  /\ UNCHANGED << tx, rx, uart, ie, handler, history >>

WriteEnable ==
  /\ Sketch("write_enable", "idle")
  /\ ie' = ie \cup {"TX"}
  /\ UNCHANGED << tx, rx, uart, nvic, handler, history >>

ReadFetch ==
  /\ Sketch("idle", "read_advance")
  /\ ~IsEmpty(rx)
  /\ lastRead' = Oldest(rx)
  /\ UNCHANGED << tx, rx, uart, enables, handler, written, wire, arrived,
                  lossy, spoilt >>

ReadAdvance ==
  /\ Sketch("read_advance", "idle")
  /\ rx' = AdvanceTail(rx)
  /\ UNCHANGED << tx, uart, enables, handler, history >>
-----------------------------------------------------------------------------
(* UARTIntHandler.                                                         *)
IsrEnter ==
  /\ isr = "off" /\ nvic /\ ris \cap ie # {}
  /\ ris' = ris \ ie
  /\ isr' = IF "TX" \in ris \cap ie THEN "tx" ELSE "rx"
  /\ also' = ("TX" \in ris \cap ie /\ "RX" \in ris \cap ie)
  /\ UNCHANGED << tx, rx, txFifo, rxFifo, enables, pc, history >>

(* primeTransmit in the handler, which nothing of the sketch comes between.*)
(* Between two indices that begin sets, it takes old bytes for new ones.   *)
IsrPut ==
  /\ isr \in {"tx", "rx_prime"}
  /\ ~IsEmpty(tx) /\ Len(txFifo) < FIFO
  /\ txFifo' = Append(txFifo, Oldest(tx)) /\ tx' = AdvanceTail(tx)
  /\ torn' = (torn \/ pc = "begin_tx_head")
  /\ UNCHANGED << rx, rxFifo, ris, enables, pc, handler, written, wire,
                  arrived, lastRead, lossy, freed >>

IsrTxDone ==
  /\ isr = "tx" /\ IsEmpty(tx)
  /\ ie' = ie \ {"TX"}
  /\ isr' = (IF also THEN "rx" ELSE "off") /\ also' = FALSE
  /\ UNCHANGED << tx, rx, uart, nvic, pc, history >>

BugIsrDrop ==
  /\ isr = "rx" /\ rxFifo # << >> /\ IsFull(rx)
  /\ rx' = AdvanceTail(rx) /\ UNCHANGED << rxFifo, isr, lossy >>
  /\ UNCHANGED << tx, txFifo, ris, enables, pc, also, written, wire, arrived,
                  lastRead, spoilt >>

(* A character that finds the ring full is thrown away, and those behind   *)
(* it stay in the FIFO.                                                    *)
IsrDrop ==
  /\ isr = "rx" /\ rxFifo # << >> /\ IsFull(rx)
  /\ rxFifo' = Tail(rxFifo) /\ isr' = "rx_prime" /\ lossy' = TRUE
  /\ UNCHANGED << tx, rx, txFifo, ris, enables, pc, also, written, wire,
                  arrived, lastRead, spoilt >>

(* begin throws a character away that is stored before its last index, and *)
(* while it has freed the buffer the store goes to memory of others.       *)
IsrStore ==
  /\ isr = "rx" /\ rxFifo # << >> /\ ~IsFull(rx)
  /\ rx' = StoreChar(rx, Head(rxFifo)) /\ rxFifo' = Tail(rxFifo)
  /\ lossy' = (lossy \/ pc = "begin_rx_head")
  /\ freed' = (freed \/ pc = "begin_alloc")
  /\ UNCHANGED << tx, txFifo, ris, enables, pc, handler, written, wire,
                  arrived, lastRead, torn >>

IsrRxEmpty ==
  /\ isr = "rx" /\ rxFifo = << >>
  /\ isr' = "rx_prime"
  /\ UNCHANGED << tx, rx, uart, enables, pc, also, history >>

IsrRxDone ==
  /\ isr = "rx_prime" /\ IsEmpty(tx)
  /\ isr' = "off" /\ ie' = ie \cup {"TX"}
  /\ UNCHANGED << tx, rx, uart, nvic, pc, also, history >>
-----------------------------------------------------------------------------
(* The UART.  The FIFO asks for more when the last character leaves it.    *)
Send ==
  /\ txFifo # << >>
  /\ wire' = Head(txFifo) /\ txFifo' = Tail(txFifo)
  /\ ris' = IF txFifo' = << >> THEN ris \cup {"TX"} ELSE ris
  /\ UNCHANGED << tx, rx, rxFifo, enables, pc, handler, written, arrived,
                  lastRead, lossy, spoilt >>

Arrive ==
  /\ arrived < MaxArrivals
  /\ arrived' = arrived + 1
  /\ IF Len(rxFifo) < FIFO
     THEN rxFifo' = Append(rxFifo, arrived + 1) /\ UNCHANGED lossy
     ELSE lossy' = TRUE /\ UNCHANGED rxFifo
  /\ UNCHANGED << tx, rx, txFifo, ris, enables, pc, handler, written, wire,
                  lastRead, spoilt >>

(* The FIFO is filled to its level, or nothing has come for a while.       *)
Received ==
  /\ rxFifo # << >> /\ ris' = ris \cup {"RX"}
  /\ UNCHANGED << tx, rx, txFifo, rxFifo, enables, pc, handler, history >>
-----------------------------------------------------------------------------
Calls == BeginConfig \/ EndFlush \/ WriteCall \/ ReadFetch

Write ==
  \/ WriteStore \/ WritePublish \/ WriteTest \/ PrimeTest \/ PrimeDisable
  \/ PrimePut \/ PrimeAdvance \/ PrimeDone \/ WriteEnable

Begin ==
  \/ BeginTxTail \/ BeginTxHead \/ BeginRxTail \/ BeginRxHead
  \/ BeginEnable \/ BeginFree \/ BeginAlloc

Run == Write \/ Begin \/ EndDisable \/ EndMask \/ ReadAdvance

Isr ==
  IsrPut \/ IsrTxDone \/ IsrDrop \/ IsrStore \/ IsrRxEmpty \/ IsrRxDone

Next == Calls \/ Run \/ IsrEnter \/ Isr \/ Send \/ Arrive \/ Received

Spec == Init /\ [][Next]_vars

(* The CPU runs the handler, and the sketch although handlers interrupt    *)
(* it; the UART sends.                                                     *)
FairSpec == Spec /\ SF_vars(Run) /\ WF_vars(Isr) /\ WF_vars(Send)
-----------------------------------------------------------------------------
Pcs == { "idle", "end_disable", "end_mask", "write_wait", "write_publish",
         "write_test", "prime_test", "prime_disable", "prime",
         "prime_advance", "write_enable", "read_advance", "begin_tx_tail",
         "begin_tx_head", "begin_rx_tail", "begin_rx_head", "begin_enable",
         "begin_free", "begin_alloc" }

(* Type invariant of the port.                                             *)
TypeOK ==
  /\ tx \in RingType(0 .. MaxWrites) /\ rx \in RingType(0 .. MaxArrivals)
  /\ txFifo \in Seq(0 .. MaxWrites) /\ Len(txFifo) <= FIFO
  /\ rxFifo \in Seq(1 .. MaxArrivals) /\ Len(rxFifo) <= FIFO
  /\ nvic \in BOOLEAN /\ ie \subseteq {"TX", "RX"}
  /\ ris \subseteq {"TX", "RX"} /\ also \in BOOLEAN
  /\ pc \in Pcs /\ isr \in {"off", "tx", "rx", "rx_prime"}
  /\ written \in 0 .. MaxWrites /\ wire \in 0 .. MaxWrites
  /\ arrived \in 0 .. MaxArrivals /\ lastRead \in 0 .. MaxArrivals
  /\ lossy \in BOOLEAN /\ torn \in BOOLEAN /\ freed \in BOOLEAN

(* Whether PrimePut has handed over the oldest byte, still in the ring.    *)
Handed == IF pc = "prime_advance" THEN 1 ELSE 0

(* The bytes still to be sent, and those still to be read: none where begin *)
(* has set one index of the ring.                                          *)
Unsent == IF pc = "begin_tx_head" THEN << >> ELSE Contents(tx)

Unread == IF pc = "begin_rx_head" THEN << >> ELSE Contents(rx)

(* The line, the FIFO and the ring hold in this order the bytes written:   *)
(* sketch and handler, which both move bytes on, repeat and skip none      *)
(* (until the handler has sent from between the indices begin sets).       *)
TxInOrder ==
  ~torn =>
    /\ \A k \in 1 .. Len(txFifo) : txFifo[k] = wire + k
    /\ \A k \in 1 .. Len(Unsent) :
         Unsent[k] = wire + Len(txFifo) - Handed + k
    /\ written = wire + Len(txFifo) - Handed + Len(Unsent)

(* Whether ReadFetch has taken the oldest byte, still in the ring.         *)
Taken == IF pc = "read_advance" THEN 1 ELSE 0

(* read returns the bytes in the order they arrived, each once, and all of *)
(* them until one finds no room or end or begin throws it away (until one  *)
(* was in a buffer that begin freed).                                      *)
RxInOrder ==
  LET n == Len(Unread)
  IN ~freed =>
       /\ n >= Taken
       /\ \A k \in 1 .. n :
            /\ Unread[k] > lastRead \/ (k = 1 /\ Taken = 1)
            /\ \A j \in 1 .. k - 1 : Unread[j] < Unread[k]
       /\ \A k \in 1 .. Len(rxFifo) :
            /\ \A i \in 1 .. n : Unread[i] < rxFifo[k]
            /\ \A j \in 1 .. k - 1 : rxFifo[j] < rxFifo[k]
            /\ lastRead < rxFifo[k] /\ rxFifo[k] <= arrived
       /\ ~lossy => arrived = lastRead - Taken + n + Len(rxFifo)

InOrder == TxInOrder /\ RxInOrder

(* No wait for an index to change is ever entered while it would have to,  *)
(* for the indices are not volatile: between two calls the transmit ring   *)
(* is empty, so that write finds room and the loops of flush, begin and    *)
(* end are over at once (until the handler has sent from between the       *)
(* indices begin sets: then end's loop may be for ever).                   *)
NeverSpins ==
  pc \in {"idle", "begin_tx_tail", "end_disable", "end_mask", "write_wait",
          "read_advance"} => torn \/ IsEmpty(tx)

(* A call that has begun returns, and what has been written goes out: with *)
(* the bound on writes, there is a moment when nothing is left to do       *)
(* (or the handler has sent from between the indices begin sets).          *)
ComesToRest ==
  pc # "idle" \/ wire # written ~> torn \/ (pc = "idle" /\ wire = written)
=============================================================================
