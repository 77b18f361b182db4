-------------------------- MODULE Lm4fSerialProofs -------------------------
(***************************************************************************)
(* The safety properties of the lm4f port, for every size of its rings and *)
(* FIFOs and every number of bytes.                                        *)
(*                                                                         *)
(* TypeInv, with what a call in progress relies on, is inductive; with it  *)
(* the transmit and the receive side are, each by itself.  What they say   *)
(* ends where begin has spoilt that side.  The lemmas about rings are      *)
(* those of the msp430 port.                                               *)
(***************************************************************************)
EXTENDS Lm4fSerial, RingBufferProofs

TxByte == 0 .. MaxWrites
RxByte == 0 .. MaxArrivals

(* What a statement of a call relies on: that the byte stored is not       *)
(* published yet, that the handler is off while primeTransmit runs, and    *)
(* that the handler leaves alone the indices begin has set.                *)
CallInv ==
  /\ pc \in {"write_wait", "write_publish"} => written < MaxWrites
  /\ pc = "write_publish" => tx.buffer[tx.head] = written + 1
  /\ pc \in {"prime", "prime_advance"} => ~nvic /\ isr = "off"
  /\ pc = "prime_advance" => ~IsEmpty(tx)
  /\ pc = "read_advance" => ~IsEmpty(rx)
  /\ pc = "begin_tx_head" => torn \/ tx.tail = 0
  /\ pc = "begin_rx_head" => rx.tail = 0
  /\ pc = "begin_alloc" => freed \/ IsEmpty(rx)

(* NeverSpins, and that write and begin leave the ring as empty as they    *)
(* find it.                                                                *)
SpinInv ==
  pc \in {"idle", "end_disable", "end_mask", "write_wait", "write_publish",
          "read_advance", "write_enable", "begin_tx_tail", "begin_rx_tail",
          "begin_rx_head", "begin_enable", "begin_free", "begin_alloc"} =>
    torn \/ IsEmpty(tx)

TypeInv == TypeOK /\ CallInv /\ SpinInv

-----------------------------------------------------------------------------
(* flushAll leaves an empty ring behind.                                   *)
LEMMA FlushedRing ==
  ASSUME NEW B, NEW r \in RingType(B)
  PROVE  /\ [r EXCEPT !.head = 0, !.tail = 0] \in RingType(B)
         /\ IsEmpty([r EXCEPT !.head = 0, !.tail = 0])
         /\ Available([r EXCEPT !.head = 0, !.tail = 0]) = 0
<1>1. 0 \in Index
  BY SizeAssumption DEF Index
<1>2. /\ [r EXCEPT !.head = 0, !.tail = 0] \in RingType(B)
      /\ IsEmpty([r EXCEPT !.head = 0, !.tail = 0])
  BY <1>1 DEF RingType, IsEmpty
<1> QED
  BY <1>2, AvailableIs

(* Each index set by itself, and both.                                     *)
LEMMA ResetRing ==
  ASSUME NEW B, NEW r \in RingType(B)
  PROVE  /\ [r EXCEPT !.tail = 0] \in RingType(B)
         /\ [r EXCEPT !.head = 0] \in RingType(B)
         /\ [r EXCEPT !.tail = 0].tail = 0
         /\ r.tail = 0 => IsEmpty([r EXCEPT !.head = 0])
<1>1. 0 \in Index
  BY SizeAssumption DEF Index
<1> QED
  BY <1>1 DEF RingType, IsEmpty

(* A ring whose memory is gone keeps its indices.                          *)
LEMMA ForgottenRing ==
  ASSUME NEW n \in Nat, NEW r \in RingType(0 .. n)
  PROVE  /\ Forgotten(r) \in RingType(0 .. n)
         /\ Forgotten(r).head = r.head /\ Forgotten(r).tail = r.tail
<1>1. EmptyRing.buffer \in [Index -> 0 .. n]
  BY DEF EmptyRing
<1> QED
  BY <1>1 DEF RingType, Forgotten

(* Publishing a slot moves the head to a slot, whatever the ring holds.    *)
LEMMA PublishType ==
  ASSUME NEW B, NEW r \in RingType(B)
  PROVE  PublishHead(r) \in RingType(B)
<1>1. Succ(r.head) \in Index
  BY SizeAssumption DEF RingType, Index, Succ
<1> QED
  BY <1>1 DEF RingType, PublishHead

LEMMA EmptyRingType ==
  ASSUME NEW n \in Nat
  PROVE  EmptyRing \in RingType(0 .. n) /\ IsEmpty(EmptyRing)
  BY SizeAssumption DEF EmptyRing, RingType, Index, IsEmpty

(* An empty ring has room, for it has more than one slot.                  *)
LEMMA EmptyHasRoom ==
  ASSUME NEW B, NEW r \in RingType(B), IsEmpty(r)
  PROVE  ~IsFull(r)
  BY AvailableIs, SizeAssumption DEF Size

LEMMA TypeInit == Init => TypeInv
<1> SUFFICES ASSUME Init PROVE TypeInv
  OBVIOUS
<1>1. tx \in RingType(0 .. MaxWrites) /\ rx \in RingType(0 .. MaxArrivals)
      /\ IsEmpty(tx)
  BY FifoAssumption, EmptyRingType DEF Init
<1>2. txFifo \in Seq(0 .. MaxWrites) /\ Len(txFifo) <= FIFO
      /\ rxFifo \in Seq(1 .. MaxArrivals) /\ Len(rxFifo) <= FIFO
  <2>1. txFifo = << >> /\ rxFifo = << >> /\ 0 <= FIFO
    BY FifoAssumption DEF Init
  <2> QED
    BY <2>1
<1>3. /\ nvic = TRUE /\ ie = {"RX"} /\ ris = {} /\ lossy = FALSE
      /\ torn = FALSE /\ freed = FALSE
      /\ pc = "idle" /\ isr = "off" /\ also = FALSE
      /\ written = 0 /\ wire = 0 /\ arrived = 0 /\ lastRead = 0
  BY DEF Init
<1>4. 0 \in 0 .. MaxWrites /\ 0 \in 0 .. MaxArrivals
  BY FifoAssumption
<1>5. TypeOK
  BY <1>1, <1>2, <1>3, <1>4, Zenon DEF TypeOK, Pcs
<1> QED
  BY <1>1, <1>3, <1>5 DEF TypeInv, CallInv, SpinInv

(* Every step keeps the types and what a call in progress relies on.       *)
LEMMA TypeStep == TypeInv /\ [Next]_vars => TypeInv'
<1> SUFFICES ASSUME TypeInv, [Next]_vars PROVE TypeInv'
  OBVIOUS
<1> USE FifoAssumption DEF TypeInv, TypeOK, Pcs, uart, enables, handler,
      history, spoilt, Sketch
<1>0. tx \in RingType(TxByte) /\ rx \in RingType(RxByte)
  BY DEF TxByte, RxByte
<1>1. CASE Begin \/ BeginConfig
  <2>1. CASE BeginConfig
    <3>1. rxFifo' \in Seq(1 .. MaxArrivals) /\ Len(rxFifo') <= FIFO
      BY <2>1 DEF BeginConfig
    <3>2. lossy' \in BOOLEAN
      BY <2>1, Zenon DEF BeginConfig
    <3> QED
      BY <2>1, <3>1, <3>2 DEF BeginConfig, CallInv, SpinInv
  <2>2. CASE BeginTxTail
    <3>1. tx' \in RingType(TxByte) /\ tx'.tail = 0
      BY <1>0, <2>2, ResetRing DEF BeginTxTail
    <3> QED
      BY <2>2, <3>1 DEF BeginTxTail, CallInv, SpinInv, TxByte
  <2>3. CASE BeginTxHead
    <3>1. tx' \in RingType(TxByte) /\ (torn \/ IsEmpty(tx'))
      BY <1>0, <2>3, ResetRing DEF BeginTxHead, CallInv
    <3> QED
      BY <2>3, <3>1 DEF BeginTxHead, CallInv, SpinInv, TxByte
  <2>4. CASE BeginRxTail
    <3>1. rx' \in RingType(RxByte) /\ rx'.tail = 0
      BY <1>0, <2>4, ResetRing DEF BeginRxTail
    <3>2. lossy' \in BOOLEAN
      BY <2>4, Zenon DEF BeginRxTail
    <3> QED
      BY <2>4, <3>1, <3>2 DEF BeginRxTail, CallInv, SpinInv, RxByte
  <2>5. CASE BeginRxHead
    <3>1. rx' \in RingType(RxByte)
      BY <1>0, <2>5, ResetRing DEF BeginRxHead
    <3> QED
      BY <2>5, <3>1 DEF BeginRxHead, CallInv, SpinInv, RxByte
  <2>6. CASE BeginEnable
    BY <2>6 DEF BeginEnable, CallInv, SpinInv
  <2>7. CASE BeginFree \/ BeginAlloc
    <3>1. /\ tx' \in RingType(TxByte) /\ IsEmpty(tx') = IsEmpty(tx)
          /\ rx' \in RingType(RxByte) /\ IsEmpty(rx') = IsEmpty(rx)
      BY <2>7, ForgottenRing DEF BeginFree, BeginAlloc, IsEmpty, TxByte,
         RxByte
    <3>2. freed' \in BOOLEAN
      BY <2>7, Zenon DEF BeginFree, BeginAlloc
    <3> QED
      BY <2>7, <3>1, <3>2 DEF BeginFree, BeginAlloc, CallInv, SpinInv,
         TxByte, RxByte
  <2> QED
    BY <1>1, <2>1, <2>2, <2>3, <2>4, <2>5, <2>6, <2>7 DEF Begin
<1>2. CASE EndFlush
  <2>1. /\ tx' \in RingType(TxByte) /\ IsEmpty(tx')
        /\ rx' \in RingType(RxByte)
    BY <1>0, <1>2, FlushedRing DEF EndFlush
  <2>2. lossy' \in BOOLEAN
    BY <1>2, Zenon DEF EndFlush
  <2> QED
    BY <1>2, <2>1, <2>2 DEF EndFlush, CallInv, SpinInv, TxByte, RxByte
<1>3. CASE EndDisable \/ EndMask
  BY <1>3 DEF EndDisable, EndMask, CallInv, SpinInv
<1>4. CASE WriteCall
  BY <1>4 DEF WriteCall, CallInv, SpinInv
<1>5. CASE WriteStore
  <2>1. written + 1 \in TxByte
    BY <1>5 DEF WriteStore, CallInv, TxByte
  <2>2. /\ tx' \in RingType(TxByte)
        /\ tx'.buffer[tx.head] = written + 1
        /\ tx'.head = tx.head /\ tx'.tail = tx.tail
    BY <1>0, <1>5, <2>1, PutSlotKeepsContents DEF WriteStore
  <2> QED
    BY <1>5, <2>2 DEF WriteStore, CallInv, SpinInv, IsEmpty, TxByte
<1>6. CASE WritePublish
  <2>1. tx' \in RingType(TxByte)
    BY <1>0, <1>6, PublishType DEF WritePublish
  <2> QED
    BY <1>6, <2>1 DEF WritePublish, CallInv, SpinInv, TxByte
<1>7. CASE WriteTest \/ PrimeTest \/ PrimeDisable \/ WriteEnable
  BY <1>7 DEF WriteTest, PrimeTest, PrimeDisable, WriteEnable, CallInv,
       SpinInv
<1>8. CASE PrimePut
  <2>1. Oldest(tx) \in 0 .. MaxWrites
    BY <1>0, <1>8, OldestIsFirst DEF PrimePut, TxByte
  <2> QED
    BY <1>8, <2>1 DEF PrimePut, CallInv, SpinInv
<1>9. CASE PrimeAdvance
  <2>1. tx' \in RingType(TxByte)
    BY <1>0, <1>9, AdvanceTakesFirst DEF PrimeAdvance, CallInv
  <2> QED
    BY <1>9, <2>1 DEF PrimeAdvance, CallInv, SpinInv, TxByte
<1>10. CASE PrimeDone
  BY <1>10 DEF PrimeDone, CallInv, SpinInv
<1>11. CASE ReadFetch
  <2>1. Oldest(rx) \in RxByte
    BY <1>0, <1>11, OldestIsFirst DEF ReadFetch
  <2> QED
    BY <1>11, <2>1 DEF ReadFetch, CallInv, SpinInv, RxByte
<1>12. CASE ReadAdvance
  <2>1. rx' \in RingType(RxByte)
    BY <1>0, <1>12, AdvanceTakesFirst DEF ReadAdvance, CallInv
  <2> QED
    BY <1>12, <2>1 DEF ReadAdvance, CallInv, SpinInv, RxByte
<1>13. CASE IsrEnter
  BY <1>13 DEF IsrEnter, CallInv, SpinInv
<1>14. CASE IsrPut
  <2>1. pc \notin {"prime", "prime_advance"}
    BY <1>14 DEF IsrPut, CallInv
  <2>2. Oldest(tx) \in 0 .. MaxWrites
    BY <1>0, <1>14, OldestIsFirst DEF IsrPut, TxByte
  <2>3. /\ tx' \in RingType(TxByte)
        /\ tx'.buffer = tx.buffer /\ tx'.head = tx.head
    <3>1. tx' = AdvanceTail(tx) /\ tx' \in RingType(TxByte)
      BY <1>0, <1>14, AdvanceTakesFirst DEF IsrPut
    <3> QED
      BY <1>0, <3>1 DEF AdvanceTail, RingType
  <2>4. torn' \in BOOLEAN /\ (torn => torn')
        /\ (pc = "begin_tx_head" => torn')
    BY <1>14, Zenon DEF IsrPut
  <2> QED
    BY <1>14, <2>1, <2>2, <2>3, <2>4 DEF IsrPut, CallInv, SpinInv, TxByte
<1>15. CASE IsrTxDone \/ IsrRxEmpty \/ IsrRxDone
  <2>1. CASE IsrTxDone
    <3>1. isr' \in {"rx", "off"} /\ ie' \subseteq {"TX", "RX"}
          /\ also' \in BOOLEAN /\ pc \notin {"prime", "prime_advance"}
      BY <2>1 DEF IsrTxDone, CallInv
    <3>2. UNCHANGED << tx, rx, uart, nvic, pc, history >>
      BY <2>1 DEF IsrTxDone
    <3>3. TypeOK'
      BY <3>1, <3>2
    <3> QED
      BY <3>1, <3>2, <3>3 DEF CallInv, SpinInv
  <2>2. CASE IsrRxEmpty
    BY <2>2 DEF IsrRxEmpty, CallInv, SpinInv
  <2>3. CASE IsrRxDone
    BY <2>3 DEF IsrRxDone, CallInv, SpinInv
  <2> QED
    BY <1>15, <2>1, <2>2, <2>3
<1>16. CASE IsrDrop
  BY <1>16 DEF IsrDrop, CallInv, SpinInv
<1>17. CASE IsrStore
  <2>1. Head(rxFifo) \in RxByte /\ Tail(rxFifo) \in Seq(1 .. MaxArrivals)
        /\ Len(Tail(rxFifo)) <= FIFO
    BY <1>17 DEF IsrStore, RxByte
  <2>2. rx' \in RingType(RxByte) /\ ~IsEmpty(rx')
    <3>1. /\ rx' \in RingType(RxByte)
          /\ Available(rx') = Available(rx) + 1 /\ Available(rx) \in Index
      BY <1>0, <1>17, <2>1, StoreCharAppends, AvailableIs DEF IsrStore
    <3> QED
      BY <3>1, AvailableIs DEF Index
  <2>3. /\ lossy' \in BOOLEAN /\ freed' \in BOOLEAN /\ (freed => freed')
        /\ (pc = "begin_alloc" => freed')
    BY <1>17, Zenon DEF IsrStore
  <2>4. rx'.tail = rx.tail
    BY <1>0, <1>17 DEF IsrStore, StoreChar, PublishHead, PutSlot, RingType
  <2> QED
    BY <1>17, <2>1, <2>2, <2>3, <2>4 DEF IsrStore, CallInv, SpinInv, RxByte
<1>18. CASE Send
  BY <1>18 DEF Send, CallInv, SpinInv
<1>19. CASE Arrive
  <2>1. arrived + 1 \in 1 .. MaxArrivals
    BY <1>19 DEF Arrive
  <2>2. rxFifo' \in Seq(1 .. MaxArrivals) /\ Len(rxFifo') <= FIFO
    <3>1. CASE Len(rxFifo) < FIFO
      <4>1. rxFifo' = Append(rxFifo, arrived + 1)
        BY <1>19, <3>1 DEF Arrive
      <4> QED
        BY <2>1, <3>1, <4>1
    <3>2. CASE ~(Len(rxFifo) < FIFO)
      BY <1>19, <3>2 DEF Arrive
    <3> QED
      BY <3>1, <3>2
  <2>3. arrived' \in 0 .. MaxArrivals /\ lossy' \in BOOLEAN
    <3>1. arrived' = arrived + 1 /\ arrived < MaxArrivals
          /\ (lossy' = lossy \/ lossy' = TRUE)
      BY <1>19 DEF Arrive
    <3>2. lossy' \in BOOLEAN
      BY <3>1, Zenon
    <3> QED
      BY <3>1, <3>2
  <2>4. UNCHANGED << tx, rx, txFifo, ris, enables, pc, handler, written, wire,
                     lastRead, spoilt >>
    BY <1>19 DEF Arrive
  <2> HIDE DEF Pcs
  <2>5. TypeOK'
    BY <2>2, <2>3, <2>4
  <2> QED
    BY <2>4, <2>5 DEF CallInv, SpinInv
<1>20. CASE Received
  BY <1>20 DEF Received, CallInv, SpinInv
<1>21. CASE UNCHANGED vars
  BY <1>21 DEF vars, CallInv, SpinInv
<1> QED
  BY <1>1, <1>2, <1>3, <1>4, <1>5, <1>6, <1>7, <1>8, <1>9, <1>10, <1>11,
     <1>12, <1>13, <1>14, <1>15, <1>16, <1>17, <1>18, <1>19, <1>20, <1>21
  DEF Next, Calls, Run, Write, Begin, Isr
-----------------------------------------------------------------------------
(* The transmit side.                                                      *)
txVars == << tx, txFifo, wire, written, Handed, Unsent, torn >>

(* Only these actions touch what TxInOrder speaks of.                      *)
LEMMA TxSteps ==
  ASSUME TypeInv, [Next]_vars
  PROVE  \/ BeginTxTail \/ BeginTxHead \/ BeginFree \/ BeginAlloc
         \/ EndFlush \/ WriteStore \/ WritePublish \/ PrimePut
         \/ PrimeAdvance \/ IsrPut \/ Send \/ UNCHANGED txVars
<1> USE DEF txVars, Handed, Unsent, Sketch, uart, enables, handler, history,
      spoilt
<1>0. CASE BeginConfig \/ BeginRxTail \/ BeginRxHead \/ BeginEnable
  BY <1>0 DEF BeginConfig, BeginRxTail, BeginRxHead, BeginEnable
<1>1. CASE WriteCall \/ ReadFetch
  BY <1>1 DEF WriteCall, ReadFetch
<1>2. CASE WriteTest \/ PrimeTest \/ PrimeDisable \/ PrimeDone \/ WriteEnable
  BY <1>2 DEF WriteTest, PrimeTest, PrimeDisable, PrimeDone, WriteEnable
<1>3. CASE EndDisable \/ EndMask \/ ReadAdvance
  BY <1>3 DEF EndDisable, EndMask, ReadAdvance
<1>4. CASE IsrEnter \/ IsrTxDone \/ IsrDrop \/ IsrStore \/ IsrRxEmpty
           \/ IsrRxDone
  BY <1>4 DEF IsrEnter, IsrTxDone, IsrDrop, IsrStore, IsrRxEmpty, IsrRxDone
<1>5. CASE Arrive \/ Received
  BY <1>5 DEF Arrive, Received
<1>6. CASE UNCHANGED vars
  BY <1>6 DEF vars
<1> QED
  BY <1>0, <1>1, <1>2, <1>3, <1>4, <1>5, <1>6
  DEF Next, Calls, Run, Write, Begin, Isr

LEMMA TxInit == Init => TxInOrder
<1> SUFFICES ASSUME Init PROVE TxInOrder
  OBVIOUS
<1>1. Available(tx) = 0
  BY EmptyRingType, FifoAssumption, AvailableIs DEF Init
<1>2. Len(Contents(tx)) = 0
  BY <1>1, EmptyRingType, FifoAssumption, ContentsIs DEF Init
<1> QED
  BY <1>2 DEF Init, TxInOrder, Handed, Unsent

(* Each action moves the bytes on by one place and changes no other.       *)
LEMMA TxStep == TypeInv /\ TxInOrder /\ [Next]_vars => TxInOrder'
<1> SUFFICES ASSUME TypeInv, TxInOrder, [Next]_vars, ~torn'
             PROVE  TxInOrder'
  BY DEF TxInOrder
<1> DEFINE C == Unsent
           n == Len(Unsent)
           F == txFifo
           m == Len(txFifo)
<1>a. TypeInv'
  BY TypeStep
<1>b. ASSUME TypeInv
      PROVE  /\ pc # "begin_tx_head" =>
                  C = Contents(tx) /\ n = Available(tx)
             /\ pc = "begin_tx_head" => n = 0
             /\ n \in Nat /\ C \in Seq(TxByte) /\ Len(C) = n
  <2>1. tx \in RingType(TxByte)
    BY <1>b DEF TypeInv, TypeOK, TxByte
  <2> QED
    BY <2>1, AvailableIs, ContentsIs DEF Unsent, Index
<1>0. /\ tx \in RingType(TxByte) /\ n \in Nat /\ C \in Seq(TxByte)
      /\ Len(C) = n /\ F \in Seq(0 .. MaxWrites) /\ m \in Nat
      /\ Len(F) = m /\ wire \in Nat /\ written \in Nat
  BY <1>b, FifoAssumption DEF TypeInv, TypeOK, TxByte
<1>c. ~torn /\ (IsrPut => pc # "begin_tx_head")
  <2>1. CASE IsrPut
    BY <2>1 DEF IsrPut
  <2>2. CASE ~IsrPut
    <3>1. torn' = torn
      BY <2>2, TxSteps
      DEF BeginTxTail, BeginTxHead, BeginFree, BeginAlloc, EndFlush,
          WriteStore, WritePublish, PrimePut, PrimeAdvance, Send, txVars,
          history, spoilt
    <3> QED
      BY <2>2, <3>1
  <2> QED
    BY <2>1, <2>2
<1>1. /\ \A k \in 1 .. m : F[k] = wire + k
      /\ \A k \in 1 .. n : C[k] = wire + m - Handed + k
      /\ written = wire + m - Handed + n
  BY <1>c DEF TxInOrder
<1>2. Handed \in Nat /\ (isr # "off" => Handed = 0)
  BY DEF Handed, TypeInv, CallInv
<1>d. /\ pc # "begin_tx_head" => C = Contents(tx) /\ n = Available(tx)
      /\ pc = "begin_tx_head" => n = 0
      /\ pc' # "begin_tx_head" => C' = Contents(tx') /\ n' = Available(tx')
      /\ pc' = "begin_tx_head" => n' = 0
      /\ tx' \in RingType(TxByte)
  <2>1. tx' \in RingType(TxByte)
    BY <1>a DEF TypeInv, TypeOK, TxByte
  <2> QED
    BY <1>b, <2>1, AvailableIs, ContentsIs DEF Unsent, Index
<1> HIDE DEF C, n, F, m
<1> SUFFICES /\ \A k \in 1 .. m' : F'[k] = wire' + k
             /\ \A k \in 1 .. n' : C'[k] = wire' + m' - Handed' + k
             /\ written' = wire' + m' - Handed' + n'
  BY DEF TxInOrder, C, n, F, m
<1>3. CASE BeginTxTail \/ BeginTxHead \/ BeginFree \/ BeginAlloc
  <2>1. pc' # "begin_tx_head" => IsEmpty(tx')
    <3>1. BeginFree \/ BeginAlloc => IsEmpty(tx) /\ IsEmpty(tx')
      BY <1>c, ForgottenRing, <1>0, FifoAssumption
      DEF BeginFree, BeginAlloc, Sketch, TypeInv, SpinInv, IsEmpty, TxByte
    <3>2. BeginTxHead => IsEmpty(tx')
      BY <1>0, <1>c, ResetRing DEF BeginTxHead, Sketch, TypeInv, CallInv
    <3> QED
      BY <1>3, <3>1, <3>2 DEF BeginTxTail, Sketch
  <2>2. pc # "begin_tx_head" => IsEmpty(tx)
    BY <1>3, <1>c DEF BeginTxTail, BeginTxHead, BeginFree, BeginAlloc,
       Sketch, TypeInv, SpinInv
  <2>3. n = 0 /\ n' = 0
    BY <1>0, <1>d, <2>1, <2>2, AvailableIs
  <2>4. F' = F /\ m' = m /\ Handed = 0 /\ Handed' = 0
        /\ UNCHANGED << wire, written >>
    BY <1>3 DEF BeginTxTail, BeginTxHead, BeginFree, BeginAlloc, Sketch,
       Handed, uart, history, F, m
  <2> QED
    BY <1>0, <1>1, <2>3, <2>4
<1>4. CASE EndFlush
  <2>1. n' = 0 /\ n = 0
    BY <1>0, <1>4, <1>d, FlushedRing, AvailableIs DEF EndFlush, Sketch
  <2>2. F' = F /\ m' = m /\ Handed = 0 /\ Handed' = 0
        /\ UNCHANGED << wire, written >>
    BY <1>4 DEF EndFlush, Sketch, Handed, uart, F, m
  <2> QED
    BY <1>0, <1>1, <2>1, <2>2
<1>5. CASE WriteStore
  <2>1. written + 1 \in TxByte
    BY <1>5, FifoAssumption DEF WriteStore, Sketch, TypeInv, TypeOK, CallInv,
         TxByte
  <2>2. C' = C /\ n' = n
    BY <1>0, <1>5, <2>1, <1>d, PutSlotKeepsContents
    DEF WriteStore, Sketch
  <2>3. F' = F /\ m' = m /\ Handed = 0 /\ Handed' = 0
        /\ UNCHANGED << wire, written >>
    BY <1>5 DEF WriteStore, Sketch, Handed, uart, history, F, m
  <2> QED
    BY <1>0, <1>1, <2>2, <2>3
<1>6. CASE WritePublish
  <2>1. ~IsFull(tx) /\ tx.buffer[tx.head] = written + 1
    BY <1>0, <1>6, <1>c, EmptyHasRoom
    DEF WritePublish, Sketch, TypeInv, CallInv, SpinInv
  <2>2. C' = Append(C, written + 1) /\ n' = n + 1
    BY <1>0, <1>6, <1>d, <2>1, PublishAppends DEF WritePublish, Sketch
  <2>3. F' = F /\ m' = m /\ Handed = 0 /\ Handed' = 0
        /\ wire' = wire /\ written' = written + 1
    BY <1>6 DEF WritePublish, Sketch, Handed, uart, F, m
  <2>4. ASSUME NEW k \in 1 .. n'
        PROVE  C'[k] = wire' + m' - Handed' + k
    <3>1. C'[k] = IF k <= n THEN C[k] ELSE written + 1
      BY <1>0, <2>2
    <3>2. k <= n => C[k] = wire + m + k
      BY <1>0, <1>1, <2>3
    <3>3. k > n => k = n + 1
      BY <1>0, <2>2
    <3> QED
      BY <1>0, <1>1, <2>3, <3>1, <3>2, <3>3
  <2>5. written' = wire' + m' - Handed' + n'
    BY <1>0, <1>1, <2>2, <2>3
  <2>6. \A k \in 1 .. m' : F'[k] = wire' + k
    BY <1>1, <2>3
  <2> QED
    BY <2>4, <2>5, <2>6
<1>7. CASE PrimePut
  <2>1. n >= 1 /\ F' = Append(F, C[1]) /\ m' = m + 1
    BY <1>0, <1>7, <1>d, OldestIsFirst DEF PrimePut, Sketch, F, m
  <2>2. C' = C /\ n' = n /\ Handed = 0 /\ Handed' = 1
        /\ UNCHANGED << wire, written >>
    BY <1>7 DEF PrimePut, Sketch, Handed, Unsent, history, C, n
  <2>3. ASSUME NEW k \in 1 .. m'
        PROVE  F'[k] = wire' + k
    <3>1. F'[k] = IF k <= m THEN F[k] ELSE C[1]
      BY <1>0, <2>1
    <3>2. C[1] = wire + m + 1 /\ wire' = wire
      BY <1>0, <1>1, <2>1, <2>2
    <3>3. k \in 1 .. m \/ (k > m /\ k = m + 1)
      BY <1>0, <2>1
    <3>4. CASE k \in 1 .. m
      BY <1>0, <1>1, <3>1, <3>2, <3>4
    <3>5. CASE k > m /\ k = m + 1
      BY <1>0, <3>1, <3>2, <3>5
    <3> QED
      BY <3>3, <3>4, <3>5
  <2>4. \A k \in 1 .. n' : C'[k] = wire' + m' - Handed' + k
    BY <1>0, <1>1, <2>1, <2>2
  <2>5. written' = wire' + m' - Handed' + n'
    BY <1>0, <1>1, <2>1, <2>2
  <2> QED
    BY <2>3, <2>4, <2>5
<1>8. CASE PrimeAdvance
  <2>1. C' = Tail(C) /\ n' = n - 1 /\ n >= 1
    BY <1>0, <1>8, <1>d, OldestIsFirst, AdvanceTakesFirst
    DEF PrimeAdvance, Sketch, TypeInv, CallInv
  <2>2. F' = F /\ m' = m /\ Handed = 1 /\ Handed' = 0
        /\ UNCHANGED << wire, written >>
    BY <1>8 DEF PrimeAdvance, Sketch, Handed, uart, history, F, m
  <2>3. ASSUME NEW k \in 1 .. n'
        PROVE  k \in Nat /\ k + 1 \in 1 .. n /\ C'[k] = C[k + 1]
    BY <1>0, <2>1
  <2> QED
    BY <1>0, <1>1, <2>1, <2>2, <2>3
<1>9. CASE IsrPut
  <2>1. /\ n >= 1 /\ F' = Append(F, C[1]) /\ m' = m + 1
        /\ C' = Tail(C) /\ n' = n - 1
    BY <1>0, <1>9, <1>c, <1>d, OldestIsFirst, AdvanceTakesFirst
    DEF IsrPut, F, m
  <2>2. Handed = 0 /\ Handed' = 0 /\ UNCHANGED << wire, written >>
    BY <1>2, <1>9 DEF IsrPut, Handed
  <2>3. ASSUME NEW k \in 1 .. n'
        PROVE  k \in Nat /\ k + 1 \in 1 .. n /\ C'[k] = C[k + 1]
    BY <1>0, <2>1
  <2>4. ASSUME NEW k \in 1 .. m'
        PROVE  F'[k] = wire' + k
    <3>1. F'[k] = IF k <= m THEN F[k] ELSE C[1]
      BY <1>0, <2>1
    <3>2. C[1] = wire + m + 1 /\ wire' = wire
      BY <1>0, <1>1, <2>1, <2>2
    <3>3. k \in 1 .. m \/ (k > m /\ k = m + 1)
      BY <1>0, <2>1
    <3>4. CASE k \in 1 .. m
      BY <1>0, <1>1, <3>1, <3>2, <3>4
    <3>5. CASE k > m /\ k = m + 1
      BY <1>0, <3>1, <3>2, <3>5
    <3> QED
      BY <3>3, <3>4, <3>5
  <2>5. ASSUME NEW k \in 1 .. n'
        PROVE  C'[k] = wire' + m' - Handed' + k
    BY <1>0, <1>1, <2>1, <2>2, <2>3
  <2>6. written' = wire' + m' - Handed' + n'
    BY <1>0, <1>1, <2>1, <2>2
  <2> QED
    BY <2>4, <2>5, <2>6
<1>10. CASE Send
  <2>1. m >= 1 /\ F' = Tail(F) /\ m' = m - 1 /\ wire' = F[1]
    BY <1>0, <1>10 DEF Send, F, m
  <2>2. C' = C /\ n' = n /\ Handed' = Handed /\ written' = written
    BY <1>10 DEF Send, Handed, C, n, Unsent
  <2>3. ASSUME NEW k \in 1 .. m'
        PROVE  k \in Nat /\ k + 1 \in 1 .. m /\ F'[k] = F[k + 1]
    BY <1>0, <2>1
  <2> QED
    BY <1>0, <1>1, <1>2, <2>1, <2>2, <2>3
<1>11. CASE UNCHANGED txVars
  <2>1. /\ C' = C /\ n' = n /\ F' = F /\ m' = m
        /\ UNCHANGED << wire, written, Handed >>
    BY <1>11 DEF txVars, C, n, F, m
  <2> QED
    BY <1>1, <2>1
<1> QED
  BY <1>3, <1>4, <1>5, <1>6, <1>7, <1>8, <1>9, <1>10, <1>11, TxSteps

(* The type invariant of the port.                                         *)
THEOREM Lm4fTypeCorrect == Spec => []TypeOK
  BY TypeInit, TypeStep, PTL DEF Spec, TypeInv

(* No loop of write, flush or end waits for an index of the transmit ring  *)
(* that only the handler could move: the ring is empty before them.        *)
THEOREM NoLoopSpins == Spec => []NeverSpins
<1>1. TypeInv => NeverSpins
  BY DEF TypeInv, SpinInv, NeverSpins
<1> QED
  BY <1>1, TypeInit, TypeStep, PTL DEF Spec
-----------------------------------------------------------------------------
(* The receive side.  Nothing is later than the last byte that arrived, and*)
(* without a loss the bytes between reader and line are consecutive.       *)
RxBound ==
  ~freed => /\ lastRead <= arrived
            /\ \A k \in 1 .. Len(Unread) : Unread[k] <= arrived

RxDense ==
  ~freed /\ ~lossy =>
    /\ \A k \in 1 .. Len(Unread) : Unread[k] = lastRead - Taken + k
    /\ \A k \in 1 .. Len(rxFifo) :
         rxFifo[k] = lastRead - Taken + Len(Unread) + k

RxInv == RxInOrder /\ RxBound /\ RxDense

rxVars == << rx, rxFifo, arrived, lastRead, lossy, Taken, Unread, freed >>

(* Only these actions touch what RxInv speaks of.                          *)
LEMMA RxSteps ==
  ASSUME TypeInv, [Next]_vars
  PROVE  \/ BeginConfig \/ BeginRxTail \/ BeginRxHead \/ BeginFree
         \/ BeginAlloc \/ EndFlush \/ ReadFetch \/ ReadAdvance \/ IsrDrop
         \/ IsrStore \/ Arrive \/ UNCHANGED rxVars
<1> USE DEF rxVars, Taken, Unread, Sketch, uart, enables, handler, history,
      spoilt
<1>0. CASE BeginTxTail \/ BeginTxHead \/ BeginEnable
  BY <1>0 DEF BeginTxTail, BeginTxHead, BeginEnable
<1>1. CASE WriteCall \/ WriteStore \/ WritePublish \/ WriteTest
  BY <1>1 DEF WriteCall, WriteStore, WritePublish, WriteTest
<1>2. CASE PrimeTest \/ PrimeDisable \/ PrimePut \/ PrimeAdvance \/ PrimeDone
           \/ WriteEnable
  BY <1>2 DEF PrimeTest, PrimeDisable, PrimePut, PrimeAdvance, PrimeDone,
       WriteEnable
<1>3. CASE EndDisable \/ EndMask
  BY <1>3 DEF EndDisable, EndMask
<1>4. CASE IsrEnter \/ IsrPut \/ IsrTxDone \/ IsrRxEmpty \/ IsrRxDone
  BY <1>4 DEF IsrEnter, IsrPut, IsrTxDone, IsrRxEmpty, IsrRxDone
<1>5. CASE Send \/ Received
  BY <1>5 DEF Send, Received
<1>6. CASE UNCHANGED vars
  BY <1>6 DEF vars
<1> QED
  BY <1>0, <1>1, <1>2, <1>3, <1>4, <1>5, <1>6
  DEF Next, Calls, Run, Write, Begin, Isr

LEMMA RxInit == Init => RxInv
<1> SUFFICES ASSUME Init PROVE RxInv
  OBVIOUS
<1>1. Len(Unread) = 0 /\ Len(rxFifo) = 0
  BY EmptyRingType, FifoAssumption, AvailableIs, ContentsIs
  DEF Init, Unread
<1>2. lastRead = 0 /\ arrived = 0 /\ Taken = 0
  BY DEF Init, Taken
<1> QED
  BY <1>1, <1>2 DEF RxInv, RxInOrder, RxBound, RxDense

(* Bytes only move on from the FIFO through the ring to the reader, and    *)
(* only a step that sets lossy leaves a gap.                               *)
LEMMA RxStep == TypeInv /\ RxInv /\ [Next]_vars => RxInv'
<1> SUFFICES ASSUME TypeInv, RxInv, [Next]_vars, ~freed'
             PROVE  RxInv'
  BY DEF RxInv, RxInOrder, RxBound, RxDense
<1> DEFINE C == Unread
           n == Len(Unread)
           G == rxFifo
           g == Len(rxFifo)
           base == lastRead - Taken
           RingOrder == \A k \in 1 .. n : \A j \in 1 .. k - 1 : C[j] < C[k]
           FifoOrder == \A k \in 1 .. g : \A j \in 1 .. k - 1 : G[j] < G[k]
           RingFirst == \A k \in 1 .. g : \A i \in 1 .. n : C[i] < G[k]
           Later == \A k \in 1 .. n : C[k] > lastRead \/ (k = 1 /\ Taken = 1)
           InFifo == \A k \in 1 .. g : lastRead < G[k] /\ G[k] <= arrived
           InRing == \A k \in 1 .. n : C[k] <= arrived
           Dense == /\ arrived = base + n + g
                    /\ \A k \in 1 .. n : C[k] = base + k
                    /\ \A k \in 1 .. g : G[k] = base + n + k
           Inv == /\ n >= Taken /\ lastRead <= arrived /\ InRing /\ Later
                  /\ RingOrder /\ FifoOrder /\ RingFirst /\ InFifo
                  /\ ~lossy => Dense
<1>a. TypeInv'
  BY TypeStep
<1>b. ~freed
  <2>1. (freed => freed') \/ UNCHANGED freed
    BY RxSteps, Zenon
    DEF BeginConfig, BeginRxTail, BeginRxHead, BeginFree, BeginAlloc,
        EndFlush, ReadFetch, ReadAdvance, IsrDrop, IsrStore, Arrive, rxVars,
        history, spoilt
  <2> QED
    BY <2>1
<1>c. rx \in RingType(RxByte) /\ rx' \in RingType(RxByte)
  BY <1>a DEF TypeInv, TypeOK, RxByte
<1>d. /\ pc # "begin_rx_head" => C = Contents(rx) /\ n = Available(rx)
      /\ pc = "begin_rx_head" => n = 0
      /\ pc' # "begin_rx_head" => C' = Contents(rx') /\ n' = Available(rx')
      /\ pc' = "begin_rx_head" => n' = 0
  BY <1>c, ContentsIs DEF Unread
<1>0. /\ rx \in RingType(RxByte) /\ n \in Nat /\ C \in Seq(RxByte)
      /\ Len(C) = n /\ G \in Seq(1 .. MaxArrivals) /\ g \in Nat
      /\ Len(G) = g /\ lastRead \in Nat /\ arrived \in Nat
      /\ Taken \in Nat /\ lossy \in BOOLEAN
      /\ \A k \in 1 .. n : C[k] \in Nat
      /\ \A k \in 1 .. g : G[k] \in Nat /\ G[k] \in RxByte
  <2>1. rx \in RingType(RxByte)
    BY DEF TypeInv, TypeOK, RxByte
  <2>2. n \in Nat /\ C \in Seq(RxByte) /\ Len(C) = n
    BY <2>1, AvailableIs, ContentsIs DEF Index, Unread
  <2>3. \A k \in 1 .. n : C[k] \in Nat
    BY <2>2, FifoAssumption DEF RxByte
  <2>4. /\ G \in Seq(1 .. MaxArrivals) /\ lossy \in BOOLEAN
        /\ lastRead \in Nat /\ arrived \in Nat
    BY FifoAssumption DEF TypeInv, TypeOK
  <2>5. \A k \in 1 .. g : G[k] \in Nat /\ G[k] \in RxByte
    BY <2>4, FifoAssumption DEF RxByte
  <2> QED
    BY <2>1, <2>2, <2>3, <2>4, <2>5 DEF Taken
<1>1. Inv
  BY <1>b DEF RxInv, RxInOrder, RxBound, RxDense
<1> SUFFICES Inv'
  BY DEF RxInv, RxInOrder, RxBound, RxDense
<1> HIDE DEF C, n, G, g
<1>2. CASE BeginConfig
  <2>1. C' = C /\ n' = n /\ g' = 0 /\ Taken = 0 /\ Taken' = 0
        /\ UNCHANGED << arrived, lastRead >>
    BY <1>2 DEF BeginConfig, Sketch, Taken, Unread, C, n, g
  <2>2. ~lossy' => ~lossy /\ g = 0
    BY <1>0, <1>2 DEF BeginConfig, g
  <2> QED
    BY <1>0, <1>1, <2>1, <2>2
<1>3. CASE BeginRxTail \/ BeginRxHead \/ BeginFree \/ BeginAlloc \/ EndFlush
  <2>1. /\ pc' # "begin_rx_head" => IsEmpty(rx')
        /\ ~lossy' => ~lossy /\ (pc # "begin_rx_head" => IsEmpty(rx))
    <3>1. CASE BeginRxTail
      BY <3>1 DEF BeginRxTail, Sketch
    <3>2. CASE BeginRxHead
      <4>1. IsEmpty(rx')
        BY <1>c, <3>2, ResetRing DEF BeginRxHead, Sketch, TypeInv, CallInv
      <4> QED
        BY <3>2, <4>1 DEF BeginRxHead, Sketch, history
    <3>3. CASE BeginFree
      <4>1. IsEmpty(rx) /\ rx' = Forgotten(rx)
        BY <3>3 DEF BeginFree
      <4>2. IsEmpty(rx')
        BY <1>c, <4>1, ForgottenRing, FifoAssumption DEF IsEmpty, RxByte
      <4> QED
        BY <3>3, <4>1, <4>2 DEF BeginFree
    <3>4. CASE BeginAlloc
      <4>1. IsEmpty(rx) /\ rx' = Forgotten(rx)
        BY <1>b, <3>4 DEF BeginAlloc, Sketch, TypeInv, CallInv
      <4>2. IsEmpty(rx')
        BY <1>c, <4>1, ForgottenRing, FifoAssumption DEF IsEmpty, RxByte
      <4> QED
        BY <3>4, <4>1, <4>2 DEF BeginAlloc, history
    <3>5. CASE EndFlush
      BY <1>c, <3>5, FlushedRing DEF EndFlush
    <3> QED
      BY <1>3, <3>1, <3>2, <3>3, <3>4, <3>5
  <2>2. n' = 0 /\ (~lossy' => ~lossy /\ n = 0)
    BY <1>c, <1>d, <2>1, AvailableIs
  <2>3. G' = G /\ g' = g /\ Taken = 0 /\ Taken' = 0
        /\ UNCHANGED << arrived, lastRead >>
    BY <1>3 DEF BeginRxTail, BeginRxHead, BeginFree, BeginAlloc, EndFlush,
       Sketch, Taken, uart, history, G, g
  <2> QED
    BY <1>0, <1>1, <2>2, <2>3
<1>4. CASE ReadFetch
  <2>1. n >= 1 /\ lastRead' = C[1]
    BY <1>0, <1>4, <1>d, OldestIsFirst DEF ReadFetch, Sketch
  <2>2. C' = C /\ n' = n /\ G' = G /\ g' = g /\ Taken = 0 /\ Taken' = 1
        /\ UNCHANGED << arrived, lossy >>
    BY <1>4 DEF ReadFetch, Sketch, Taken, Unread, uart, C, n, G, g
  <2>3. Later'
    <3> SUFFICES ASSUME NEW k \in 1 .. n, k # 1 PROVE C[k] > C[1]
      BY <2>1, <2>2
    <3>1. 1 \in 1 .. k - 1
      BY <1>0
    <3> QED
      BY <1>0, <1>1, <3>1
  <2>4. 1 \in 1 .. n
    BY <1>0, <2>1
  <2>5. InFifo' /\ lastRead' <= arrived'
    BY <1>0, <1>1, <2>1, <2>2, <2>4
  <2>6. ~lossy' => Dense'
    <3>1. ~lossy => C[1] = lastRead + 1
      BY <1>0, <1>1, <2>2, <2>4
    <3> QED
      BY <1>0, <1>1, <2>1, <2>2, <3>1
  <2> QED
    BY <1>1, <2>1, <2>2, <2>3, <2>5, <2>6
<1>5. CASE ReadAdvance
  <2>1. C' = Tail(C) /\ n' = n - 1 /\ n >= 1
    BY <1>0, <1>5, <1>d, OldestIsFirst, AdvanceTakesFirst
    DEF ReadAdvance, Sketch, TypeInv, CallInv
  <2>2. G' = G /\ g' = g /\ Taken = 1 /\ Taken' = 0
        /\ UNCHANGED << arrived, lastRead, lossy >>
    BY <1>5 DEF ReadAdvance, Sketch, Taken, uart, history, G, g
  <2>3. ASSUME NEW k \in 1 .. n'
        PROVE  k \in Nat /\ k + 1 \in 1 .. n /\ k + 1 # 1
               /\ C'[k] = C[k + 1]
    BY <1>0, <2>1
  <2>4. RingOrder'
    <3> SUFFICES ASSUME NEW k \in 1 .. n', NEW j \in 1 .. k - 1
                 PROVE  C'[j] < C'[k]
      OBVIOUS
    <3>1. j \in 1 .. n' /\ j + 1 \in 1 .. (k + 1) - 1
      BY <1>0, <2>1
    <3> QED
      BY <1>1, <2>3, <3>1
  <2>5. Later' /\ InRing' /\ RingFirst'
    BY <1>1, <2>2, <2>3
  <2>6. ~lossy' => Dense'
    BY <1>0, <1>1, <2>1, <2>2, <2>3
  <2> QED
    BY <1>0, <1>1, <2>1, <2>2, <2>4, <2>5, <2>6
<1>6. CASE IsrDrop
  <2>1. G' = Tail(G) /\ g' = g - 1 /\ g >= 1
    BY <1>0, <1>6 DEF IsrDrop, G, g
  <2>2. C' = C /\ n' = n /\ Taken' = Taken /\ lossy'
        /\ UNCHANGED << arrived, lastRead >>
    BY <1>6 DEF IsrDrop, Taken, Unread, C, n
  <2>3. ASSUME NEW k \in 1 .. g'
        PROVE  k \in Nat /\ k + 1 \in 1 .. g /\ G'[k] = G[k + 1]
    BY <1>0, <2>1
  <2>4. FifoOrder'
    <3> SUFFICES ASSUME NEW k \in 1 .. g', NEW j \in 1 .. k - 1
                 PROVE  G'[j] < G'[k]
      OBVIOUS
    <3>1. j \in 1 .. g' /\ j + 1 \in 1 .. (k + 1) - 1
      BY <1>0, <2>1
    <3> QED
      BY <1>1, <2>3, <3>1
  <2>5. RingFirst' /\ InFifo'
    BY <1>1, <2>2, <2>3
  <2> QED
    BY <1>1, <2>2, <2>4, <2>5
<1>7. CASE IsrStore /\ pc # "begin_rx_head"
  <2>1. G' = Tail(G) /\ g' = g - 1 /\ g >= 1 /\ G[1] \in RxByte
    <3>1. G # << >> /\ G' = Tail(G) /\ g' = Len(Tail(G))
      BY <1>7 DEF IsrStore, G, g
    <3>2. g >= 1
      BY <1>0, <3>1
    <3>3. Len(Tail(G)) = g - 1 /\ 1 \in 1 .. g
      BY <1>0, <3>1, <3>2
    <3>4. G[1] \in RxByte
      BY <1>0, <3>3
    <3> QED
      BY <3>1, <3>2, <3>3, <3>4
  <2>2. C' = Append(C, G[1]) /\ n' = n + 1
    BY <1>0, <1>7, <1>d, <2>1, StoreCharAppends DEF IsrStore, handler, G
  <2>3. /\ Taken' = Taken /\ UNCHANGED << arrived, lastRead >>
        /\ ~lossy' => ~lossy
    <3>1. ~lossy' => ~lossy
      BY <1>7, Zenon DEF IsrStore
    <3> QED
      BY <1>7, <3>1 DEF IsrStore, Taken, handler
  <2>4. ASSUME NEW k \in 1 .. g'
        PROVE  k \in Nat /\ k + 1 \in 1 .. g /\ G'[k] = G[k + 1]
               /\ G[1] < G[k + 1]
    <3>1. k \in Nat /\ k + 1 \in 1 .. g /\ 1 \in 1 .. (k + 1) - 1
      BY <1>0, <2>1
    <3> QED
      BY <1>0, <1>1, <2>1, <3>1
  <2>5. ASSUME NEW k \in 1 .. n'
        PROVE  \/ k \in 1 .. n /\ C'[k] = C[k]
               \/ k = n + 1 /\ C'[k] = G[1]
    BY <1>0, <2>2
  <2>6. 1 \in 1 .. g /\ G[1] \in Nat
    BY <1>0, <2>1
  <2>7. RingOrder'
    <3> SUFFICES ASSUME NEW k \in 1 .. n', NEW j \in 1 .. k - 1
                 PROVE  C'[j] < C'[k]
      OBVIOUS
    <3>1. j \in 1 .. n /\ j \in 1 .. n' /\ j # n + 1
      BY <1>0, <2>2
    <3>2. C'[j] = C[j] /\ C[j] < G[1]
      BY <1>1, <2>5, <2>6, <3>1
    <3> QED
      BY <1>1, <2>5, <3>2
  <2>8. FifoOrder'
    <3> SUFFICES ASSUME NEW k \in 1 .. g', NEW j \in 1 .. k - 1
                 PROVE  G'[j] < G'[k]
      OBVIOUS
    <3>1. j \in 1 .. g' /\ j + 1 \in 1 .. (k + 1) - 1
      BY <1>0, <2>1
    <3> QED
      BY <1>1, <2>4, <3>1
  <2>9. RingFirst'
    BY <1>1, <2>4, <2>5
  <2>10. Later' /\ InRing'
    BY <1>0, <1>1, <2>3, <2>5, <2>6
  <2>11. InFifo'
    BY <1>1, <2>3, <2>4
  <2>12. ~lossy' => Dense'
    <3> SUFFICES ASSUME ~lossy PROVE Dense'
      BY <2>3
    <3>1. Dense
      BY <1>1
    <3>2. G[1] = base + (n + 1) /\ base' = base
      BY <1>0, <2>3, <2>6, <3>1
    <3>3. \A k \in 1 .. n' : C'[k] = base' + k
      BY <2>5, <3>1, <3>2
    <3>4. ASSUME NEW k \in 1 .. g' PROVE G'[k] = base' + n' + k
      <4>1. G[k + 1] = base + n + (k + 1)
        BY <2>4, <3>1
      <4> QED
        BY <1>0, <2>2, <2>4, <3>2, <4>1
    <3>5. arrived' = base' + n' + g'
      BY <1>0, <2>1, <2>2, <2>3, <3>1, <3>2
    <3> QED
      BY <3>3, <3>4, <3>5
  <2> QED
    BY <1>0, <1>1, <2>2, <2>3, <2>7, <2>8, <2>9, <2>10, <2>11, <2>12
<1>10. CASE IsrStore /\ pc = "begin_rx_head"
  <2>1. G' = Tail(G) /\ g' = g - 1 /\ g >= 1
    BY <1>0, <1>10 DEF IsrStore, G, g
  <2>2. n = 0 /\ n' = 0 /\ Taken' = Taken /\ lossy'
        /\ UNCHANGED << arrived, lastRead >>
    BY <1>10, <1>d DEF IsrStore, Taken
  <2>3. ASSUME NEW k \in 1 .. g'
        PROVE  k \in Nat /\ k + 1 \in 1 .. g /\ G'[k] = G[k + 1]
    BY <1>0, <2>1
  <2>4. FifoOrder'
    <3> SUFFICES ASSUME NEW k \in 1 .. g', NEW j \in 1 .. k - 1
                 PROVE  G'[j] < G'[k]
      OBVIOUS
    <3>1. j \in 1 .. g' /\ j + 1 \in 1 .. (k + 1) - 1
      BY <1>0, <2>1
    <3> QED
      BY <1>1, <2>3, <3>1
  <2>5. RingFirst' /\ InFifo'
    BY <1>0, <1>1, <2>2, <2>3
  <2> QED
    BY <1>0, <1>1, <2>2, <2>4, <2>5
<1>8. CASE Arrive
  <2>1. C' = C /\ n' = n /\ Taken' = Taken /\ lastRead' = lastRead
        /\ arrived' = arrived + 1
    BY <1>8 DEF Arrive, Taken, Unread, C, n
  <2>2. InRing' /\ lastRead' <= arrived'
    BY <1>0, <1>1, <2>1
  <2>3. CASE Len(rxFifo) < FIFO
    <3>1. G' = Append(G, arrived + 1) /\ g' = g + 1 /\ lossy' = lossy
      BY <1>0, <1>8, <2>3 DEF Arrive, G, g
    <3>2. ASSUME NEW k \in 1 .. g'
          PROVE  \/ k \in 1 .. g /\ G'[k] = G[k]
                 \/ k = g + 1 /\ G'[k] = arrived + 1
      BY <1>0, <3>1
    <3>3. FifoOrder'
      <4> SUFFICES ASSUME NEW k \in 1 .. g', NEW j \in 1 .. k - 1
                   PROVE  G'[j] < G'[k]
        OBVIOUS
      <4>1. j \in 1 .. g /\ j \in 1 .. g' /\ j # g + 1
        BY <1>0, <3>1
      <4>2. G'[j] = G[j] /\ G[j] < arrived + 1
        BY <1>0, <1>1, <3>2, <4>1
      <4>3. CASE k \in 1 .. g /\ G'[k] = G[k]
        BY <1>1, <4>2, <4>3
      <4>4. CASE k = g + 1 /\ G'[k] = arrived + 1
        BY <4>2, <4>4
      <4> QED
        BY <3>2, <4>3, <4>4
    <3>4. RingFirst' /\ InFifo'
      <4>1. ASSUME NEW k \in 1 .. g', NEW i \in 1 .. n'
            PROVE  C'[i] < G'[k]
        <5>1. i \in 1 .. n /\ C'[i] = C[i] /\ C[i] < arrived + 1
          BY <1>0, <1>1, <2>1
        <5> QED
          BY <1>1, <3>2, <5>1
      <4>2. ASSUME NEW k \in 1 .. g'
            PROVE  lastRead' < G'[k] /\ G'[k] <= arrived'
        <5>1. CASE k \in 1 .. g /\ G'[k] = G[k]
          BY <1>0, <1>1, <2>1, <5>1
        <5>2. CASE k = g + 1 /\ G'[k] = arrived + 1
          BY <1>0, <1>1, <2>1, <5>2
        <5> QED
          BY <3>2, <5>1, <5>2
      <4> QED
        BY <4>1, <4>2
    <3>5. ~lossy' => Dense'
      <4> SUFFICES ASSUME ~lossy PROVE Dense'
        BY <3>1
      <4>1. Dense /\ base' = base
        BY <1>1, <2>1
      <4>2. \A k \in 1 .. g' : G'[k] = base' + n' + k
        BY <1>0, <2>1, <3>2, <4>1
      <4> QED
        BY <1>0, <2>1, <3>1, <4>1, <4>2
    <3> QED
      BY <1>1, <2>1, <2>2, <3>3, <3>4, <3>5
  <2>4. CASE ~(Len(rxFifo) < FIFO)
    <3>1. G' = G /\ g' = g /\ lossy'
      BY <1>8, <2>4 DEF Arrive, G, g
    <3> QED
      BY <1>0, <1>1, <2>1, <2>2, <3>1
  <2> QED
    BY <2>3, <2>4
<1>9. CASE UNCHANGED rxVars
  <2>1. /\ C' = C /\ n' = n /\ G' = G /\ g' = g
        /\ UNCHANGED << arrived, lastRead, lossy, Taken >>
    BY <1>9 DEF rxVars, C, n, G, g
  <2> QED
    BY <1>1, <2>1
<1> QED
  BY <1>2, <1>3, <1>4, <1>5, <1>6, <1>7, <1>8, <1>9, <1>10, RxSteps

(* The sketch and the handler, which both move bytes on, repeat, skip and  *)
(* reorder none in either direction.                                       *)
THEOREM BytesInOrder == Spec => []InOrder
<1>1. RxInv => RxInOrder
  BY DEF RxInv
<1>2. TxInOrder /\ RxInOrder => InOrder
  BY DEF InOrder
<1> QED
  BY <1>1, <1>2, TypeInit, TypeStep, TxInit, TxStep, RxInit, RxStep, PTL
  DEF Spec
=============================================================================
