------------------------ MODULE HardwareSerialProofs -----------------------
(***************************************************************************)
(* The safety properties of the serial port, for every buffer size, number *)
(* of bytes and number of begins, on parts with and without shared vectors.*)
(*                                                                         *)
(* The inductive invariant is built in layers: types and what holds inside *)
(* a call first (TypeInv), then the transmit side and the receive side,    *)
(* which do not depend on each other.  Each layer looks only at the actions*)
(* that touch its variables; TxSteps and RxSteps say which those are.      *)
(***************************************************************************)
EXTENDS HardwareSerial, RingBufferProofs

TxByte == 0 .. MaxWrites
RxByte == 0 .. MaxArrivals

USE DEF RXIE, TXIE

TypeInv == TypeOK /\ CallInv

-----------------------------------------------------------------------------
(* The rings stay rings, as the six actions that change one of them use it.*)
LEMMA EmptyRingType ==
  ASSUME NEW n \in Nat
  PROVE  EmptyRing \in RingType(0 .. n) /\ IsEmpty(EmptyRing)
  BY SizeAssumption DEF EmptyRing, RingType, Index, IsEmpty

(* Assigning write's local index to the head publishes the head.           *)
LEMMA PublishIs ==
  ASSUME idx = Succ(tx.head)
  PROVE  [tx EXCEPT !.head = idx] = PublishHead(tx)
  BY DEF PublishHead

(* The program starts in the type invariant.                               *)
LEMMA TypeInit == Init => TypeInv
<1> SUFFICES ASSUME Init PROVE TypeInv
  OBVIOUS
<1>1. tx \in RingType(0 .. MaxWrites) /\ rx \in RingType(0 .. MaxArrivals)
  BY SerialAssumption, EmptyRingType DEF Init
<1>2. 0 \in Index /\ 0 \in 0 .. MaxWrites /\ 0 \in 0 .. MaxArrivals
  BY SizeAssumption, SerialAssumption DEF Index
<1>3. TypeOK
  BY <1>1, <1>2 DEF Init, TypeOK, Labels
<1>4. CallInv
  BY DEF Init, CallInv
<1> QED
  BY <1>3, <1>4 DEF TypeInv

(* Every step keeps the types and what holds inside a call.                *)
LEMMA TypeStep == TypeInv /\ [Next]_vars => TypeInv'
<1> SUFFICES ASSUME TypeInv, [Next]_vars PROVE TypeInv'
  OBVIOUS
<1> USE SizeAssumption, SerialAssumption DEF TypeInv, TypeOK, Labels,
      hardware, locals, txHistory, rxHistory
<1>0. tx \in RingType(TxByte) /\ rx \in RingType(RxByte)
  BY DEF TxByte, RxByte
<1>1. CASE BeginCall
  BY <1>1 DEF BeginCall, CallInv
<1>2. CASE BeginReset
  BY <1>2 DEF BeginReset, CallInv
<1>3. CASE BeginEnable
  BY <1>3 DEF BeginEnable, CallInv
<1>4. CASE WriteCall
  <2>1. Succ(tx.head) \in Index
    BY SuccIs DEF RingType
  <2> QED
    BY <1>4, <2>1 DEF WriteCall, CallInv
<1>5. CASE WriteRoom
  BY <1>5 DEF WriteRoom, CallInv, IsFull
<1>6. CASE WriteStore
  <2>1. written + 1 \in TxByte
    BY <1>6 DEF WriteStore, CallInv, TxByte
  <2>2. /\ tx' \in RingType(TxByte)
        /\ tx'.buffer[tx.head] = written + 1
        /\ tx'.head = tx.head /\ tx'.tail = tx.tail
    BY <1>0, <1>6, <2>1, PutSlotKeepsContents DEF WriteStore
  <2> QED
    BY <1>6, <2>2 DEF WriteStore, CallInv, IsFull, TxByte
<1>7. CASE WritePublish
  <2>1. tx' = PublishHead(tx) /\ ~IsFull(tx) /\ written < MaxWrites
    BY <1>7, PublishIs DEF WritePublish, CallInv
  <2>2. tx' \in RingType(TxByte)
    BY <1>0, <2>1, PublishAppends
  <2> QED
    BY <1>7, <2>1, <2>2 DEF WritePublish, CallInv, TxByte
<1>8. CASE WriteLoadIE
  BY <1>8 DEF WriteLoadIE, CallInv
<1>9. CASE WriteEnable
  BY <1>9 DEF WriteEnable, CallInv
<1>10. CASE ReadCall
  BY <1>10 DEF ReadCall, CallInv
<1>11. CASE ReadFetch
  <2>1. Oldest(rx) \in RxByte
    BY <1>0, <1>11, OldestIsFirst DEF ReadFetch, CallInv
  <2> QED
    BY <1>11, <2>1 DEF ReadFetch, CallInv, RxByte
<1>12. CASE ReadAdvance
  <2>1. rx' \in RingType(RxByte)
    BY <1>0, <1>12, AdvanceTakesFirst DEF ReadAdvance, CallInv
  <2>2. promise' \in Index
    BY <1>12 DEF ReadAdvance, Index
  <2> QED
    BY <1>12, <2>1, <2>2 DEF ReadAdvance, CallInv, RxByte
<1>13. CASE PeekCall
  BY <1>13 DEF PeekCall, CallInv
<1>14. CASE PeekFetch
  <2>1. Oldest(rx) \in RxByte
    BY <1>0, <1>14, OldestIsFirst DEF PeekFetch, CallInv
  <2> QED
    BY <1>14, <2>1 DEF PeekFetch, CallInv, RxByte
<1>15. CASE AvailableCall
  <2>1. Available(rx) \in Index
    BY <1>0, AvailableIs
  <2> QED
    BY <1>15, <2>1 DEF AvailableCall, CallInv
<1>16. CASE FlushCall \/ EndCall \/ NoInterrupts \/ Interrupts
  BY <1>16 DEF FlushCall, EndCall, NoInterrupts, Interrupts, CallInv
<1>17. CASE FlushReturn \/ EndDrained
  BY <1>17 DEF FlushReturn, EndDrained, CallInv
<1>18. CASE EndDiscard
  <2>1. rx' \in RingType(RxByte)
    BY <1>0, <1>18, DiscardEmpties DEF EndDiscard
  <2> QED
    BY <1>18, <2>1 DEF EndDiscard, CallInv, RxByte, Index
<1>19. CASE TxIsrEmpty
  BY <1>19 DEF TxIsrEmpty, CallInv
<1>20. CASE TxIsrSend
  <2>1. /\ Oldest(tx) \in TxByte
        /\ tx' \in RingType(TxByte)
        /\ Available(tx') = Available(tx) - 1
        /\ tx'.head = tx.head /\ tx'.buffer = tx.buffer
    BY <1>0, <1>20, OldestIsFirst, AdvanceTakesFirst
    DEF TxIsrSend, AdvanceTail, RingType
  <2>2. ~IsFull(tx')
    <3>1. Available(tx) \in Index
      BY <1>0, AvailableIs
    <3>2. Available(tx') # Size - 1
      BY <2>1, <3>1 DEF Index, Size
    <3> QED
      BY <2>1, <3>2, AvailableIs
  <2> QED
    BY <1>20, <2>1, <2>2 DEF TxIsrSend, CallInv, TxByte, IsFull
<1>21. CASE RxIsr
  <2>1. rx' \in RingType(RxByte) /\ (~IsEmpty(rx) => ~IsEmpty(rx'))
    BY <1>0, <1>21, StoreCharAppends DEF RxIsr, RxByte
  <2> QED
    BY <1>21, <2>1 DEF RxIsr, CallInv, RxByte
<1>22. CASE Uart
  <2>1. CASE Shift
    BY <2>1 DEF Shift, CallInv
  <2>2. CASE ShiftOut
    BY <2>2 DEF ShiftOut, CallInv
  <2>3. CASE Arrive
    BY <2>3 DEF Arrive, CallInv
  <2> QED
    BY <1>22, <2>1, <2>2, <2>3 DEF Uart
<1>23. CASE UNCHANGED vars
  BY <1>23 DEF vars, CallInv
<1> QED
  BY <1>1, <1>2, <1>3, <1>4, <1>5, <1>6, <1>7, <1>8, <1>9, <1>10, <1>11,
     <1>12, <1>13, <1>14, <1>15, <1>16, <1>17, <1>18, <1>19, <1>20, <1>21,
     <1>22, <1>23
  DEF Next, Call, Begin, Write, Read, Drain, TxIsr

(* Type correctness: every variable keeps its type, for every size of the  *)
(* ring; in particular no index ever leaves the buffer.                    *)
THEOREM TypeCorrect == Spec => []TypeOK
<1>1. TypeInv => TypeOK
  BY DEF TypeInv
<1> QED
  BY <1>1, TypeInit, TypeStep, PTL DEF Spec

(* Inside a call, write's slot stays free and read's byte stays there,     *)
(* whatever interrupts come between its statements.                        *)
THEOREM CallsUndisturbed == Spec => []CallInv
<1>1. TypeInv => CallInv
  BY DEF TypeInv
<1> QED
  BY <1>1, TypeInit, TypeStep, PTL DEF Spec
-----------------------------------------------------------------------------
(* The transmit side.                                                      *)
txVars == << tx, txbuf, shift, written, wire, cut >>

(* Only these actions touch what TxStream speaks of.                       *)
LEMMA TxSteps ==
  ASSUME [Next]_vars
  PROVE  \/ BeginReset \/ WriteStore \/ WritePublish \/ TxIsrSend
         \/ Shift \/ ShiftOut \/ UNCHANGED txVars
<1> USE DEF txVars, hardware, locals, txHistory
<1>1. CASE Call
  BY <1>1 DEF Call, BeginCall, WriteCall, ReadCall, PeekCall, AvailableCall,
       FlushCall, EndCall, NoInterrupts, Interrupts
<1>2. CASE Begin
  BY <1>2 DEF Begin, BeginEnable
<1>3. CASE Write
  BY <1>3 DEF Write, WriteRoom, WriteLoadIE, WriteEnable
<1>4. CASE Read
  BY <1>4 DEF Read, ReadFetch, ReadAdvance, PeekFetch
<1>5. CASE Drain
  BY <1>5 DEF Drain, FlushReturn, EndDrained, EndDiscard
<1>6. CASE TxIsr
  BY <1>6 DEF TxIsr, TxIsrEmpty
<1>7. CASE RxIsr
  BY <1>7 DEF RxIsr
<1>8. CASE Uart
  BY <1>8 DEF Uart, Arrive
<1>9. CASE UNCHANGED vars
  BY <1>9 DEF vars
<1> QED
  BY <1>1, <1>2, <1>3, <1>4, <1>5, <1>6, <1>7, <1>8, <1>9 DEF Next

(* What each step does to the queue the transmit ring stands for.          *)
LEMMA TxQueueStep ==
  ASSUME TypeInv, [Next]_vars
  PROVE  /\ WritePublish =>
              /\ Contents(tx)' = Append(Contents(tx), written + 1)
              /\ Available(tx)' = Available(tx) + 1
              /\ Available(tx) < Size - 1
              /\ written + 1 \in TxByte
         /\ TxIsrSend =>
              /\ Contents(tx)' = Tail(Contents(tx))
              /\ Available(tx)' = Available(tx) - 1
              /\ Available(tx) >= 1
              /\ txbuf' = Contents(tx)[1]
         /\ ~WritePublish /\ ~TxIsrSend =>
              /\ Contents(tx)' = Contents(tx)
              /\ Available(tx)' = Available(tx)
<1>1. tx \in RingType(TxByte)
  BY DEF TypeInv, TypeOK, TxByte
<1>2. ASSUME WritePublish
      PROVE  /\ Contents(tx)' = Append(Contents(tx), written + 1)
             /\ Available(tx)' = Available(tx) + 1
             /\ Available(tx) < Size - 1
             /\ written + 1 \in TxByte
  <2>1. /\ tx' = PublishHead(tx) /\ ~IsFull(tx)
        /\ tx.buffer[tx.head] = written + 1 /\ written < MaxWrites
    BY <1>2, PublishIs DEF WritePublish, TypeInv, CallInv
  <2>2. Available(tx) \in Index /\ Available(tx) # Size - 1
    BY <1>1, <2>1, AvailableIs
  <2>3. written + 1 \in TxByte
    BY <2>1, SerialAssumption DEF TypeInv, TypeOK, TxByte
  <2> QED
    BY <1>1, <2>1, <2>2, <2>3, PublishAppends, SizeAssumption DEF Index, Size
<1>3. ASSUME TxIsrSend
      PROVE  /\ Contents(tx)' = Tail(Contents(tx))
             /\ Available(tx)' = Available(tx) - 1
             /\ Available(tx) >= 1
             /\ txbuf' = Contents(tx)[1]
  BY <1>1, <1>3, OldestIsFirst, AdvanceTakesFirst DEF TxIsrSend
<1>4. ASSUME ~WritePublish, ~TxIsrSend
      PROVE  /\ Contents(tx)' = Contents(tx)
             /\ Available(tx)' = Available(tx)
  <2>1. CASE WriteStore
    <3>1. written + 1 \in TxByte
      BY <2>1, SerialAssumption
      DEF WriteStore, TypeInv, TypeOK, CallInv, TxByte
    <3> QED
      BY <1>1, <2>1, <3>1, PutSlotKeepsContents DEF WriteStore
  <2>2. CASE tx' = tx
    BY <2>2 DEF Contents, Available
  <2> QED
    BY <1>4, <2>1, <2>2, TxSteps
    DEF BeginReset, Shift, ShiftOut, txVars
<1> QED
  BY <1>2, <1>3, <1>4

LEMMA TxInit == Init => TxStream
<1> SUFFICES ASSUME Init PROVE TxStream
  OBVIOUS
<1>1. Available(tx) = 0
  BY EmptyRingType, SerialAssumption, AvailableIs DEF Init
<1> QED
  BY <1>1 DEF Init, TxStream, NextOut, InFlight

(* The bytes that are not out yet stay the consecutive ones from NextOut on*)
(* as they move from the sketch through ring and registers to the line.    *)
LEMMA TxStep == TypeInv /\ TxStream /\ [Next]_vars => TxStream'
<1> SUFFICES ASSUME TypeInv, TxStream, [Next]_vars PROVE TxStream'
  OBVIOUS
<1> DEFINE C == Contents(tx)
           n == Available(tx)
<1>0. /\ n \in Nat /\ n' \in Nat /\ C \in Seq(TxByte) /\ Len(C) = n
      /\ txbuf \in Nat /\ shift \in Nat /\ wire \in Nat /\ cut \in Nat
      /\ written \in Nat
  <2>1. tx \in RingType(TxByte) /\ tx' \in RingType(TxByte)
    BY TypeStep DEF TypeInv, TypeOK, TxByte
  <2>2. n \in Nat /\ n' \in Nat
    BY <2>1, AvailableIs DEF Index
  <2> QED
    BY <2>1, <2>2, ContentsIs, SerialAssumption DEF TypeInv, TypeOK
<1>1. /\ shift # 0 => shift = NextOut
      /\ txbuf # 0 => txbuf = NextOut + InFlight(shift)
      /\ \A k \in 1 .. n :
           C[k] = NextOut + InFlight(shift) + InFlight(txbuf) + k - 1
      /\ written + 1 = NextOut + InFlight(shift) + InFlight(txbuf) + n
  BY DEF TxStream
<1> USE DEF NextOut, InFlight
<1> HIDE DEF C, n
<1> SUFFICES /\ shift' # 0 => shift' = NextOut'
             /\ txbuf' # 0 => txbuf' = NextOut' + InFlight(shift')
             /\ \A k \in 1 .. n' :
                  C'[k] = NextOut' + InFlight(shift') + InFlight(txbuf') + k - 1
             /\ written' + 1 =
                  NextOut' + InFlight(shift') + InFlight(txbuf') + n'
  BY DEF TxStream, C, n
<1>2. CASE WritePublish
  <2>1. C' = Append(C, written + 1) /\ n' = n + 1
    BY <1>2, TxQueueStep DEF C, n
  <2>2. UNCHANGED << txbuf, shift, wire, cut >> /\ written' = written + 1
    BY <1>2 DEF WritePublish, hardware
  <2>3. ASSUME NEW k \in 1 .. n'
        PROVE  C'[k] = IF k <= n THEN C[k] ELSE written + 1
    BY <1>0, <2>1
  <2> QED
    BY <1>0, <1>1, <2>1, <2>2, <2>3
<1>3. CASE TxIsrSend
  <2>1. C' = Tail(C) /\ n' = n - 1 /\ n >= 1 /\ txbuf' = C[1]
    BY <1>3, TxQueueStep DEF C, n
  <2>2. UNCHANGED << shift, wire, cut, written >> /\ txbuf = 0
    BY <1>3 DEF TxIsrSend, txHistory, TxVector
  <2>3. ASSUME NEW k \in 1 .. n'
        PROVE  k + 1 \in 1 .. n /\ C'[k] = C[k + 1]
    BY <1>0, <2>1
  <2>4. NextOut' = NextOut /\ InFlight(shift') = InFlight(shift)
    BY <2>2
  <2>5. txbuf' = NextOut + InFlight(shift) /\ InFlight(txbuf') = 1
    BY <1>0, <1>1, <2>1, <2>2
  <2>6. NextOut \in Nat /\ InFlight(shift) \in Nat /\ InFlight(txbuf) = 0
    BY <1>0, <2>2
  <2> HIDE DEF NextOut, InFlight
  <2>7. ASSUME NEW k \in 1 .. n'
        PROVE  C'[k] = NextOut' + InFlight(shift') + InFlight(txbuf') + k - 1
    <3>1. k + 1 \in 1 .. n /\ C'[k] = C[k + 1] /\ k \in Nat
      BY <1>0, <2>3
    <3>2. C[k + 1] =
            NextOut + InFlight(shift) + InFlight(txbuf) + (k + 1) - 1
      BY <1>1, <3>1
    <3> QED
      BY <2>4, <2>5, <2>6, <3>1, <3>2
  <2>8. shift' # 0 => shift' = NextOut'
    BY <1>1, <2>2, <2>4
  <2>9. written' + 1 = NextOut' + InFlight(shift') + InFlight(txbuf') + n'
    <3>1. written + 1 = NextOut + InFlight(shift) + n
      BY <1>0, <1>1, <2>6
    <3>2. written' = written /\ n' = n - 1
      BY <2>1, <2>2
    <3> QED
      BY <1>0, <2>4, <2>5, <2>6, <3>1, <3>2
  <2> QED
    BY <2>4, <2>5, <2>7, <2>8, <2>9
<1>4. CASE ~WritePublish /\ ~TxIsrSend
  <2>1. C' = C /\ n' = n
    BY <1>4, TxQueueStep DEF C, n
  <2>2. CASE BeginReset
    BY <1>0, <1>1, <2>1, <2>2 DEF BeginReset
  <2>3. CASE Shift
    <3>1. /\ shift' = txbuf /\ txbuf' = 0 /\ txbuf # 0 /\ shift = 0
          /\ UNCHANGED << wire, cut, written >>
      BY <2>3 DEF Shift, txHistory
    <3> QED
      BY <1>0, <1>1, <2>1, <3>1
  <2>4. CASE ShiftOut
    <3>1. /\ wire' = shift /\ shift' = 0 /\ shift # 0
          /\ UNCHANGED << txbuf, cut, written >>
      BY <2>4 DEF ShiftOut
    <3>2. NextOut' = NextOut + 1
      BY <1>0, <1>1, <3>1
    <3> QED
      BY <1>0, <1>1, <2>1, <3>1, <3>2
  <2>5. CASE WriteStore \/ UNCHANGED txVars
    BY <1>0, <1>1, <2>1, <2>5 DEF WriteStore, txVars, hardware, txHistory
  <2> QED
    BY <1>4, <2>2, <2>3, <2>4, <2>5, TxSteps
<1> QED
  BY <1>2, <1>3, <1>4

(* Nothing written is lost, repeated or reordered on its way out.          *)
THEOREM TransmitStream == Spec => []TxStream
  BY TypeInit, TypeStep, TxInit, TxStep, PTL DEF Spec

(* The line carries the bytes in order: each one is the next.              *)
THEOREM LineInOrder == Spec => TransmittedInOrder
<1>1. TypeInv /\ TxStream /\ [Next]_vars => [wire' # wire => wire' = NextOut]_vars
  <2> SUFFICES ASSUME TypeInv, TxStream, [Next]_vars, wire' # wire
               PROVE  wire' = NextOut
    OBVIOUS
  <2>1. ShiftOut
    BY TxSteps DEF BeginReset, WriteStore, WritePublish, TxIsrSend, Shift,
         txVars, txHistory
  <2> QED
    BY <2>1 DEF ShiftOut, TxStream
<1> QED
  BY <1>1, TypeInit, TypeStep, TransmitStream, PTL
  DEF Spec, TransmittedInOrder

(* Queued bytes have their interrupt enabled, but where write is about to  *)
(* enable it or begin stranded them.                                       *)
LEMMA EnabledStep ==
  TypeInv /\ QueuedBytesEnabled /\ [Next]_vars => QueuedBytesEnabled'
<1> SUFFICES ASSUME TypeInv, QueuedBytesEnabled, [Next]_vars
             PROVE  QueuedBytesEnabled'
  OBVIOUS
<1> USE DEF QueuedBytesEnabled, IsEmpty, hardware, locals, txHistory
<1>1. CASE Call
  BY <1>1 DEF Call, BeginCall, WriteCall, ReadCall, PeekCall, AvailableCall,
       FlushCall, EndCall, NoInterrupts, Interrupts
<1>2. CASE Begin
  BY <1>2 DEF Begin, BeginReset, BeginEnable
<1>3. CASE Write
  <2>1. CASE WriteStore
    BY <2>1 DEF WriteStore, PutSlot, TypeInv, TypeOK, RingType
  <2> QED
    BY <1>3, <2>1 DEF Write, WriteRoom, WritePublish, WriteLoadIE, WriteEnable
<1>4. CASE Read
  BY <1>4 DEF Read, ReadFetch, ReadAdvance, PeekFetch
<1>5. CASE Drain
  BY <1>5 DEF Drain, FlushReturn, EndDrained, EndDiscard
<1>6. CASE TxIsr
  BY <1>6 DEF TxIsr, TxIsrEmpty, TxIsrSend
<1>7. CASE RxIsr
  BY <1>7 DEF RxIsr
<1>8. CASE Uart
  BY <1>8 DEF Uart, Shift, ShiftOut, Arrive
<1>9. CASE UNCHANGED vars
  BY <1>9 DEF vars
<1> QED
  BY <1>1, <1>2, <1>3, <1>4, <1>5, <1>6, <1>7, <1>8, <1>9 DEF Next

(* uart_tx_isr never switches itself off with bytes left in the ring.      *)
THEOREM QueuedStayEnabled == Spec => []QueuedBytesEnabled
<1>1. Init => QueuedBytesEnabled
  BY EmptyRingType, SerialAssumption DEF Init, QueuedBytesEnabled
<1> QED
  BY <1>1, TypeInit, TypeStep, EnabledStep, PTL DEF Spec

-----------------------------------------------------------------------------
(* The receive side.                                                       *)
rxVars == << rx, rxbuf, arrived, lastRead, lossy >>

RxInv == RxStream /\ PromiseKept /\ PeekedIsNext

(* Only these actions touch what RxStream speaks of.                       *)
LEMMA RxSteps ==
  ASSUME [Next]_vars
  PROVE  \/ BeginReset \/ ReadAdvance \/ EndDiscard \/ RxIsr \/ Arrive
         \/ UNCHANGED rxVars
<1> USE DEF rxVars, hardware, locals, rxHistory
<1>1. CASE Call
  BY <1>1 DEF Call, BeginCall, WriteCall, ReadCall, PeekCall, AvailableCall,
       FlushCall, EndCall, NoInterrupts, Interrupts
<1>2. CASE Begin
  BY <1>2 DEF Begin, BeginEnable
<1>3. CASE Write
  BY <1>3 DEF Write, WriteRoom, WriteStore, WritePublish, WriteLoadIE,
       WriteEnable
<1>4. CASE Read
  BY <1>4 DEF Read, ReadFetch, PeekFetch
<1>5. CASE Drain
  BY <1>5 DEF Drain, FlushReturn, EndDrained
<1>6. CASE TxIsr
  BY <1>6 DEF TxIsr, TxIsrEmpty, TxIsrSend
<1>7. CASE Uart
  BY <1>7 DEF Uart, Shift, ShiftOut
<1>8. CASE UNCHANGED vars
  BY <1>8 DEF vars
<1> QED
  BY <1>1, <1>2, <1>3, <1>4, <1>5, <1>6, <1>7, <1>8 DEF Next

(* What each step does to the queue the receive ring stands for.           *)
LEMMA RxQueueStep ==
  ASSUME TypeInv, [Next]_vars
  PROVE  /\ RxIsr /\ ~IsFull(rx) =>
              /\ Contents(rx)' = Append(Contents(rx), rxbuf)
              /\ Available(rx)' = Available(rx) + 1
              /\ Available(rx) < Size - 1
              /\ rx'.tail = rx.tail
         /\ ReadAdvance =>
              /\ Contents(rx)' = Tail(Contents(rx))
              /\ Available(rx)' = Available(rx) - 1
              /\ Available(rx) >= 1
              /\ Oldest(rx) = Contents(rx)[1]
         /\ EndDiscard =>
              /\ Contents(rx)' = << >>
              /\ Available(rx)' = 0
         /\ ~(RxIsr /\ ~IsFull(rx)) /\ ~ReadAdvance /\ ~EndDiscard =>
              /\ Contents(rx)' = Contents(rx)
              /\ Available(rx)' = Available(rx)
              /\ rx' = rx
<1>1. rx \in RingType(RxByte) /\ rxbuf \in RxByte
  BY DEF TypeInv, TypeOK, RxByte
<1>2. ASSUME RxIsr, ~IsFull(rx)
      PROVE  /\ Contents(rx)' = Append(Contents(rx), rxbuf)
             /\ Available(rx)' = Available(rx) + 1
             /\ Available(rx) < Size - 1
             /\ rx'.tail = rx.tail
  <2>1. Available(rx) \in Index /\ Available(rx) # Size - 1
    BY <1>1, <1>2, AvailableIs
  <2> QED
    BY <1>1, <1>2, <2>1, StoreCharAppends, SizeAssumption
    DEF RxIsr, Index, Size
<1>3. ASSUME ReadAdvance
      PROVE  /\ Contents(rx)' = Tail(Contents(rx))
             /\ Available(rx)' = Available(rx) - 1
             /\ Available(rx) >= 1
             /\ Oldest(rx) = Contents(rx)[1]
  <2>1. ~IsEmpty(rx) /\ rx' = AdvanceTail(rx)
    BY <1>3 DEF ReadAdvance, TypeInv, CallInv
  <2> QED
    BY <1>1, <2>1, OldestIsFirst, AdvanceTakesFirst
<1>4. ASSUME EndDiscard
      PROVE  Contents(rx)' = << >> /\ Available(rx)' = 0
  BY <1>1, <1>4, DiscardEmpties DEF EndDiscard
<1>5. ASSUME ~(RxIsr /\ ~IsFull(rx)), ~ReadAdvance, ~EndDiscard
      PROVE  /\ Contents(rx)' = Contents(rx)
             /\ Available(rx)' = Available(rx)
             /\ rx' = rx
  <2>1. CASE RxIsr
    BY <1>1, <1>5, <2>1, StoreCharAppends DEF RxIsr, Contents, Available
  <2>2. CASE rx' = rx
    BY <2>2 DEF Contents, Available
  <2> QED
    BY <1>5, <2>1, <2>2, RxSteps DEF BeginReset, Arrive, rxVars
<1> QED
  BY <1>2, <1>3, <1>4, <1>5

LEMMA RxInit == Init => RxInv
<1> SUFFICES ASSUME Init PROVE RxInv
  OBVIOUS
<1>1. Available(rx) = 0
  BY EmptyRingType, SerialAssumption, AvailableIs DEF Init
<1> QED
  BY <1>1 DEF Init, RxInv, RxStream, PromiseKept, PeekedIsNext, InFlight

(* Bytes only move on from RXBUF through the ring to the reader, and only a*)
(* step that sets lossy leaves a gap.                                      *)
LEMMA RxStreamStep ==
  TypeInv /\ RxStream /\ PeekedIsNext /\ [Next]_vars => RxStream'
<1> SUFFICES ASSUME TypeInv, RxStream, PeekedIsNext, [Next]_vars
             PROVE  RxStream'
  OBVIOUS
<1> DEFINE C == Contents(rx)
           n == Available(rx)
<1>0. /\ n \in Nat /\ n' \in Nat /\ C \in Seq(RxByte) /\ Len(C) = n
      /\ rxbuf \in Nat /\ arrived \in Nat /\ lastRead \in Nat
      /\ \A k \in 1 .. n : C[k] \in Nat
  <2>1. rx \in RingType(RxByte) /\ rx' \in RingType(RxByte)
    BY TypeStep DEF TypeInv, TypeOK, RxByte
  <2>2. n \in Nat /\ n' \in Nat
    BY <2>1, AvailableIs DEF Index
  <2>3. C \in Seq(RxByte) /\ Len(C) = n
    BY <2>1, ContentsIs
  <2>4. \A k \in 1 .. n : C[k] \in Nat
    BY <2>2, <2>3, SerialAssumption DEF RxByte
  <2> QED
    BY <2>2, <2>3, <2>4, SerialAssumption DEF TypeInv, TypeOK
<1>1. /\ \A k \in 1 .. n :
           /\ lastRead < C[k]
           /\ C[k] <= arrived - InFlight(rxbuf)
           /\ \A j \in 1 .. k - 1 : C[j] < C[k]
      /\ lastRead <= arrived - InFlight(rxbuf)
      /\ rxbuf # 0 => rxbuf = arrived
      /\ ~lossy => /\ arrived = lastRead + n + InFlight(rxbuf)
                   /\ \A k \in 1 .. n : C[k] = lastRead + k
  BY DEF RxStream
<1> HIDE DEF C, n
<1> SUFFICES
      /\ \A k \in 1 .. n' :
           /\ lastRead' < C'[k]
           /\ C'[k] <= arrived' - InFlight(rxbuf')
           /\ \A j \in 1 .. k - 1 : C'[j] < C'[k]
      /\ lastRead' <= arrived' - InFlight(rxbuf')
      /\ rxbuf' # 0 => rxbuf' = arrived'
      /\ ~lossy' => /\ arrived' = lastRead' + n' + InFlight(rxbuf')
                    /\ \A k \in 1 .. n' : C'[k] = lastRead' + k
  BY DEF RxStream, C, n
<1> USE DEF InFlight
<1>2. CASE RxIsr /\ ~IsFull(rx)
  <2>1. C' = Append(C, rxbuf) /\ n' = n + 1
    BY <1>2, RxQueueStep DEF C, n
  <2>2. /\ rxbuf' = 0 /\ rxbuf # 0 /\ lossy' = lossy
        /\ UNCHANGED << arrived, lastRead >>
    BY <1>2 DEF RxIsr, RxVector, TypeInv, TypeOK
  <2>3. ASSUME NEW k \in 1 .. n'
        PROVE  /\ C'[k] = IF k <= n THEN C[k] ELSE arrived
               /\ k <= n => k \in 1 .. n
               /\ k > n => k = n + 1
    BY <1>0, <1>1, <2>1, <2>2
  <2>4. ASSUME NEW k \in 1 .. n', NEW j \in 1 .. k - 1
        PROVE  C'[j] < C'[k]
    <3>1. j \in 1 .. n /\ C'[j] = C[j]
      BY <1>0, <2>1, <2>3
    <3> QED
      BY <1>0, <1>1, <2>2, <2>3, <3>1
  <2>5. ASSUME NEW k \in 1 .. n'
        PROVE  lastRead' < C'[k] /\ C'[k] <= arrived' - InFlight(rxbuf')
    BY <1>0, <1>1, <2>2, <2>3
  <2>6. ASSUME ~lossy'
        PROVE  /\ arrived' = lastRead' + n' + InFlight(rxbuf')
               /\ \A k \in 1 .. n' : C'[k] = lastRead' + k
    <3>1. /\ arrived = lastRead + n + 1
          /\ \A k \in 1 .. n : C[k] = lastRead + k
      BY <1>0, <1>1, <2>2, <2>6
    <3>2. ASSUME NEW k \in 1 .. n'
          PROVE  C'[k] = lastRead' + k
      <4>1. CASE k <= n
        BY <2>2, <2>3, <3>1, <4>1
      <4>2. CASE k > n
        BY <1>0, <2>2, <2>3, <3>1, <4>2
      <4> QED
        BY <1>0, <2>1, <4>1, <4>2
    <3> QED
      BY <1>0, <2>1, <2>2, <3>1, <3>2
  <2>7. lastRead' <= arrived' - InFlight(rxbuf') /\ rxbuf' = 0
    BY <1>0, <1>1, <2>2
  <2> QED
    BY <2>4, <2>5, <2>6, <2>7
<1>3. CASE ReadAdvance
  <2>1. C' = Tail(C) /\ n' = n - 1 /\ n >= 1
    BY <1>3, RxQueueStep DEF C, n
  <2>2. lastRead' = C[1] /\ UNCHANGED << rxbuf, arrived, lossy >>
    BY <1>3, RxQueueStep DEF ReadAdvance, PeekedIsNext, hardware, C
  <2>3. ASSUME NEW k \in 1 .. n'
        PROVE  k \in Nat /\ k + 1 \in 1 .. n /\ C'[k] = C[k + 1]
    BY <1>0, <2>1
  <2>4. ASSUME NEW k \in 1 .. n', NEW j \in 1 .. k - 1
        PROVE  C'[j] < C'[k]
    <3>1. j \in 1 .. n' /\ j + 1 \in 1 .. (k + 1) - 1
      BY <1>0, <2>1, <2>3
    <3> QED
      BY <1>1, <2>3, <3>1
  <2>5. ASSUME NEW k \in 1 .. n'
        PROVE  lastRead' < C'[k] /\ C'[k] <= arrived' - InFlight(rxbuf')
    <3>1. 1 \in 1 .. (k + 1) - 1
      BY <1>0, <2>3
    <3> QED
      BY <1>1, <2>2, <2>3, <3>1
  <2>6. 1 \in 1 .. n
    BY <1>0, <2>1
  <2>7. ASSUME ~lossy'
        PROVE  /\ arrived' = lastRead' + n' + InFlight(rxbuf')
               /\ \A k \in 1 .. n' : C'[k] = lastRead' + k
    <3>1. /\ arrived = lastRead + n + InFlight(rxbuf)
          /\ \A k \in 1 .. n : C[k] = lastRead + k
      BY <1>1, <2>2, <2>7
    <3>2. lastRead' = lastRead + 1 /\ InFlight(rxbuf') = InFlight(rxbuf)
      BY <2>2, <2>6, <3>1
    <3>3. ASSUME NEW k \in 1 .. n'
          PROVE  C'[k] = lastRead' + k
      <4>1. C[k + 1] = lastRead + (k + 1)
        BY <2>3, <3>1
      <4> QED
        BY <1>0, <2>3, <3>2, <4>1
    <3>4. InFlight(rxbuf) \in Nat
      OBVIOUS
    <3> HIDE DEF InFlight
    <3>5. arrived' = lastRead' + n' + InFlight(rxbuf')
      BY <1>0, <2>1, <2>2, <3>1, <3>2, <3>4
    <3> QED
      BY <3>3, <3>5
  <2> QED
    BY <1>1, <2>2, <2>4, <2>5, <2>6, <2>7
<1>4. CASE EndDiscard
  <2>1. C' = << >> /\ n' = 0
    BY <1>4, RxQueueStep DEF C, n
  <2>2. /\ UNCHANGED << rxbuf, arrived, lastRead >>
        /\ ~lossy' => ~lossy /\ n = 0
    BY <1>4, AvailableIs DEF EndDiscard, hardware, n, TypeInv, TypeOK
  <2> QED
    BY <1>0, <1>1, <2>1, <2>2
<1>5. CASE ~(RxIsr /\ ~IsFull(rx)) /\ ~ReadAdvance /\ ~EndDiscard
  <2>1. C' = C /\ n' = n
    BY <1>5, RxQueueStep DEF C, n
  <2>2. CASE RxIsr
    <3>1. lossy' /\ rxbuf' = 0 /\ UNCHANGED << arrived, lastRead >>
      BY <1>5, <2>2 DEF RxIsr
    <3> QED
      BY <1>0, <1>1, <2>1, <3>1
  <2>3. CASE BeginReset
    <3>1. /\ rxbuf' = 0 /\ UNCHANGED << arrived, lastRead >>
          /\ ~lossy' => ~lossy /\ rxbuf = 0
      BY <2>3 DEF BeginReset
    <3> QED
      BY <1>0, <1>1, <2>1, <3>1
  <2>4. CASE Arrive
    <3>1. /\ rxbuf' = arrived + 1 /\ arrived' = arrived + 1
          /\ lastRead' = lastRead /\ (~lossy' => ~lossy /\ rxbuf = 0)
      BY <2>4 DEF Arrive
    <3> QED
      BY <1>0, <1>1, <2>1, <3>1
  <2>5. CASE UNCHANGED rxVars
    BY <1>1, <2>1, <2>5 DEF rxVars
  <2> QED
    BY <1>5, <2>2, <2>3, <2>4, <2>5, RxSteps
<1> QED
  BY <1>2, <1>3, <1>4, <1>5

(* No other step makes a promise, peeks or enters read's last statement.   *)
LEMMA OtherSteps ==
  ASSUME [Next]_vars, ~ReadAdvance, ~EndDiscard, ~AvailableCall, ~ReadFetch,
         ~PeekFetch
  PROVE  /\ UNCHANGED << promise, peeked, held >>
         /\ pc' = "read_advance" => pc = "read_advance"
<1> USE DEF hardware, locals, rxHistory
<1>1. CASE Call
  BY <1>1 DEF Call, BeginCall, WriteCall, ReadCall, PeekCall,
       FlushCall, EndCall, NoInterrupts, Interrupts
<1>2. CASE Begin
  BY <1>2 DEF Begin, BeginReset, BeginEnable
<1>3. CASE Write
  BY <1>3 DEF Write, WriteRoom, WriteStore, WritePublish, WriteLoadIE,
       WriteEnable
<1>4. CASE Drain
  BY <1>4 DEF Drain, FlushReturn, EndDrained
<1>5. CASE TxIsr \/ RxIsr
  BY <1>5 DEF TxIsr, TxIsrEmpty, TxIsrSend, RxIsr
<1>6. CASE Uart
  BY <1>6 DEF Uart, Shift, ShiftOut, Arrive
<1>7. CASE UNCHANGED vars
  BY <1>7 DEF vars
<1> QED
  BY <1>1, <1>2, <1>3, <1>4, <1>5, <1>6, <1>7 DEF Next, Read

(* What available and peek told the sketch stays true until it reads.      *)
LEMMA PromiseStep ==
  TypeInv /\ PromiseKept /\ PeekedIsNext /\ [Next]_vars
    => PromiseKept' /\ PeekedIsNext'
<1> SUFFICES ASSUME TypeInv, PromiseKept, PeekedIsNext, [Next]_vars
             PROVE  PromiseKept' /\ PeekedIsNext'
  OBVIOUS
<1> USE DEF PromiseKept, PeekedIsNext, rxHistory, locals, hardware
<1>0. /\ Available(rx) \in Nat /\ Available(rx)' \in Nat /\ promise \in Nat
      /\ rx \in RingType(RxByte) /\ rx' \in RingType(RxByte)
      /\ rx.head \in Index /\ rx.tail \in Index
  <2>1. rx \in RingType(RxByte) /\ rx' \in RingType(RxByte)
    BY TypeStep DEF TypeInv, TypeOK, RxByte
  <2>2. Available(rx) \in Nat /\ Available(rx)' \in Nat
    BY <2>1, AvailableIs DEF Index
  <2>3. promise \in Nat /\ rx.head \in Index /\ rx.tail \in Index
    BY <2>1 DEF Index, RingType, TypeInv, TypeOK
  <2> QED
    BY <2>1, <2>2, <2>3
<1>1. CASE RxIsr /\ ~IsFull(rx)
  <2>1. rx' = PublishHead(PutSlot(rx, rxbuf)) /\ rx'.tail = rx.tail
    BY <1>1, RxQueueStep DEF RxIsr, StoreChar
  <2>2. ~IsEmpty(rx) => rx'.buffer[rx.tail] = rx.buffer[rx.tail]
    BY <1>0, <2>1 DEF PublishHead, PutSlot, IsEmpty, RingType
  <2>3. Available(rx)' = Available(rx) + 1
    BY <1>1, RxQueueStep
  <2>4. ~IsEmpty(rx)'
    BY <1>0, <2>3, AvailableIs
  <2>5. UNCHANGED << pc, held, promise, peeked >>
    BY <1>1 DEF RxIsr
  <2>6. pc = "read_advance" => ~IsEmpty(rx)
    BY DEF TypeInv, CallInv
  <2> QED
    BY <1>0, <2>1, <2>2, <2>3, <2>4, <2>5, <2>6 DEF Oldest
<1>2. CASE ReadAdvance
  <2>1. Available(rx)' = Available(rx) - 1 /\ Available(rx) >= 1
    BY <1>2, RxQueueStep
  <2> QED
    BY <1>0, <1>2, <2>1 DEF ReadAdvance
<1>3. CASE EndDiscard
  BY <1>0, <1>3, RxQueueStep DEF EndDiscard
<1>4. CASE ~(RxIsr /\ ~IsFull(rx)) /\ ~ReadAdvance /\ ~EndDiscard
  <2>1. rx' = rx /\ Available(rx)' = Available(rx)
    BY <1>4, RxQueueStep
  <2>2. CASE AvailableCall
    BY <1>0, <2>1, <2>2 DEF AvailableCall
  <2>3. CASE ReadFetch
    BY <1>0, <2>1, <2>3 DEF ReadFetch
  <2>4. CASE PeekFetch
    BY <1>0, <2>1, <2>4 DEF PeekFetch, TypeInv, CallInv
  <2>5. CASE ~AvailableCall /\ ~ReadFetch /\ ~PeekFetch
    <3>1. /\ UNCHANGED << promise, peeked, held >>
          /\ pc' = "read_advance" => pc = "read_advance"
      BY <1>4, <2>5, OtherSteps
    <3> QED
      BY <2>1, <3>1
  <2> QED
    BY <2>2, <2>3, <2>4, <2>5
<1> QED
  BY <1>1, <1>2, <1>3, <1>4

(* Bytes are read in the order they arrived, none twice, and none is       *)
(* missing while no loss was recorded.                                     *)
THEOREM ReceiveStream == Spec => []RxStream
  BY TypeInit, TypeStep, RxInit, RxStreamStep, PromiseStep, PTL DEF Spec, RxInv

(* As many reads as available returned will find a byte.                   *)
THEOREM AvailableIsAPromise == Spec => []PromiseKept
  BY TypeInit, TypeStep, RxInit, PromiseStep, PTL DEF Spec, RxInv

(* read returns the byte that peek returned.                               *)
THEOREM PeekThenRead == Spec => []PeekedIsNext
  BY TypeInit, TypeStep, RxInit, PromiseStep, PTL DEF Spec, RxInv

-----------------------------------------------------------------------------
(* The transmit ring is a FIFO queue: write's publication puts the byte at *)
(* the end, the interrupt takes the oldest, and no other step changes it.  *)
THEOREM TransmitRefinement == Spec => TxImplementsQueue
<1>1. Init => TxQueue!Init
  <2> SUFFICES ASSUME Init PROVE Contents(tx) = << >>
    BY DEF TxQueue!Init
  <2>1. tx \in RingType(TxByte) /\ IsEmpty(tx)
    BY EmptyRingType, SerialAssumption DEF Init, TxByte
  <2> QED
    BY <2>1, AvailableIs, ContentsIs
<1>2. TypeInv /\ [Next]_vars => [TxQueue!Next]_(Contents(tx))
  <2> SUFFICES ASSUME TypeInv, [Next]_vars
               PROVE  TxQueue!Next \/ Contents(tx)' = Contents(tx)
    OBVIOUS
  <2>1. Len(Contents(tx)) = Available(tx) /\ Available(tx) \in Nat
    BY AvailableIs, ContentsIs DEF TypeInv, TypeOK, Index
  <2>2. CASE WritePublish
    BY <2>1, <2>2, TxQueueStep DEF TxQueue!Next, TxQueue!Put, Size, TxByte
  <2>3. CASE TxIsrSend
    BY <2>1, <2>3, TxQueueStep DEF TxQueue!Next, TxQueue!Get
  <2> QED
    BY <2>2, <2>3, TxQueueStep
<1> QED
  BY <1>1, <1>2, TypeInit, TypeStep, PTL
  DEF Spec, TxImplementsQueue, TxQueue!Spec

(* The receive ring is a FIFO queue too: the interrupt puts, or drops when *)
(* it is full, read takes, and end clears.                                 *)
THEOREM ReceiveRefinement == Spec => RxImplementsQueue
<1>1. Init => RxQueue!Init
  <2> SUFFICES ASSUME Init PROVE Contents(rx) = << >>
    BY DEF RxQueue!Init
  <2>1. rx \in RingType(RxByte) /\ IsEmpty(rx)
    BY EmptyRingType, SerialAssumption DEF Init, RxByte
  <2> QED
    BY <2>1, AvailableIs, ContentsIs
<1>2. TypeInv /\ [Next]_vars
        => [RxQueue!Next \/ RxQueue!Clear]_(Contents(rx))
  <2> SUFFICES ASSUME TypeInv, [Next]_vars
               PROVE  \/ RxQueue!Next \/ RxQueue!Clear
                      \/ Contents(rx)' = Contents(rx)
    OBVIOUS
  <2>1. Len(Contents(rx)) = Available(rx) /\ Available(rx) \in Nat
    BY AvailableIs, ContentsIs DEF TypeInv, TypeOK, Index
  <2>2. CASE RxIsr /\ ~IsFull(rx)
    BY <2>1, <2>2, RxQueueStep
    DEF RxQueue!Next, RxQueue!Put, Size, TypeInv, TypeOK
  <2>3. CASE ReadAdvance
    BY <2>1, <2>3, RxQueueStep DEF RxQueue!Next, RxQueue!Get
  <2>4. CASE EndDiscard
    BY <2>4, RxQueueStep DEF RxQueue!Clear
  <2> QED
    BY <2>2, <2>3, <2>4, RxQueueStep
<1> QED
  BY <1>1, <1>2, TypeInit, TypeStep, PTL
  DEF Spec, RxImplementsQueue, RxQueue!ClearableSpec
=============================================================================
