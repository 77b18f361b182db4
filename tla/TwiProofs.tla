------------------------------ MODULE TwiProofs -----------------------------
(***************************************************************************)
(* The I2C engine, for every size of its buffers and of their index, every *)
(* reply and every way to end a transmission: the engine's indices stay in *)
(* their buffers, and Wire's where no request comes in a transmission      *)
(* (TypeOK), the sketch reads whole messages (MessageReadWhole), a request *)
(* that finds no transmission is answered from the first byte of its reply *)
(* (RequestAnswered), requestFrom returns what the slave sent              *)
(* (ReadAsAsked).  Where every endTransmission ends in a stop, the slave   *)
(* accepts what was written (WrittenAsAsked); after a repeated start it    *)
(* may accept what it was not sent, so that this theorem has a hypothesis  *)
(* on Stops.                                                               *)
(*                                                                         *)
(* IInv is inductive as a whole: the handlers are shared by the transfers  *)
(* of both roles, so that what a byte in a register is depends on BusInv,  *)
(* and BusInv on the states MasterRxInv and MasterTxInv allow.  SendingInv *)
(* is inductive with it, under that hypothesis.                            *)
(***************************************************************************)
EXTENDS Twi, SequenceTheorems, TLAPS

Reading == call \in {"single", "reading"}

(* Type correctness: of what has a few values, and of the buffers, with    *)
(* their bounds apart from their types.                                    *)
StateType ==
  /\ twi_state \in {"IDLE", "MRX", "MTX", "SRX", "STX"}
  /\ twi_error \in {0, 3} /\ twi_sendStop \in BOOLEAN
  /\ {transmitting, killed, diverted} \subseteq BOOLEAN
  /\ ctl \subseteq {"MST", "TR", "STT", "STP", "UCTXNACK", "RXIE"}
  /\ ifg \subseteq {"RX", "TX", "AL", "NACK", "START", "STOP"}
  /\ bus \in {"free", "addr", "out", "in", "held", "rin", "rout", "other"}
  /\ call \in {"idle", "begin_length", "begin_state", "begin_reset",
               "begin_tx_index", "begin_tx_length", "write_store",
               "write_count", "write_length", "end", "writing", "single",
               "reading", "read"}

BufferType ==
  /\ twi_masterBuffer \in Seq(Data)
  /\ Len(twi_masterBuffer) <= BUFFER_LENGTH
  /\ twi_masterBufferIndex \in 0 .. BUFFER_LENGTH
  /\ twi_masterBufferLength \in 0 .. BUFFER_LENGTH
  /\ twi_rxBuffer \in Seq(Bytes) /\ Len(twi_rxBuffer) <= BUFFER_LENGTH
  /\ twi_txBuffer \in Seq(Data) /\ Len(twi_txBuffer) <= BUFFER_LENGTH
  /\ twi_txBufferIndex \in 0 .. UINT8 - 1
  /\ rxBuffer \in Seq(Data) /\ Len(rxBuffer) <= BUFFER_LENGTH
  /\ rxBufferIndex \in 0 .. BUFFER_LENGTH
  /\ message \in Seq(Data) /\ got \in Seq(Data)
  /\ txBuffer \in Seq(Bytes) /\ Len(txBuffer) <= BUFFER_LENGTH
  /\ txBufferIndex \in 0 .. UINT8 - 1 /\ txBufferLength \in 0 .. UINT8 - 1
  /\ length \in 0 .. UINT8 - 1
  /\ wrote \in Seq(Bytes) /\ reply \in Seq(Bytes)
  /\ UCTXBUF \in Data \cup {Empty} /\ shift \in Data \cup {Empty}
  /\ UCRXBUF \in Bytes \cup {Empty}
  /\ wire \in Seq(Data)

(* A byte waits in UCB0RXBUF as long as its request does, and one being    *)
(* sent in the shift register while the bus takes it.                      *)
RegisterInv ==
  /\ "RX" \in ifg <=> UCRXBUF # Empty
  /\ bus \notin {"out", "rout"} => shift = Empty

(* Where the bus can be, for what the sketch waits for and what the flags  *)
(* ask of the handlers.                                                    *)
BusInv ==
  /\ Waiting => /\ bus \notin {"rin", "rout"}
                /\ "START" \notin ifg /\ "STOP" \notin ifg
                /\ "MST" \in ctl \/ lost
  /\ ~Waiting => "STT" \notin ctl
  /\ lost => /\ Waiting /\ bus \in {"other", "free"}
             /\ "MST" \notin ctl /\ "STT" \notin ctl
  /\ "START" \in ifg =>
       /\ bus \in {"rin", "rout"} /\ wire = << >>
       /\ "TR" \in ctl <=> bus = "rout"
       /\ "RX" \in ifg => "RXIE" \notin ctl
       /\ "STOP" \notin ifg
  /\ "STOP" \in ifg => bus = "free" /\ ("RX" \in ifg => "RXIE" \notin ctl)
  /\ "NACK" \in ifg => bus = "held"
  /\ "AL" \in ifg => bus \in {"other", "free"}
  /\ "TX" \in ifg => bus \in {"addr", "out", "rout"}
  /\ bus = "rout" =>
       /\ "TX" \in ifg <=> UCTXBUF = Empty
       /\ IF "START" \in ifg THEN "TX" \in ifg /\ shift = Empty
                             ELSE twi_state \in {"STX", "IDLE"}
  /\ bus \in {"addr", "out"} /\ ~Reading => "TR" \in ctl
  /\ bus = "in" => Reading
  /\ twi_state = "MRX" => Reading
  /\ twi_state = "MTX" => call = "writing"

(* What the sketch has read of the message in rxBuffer.  A message that    *)
(* comes between two statements of begin leaves the index past a length of *)
(* 0, and is not read.                                                     *)
MessageInv ==
  /\ rxBuffer = message \/ rxBuffer = << >>
  /\ call = "read" => rxBufferIndex < Len(rxBuffer)
  /\ rxBufferIndex <= Len(rxBuffer) =>
       Len(got) = IF call = "read" THEN rxBufferIndex + 1 ELSE rxBufferIndex
  /\ Len(got) <= Len(rxBuffer)
  /\ \A i \in 1 .. Len(got) : got[i] = rxBuffer[i]

(* s and the byte in UCB0RXBUF are what the bus has carried.               *)
Received(s) == wire = IF UCRXBUF = Empty THEN s ELSE Append(s, UCRXBUF)

(* What another master has sent is in the buffer, or no handler takes it.  *)
SlaveRxInv ==
  twi_state = "SRX" /\ "START" \notin ifg
      /\ (bus = "rin" \/ "STOP" \in ifg) =>
    IF "RXIE" \in ctl THEN Received(twi_rxBuffer) ELSE twi_rxBuffer = << >>

(* The bytes that have left a buffer: on the bus, in the shift register    *)
(* and in UCB0TXBUF.                                                       *)
Held(b) == IF b = Empty THEN 0 ELSE 1

Moved == Len(wire) + Held(shift) + Held(UCTXBUF)

(* They are the first bytes of s, as far as it has as many.                *)
Sends(s) ==
  /\ \A i \in 1 .. Len(wire) : i <= Len(s) => wire[i] = s[i]
  /\ shift # Empty /\ Len(wire) + 1 <= Len(s) => shift = s[Len(wire) + 1]
  /\ UCTXBUF # Empty /\ Len(wire) + Held(shift) + 1 <= Len(s) =>
       UCTXBUF = s[Len(wire) + Held(shift) + 1]

(* A reply is sent from its first byte on; the index counts what has left  *)
(* it until it wraps, which is past the end of the reply.  The engine has  *)
(* the reply of the callback unless that went to txBuffer or did not fit.  *)
SlaveTxInv ==
  bus = "rout" /\ "START" \notin ifg =>
    /\ Moved < UINT8 => twi_txBufferIndex = Moved
    /\ Sends(twi_txBuffer)
    /\ ~diverted /\ Len(reply) \in 1 .. BUFFER_LENGTH => twi_txBuffer = reply

(* requestFrom: the slave sends a byte for each the buffer takes, and the  *)
(* stop is asked for while the last of them is on the bus.                 *)
MasterRxInv ==
  Reading =>
    /\ "TR" \notin ctl /\ "RXIE" \in ctl /\ "TX" \notin ifg
    /\ twi_state \in {"MRX", "IDLE"}
    /\ bus \in {"free", "other", "addr", "in", "held"}
    /\ twi_masterBufferLength < BUFFER_LENGTH
    /\ twi_masterBufferIndex = Len(twi_masterBuffer)
    /\ twi_masterBufferIndex <= twi_masterBufferLength + 1
    /\ call = "single" => twi_masterBufferLength = 0
    /\ "STT" \in ctl =>
         /\ bus \in {"free", "other", "addr"} /\ ~lost
         /\ twi_state = "MRX" /\ twi_masterBuffer = << >>
         /\ "STP" \notin ctl /\ "RX" \notin ifg /\ "NACK" \notin ifg
         /\ call = "reading" => twi_masterBufferLength > 0
    /\ bus = "addr" => "STT" \in ctl /\ wire = << >>
    /\ "STT" \notin ctl /\ ~lost => Received(twi_masterBuffer)
    /\ "RX" \in ifg => bus \in {"in", "held"}
    /\ bus = "in" =>
         /\ "STT" \notin ctl /\ twi_state = "MRX"
         /\ call = "single" => wire = << >> /\ "STP" \notin ctl
         /\ call = "reading" =>
              IF "STP" \in ctl
              THEN /\ "RX" \notin ifg
                   /\ twi_masterBufferIndex = twi_masterBufferLength
              ELSE twi_masterBufferIndex < twi_masterBufferLength
    /\ bus = "held" =>
         /\ "STT" \notin ctl
         /\ "RX" \in ifg =>
              /\ twi_state = "MRX" /\ "STP" \in ctl
              /\ twi_masterBufferIndex = twi_masterBufferLength
         /\ "NACK" \in ifg =>
              /\ twi_state = "MRX" /\ "RX" \notin ifg
              /\ twi_masterBuffer = << >>
         /\ "RX" \notin ifg /\ "NACK" \notin ifg =>
              /\ twi_state = "IDLE" /\ "STP" \in ctl
              /\ twi_masterBufferIndex \in {0, twi_masterBufferLength + 1}
    /\ bus \in {"free", "other"} /\ "STT" \notin ctl /\ ~lost =>
         /\ twi_state = "IDLE"
         /\ twi_masterBufferIndex \in {0, twi_masterBufferLength + 1}
    /\ lost => twi_state = "MRX" /\ twi_masterBuffer = << >>

(* endTransmission: the handler has the copy of the buffer of Wire to send,*)
(* which is what was written, unless a request came between.               *)
MasterTxInv ==
  call = "writing" =>
    /\ transmitting /\ "TR" \in ctl /\ "RXIE" \notin ctl /\ "RX" \notin ifg
    /\ twi_state \in {"MTX", "IDLE"}
    /\ ~killed => twi_masterBuffer = wrote
    /\ twi_masterBuffer # << >>
    /\ twi_masterBufferLength = Len(twi_masterBuffer)
    /\ twi_masterBufferIndex <= twi_masterBufferLength
    /\ twi_state = "MTX" =>
         \/ /\ bus \in {"free", "other"} /\ "STT" \in ctl /\ "STP" \notin ctl
            /\ twi_masterBufferIndex = 0
            /\ "TX" \notin ifg /\ UCTXBUF = Empty
         \/ /\ bus = "addr" /\ "STT" \in ctl /\ "STP" \notin ctl
            /\ twi_masterBufferIndex = IF "TX" \in ifg THEN 0 ELSE 1
         \/ bus = "out" /\ "STT" \notin ctl /\ "STP" \notin ctl
         \/ bus = "held" /\ "STT" \notin ctl /\ "NACK" \in ifg
         \/ lost
    /\ twi_state = "IDLE" /\ twi_sendStop => "STT" \notin ctl

(* The calls between beginTransmission and the end of endTransmission.     *)
Building ==
  {"begin_tx_index", "begin_tx_length", "write_store", "write_count",
   "write_length", "end", "writing"}

(* What the sketch wrote is in the buffer of Wire, and the indices count   *)
(* it, each up to its own statement, until a request comes.                *)
WroteInv ==
  /\ call \in Building => transmitting
  /\ call # "end" => length = 0
  /\ ~killed =>
       /\ txBuffer = wrote
       /\ txBufferIndex =
            IF call = "write_count" THEN Len(wrote) - 1 ELSE Len(wrote)
       /\ call = "begin_tx_length" => wrote = << >>
       /\ call # "begin_tx_length" =>
            txBufferLength = IF call \in {"write_count", "write_length"}
                             THEN Len(wrote) - 1 ELSE Len(wrote)
       /\ call = "write_store" => Len(wrote) < BUFFER_LENGTH
       /\ call = "end" => length = Len(wrote)

IInv ==
  /\ StateType /\ BufferType /\ RegisterInv /\ BusInv /\ MessageInv
  /\ SlaveRxInv /\ SlaveTxInv /\ MasterRxInv /\ MasterTxInv /\ WroteInv

(* Where every endTransmission ends in a stop, the bus is left when a call *)
(* returns, and until then it carries what the call has to send.           *)
SendingInv ==
  /\ twi_sendStop
  /\ ~Waiting => bus \notin {"addr", "out", "in", "held"}
  /\ call = "writing" =>
       /\ bus \notin {"in", "rin", "rout"}
       /\ twi_state = "MTX" => twi_error = 0
       /\ twi_state = "MTX" /\ bus \in {"addr", "out"} =>
            /\ Moved = twi_masterBufferIndex /\ Sends(twi_masterBuffer)
            /\ "TX" \in ifg => UCTXBUF = Empty
            /\ bus = "out" /\ "TX" \notin ifg => UCTXBUF # Empty
            /\ bus = "addr" => wire = << >>
       /\ twi_state = "IDLE" => bus \in {"out", "held", "free", "other"}
       /\ twi_state = "IDLE" /\ bus = "out" => twi_error = 0 /\ "STP" \in ctl
       /\ bus = "held" /\ "NACK" \notin ifg =>
            twi_state = "IDLE" /\ "STP" \in ctl
       /\ twi_state = "IDLE" /\ ~lost /\ twi_error = 0 /\ "NACK" \notin ifg =>
            /\ bus \in {"out", "free", "other"}
            /\ Len(wire) + Held(shift) = Len(twi_masterBuffer)
            /\ Sends(twi_masterBuffer)

(* The statements of the sketch that touch neither engine nor module.      *)
Quiet ==
  \/ Begin \/ BeginLength \/ BeginTransmission \/ BeginTxIndex
  \/ BeginTxLength \/ Write \/ WriteStore \/ WriteCount \/ WriteLength
  \/ End \/ Read \/ ReadCounted
-----------------------------------------------------------------------------
(* What the assumptions on the constants say of sizes and of bytes.        *)
LEMMA Sizes == /\ BUFFER_LENGTH \in Nat /\ UINT8 \in Nat
               /\ 1 <= BUFFER_LENGTH /\ BUFFER_LENGTH < UINT8
  BY TwiAssumption

LEMMA DataIs == Bytes \subseteq Data /\ 0 \in Data /\ Empty \notin Data
  BY TwiAssumption DEF Data, Empty

(* twi_txBufferIndex is a uint8_t.                                         *)
LEMMA IndexWraps ==
  ASSUME NEW i \in 0 .. UINT8 - 1
  PROVE  /\ (i + 1) % UINT8 \in 0 .. UINT8 - 1
         /\ i + 1 < UINT8 => (i + 1) % UINT8 = i + 1
  BY Sizes, SMTT(60)

(* The smaller of two, as twi.c and Wire.cpp cut a quantity and a copy.     *)
LEMMA MinTwo ==
  ASSUME NEW a \in Int, NEW b \in Int
  PROVE  Min({a, b}) = IF a <= b THEN a ELSE b
<1> DEFINE m == IF a <= b THEN a ELSE b
<1>1. m \in {a, b} /\ \A y \in {a, b} : m <= y
  OBVIOUS
<1>2. \A x \in {a, b} : (\A y \in {a, b} : x <= y) => x = m
  BY SMTT(30)
<1> QED
  BY <1>1, <1>2 DEF Min

(* A sequence and a bound on its length, as TypeOK states them.             *)
LEMMA UptoIs ==
  ASSUME NEW S, NEW n \in Nat, NEW s \in Seq(S), Len(s) <= n
  PROVE  s \in Upto(S, n)
<1>1. Len(s) \in 0 .. n /\ s \in [1 .. Len(s) -> S]
  BY LenProperties
<1> QED
  BY <1>1 DEF Upto, BoundedSeq, SeqOf

(* A prefix, byte by byte.                                                  *)
LEMMA PrefixIs ==
  ASSUME NEW S, NEW s \in Seq(S), NEW t \in Seq(S)
  PROVE  IsPrefix(s, t) <=> /\ Len(s) <= Len(t)
                            /\ \A i \in 1 .. Len(s) : s[i] = t[i]
<1>1. Len(s) \in Nat /\ Len(t) \in Nat
  BY LenProperties
<1>2. CASE Len(s) <= Len(t)
  <2>1. /\ \A i \in 1 .. Len(s) : s[i] \in S
        /\ \A i \in 1 .. Len(s) : t[i] \in S
    BY <1>1, <1>2, ElementOfSeq
  <2>2. /\ SubSeq(t, 1, Len(s)) \in Seq(S)
        /\ Len(SubSeq(t, 1, Len(s))) = Len(s)
        /\ \A i \in 1 .. Len(s) : SubSeq(t, 1, Len(s))[i] = t[i]
    <3>1. /\ SubSeq(t, 1, Len(s)) \in Seq(S)
          /\ Len(SubSeq(t, 1, Len(s)))
               = IF 1 <= Len(s) THEN Len(s) - 1 + 1 ELSE 0
          /\ \A i \in 1 .. Len(s) - 1 + 1 :
               SubSeq(t, 1, Len(s))[i] = t[1 + i - 1]
      BY <1>1, <2>1, SubSeqProperties
    <3> QED
      BY <1>1, <3>1
  <2>3. SubSeq(s, 1, Len(s)) = s
    BY SubSeqFull
  <2>4. s = SubSeq(t, 1, Len(s)) <=> \A i \in 1 .. Len(s) : s[i] = t[i]
    BY <1>1, <2>2, SeqEqual
  <2> QED
    BY <1>2, <2>3, <2>4 DEF IsPrefix
<1>3. CASE ~(Len(s) <= Len(t))
  BY <1>3 DEF IsPrefix
<1> QED
  BY <1>2, <1>3

(* The first n bytes of a buffer, as read and the receive service copy.     *)
LEMMA FirstBytes ==
  ASSUME NEW S, NEW s \in Seq(S), NEW n \in Nat, n <= Len(s)
  PROVE  /\ SubSeq(s, 1, n) \in Seq(S) /\ Len(SubSeq(s, 1, n)) = n
         /\ \A i \in 1 .. n : SubSeq(s, 1, n)[i] = s[i]
<1>1. Len(s) \in Nat
  BY LenProperties
<1>2. \A i \in 1 .. n : s[i] \in S
  BY <1>1, ElementOfSeq
<1>3. /\ SubSeq(s, 1, n) \in Seq(S)
      /\ Len(SubSeq(s, 1, n)) = IF 1 <= n THEN n - 1 + 1 ELSE 0
      /\ \A i \in 1 .. n - 1 + 1 : SubSeq(s, 1, n)[i] = s[1 + i - 1]
  BY <1>2, SubSeqProperties
<1> QED
  BY <1>3

(* A reply that goes to the buffer of Wire is cut to its length.           *)
LEMMA WrittenReply ==
  ASSUME NEW r \in Seq(Bytes)
  PROVE  /\ Written(r) \in Seq(Bytes) /\ Len(Written(r)) \in Nat
         /\ Len(Written(r)) <= BUFFER_LENGTH
<1> DEFINE n == Min({BUFFER_LENGTH, Len(r)})
<1>1. Len(r) \in Nat
  BY LenProperties
<1>2. n \in Nat /\ n <= BUFFER_LENGTH /\ n <= Len(r)
  BY <1>1, MinTwo, TwiAssumption
<1>3. Written(r) = SubSeq(r, 1, n)
  BY DEF Written
<1> HIDE DEF n
<1> QED
  BY <1>2, <1>3, FirstBytes

(* A byte stored at the index of the buffer of Wire, within it.            *)
LEMMA StoredByte ==
  ASSUME NEW s \in Seq(Bytes), NEW n \in Nat, n <= Len(s), NEW b \in Bytes
  PROVE  /\ Append(SubSeq(s, 1, n), b) \in Seq(Bytes)
         /\ Len(Append(SubSeq(s, 1, n), b)) = n + 1
         /\ n = Len(s) => Append(SubSeq(s, 1, n), b) = Append(s, b)
  BY FirstBytes, SubSeqFull, AppendProperties

(* What endTransmission copies of the buffer of Wire.                      *)
LEMMA SentBytes ==
  ASSUME txBuffer \in Seq(Bytes), NEW n \in Nat, NEW s \in Sent(n)
  PROVE  /\ s \in Seq(Data) /\ Len(s) = n
         /\ n = Len(txBuffer) => s = txBuffer
<1>1. s \in [1 .. n -> Data]
  BY DEF Sent
<1>2. s \in Seq(Data) /\ Len(s) = n
  BY <1>1
<1>3. ASSUME n = Len(txBuffer)
      PROVE  s = txBuffer
  <2>1. \A i \in 1 .. n : s[i] = txBuffer[i]
    BY <1>3 DEF Sent
  <2>2. txBuffer \in Seq(Data)
    BY DataIs, SeqMonotonic
  <2> QED
    BY <1>2, <1>3, <2>1, <2>2, SeqEqual
<1> QED
  BY <1>2, <1>3

(* What a slave sends is a byte, in the reply or past it.                  *)
LEMMA TxByteIs == BufferType => TxBytes(twi_txBufferIndex) \subseteq Data
<1> SUFFICES ASSUME BufferType
             PROVE  TxBytes(twi_txBufferIndex) \subseteq Data
  OBVIOUS
<1>1. /\ twi_txBuffer \in Seq(Data) /\ twi_txBufferIndex \in Nat
      /\ Len(twi_txBuffer) \in Nat
  BY LenProperties DEF BufferType
<1> QED
  BY ONLY <1>1, ElementOfSeq DEF TxBytes

(* A quiet step of the sketch waits for nothing, before and after it.      *)
LEMMA QuietIs ==
  Quiet => /\ ~Pending /\ ~Waiting /\ ~Waiting'
           /\ lost' = (lost /\ call' # "idle")
           /\ UNCHANGED << twi, master, slave, asked, regs, bus, wire >>
  BY DEF Quiet, Begin, BeginLength, BeginTransmission, BeginTxIndex,
         BeginTxLength, Write, WriteStore, WriteCount, WriteLength, End, Read,
         ReadCounted, Sketch, Waiting

-----------------------------------------------------------------------------
(* What has a few values keeps to them, whatever the rest of the state.     *)
LEMMA StateTypeStep == StateType /\ [Next]_twiVars => StateType'
<1> SUFFICES ASSUME StateType, [Next]_twiVars PROVE StateType'
  OBVIOUS
<1> USE DEF StateType, twiVars, twi, master, slave, toRead, toWrite,
      txBufferIndices, asked, regs, doing
<1>1. CASE Quiet
  <2>1. UNCHANGED << twi, asked, regs, bus >>
    BY <1>1, QuietIs
  <2>2. transmitting' \in BOOLEAN /\ killed' \in BOOLEAN
    BY <1>1 DEF Quiet, Begin, BeginLength, BeginTransmission, BeginTxIndex,
                BeginTxLength, Write, WriteStore, WriteCount, WriteLength,
                End, Read, ReadCounted
  <2>3. call' \in {"idle", "begin_length", "begin_state", "begin_tx_index",
                   "begin_tx_length", "write_store", "write_count",
                   "write_length", "end", "read"}
    BY <1>1 DEF Quiet, Begin, BeginLength, BeginTransmission, BeginTxIndex,
                BeginTxLength, Write, WriteStore, WriteCount, WriteLength,
                End, Read, ReadCounted, Sketch
  <2> QED
    BY <2>1, <2>2, <2>3
<1>2. CASE BeginState
  BY <1>2 DEF BeginState, Sketch
<1>3. CASE BeginReset
  BY <1>3 DEF BeginReset, Sketch, Reset
<1>4. CASE EndUnsent
  BY <1>4, TwiAssumption DEF EndUnsent, Sketch, Reset, Ended
<1>5. CASE EndTransmission
  BY <1>5, TwiAssumption DEF EndTransmission, Sketch, Reset
<1>6. CASE RequestFrom
  BY <1>6 DEF RequestFrom, Sketch, Reset
<1>7. CASE WriteReturns
  BY <1>7 DEF WriteReturns, Sketch, Ended, Forgotten
<1>8. CASE StopSingle
  BY <1>8 DEF StopSingle, Sketch
<1>9. CASE ReadReturns
  BY <1>9 DEF ReadReturns, Sketch, Forgotten
<1>10. CASE RxMaster
  BY <1>10 DEF RxMaster, StopDue
<1>11. CASE RxSlave
  BY <1>11 DEF RxSlave
<1>12. CASE TxMaster
  BY <1>12 DEF TxMaster, AllSent
<1>13. CASE TxMasterDone
  BY <1>13 DEF TxMasterDone, AllSent
<1>14. CASE TxSlave
  BY <1>14 DEF TxSlave, TxBytes
<1>15. CASE ArbitrationIsr
  BY <1>15 DEF ArbitrationIsr
<1>16. CASE NackIsr
  BY <1>16 DEF NackIsr
<1>17. CASE StartTxIsr
  BY <1>17 DEF StartTxIsr
<1>18. CASE StartRxIsr
  BY <1>18 DEF StartRxIsr
<1>19. CASE StopIsr
  BY <1>19 DEF StopIsr, Delivered, Dropped
<1>20. CASE HwStart
  BY <1>20 DEF HwStart
<1>21. CASE HwAddress
  BY <1>21 DEF HwAddress
<1>22. CASE HwLoad
  BY <1>22 DEF HwLoad
<1>23. CASE HwSent
  BY <1>23 DEF HwSent
<1>24. CASE HwRecv
  BY <1>24 DEF HwRecv
<1>25. CASE HwStop
  BY <1>25 DEF HwStop
<1>26. CASE HwArbitrationLost
  BY <1>26 DEF HwArbitrationLost
<1>27. CASE RemoteStart
  BY <1>27 DEF RemoteStart
<1>28. CASE RemoteWrites
  BY <1>28 DEF RemoteWrites
<1>29. CASE RemoteReads
  BY <1>29 DEF RemoteReads
<1>30. CASE RemoteStop
  BY <1>30 DEF RemoteStop
<1>31. CASE OtherEnds
  BY <1>31 DEF OtherEnds
<1>32. CASE UNCHANGED twiVars
  BY <1>32
<1> QED
  BY <1>1, <1>2, <1>3, <1>4, <1>5, <1>6, <1>7, <1>8, <1>9, <1>10, <1>11,
     <1>12, <1>13, <1>14, <1>15, <1>16, <1>17, <1>18, <1>19, <1>20, <1>21,
     <1>22, <1>23, <1>24, <1>25, <1>26, <1>27, <1>28, <1>29, <1>30, <1>31,
     <1>32
  DEF Next, SketchAsks, SketchRuns, Isr, Hw, Remote, Quiet

(* What Wire has to read keeps its type through begin and read.             *)
LEMMA ReadType ==
  ASSUME BufferType, MessageInv, Begin \/ BeginLength \/ Read \/ ReadCounted
  PROVE  /\ rxBuffer' \in Seq(Data) /\ Len(rxBuffer') <= BUFFER_LENGTH
         /\ rxBufferIndex' \in 0 .. BUFFER_LENGTH
         /\ got' \in Seq(Data) /\ message' \in Seq(Data)
         /\ UNCHANGED toWrite
<1>1. /\ rxBuffer \in Seq(Data) /\ Len(rxBuffer) <= BUFFER_LENGTH
      /\ Len(rxBuffer) \in Nat /\ BUFFER_LENGTH \in Nat
      /\ rxBufferIndex \in 0 .. BUFFER_LENGTH
      /\ got \in Seq(Data) /\ message \in Seq(Data)
  BY Sizes, LenProperties DEF BufferType
<1>2. << >> \in Seq(Data) /\ Len(<< >>) = 0
  BY EmptySeq
<1>3. CASE Begin
  BY ONLY <1>1, <1>2, <1>3 DEF Begin
<1>4. CASE BeginLength
  BY ONLY <1>1, <1>2, <1>4 DEF BeginLength
<1>5. CASE Read
  <2>1. rxBuffer[rxBufferIndex + 1] \in Data
    <3>1. rxBufferIndex + 1 \in 1 .. Len(rxBuffer)
      BY ONLY <1>1, <1>5 DEF Read
    <3> QED
      BY <1>1, <3>1, ElementOfSeq
  <2>2. got' \in Seq(Data)
    BY ONLY <1>1, <1>5, <2>1, AppendProperties DEF Read
  <2> QED
    BY ONLY <1>1, <1>5, <2>2 DEF Read
<1>6. CASE ReadCounted
  <2>1. rxBufferIndex < Len(rxBuffer)
    BY <1>6 DEF ReadCounted, Sketch, MessageInv
  <2> QED
    BY ONLY <1>1, <1>6, <2>1 DEF ReadCounted
<1> QED
  BY <1>3, <1>4, <1>5, <1>6

(* What Wire has to send keeps its type through beginTransmission, write    *)
(* and the call of endTransmission.                                         *)
LEMMA WriteType ==
  ASSUME BufferType,
         \/ BeginTransmission \/ BeginTxIndex \/ BeginTxLength
         \/ Write \/ WriteStore \/ WriteCount \/ WriteLength \/ End
  PROVE  /\ txBuffer' \in Seq(Bytes) /\ Len(txBuffer') <= BUFFER_LENGTH
         /\ txBufferIndex' \in 0 .. UINT8 - 1
         /\ txBufferLength' \in 0 .. UINT8 - 1
         /\ length' \in 0 .. UINT8 - 1
         /\ wrote' \in Seq(Bytes)
         /\ UNCHANGED toRead
<1>1. /\ txBuffer \in Seq(Bytes) /\ Len(txBuffer) <= BUFFER_LENGTH
      /\ txBufferIndex \in 0 .. UINT8 - 1
      /\ txBufferLength \in 0 .. UINT8 - 1
      /\ length \in 0 .. UINT8 - 1 /\ wrote \in Seq(Bytes)
      /\ UINT8 \in Nat /\ BUFFER_LENGTH \in Nat /\ BUFFER_LENGTH < UINT8
  BY Sizes DEF BufferType
<1>2. << >> \in Seq(Bytes) /\ Len(<< >>) = 0
  BY EmptySeq
<1>3. CASE BeginTransmission \/ BeginTxIndex \/ BeginTxLength
  <2>1. 0 \in 0 .. UINT8 - 1 /\ 0 <= BUFFER_LENGTH
    BY <1>1
  <2>2. CASE BeginTransmission
    BY ONLY <1>1, <2>2 DEF BeginTransmission, txBufferIndices
  <2>3. CASE BeginTxIndex
    BY ONLY <1>1, <1>2, <2>1, <2>3 DEF BeginTxIndex
  <2>4. CASE BeginTxLength
    BY ONLY <1>1, <2>1, <2>4 DEF BeginTxLength
  <2> QED
    BY <1>3, <2>2, <2>3, <2>4
<1>4. CASE Write \/ WriteLength \/ End
  BY ONLY <1>1, <1>4 DEF Write, WriteLength, End, toWrite, txBufferIndices
<1>5. CASE WriteStore
  <2>1. PICK b \in Bytes : WriteStore!(b)
    BY <1>5 DEF WriteStore
  <2>2. txBuffer' \in Seq(Bytes) /\ Len(txBuffer') <= BUFFER_LENGTH
    <3>1. CASE txBufferIndex < BUFFER_LENGTH /\ txBufferIndex <= Len(txBuffer)
      <4> DEFINE t == Append(SubSeq(txBuffer, 1, txBufferIndex), b)
      <4>1. txBufferIndex \in Nat
        BY <1>1
      <4>2. t \in Seq(Bytes) /\ Len(t) = txBufferIndex + 1
        BY <1>1, <3>1, <4>1, StoredByte
      <4>3. txBuffer' = t
        BY <2>1, <3>1
      <4> HIDE DEF t
      <4> QED
        BY ONLY <1>1, <3>1, <4>1, <4>2, <4>3
    <3>2. CASE ~(txBufferIndex < BUFFER_LENGTH
                   /\ txBufferIndex <= Len(txBuffer))
      <4>1. txBuffer' = txBuffer
        BY <2>1, <3>2
      <4> QED
        BY <1>1, <4>1
    <3> QED
      BY <3>1, <3>2
  <2>3. wrote' \in Seq(Bytes)
    BY <1>1, <2>1, AppendProperties
  <2>4. txBufferIndex' \in {txBufferIndex, b} /\ b \in 0 .. UINT8 - 1
    BY <2>1, TwiAssumption
  <2>5. UNCHANGED << toRead, txBufferLength, length >>
    BY <2>1
  <2> QED
    BY ONLY <1>1, <2>2, <2>3, <2>4, <2>5
<1>6. CASE WriteCount
  <2>1. txBufferIndex' \in 0 .. UINT8 - 1
    BY <1>1, <1>6, IndexWraps DEF WriteCount
  <2> QED
    BY ONLY <1>1, <1>6, <2>1 DEF WriteCount
<1> QED
  BY <1>3, <1>4, <1>5, <1>6

(* The buffers keep their types and their bounds: RxMaster fills no more    *)
(* than was asked for, by MasterRxInv, and TxMaster sends no more than was  *)
(* written, by MasterTxInv.                                                 *)
LEMMA BufferTypeStep == IInv /\ [Next]_twiVars => BufferType'
<1> SUFFICES ASSUME IInv, [Next]_twiVars PROVE BufferType'
  OBVIOUS
<1> USE Sizes, DataIs DEF IInv, BufferType, twiVars, twi, master, slave,
      toRead, toWrite, txBufferIndices, asked, regs, doing
<1>1. CASE Quiet
  <2>1. UNCHANGED << twi, master, slave, asked, regs, bus, wire >>
    BY <1>1, QuietIs
  <2>2. CASE Begin \/ BeginLength \/ Read \/ ReadCounted
    BY <2>1, <2>2, ReadType
  <2>3. CASE \/ BeginTransmission \/ BeginTxIndex \/ BeginTxLength
             \/ Write \/ WriteStore \/ WriteCount \/ WriteLength \/ End
    BY <2>1, <2>3, WriteType
  <2> QED
    BY <1>1, <2>2, <2>3 DEF Quiet
<1>2. CASE BeginState
  BY <1>2 DEF BeginState, Sketch
<1>3. CASE BeginReset
  BY <1>3 DEF BeginReset, Sketch, Reset
<1>4. CASE EndUnsent
  BY <1>4 DEF EndUnsent, Sketch, Reset, Ended
<1>5. CASE EndTransmission
  <2>1. twi_masterBuffer' \in Sent(length) /\ length \in 1 .. BUFFER_LENGTH
    BY <1>5 DEF EndTransmission
  <2>2. twi_masterBuffer' \in Seq(Data) /\ Len(twi_masterBuffer') = length
    BY <2>1, SentBytes, SMTT(30)
  <2> QED
    BY <1>5, <2>1, <2>2, EmptySeq DEF EndTransmission, Reset
<1>6. CASE RequestFrom
  <2>1. PICK quantity \in Quantities : RequestFrom!(quantity)
    BY <1>6 DEF RequestFrom
  <2>2. quantity \in Nat /\ 1 <= quantity
    BY TwiAssumption
  <2> DEFINE n == Min({quantity, BUFFER_LENGTH})
  <2>3. n = IF quantity <= BUFFER_LENGTH THEN quantity ELSE BUFFER_LENGTH
    BY ONLY <2>2, Sizes, MinTwo
  <2>4. n \in 1 .. BUFFER_LENGTH
    BY <2>2, <2>3
  <2>5. twi_masterBufferLength' = n - 1
    BY <2>1
  <2> HIDE DEF n
  <2> QED
    BY <2>1, <2>4, <2>5 DEF Reset
<1>7. CASE WriteReturns
  BY <1>7 DEF WriteReturns, Sketch, Ended, Forgotten
<1>8. CASE StopSingle
  BY <1>8 DEF StopSingle, Sketch
<1>9. CASE ReadReturns
  <2> DEFINE n == Min({twi_masterBufferIndex, twi_masterBufferLength + 1})
  <2>1. twi_masterBufferIndex \in Int /\ twi_masterBufferLength + 1 \in Int
    OBVIOUS
  <2>2. twi_masterBufferIndex = Len(twi_masterBuffer)
    BY <1>9 DEF ReadReturns, Sketch, Reading, MasterRxInv
  <2>3. n = IF twi_masterBufferIndex <= twi_masterBufferLength + 1
            THEN twi_masterBufferIndex ELSE twi_masterBufferLength + 1
    BY ONLY <2>1, MinTwo
  <2>4. n \in Nat /\ n <= Len(twi_masterBuffer)
    <3>1. /\ twi_masterBufferIndex \in Nat
          /\ twi_masterBufferLength + 1 \in Nat
      OBVIOUS
    <3> QED
      BY ONLY <2>2, <2>3, <3>1
  <2>5. rxBuffer' = SubSeq(twi_masterBuffer, 1, n)
    BY <1>9 DEF ReadReturns
  <2> HIDE DEF n
  <2>6. rxBuffer' \in Seq(Data) /\ Len(rxBuffer') <= BUFFER_LENGTH
    <3>1. /\ twi_masterBuffer \in Seq(Data)
          /\ Len(twi_masterBuffer) <= BUFFER_LENGTH
          /\ Len(twi_masterBuffer) \in Nat /\ BUFFER_LENGTH \in Nat
      BY LenProperties
    <3> QED
      BY ONLY <2>4, <2>5, <3>1, FirstBytes
  <2> QED
    <3>1. << >> \in Seq(Bytes) /\ << >> \in Seq(Data) /\ Len(<< >>) = 0
      BY EmptySeq
    <3>2. rxBufferIndex' \in 0 .. BUFFER_LENGTH
      BY <1>9 DEF ReadReturns
    <3>3. message' \in Seq(Data) /\ got' \in Seq(Data)
      BY <1>9, <3>1 DEF ReadReturns
    <3>4. twi_masterBuffer' = << >> /\ wire' = << >>
          /\ twi_masterBufferIndex' = 0 /\ twi_masterBufferLength' = 0
      BY <1>9 DEF ReadReturns, Forgotten
    <3>5. UNCHANGED << slave, toWrite, asked, regs >>
      BY <1>9 DEF ReadReturns
    <3> QED
      BY <2>6, <3>1, <3>2, <3>3, <3>4, <3>5
<1>10. CASE RxMaster
  <2>1. /\ UCRXBUF \in Bytes
        /\ twi_masterBufferLength < BUFFER_LENGTH
        /\ twi_masterBufferIndex = Len(twi_masterBuffer)
        /\ twi_masterBufferIndex <= twi_masterBufferLength
    <3>1. Reading /\ "RX" \in ifg
      BY <1>10 DEF RxMaster, BusInv
    <3>2. bus \in {"in", "held"}
      BY <3>1 DEF MasterRxInv
    <3>3. twi_masterBufferIndex <= twi_masterBufferLength
      BY <3>1, <3>2 DEF MasterRxInv, Reading, RegisterInv, Received
    <3> QED
      BY <3>1, <3>3 DEF MasterRxInv, RegisterInv
  <2>2. /\ twi_masterBuffer' \in Seq(Data)
        /\ Len(twi_masterBuffer') = Len(twi_masterBuffer) + 1
    BY <1>10, <2>1 DEF RxMaster
  <2> QED
    BY <1>10, <2>1, <2>2 DEF RxMaster
<1>11. CASE RxSlave
  <2>1. twi_rxBuffer' \in Seq(Bytes) /\ Len(twi_rxBuffer') <= BUFFER_LENGTH
    <3>1. UCRXBUF \in Bytes
      BY <1>11 DEF RxSlave, RegisterInv
    <3>2. /\ Append(twi_rxBuffer, UCRXBUF) \in Seq(Bytes)
          /\ Len(Append(twi_rxBuffer, UCRXBUF)) = Len(twi_rxBuffer) + 1
          /\ Len(twi_rxBuffer) \in Nat
      BY <3>1, AppendProperties, LenProperties
    <3>3. \/ twi_rxBuffer' = twi_rxBuffer
          \/ /\ Len(twi_rxBuffer) < BUFFER_LENGTH
             /\ twi_rxBuffer' = Append(twi_rxBuffer, UCRXBUF)
      BY <1>11 DEF RxSlave
    <3>4. twi_rxBuffer \in Seq(Bytes) /\ Len(twi_rxBuffer) <= BUFFER_LENGTH
      OBVIOUS
    <3> QED
      BY ONLY Sizes, <3>2, <3>3, <3>4
  <2>2. UCRXBUF' \in Bytes \cup {Empty}
    BY <1>11 DEF RxSlave
  <2> QED
    BY <1>11, <2>1, <2>2 DEF RxSlave
<1>12. CASE TxMaster
  <2>1. call = "writing"
    BY <1>12 DEF TxMaster, BusInv
  <2>2. /\ twi_masterBufferIndex < Len(twi_masterBuffer)
        /\ Len(twi_masterBuffer) \in Nat
    BY <1>12, <2>1 DEF TxMaster, AllSent, MasterTxInv
  <2>3. UCTXBUF' \in Data
    <3>1. /\ twi_masterBuffer \in Seq(Data)
          /\ twi_masterBufferIndex + 1 \in 1 .. Len(twi_masterBuffer)
      BY <2>2
    <3>2. twi_masterBuffer[twi_masterBufferIndex + 1] \in Data
      BY <3>1, ElementOfSeq
    <3> QED
      BY <1>12, <3>2 DEF TxMaster
  <2> QED
    BY <1>12, <2>2, <2>3 DEF TxMaster
<1>13. CASE TxMasterDone
  BY <1>13 DEF TxMasterDone, AllSent
<1>14. CASE TxSlave
  <2>1. UCTXBUF' \in Data
    BY <1>14, TxByteIs DEF TxSlave
  <2>2. twi_txBufferIndex' \in 0 .. UINT8 - 1
    BY <1>14, IndexWraps DEF TxSlave
  <2> QED
    BY <1>14, <2>1, <2>2 DEF TxSlave
<1>15. CASE ArbitrationIsr
  BY <1>15 DEF ArbitrationIsr
<1>16. CASE NackIsr
  BY <1>16 DEF NackIsr
<1>17. CASE StartTxIsr
  <2>1. PICK r \in Replies : StartTxIsr!(r)
    BY <1>17 DEF StartTxIsr
  <2>2. r \in Seq(Bytes)
    BY TwiAssumption
  <2>3. /\ txBuffer' \in Seq(Bytes) /\ Len(txBuffer') <= BUFFER_LENGTH
        /\ Len(txBuffer') \in Nat
    BY <2>1, <2>2, WrittenReply, EmptySeq, SMTT(30)
  <2>4. twi_txBuffer' \in Seq(Data) /\ Len(twi_txBuffer') <= BUFFER_LENGTH
    <3>1. r \in Seq(Data)
      BY <2>2, DataIs, SeqMonotonic
    <3>2. << 0 >> \in Seq(Data) /\ Len(<< 0 >>) = 1
      BY DataIs
    <3> QED
      BY <2>1, <3>1, <3>2
  <2>5. wrote' \in Seq(Bytes) /\ reply' \in Seq(Bytes)
    BY <2>1, <2>2, EmptySeq
  <2> QED
    BY <2>1, <2>3, <2>4, <2>5
<1>18. CASE StartRxIsr
  BY <1>18 DEF StartRxIsr
<1>19. CASE StopIsr
  <2>1. twi_rxBuffer' \in Seq(Bytes) /\ Len(twi_rxBuffer') <= BUFFER_LENGTH
    BY <1>19 DEF StopIsr
  <2>2. CASE UNCHANGED toRead
    BY <1>19, <2>1, <2>2 DEF StopIsr
  <2>3. CASE Delivered
    <3>1. rxBufferIndex' \in Nat /\ rxBufferIndex' <= Len(twi_rxBuffer)
      BY <2>3 DEF Delivered
    <3>2. got' \in Seq(Data) /\ rxBuffer' \in Seq(Data)
      BY <2>3, <3>1, FirstBytes, SeqMonotonic DEF Delivered
    <3> QED
      BY <1>19, <2>1, <2>3, <3>1, <3>2 DEF StopIsr, Delivered
  <2> QED
    BY <1>19, <2>2, <2>3 DEF StopIsr, Dropped
<1>20. CASE HwStart
  BY <1>20 DEF HwStart
<1>21. CASE HwAddress
  BY <1>21 DEF HwAddress
<1>22. CASE HwLoad
  BY <1>22 DEF HwLoad
<1>23. CASE HwSent
  <2>1. wire' \in Seq(Data)
    <3>1. shift \in Data
      BY <1>23 DEF HwSent
    <3>2. Append(wire, shift) \in Seq(Data)
      BY <3>1, AppendProperties
    <3> QED
      BY <1>23, <3>2 DEF HwSent
  <2> QED
    BY <1>23, <2>1 DEF HwSent
<1>24. CASE HwRecv
  BY <1>24 DEF HwRecv
<1>25. CASE HwStop
  BY <1>25 DEF HwStop
<1>26. CASE HwArbitrationLost
  BY <1>26 DEF HwArbitrationLost
<1>27. CASE RemoteStart
  BY <1>27 DEF RemoteStart
<1>28. CASE RemoteWrites
  BY <1>28 DEF RemoteWrites
<1>29. CASE RemoteReads
  BY <1>29 DEF RemoteReads
<1>30. CASE RemoteStop
  BY <1>30 DEF RemoteStop
<1>31. CASE OtherEnds
  BY <1>31 DEF OtherEnds
<1>32. CASE UNCHANGED twiVars
  BY <1>32
<1> QED
  BY <1>1, <1>2, <1>3, <1>4, <1>5, <1>6, <1>7, <1>8, <1>9, <1>10, <1>11,
     <1>12, <1>13, <1>14, <1>15, <1>16, <1>17, <1>18, <1>19, <1>20, <1>21,
     <1>22, <1>23, <1>24, <1>25, <1>26, <1>27, <1>28, <1>29, <1>30, <1>31,
     <1>32
  DEF Next, SketchAsks, SketchRuns, Isr, Hw, Remote, Quiet

(* A request and its byte come and go together.                             *)
LEMMA RegisterStep == IInv /\ [Next]_twiVars => RegisterInv'
<1> SUFFICES ASSUME IInv, [Next]_twiVars PROVE RegisterInv'
  OBVIOUS
<1> USE DataIs DEF IInv, RegisterInv, BufferType, twiVars, twi, master,
      slave, toRead, toWrite, txBufferIndices, asked, regs, doing
<1>1. CASE Quiet
  BY <1>1, QuietIs
<1>2. CASE BeginState
  BY <1>2 DEF BeginState, Sketch
<1>3. CASE BeginReset
  BY <1>3 DEF BeginReset, Sketch, Reset
<1>4. CASE EndUnsent
  BY <1>4 DEF EndUnsent, Sketch, Reset, Ended
<1>5. CASE EndTransmission
  BY <1>5 DEF EndTransmission, Sketch, Reset
<1>6. CASE RequestFrom
  BY <1>6 DEF RequestFrom, Sketch, Reset
<1>7. CASE WriteReturns
  BY <1>7 DEF WriteReturns, Sketch, Ended, Forgotten
<1>8. CASE StopSingle
  BY <1>8 DEF StopSingle, Sketch
<1>9. CASE ReadReturns
  BY <1>9 DEF ReadReturns, Sketch, Forgotten
<1>10. CASE RxMaster
  BY <1>10 DEF RxMaster, StopDue
<1>11. CASE RxSlave
  BY <1>11 DEF RxSlave
<1>12. CASE TxMaster
  BY <1>12 DEF TxMaster, AllSent
<1>13. CASE TxMasterDone
  BY <1>13 DEF TxMasterDone, AllSent
<1>14. CASE TxSlave
  BY <1>14 DEF TxSlave, TxBytes
<1>15. CASE ArbitrationIsr
  BY <1>15 DEF ArbitrationIsr
<1>16. CASE NackIsr
  BY <1>16 DEF NackIsr
<1>17. CASE StartTxIsr
  BY <1>17 DEF StartTxIsr
<1>18. CASE StartRxIsr
  BY <1>18 DEF StartRxIsr
<1>19. CASE StopIsr
  BY <1>19 DEF StopIsr, Delivered, Dropped
<1>20. CASE HwStart
  BY <1>20 DEF HwStart
<1>21. CASE HwAddress
  BY <1>21 DEF HwAddress
<1>22. CASE HwLoad
  BY <1>22 DEF HwLoad
<1>23. CASE HwSent
  BY <1>23 DEF HwSent
<1>24. CASE HwRecv
  BY <1>24 DEF HwRecv
<1>25. CASE HwStop
  BY <1>25 DEF HwStop
<1>26. CASE HwArbitrationLost
  BY <1>26 DEF HwArbitrationLost
<1>27. CASE RemoteStart
  BY <1>27 DEF RemoteStart
<1>28. CASE RemoteWrites
  BY <1>28 DEF RemoteWrites
<1>29. CASE RemoteReads
  BY <1>29 DEF RemoteReads
<1>30. CASE RemoteStop
  BY <1>30 DEF RemoteStop
<1>31. CASE OtherEnds
  BY <1>31 DEF OtherEnds
<1>32. CASE UNCHANGED twiVars
  BY <1>32
<1> QED
  BY <1>1, <1>2, <1>3, <1>4, <1>5, <1>6, <1>7, <1>8, <1>9, <1>10, <1>11,
     <1>12, <1>13, <1>14, <1>15, <1>16, <1>17, <1>18, <1>19, <1>20, <1>21,
     <1>22, <1>23, <1>24, <1>25, <1>26, <1>27, <1>28, <1>29, <1>30, <1>31,
     <1>32
  DEF Next, SketchAsks, SketchRuns, Isr, Hw, Remote, Quiet

(* The bus and the flags agree with what the sketch waits for.              *)
LEMMA BusStep == IInv /\ [Next]_twiVars => BusInv'
<1> SUFFICES ASSUME IInv, [Next]_twiVars PROVE BusInv'
  OBVIOUS
<1> USE DEF IInv, StateType, BusInv, Waiting, Reading, twiVars, twi, master,
      slave, toRead, toWrite, txBufferIndices, asked, regs, doing, Settled,
      Pending, StatePending, Handler
<1>1. CASE Quiet
  BY <1>1, QuietIs
<1>2. CASE BeginState
  BY <1>2 DEF BeginState, Sketch
<1>3. CASE BeginReset
  BY <1>3 DEF BeginReset, Sketch, Reset
<1>4. CASE EndUnsent
  BY <1>4 DEF EndUnsent, Sketch, Reset, Ended
<1>5. CASE EndTransmission
  BY <1>5 DEF EndTransmission, Sketch, Reset
<1>6. CASE RequestFrom
  BY <1>6 DEF RequestFrom, Sketch, Reset
<1>7. CASE WriteReturns
  BY <1>7 DEF WriteReturns, Sketch, MasterTxInv
<1>8. CASE StopSingle
  BY <1>8 DEF StopSingle, Sketch
<1>9. CASE ReadReturns
  BY <1>9 DEF ReadReturns, Sketch, MasterRxInv
<1>10. CASE RxMaster
  BY <1>10 DEF RxMaster, StopDue
<1>11. CASE RxSlave
  BY <1>11 DEF RxSlave
<1>12. CASE TxMaster
  BY <1>12 DEF TxMaster, AllSent
<1>13. CASE TxMasterDone
  BY <1>13 DEF TxMasterDone, AllSent
<1>14. CASE TxSlave
  <2>1. UCTXBUF' # Empty
    BY <1>14, DataIs, TxByteIs DEF TxSlave
  <2> QED
    BY <1>14, <2>1 DEF TxSlave
<1>15. CASE ArbitrationIsr
  BY <1>15 DEF ArbitrationIsr
<1>16. CASE NackIsr
  BY <1>16 DEF NackIsr
<1>17. CASE StartTxIsr
  BY <1>17 DEF StartTxIsr
<1>18. CASE StartRxIsr
  BY <1>18 DEF StartRxIsr
<1>19. CASE StopIsr
  BY <1>19 DEF StopIsr, Delivered, Dropped
<1>20. CASE HwStart
  BY <1>20 DEF HwStart, MasterTxInv
<1>21. CASE HwAddress
  BY <1>21 DEF HwAddress
<1>22. CASE HwLoad
  BY <1>22 DEF HwLoad
<1>23. CASE HwSent
  BY <1>23 DEF HwSent
<1>24. CASE HwRecv
  BY <1>24 DEF HwRecv
<1>25. CASE HwStop
  BY <1>25 DEF HwStop
<1>26. CASE HwArbitrationLost
  BY <1>26 DEF HwArbitrationLost
<1>27. CASE RemoteStart
  BY <1>27 DEF RemoteStart, RegisterInv
<1>28. CASE RemoteWrites
  BY <1>28 DEF RemoteWrites
<1>29. CASE RemoteReads
  BY <1>29 DEF RemoteReads
<1>30. CASE RemoteStop
  BY <1>30 DEF RemoteStop
<1>31. CASE OtherEnds
  BY <1>31 DEF OtherEnds
<1>32. CASE UNCHANGED twiVars
  BY <1>32
<1> QED
  BY <1>1, <1>2, <1>3, <1>4, <1>5, <1>6, <1>7, <1>8, <1>9, <1>10, <1>11,
     <1>12, <1>13, <1>14, <1>15, <1>16, <1>17, <1>18, <1>19, <1>20, <1>21,
     <1>22, <1>23, <1>24, <1>25, <1>26, <1>27, <1>28, <1>29, <1>30, <1>31,
     <1>32
  DEF Next, SketchAsks, SketchRuns, Isr, Hw, Remote, Quiet

(* The only steps that touch what Wire has to send, or come between the     *)
(* statements that build it.                                                *)
LEMMA WriteFrame ==
  [Next]_twiVars =>
    \/ UNCHANGED << toWrite, call >>
    \/ UNCHANGED toWrite /\ {call, call'} \cap Building = {}
    \/ BeginTransmission \/ BeginTxIndex \/ BeginTxLength
    \/ Write \/ WriteStore \/ WriteCount \/ WriteLength
    \/ End \/ EndUnsent \/ EndTransmission \/ WriteReturns \/ StartTxIsr
<1> SUFFICES ASSUME [Next]_twiVars
             PROVE  WriteFrame!2
  OBVIOUS
<1>1. CASE Begin \/ BeginLength \/ BeginState \/ BeginReset \/ RequestFrom
             \/ StopSingle \/ ReadReturns \/ Read \/ ReadCounted
  <2>1. UNCHANGED toWrite /\ {call, call'} \cap Building = {}
    BY <1>1 DEF Begin, BeginLength, BeginState, BeginReset, RequestFrom,
                StopSingle, ReadReturns, Read, ReadCounted, Sketch, Building
  <2> QED
    BY <2>1
<1>2. CASE RxMaster \/ RxSlave \/ TxMaster \/ TxMasterDone \/ TxSlave
             \/ ArbitrationIsr \/ NackIsr \/ StartRxIsr \/ StopIsr \/ Hw
             \/ HwArbitrationLost \/ Remote \/ OtherEnds
             \/ UNCHANGED twiVars
  <2>1. UNCHANGED << toWrite, call >>
    BY <1>2 DEF RxMaster, RxSlave, TxMaster, TxMasterDone, TxSlave,
                ArbitrationIsr, NackIsr, StartRxIsr, StopIsr, Hw, HwStart,
                HwAddress, HwLoad, HwSent, HwRecv, HwStop, HwArbitrationLost,
                Remote, RemoteStart, RemoteWrites, RemoteReads, RemoteStop,
                OtherEnds, twiVars, doing
  <2> QED
    BY <2>1
<1> QED
  BY <1>1, <1>2 DEF Next, SketchAsks, SketchRuns, Isr

(* The only steps that touch what Wire has to read, or are inside a read.   *)
LEMMA ReadFrame ==
  [Next]_twiVars =>
    \/ UNCHANGED toRead /\ (call = "read" <=> call' = "read")
    \/ Begin \/ BeginLength \/ ReadReturns \/ Read \/ ReadCounted \/ StopIsr
  BY DEF Next, SketchAsks, SketchRuns, Isr, Hw, Remote, twiVars, doing, Sketch,
         BeginState, BeginReset, BeginTransmission, BeginTxIndex,
         BeginTxLength, Write, WriteStore, WriteCount, WriteLength, End,
         EndUnsent, EndTransmission, WriteReturns, RequestFrom, StopSingle,
         RxMaster, RxSlave, TxMaster, TxMasterDone, TxSlave, ArbitrationIsr,
         NackIsr, StartTxIsr, StartRxIsr, HwStart, HwAddress, HwLoad, HwSent,
         HwRecv, HwStop, HwArbitrationLost, RemoteStart, RemoteWrites,
         RemoteReads, RemoteStop, OtherEnds

(* When requestFrom returns, the engine's buffer holds what the slave sent: *)
(* every byte asked for, or none.                                           *)
LEMMA ReadDone ==
  IInv /\ ReadReturns =>
    /\ ~lost /\ rxBuffer' = wire
    /\ Len(wire) \in {0, twi_masterBufferLength + 1}
<1> SUFFICES ASSUME IInv, ReadReturns
             PROVE  /\ ~lost /\ rxBuffer' = wire
                    /\ Len(wire) \in {0, twi_masterBufferLength + 1}
  OBVIOUS
<1> USE DEF IInv
<1>1. Reading /\ twi_state = "IDLE" /\ twi_masterBuffer \in Seq(Data)
  BY DEF ReadReturns, Sketch, Reading, BufferType
<1>2. ~lost /\ "STT" \notin ctl /\ "STP" \notin ctl
  BY <1>1 DEF ReadReturns, MasterRxInv
<1>3. /\ twi_masterBufferIndex = Len(twi_masterBuffer)
      /\ Len(twi_masterBuffer) <= twi_masterBufferLength + 1
      /\ Len(twi_masterBuffer) \in Int /\ twi_masterBufferLength + 1 \in Int
  BY <1>1 DEF MasterRxInv, BufferType
<1>4. wire = twi_masterBuffer
  BY <1>1, <1>2 DEF MasterRxInv, RegisterInv, Received
<1>5. Len(wire) \in {0, twi_masterBufferLength + 1}
  BY <1>1, <1>2, <1>3, <1>4 DEF MasterRxInv, BusInv, StateType
<1>6. Min({twi_masterBufferIndex, twi_masterBufferLength + 1})
        = Len(twi_masterBuffer)
  <2>1. Min({Len(twi_masterBuffer), twi_masterBufferLength + 1})
          = IF Len(twi_masterBuffer) <= twi_masterBufferLength + 1
            THEN Len(twi_masterBuffer) ELSE twi_masterBufferLength + 1
    BY ONLY <1>3, MinTwo
  <2> QED
    BY <1>3, <2>1
<1>7. rxBuffer' = wire
  BY <1>1, <1>4, <1>6, SubSeqFull DEF ReadReturns
<1> QED
  BY <1>2, <1>5, <1>7

-----------------------------------------------------------------------------
(* A message comes only when the one before it is read, never while the     *)
(* sketch is inside a read.                                                 *)
LEMMA MessageStep == IInv /\ [Next]_twiVars => MessageInv'
<1> SUFFICES ASSUME IInv, [Next]_twiVars PROVE MessageInv'
  OBVIOUS
<1> USE DEF IInv, BufferType, MessageInv, twiVars, twi, master, slave,
      toRead, toWrite, txBufferIndices, asked, regs, doing
<1>1. CASE Begin
  BY <1>1, EmptySeq, LenProperties DEF Begin, Sketch
<1>2. CASE BeginLength
  BY <1>2, EmptySeq DEF BeginLength, Sketch
<1>3. CASE ReadReturns
  <2>1. /\ rxBuffer' = message' /\ got' = << >> /\ rxBufferIndex' = 0
        /\ call' = "idle"
    BY <1>3, ReadDone DEF ReadReturns, Sketch
  <2>2. Len(got') = 0 /\ Len(rxBuffer') \in Nat
    <3>1. rxBuffer' \in Seq(Data)
      BY <1>3, <2>1 DEF ReadReturns
    <3> QED
      BY <2>1, <3>1, EmptySeq, LenProperties
  <2> QED
    BY ONLY <2>1, <2>2 DEF MessageInv
<1>4. CASE Read
  <2>1. /\ rxBufferIndex < Len(rxBuffer) /\ call # "read" /\ call' = "read"
        /\ got' = Append(got, rxBuffer[rxBufferIndex + 1])
        /\ UNCHANGED << rxBuffer, rxBufferIndex, message >>
    BY <1>4 DEF Read, Sketch
  <2>2. /\ got \in Seq(Data) /\ rxBuffer \in Seq(Data)
        /\ rxBufferIndex \in Nat /\ Len(rxBuffer) \in Nat
        /\ \A i \in 1 .. Len(got) : got[i] = rxBuffer[i]
        /\ rxBuffer = message \/ rxBuffer = << >>
    BY LenProperties
  <2>3. Len(got) = rxBufferIndex
    BY <2>1, <2>2
  <2>4. rxBuffer[rxBufferIndex + 1] \in Data
    BY ONLY <2>1, <2>2, ElementOfSeq
  <2>5. /\ Len(got') = rxBufferIndex + 1
        /\ \A i \in 1 .. Len(got') : got'[i] = rxBuffer[i]
    BY ONLY <2>1, <2>2, <2>3, <2>4, AppendProperties
  <2> QED
    BY ONLY <2>1, <2>2, <2>5 DEF MessageInv
<1>5. CASE ReadCounted
  BY <1>5 DEF ReadCounted, Sketch
<1>6. CASE StopIsr
  <2>1. CASE Delivered /\ twi_state = "SRX"
    <3>1. twi_rxBuffer = wire \/ twi_rxBuffer = << >>
      BY <1>6, <2>1 DEF StopIsr, SlaveRxInv, BusInv, RegisterInv, Received
    <3>2. /\ Len(got') = rxBufferIndex' /\ Len(got') <= Len(twi_rxBuffer)
          /\ \A i \in 1 .. Len(got') : got'[i] = twi_rxBuffer[i]
      <4>1. rxBufferIndex' \in Nat /\ rxBufferIndex' <= Len(twi_rxBuffer)
        BY <2>1 DEF Delivered
      <4> QED
        BY <2>1, <4>1, FirstBytes DEF Delivered
    <3>3. call # "read" /\ call' = call
      BY <1>6, <2>1 DEF StopIsr, Delivered
    <3>4. /\ rxBuffer' = twi_rxBuffer /\ message' = wire
          /\ Len(got') <= Len(rxBuffer')
      BY <2>1, <3>2 DEF Delivered
    <3> QED
      BY ONLY <3>1, <3>2, <3>3, <3>4 DEF MessageInv
  <2>2. CASE UNCHANGED toRead
    BY <1>6, <2>2 DEF StopIsr
  <2> QED
    BY <1>6, <2>1, <2>2 DEF StopIsr, Dropped
<1>7. CASE UNCHANGED toRead /\ (call = "read" <=> call' = "read")
  BY <1>7
<1> QED
  BY <1>1, <1>2, <1>3, <1>4, <1>5, <1>6, <1>7, ReadFrame

(* What is in the buffer of Wire is what the sketch wrote.                  *)
LEMMA WroteStep == IInv /\ [Next]_twiVars => WroteInv'
<1> SUFFICES ASSUME IInv, [Next]_twiVars PROVE WroteInv'
  OBVIOUS
<1> USE Sizes DEF IInv, BufferType, Building, WroteInv, twiVars, twi, master,
      slave, toRead, toWrite, txBufferIndices, asked, regs, doing
<1>1. CASE BeginTransmission
  BY <1>1 DEF BeginTransmission, Sketch
<1>2. CASE BeginTxIndex
  BY <1>2, EmptySeq DEF BeginTxIndex, Sketch
<1>3. CASE BeginTxLength
  BY <1>3 DEF BeginTxLength, Sketch
<1>4. CASE Write
  BY <1>4 DEF Write, Sketch, Room
<1>5. CASE WriteStore
  <2>1. PICK b \in Bytes : WriteStore!(b)
    BY <1>5 DEF WriteStore
  <2>2. CASE killed
    BY <2>1, <2>2 DEF Sketch
  <2>3. CASE ~killed
    <3>1. txBuffer = wrote /\ txBufferIndex = Len(wrote)
          /\ Len(wrote) < BUFFER_LENGTH
      BY <2>1, <2>3 DEF Sketch
    <3>2. Append(SubSeq(txBuffer, 1, txBufferIndex), b) = Append(wrote, b)
      BY <3>1, StoredByte, SMTT(30)
    <3>3. txBuffer' = Append(wrote, b) /\ wrote' = Append(wrote, b)
          /\ Len(wrote') = Len(wrote) + 1
      BY <2>1, <2>3, <3>1, <3>2, AppendProperties
    <3> QED
      BY <2>1, <2>3, <3>1, <3>3 DEF Sketch
  <2> QED
    BY <2>2, <2>3
<1>6. CASE WriteCount
  <2>1. ~killed => (txBufferIndex + 1) % UINT8 = Len(wrote)
    BY <1>6, IndexWraps DEF WriteCount, Sketch
  <2> QED
    BY <1>6, <2>1 DEF WriteCount, Sketch
<1>7. CASE WriteLength
  BY <1>7 DEF WriteLength, Sketch
<1>8. CASE End
  BY <1>8 DEF End, Sketch
<1>9. CASE EndUnsent
  BY <1>9, EmptySeq DEF EndUnsent, Sketch, Ended
<1>10. CASE EndTransmission
  BY <1>10 DEF EndTransmission, Sketch
<1>11. CASE WriteReturns
  BY <1>11, EmptySeq DEF WriteReturns, Sketch, Ended
<1>12. CASE StartTxIsr
  BY <1>12, EmptySeq DEF StartTxIsr
<1>13. CASE UNCHANGED << toWrite, call >>
  BY <1>13
<1>14. CASE UNCHANGED toWrite /\ {call, call'} \cap Building = {}
  BY <1>14
<1> QED
  BY <1>1, <1>2, <1>3, <1>4, <1>5, <1>6, <1>7, <1>8, <1>9, <1>10, <1>11,
     <1>12, <1>13, <1>14, WriteFrame

-----------------------------------------------------------------------------
(* Between start and stop the buffer of the engine follows the bus.         *)
LEMMA SlaveRxStep == IInv /\ [Next]_twiVars => SlaveRxInv'
<1> SUFFICES ASSUME IInv, [Next]_twiVars PROVE SlaveRxInv'
  OBVIOUS
<1> USE DEF IInv, BufferType, RegisterInv, BusInv, SlaveRxInv, Received,
      Waiting, Reading, twiVars, twi, master, slave, toRead, toWrite,
      txBufferIndices, asked, regs, doing, Settled, Pending, StatePending,
      Handler
<1>1. CASE Quiet
  BY <1>1, QuietIs
<1>2. CASE BeginState
  BY <1>2 DEF BeginState, Sketch
<1>3. CASE BeginReset
  BY <1>3 DEF BeginReset, Sketch, Reset
<1>4. CASE EndUnsent
  BY <1>4 DEF EndUnsent, Sketch, Reset, Ended
<1>5. CASE EndTransmission
  BY <1>5 DEF EndTransmission, Sketch, Reset
<1>6. CASE RequestFrom
  BY <1>6 DEF RequestFrom, Sketch, Reset
<1>7. CASE WriteReturns
  BY <1>7 DEF WriteReturns, Sketch, Ended, Forgotten
<1>8. CASE StopSingle
  BY <1>8 DEF StopSingle, Sketch
<1>9. CASE ReadReturns
  BY <1>9 DEF ReadReturns, Sketch, Forgotten
<1>10. CASE RxMaster
  BY <1>10 DEF RxMaster, StopDue
<1>11. CASE RxSlave
  BY <1>11 DEF RxSlave
<1>12. CASE TxMaster
  BY <1>12 DEF TxMaster, AllSent
<1>13. CASE TxMasterDone
  BY <1>13 DEF TxMasterDone, AllSent
<1>14. CASE TxSlave
  BY <1>14 DEF TxSlave, TxBytes
<1>15. CASE ArbitrationIsr
  BY <1>15 DEF ArbitrationIsr
<1>16. CASE NackIsr
  BY <1>16 DEF NackIsr
<1>17. CASE StartTxIsr
  BY <1>17 DEF StartTxIsr
<1>18. CASE StartRxIsr
  BY <1>18 DEF StartRxIsr
<1>19. CASE StopIsr
  BY <1>19 DEF StopIsr, Delivered, Dropped
<1>20. CASE HwStart
  BY <1>20 DEF HwStart
<1>21. CASE HwAddress
  BY <1>21 DEF HwAddress
<1>22. CASE HwLoad
  BY <1>22 DEF HwLoad
<1>23. CASE HwSent
  BY <1>23 DEF HwSent
<1>24. CASE HwRecv
  BY <1>24 DEF HwRecv
<1>25. CASE HwStop
  BY <1>25 DEF HwStop
<1>26. CASE HwArbitrationLost
  BY <1>26 DEF HwArbitrationLost
<1>27. CASE RemoteStart
  BY <1>27 DEF RemoteStart
<1>28. CASE RemoteWrites
  <2>1. UCRXBUF = Empty /\ UCRXBUF' # Empty /\ wire' = Append(wire, UCRXBUF')
    BY <1>28, DataIs DEF RemoteWrites
  <2> QED
    BY <1>28, <2>1 DEF RemoteWrites
<1>29. CASE RemoteReads
  BY <1>29 DEF RemoteReads
<1>30. CASE RemoteStop
  BY <1>30 DEF RemoteStop
<1>31. CASE OtherEnds
  BY <1>31 DEF OtherEnds
<1>32. CASE UNCHANGED twiVars
  BY <1>32
<1> QED
  BY <1>1, <1>2, <1>3, <1>4, <1>5, <1>6, <1>7, <1>8, <1>9, <1>10, <1>11,
     <1>12, <1>13, <1>14, <1>15, <1>16, <1>17, <1>18, <1>19, <1>20, <1>21,
     <1>22, <1>23, <1>24, <1>25, <1>26, <1>27, <1>28, <1>29, <1>30, <1>31,
     <1>32
  DEF Next, SketchAsks, SketchRuns, Isr, Hw, Remote, Quiet

(* The index counts what has left the reply: a start sets it back, and it   *)
(* wraps only past the end.                                                 *)
LEMMA SlaveTxStep == IInv /\ [Next]_twiVars => SlaveTxInv'
<1> SUFFICES ASSUME IInv, [Next]_twiVars PROVE SlaveTxInv'
  OBVIOUS
<1> USE DEF IInv, SlaveTxInv, Moved, Held, Sends, BufferType, twiVars, twi,
      master, slave, toRead, toWrite, txBufferIndices, asked, regs, doing
<1>1. CASE Quiet
  BY <1>1, QuietIs
<1>2. CASE BeginState
  BY <1>2 DEF BeginState, Sketch
<1>3. CASE BeginReset
  BY <1>3 DEF BeginReset, Sketch, Reset
<1>4. CASE EndUnsent
  BY <1>4 DEF EndUnsent, Sketch, Reset, Ended
<1>5. CASE EndTransmission
  BY <1>5 DEF EndTransmission, Sketch, Reset
<1>6. CASE RequestFrom
  BY <1>6 DEF RequestFrom, Sketch, Reset
<1>7. CASE WriteReturns
  BY <1>7 DEF WriteReturns, Sketch, BusInv, Waiting
<1>8. CASE StopSingle
  BY <1>8 DEF StopSingle, Sketch
<1>9. CASE ReadReturns
  BY <1>9 DEF ReadReturns, Sketch, BusInv, Waiting
<1>10. CASE RxMaster
  BY <1>10 DEF RxMaster, StopDue
<1>11. CASE RxSlave
  BY <1>11 DEF RxSlave
<1>12. CASE TxMaster
  BY <1>12 DEF TxMaster, BusInv, Waiting
<1>13. CASE TxMasterDone
  BY <1>13 DEF TxMasterDone, AllSent
<1>14. CASE TxSlave
  <2> SUFFICES ASSUME bus = "rout", "START" \notin ifg
               PROVE  SlaveTxInv'
    BY <1>14 DEF TxSlave
  <2>1. UCTXBUF = Empty /\ UCTXBUF' \in Data /\ UCTXBUF' # Empty
    BY <1>14, DataIs, TxByteIs DEF TxSlave, BusInv
  <2>2. /\ Len(wire) \in Nat /\ Len(twi_txBuffer) \in Nat
        /\ Len(twi_txBuffer) <= UINT8
    BY Sizes, LenProperties
  <2>3. Moved' = Moved + 1 /\ Moved = Len(wire) + Held(shift)
    BY <1>14, <2>1, <2>2 DEF TxSlave
  <2>4. Moved \in Nat /\ (Moved < UINT8 => twi_txBufferIndex = Moved)
    <3>1. Held(shift) \in Nat
      BY ONLY DEF Held
    <3> HIDE DEF Held, Moved
    <3>2. Moved \in Nat
      BY ONLY <2>2, <2>3, <3>1
    <3> HIDE DEF Sends
    <3> QED
      BY <3>2
  <2>5. Moved' < UINT8 => twi_txBufferIndex' = Moved'
    <3>1. twi_txBufferIndex' = (twi_txBufferIndex + 1) % UINT8
      BY <1>14 DEF TxSlave
    <3>2. twi_txBufferIndex \in 0 .. UINT8 - 1
      OBVIOUS
    <3> HIDE DEF Moved
    <3> QED
      BY ONLY <2>3, <2>4, <3>1, <3>2, Sizes, IndexWraps
  <2>6. Moved + 1 <= Len(twi_txBuffer) => UCTXBUF' = twi_txBuffer[Moved + 1]
    <3>1. UCTXBUF' \in TxBytes(twi_txBufferIndex)
      BY <1>14 DEF TxSlave
    <3> HIDE DEF Moved
    <3> QED
      BY ONLY <2>2, <2>4, <3>1, Sizes DEF TxBytes
  <2>7. Sends(twi_txBuffer)'
    BY <1>14, <2>2, <2>3, <2>6 DEF TxSlave
  <2>8. UNCHANGED << twi_txBuffer, reply, diverted >>
    BY <1>14 DEF TxSlave
  <2> HIDE DEF Moved, Sends
  <2> QED
    BY <2>5, <2>7, <2>8
<1>15. CASE ArbitrationIsr
  BY <1>15 DEF ArbitrationIsr
<1>16. CASE NackIsr
  BY <1>16 DEF NackIsr
<1>17. CASE StartTxIsr
  <2> SUFFICES ASSUME bus = "rout"
               PROVE  SlaveTxInv'
    BY <1>17 DEF StartTxIsr
  <2>1. wire = << >> /\ shift = Empty /\ UCTXBUF = Empty
    BY <1>17 DEF StartTxIsr, BusInv
  <2>2. /\ twi_txBufferIndex' = 0 /\ wire' = << >>
        /\ shift' = Empty /\ UCTXBUF' = Empty
    BY <1>17, <2>1 DEF StartTxIsr
  <2>3. ~diverted' /\ Len(reply') \in 1 .. BUFFER_LENGTH =>
          twi_txBuffer' = reply'
    BY <1>17 DEF StartTxIsr
  <2> QED
    BY <2>2, <2>3, EmptySeq
<1>18. CASE StartRxIsr
  BY <1>18 DEF StartRxIsr, BusInv
<1>19. CASE StopIsr
  BY <1>19 DEF StopIsr, BusInv
<1>20. CASE HwStart
  BY <1>20 DEF HwStart
<1>21. CASE HwAddress
  BY <1>21 DEF HwAddress
<1>22. CASE HwLoad
  BY <1>22 DEF HwLoad
<1>23. CASE HwSent
  BY <1>23 DEF HwSent
<1>24. CASE HwRecv
  BY <1>24 DEF HwRecv
<1>25. CASE HwStop
  BY <1>25 DEF HwStop
<1>26. CASE HwArbitrationLost
  BY <1>26 DEF HwArbitrationLost
<1>27. CASE RemoteStart
  BY <1>27 DEF RemoteStart
<1>28. CASE RemoteWrites
  BY <1>28 DEF RemoteWrites
<1>29. CASE RemoteReads
  <2>1. /\ bus = "rout" /\ shift # Empty /\ shift' = Empty
        /\ wire' = Append(wire, shift)
        /\ UNCHANGED << slave, asked, UCTXBUF, ifg, bus >>
    BY <1>29 DEF RemoteReads
  <2>2. wire \in Seq(Data) /\ shift \in Data /\ Len(wire) \in Nat
    BY <2>1, LenProperties
  <2>3. Moved' = Moved /\ (Sends(twi_txBuffer) => Sends(twi_txBuffer)')
    BY ONLY <2>1, <2>2, AppendProperties DEF Moved, Held, Sends, slave
  <2> HIDE DEF Moved, Sends
  <2> QED
    BY <2>1, <2>3
<1>30. CASE RemoteStop
  BY <1>30 DEF RemoteStop
<1>31. CASE OtherEnds
  BY <1>31 DEF OtherEnds
<1>32. CASE UNCHANGED twiVars
  BY <1>32
<1> QED
  BY <1>1, <1>2, <1>3, <1>4, <1>5, <1>6, <1>7, <1>8, <1>9, <1>10, <1>11,
     <1>12, <1>13, <1>14, <1>15, <1>16, <1>17, <1>18, <1>19, <1>20, <1>21,
     <1>22, <1>23, <1>24, <1>25, <1>26, <1>27, <1>28, <1>29, <1>30, <1>31,
     <1>32
  DEF Next, SketchAsks, SketchRuns, Isr, Hw, Remote, Quiet

-----------------------------------------------------------------------------
(* endTransmission: the steps of a write, from start to stop.               *)
LEMMA MasterTxStep == IInv /\ [Next]_twiVars => MasterTxInv'
<1> SUFFICES ASSUME IInv, [Next]_twiVars PROVE MasterTxInv'
  OBVIOUS
<1> USE DEF IInv, StateType, BusInv, RegisterInv, Waiting, Reading,
      BufferType, MasterTxInv, twiVars, twi, master, slave, toRead, toWrite,
      txBufferIndices, asked, regs, doing, Settled, Pending, StatePending,
      Handler
<1>1. CASE Quiet
  BY <1>1, QuietIs
<1>2. CASE BeginState
  BY <1>2 DEF BeginState, Sketch
<1>3. CASE BeginReset
  BY <1>3 DEF BeginReset, Sketch, Reset
<1>4. CASE EndUnsent
  BY <1>4 DEF EndUnsent, Sketch, Reset, Ended
<1>5. CASE EndTransmission
  <2>1. /\ twi_masterBuffer' \in Sent(length)
        /\ length \in 1 .. BUFFER_LENGTH /\ call = "end"
    BY <1>5 DEF EndTransmission, Sketch
  <2>2. /\ twi_masterBuffer' \in Seq(Data) /\ Len(twi_masterBuffer') = length
        /\ length = Len(txBuffer) => twi_masterBuffer' = txBuffer
    BY <2>1, SentBytes
  <2>3. ~killed => length = Len(txBuffer) /\ txBuffer = wrote
    BY <2>1 DEF WroteInv
  <2>4. transmitting
    BY <2>1 DEF WroteInv, Building
  <2>5. twi_masterBuffer' # << >>
    BY <2>1, <2>2, EmptySeq
  <2> QED
    BY <1>5, <2>1, <2>2, <2>3, <2>4, <2>5 DEF EndTransmission, Sketch, Reset
<1>6. CASE RequestFrom
  BY <1>6 DEF RequestFrom, Sketch, Reset
<1>7. CASE WriteReturns
  BY <1>7 DEF WriteReturns, Sketch, Ended, Forgotten
<1>8. CASE StopSingle
  BY <1>8 DEF StopSingle, Sketch
<1>9. CASE ReadReturns
  BY <1>9 DEF ReadReturns, Sketch, Forgotten
<1>10. CASE RxMaster
  BY <1>10 DEF RxMaster, StopDue
<1>11. CASE RxSlave
  BY <1>11 DEF RxSlave
<1>12. CASE TxMaster
  BY <1>12 DEF TxMaster, AllSent
<1>13. CASE TxMasterDone
  BY <1>13 DEF TxMasterDone, AllSent
<1>14. CASE TxSlave
  BY <1>14 DEF TxSlave, TxBytes
<1>15. CASE ArbitrationIsr
  BY <1>15 DEF ArbitrationIsr
<1>16. CASE NackIsr
  BY <1>16 DEF NackIsr
<1>17. CASE StartTxIsr
  BY <1>17 DEF StartTxIsr
<1>18. CASE StartRxIsr
  BY <1>18 DEF StartRxIsr
<1>19. CASE StopIsr
  BY <1>19 DEF StopIsr, Delivered, Dropped
<1>20. CASE HwStart
  BY <1>20 DEF HwStart
<1>21. CASE HwAddress
  BY <1>21 DEF HwAddress
<1>22. CASE HwLoad
  BY <1>22 DEF HwLoad
<1>23. CASE HwSent
  BY <1>23 DEF HwSent
<1>24. CASE HwRecv
  BY <1>24 DEF HwRecv
<1>25. CASE HwStop
  BY <1>25 DEF HwStop
<1>26. CASE HwArbitrationLost
  BY <1>26 DEF HwArbitrationLost
<1>27. CASE RemoteStart
  BY <1>27 DEF RemoteStart
<1>28. CASE RemoteWrites
  BY <1>28 DEF RemoteWrites
<1>29. CASE RemoteReads
  BY <1>29 DEF RemoteReads
<1>30. CASE RemoteStop
  BY <1>30 DEF RemoteStop
<1>31. CASE OtherEnds
  BY <1>31 DEF OtherEnds
<1>32. CASE UNCHANGED twiVars
  BY <1>32, SMTT(30)
<1> QED
  BY <1>1, <1>2, <1>3, <1>4, <1>5, <1>6, <1>7, <1>8, <1>9, <1>10, <1>11,
     <1>12, <1>13, <1>14, <1>15, <1>16, <1>17, <1>18, <1>19, <1>20, <1>21,
     <1>22, <1>23, <1>24, <1>25, <1>26, <1>27, <1>28, <1>29, <1>30, <1>31,
     <1>32
  DEF Next, SketchAsks, SketchRuns, Isr, Hw, Remote, Quiet

(* requestFrom: the steps of a read, with the stop asked for in time.       *)
LEMMA MasterRxStep == IInv /\ [Next]_twiVars => MasterRxInv'
<1> SUFFICES ASSUME IInv, [Next]_twiVars PROVE MasterRxInv'
  OBVIOUS
<1> USE DEF IInv, StateType, BusInv, RegisterInv, Waiting, Reading,
      BufferType, MasterRxInv, Received, twiVars, twi, master, slave, toRead,
      toWrite, txBufferIndices, asked, regs, doing, Settled, Pending,
      StatePending, Handler
<1>1. CASE Quiet
  BY <1>1, QuietIs
<1>2. CASE BeginState
  BY <1>2 DEF BeginState, Sketch
<1>3. CASE BeginReset
  BY <1>3 DEF BeginReset, Sketch, Reset
<1>4. CASE EndUnsent
  BY <1>4 DEF EndUnsent, Sketch, Reset, Ended
<1>5. CASE EndTransmission
  BY <1>5 DEF EndTransmission, Sketch, Reset
<1>6. CASE RequestFrom
  <2>1. PICK quantity \in Quantities : RequestFrom!(quantity)
    BY <1>6 DEF RequestFrom
  <2>2. quantity \in Nat /\ 1 <= quantity
    BY TwiAssumption
  <2> DEFINE n == Min({quantity, BUFFER_LENGTH})
  <2>3. n = IF quantity <= BUFFER_LENGTH THEN quantity ELSE BUFFER_LENGTH
    BY ONLY <2>2, Sizes, MinTwo
  <2>4. n \in 1 .. BUFFER_LENGTH
    BY <2>2, <2>3, Sizes
  <2> HIDE DEF n
  <2> QED
    BY <2>1, <2>4, Sizes DEF Sketch, Reset, n
<1>7. CASE WriteReturns
  BY <1>7 DEF WriteReturns, Sketch, Ended, Forgotten
<1>8. CASE StopSingle
  <2>1. bus = "in" => twi_masterBufferIndex = 0
    <3> SUFFICES ASSUME bus = "in" PROVE twi_masterBuffer = << >>
      OBVIOUS
    <3>1. Reading /\ wire = << >> /\ "STT" \notin ctl /\ ~lost
      BY <1>8 DEF StopSingle, Sketch
    <3>2. Received(twi_masterBuffer)
      BY <3>1
    <3>3. twi_masterBuffer \in Seq(Data) /\ UCRXBUF \in Data \cup {Empty}
      OBVIOUS
    <3>4. UCRXBUF # Empty => Append(twi_masterBuffer, UCRXBUF) # << >>
      BY ONLY <3>3, AppendProperties
    <3> QED
      BY ONLY <3>1, <3>2, <3>4 DEF Received
  <2> QED
    BY <1>8, <2>1 DEF StopSingle, Sketch
<1>9. CASE ReadReturns
  BY <1>9 DEF ReadReturns, Sketch, Forgotten
<1>10. CASE RxMaster
  <2>1. /\ Reading /\ "RX" \in ifg /\ twi_state = "MRX" /\ UCRXBUF # Empty
        /\ "TR" \notin ctl /\ "RXIE" \in ctl
    BY <1>10 DEF RxMaster
  <2>2. /\ bus \in {"in", "held"} /\ "STT" \notin ctl /\ ~lost
        /\ "NACK" \notin ifg
    BY <2>1
  <2>3. /\ wire = Append(twi_masterBuffer, UCRXBUF)
        /\ twi_masterBufferIndex = Len(twi_masterBuffer)
    BY <2>1, <2>2
  <2> DEFINE longer == Append(twi_masterBuffer, UCRXBUF)
  <2>4. /\ longer \in Seq(Data) /\ longer # << >>
        /\ Len(longer) = twi_masterBufferIndex + 1
    <3>1. twi_masterBuffer \in Seq(Data) /\ UCRXBUF \in Data
      BY <2>1, DataIs
    <3> QED
      BY ONLY <2>3, <3>1, AppendProperties
  <2>5. /\ twi_masterBuffer' = longer /\ wire = longer /\ wire' = wire
        /\ twi_masterBufferIndex' = twi_masterBufferIndex + 1
        /\ UCRXBUF' = Empty /\ ifg' = ifg \ {"RX"}
        /\ UNCHANGED << bus, call, lost, twi_masterBufferLength >>
        /\ ctl' = IF twi_masterBufferIndex' = twi_masterBufferLength
                  THEN ctl \cup {"STP"} ELSE ctl
        /\ twi_state' = IF twi_masterBufferIndex' > twi_masterBufferLength
                        THEN "IDLE" ELSE twi_state
    BY <1>10, <2>3 DEF RxMaster, StopDue
  <2> HIDE DEF longer
  <2>6. /\ Received(twi_masterBuffer)' /\ twi_masterBuffer' # << >>
        /\ twi_masterBufferIndex' = Len(twi_masterBuffer')
    BY ONLY <2>4, <2>5 DEF Received
  <2> HIDE DEF Received
  <2>7. CASE bus = "in"
    <3>1. /\ wire # << >> /\ call = "reading" /\ "STP" \notin ctl
          /\ twi_masterBufferIndex < twi_masterBufferLength
      BY <2>4, <2>1, <2>7, <2>5
    <3>2. /\ twi_masterBufferIndex' <= twi_masterBufferLength
          /\ twi_state' = twi_state
      BY <2>5, <3>1
    <3> QED
      BY <2>4, <2>1, <2>2, <2>7, <2>5, <2>6, <3>1, <3>2
  <2>8. CASE bus = "held"
    <3>1. /\ "STP" \in ctl /\ twi_masterBufferIndex = twi_masterBufferLength
          /\ twi_state' = "IDLE" /\ "STP" \in ctl'
      BY <2>1, <2>8, <2>5
    <3> QED
      BY <2>4, <2>1, <2>2, <2>8, <2>5, <2>6, <3>1
  <2> QED
    BY <2>2, <2>7, <2>8
<1>11. CASE RxSlave
  BY <1>11 DEF RxSlave
<1>12. CASE TxMaster
  BY <1>12 DEF TxMaster, AllSent
<1>13. CASE TxMasterDone
  BY <1>13 DEF TxMasterDone, AllSent
<1>14. CASE TxSlave
  BY <1>14 DEF TxSlave, TxBytes
<1>15. CASE ArbitrationIsr
  BY <1>15 DEF ArbitrationIsr
<1>16. CASE NackIsr
  BY <1>16 DEF NackIsr
<1>17. CASE StartTxIsr
  BY <1>17 DEF StartTxIsr
<1>18. CASE StartRxIsr
  BY <1>18 DEF StartRxIsr
<1>19. CASE StopIsr
  BY <1>19 DEF StopIsr, Delivered, Dropped
<1>20. CASE HwStart
  BY <1>20 DEF HwStart
<1>21. CASE HwAddress
  BY <1>21 DEF HwAddress
<1>22. CASE HwLoad
  BY <1>22 DEF HwLoad
<1>23. CASE HwSent
  BY <1>23 DEF HwSent
<1>24. CASE HwRecv
  <2>1. /\ call = "reading" /\ UCRXBUF = Empty /\ "RX" \notin ifg
        /\ UCRXBUF' # Empty /\ "STT" \notin ctl /\ ~lost
    BY <1>24, DataIs DEF HwRecv
  <2>2. Received(twi_masterBuffer)'
    BY <1>24, <2>1 DEF HwRecv
  <2> QED
    BY <1>24, <2>1, <2>2 DEF HwRecv
<1>25. CASE HwStop
  BY <1>25 DEF HwStop
<1>26. CASE HwArbitrationLost
  BY <1>26 DEF HwArbitrationLost
<1>27. CASE RemoteStart
  BY <1>27 DEF RemoteStart
<1>28. CASE RemoteWrites
  BY <1>28 DEF RemoteWrites
<1>29. CASE RemoteReads
  BY <1>29 DEF RemoteReads
<1>30. CASE RemoteStop
  BY <1>30 DEF RemoteStop
<1>31. CASE OtherEnds
  BY <1>31 DEF OtherEnds
<1>32. CASE UNCHANGED twiVars
  BY <1>32
<1> QED
  BY <1>1, <1>2, <1>3, <1>4, <1>5, <1>6, <1>7, <1>8, <1>9, <1>10, <1>11,
     <1>12, <1>13, <1>14, <1>15, <1>16, <1>17, <1>18, <1>19, <1>20, <1>21,
     <1>22, <1>23, <1>24, <1>25, <1>26, <1>27, <1>28, <1>29, <1>30, <1>31,
     <1>32
  DEF Next, SketchAsks, SketchRuns, Isr, Hw, Remote, Quiet

-----------------------------------------------------------------------------
(* The invariant holds of a slave that no one has addressed, and of every   *)
(* state after it.                                                          *)
LEMMA InvInit == Init => IInv
<1> SUFFICES ASSUME Init PROVE IInv
  OBVIOUS
<1>1. << >> \in Seq(Bytes) /\ << >> \in Seq(Data) /\ Len(<< >>) = 0
  BY EmptySeq
<1>2. StateType
  BY DEF Init, StateType
<1>3. WroteInv
  <2>1. Len(wrote) = 0 /\ txBuffer = wrote /\ call = "idle"
    BY <1>1 DEF Init
  <2> QED
    BY <2>1 DEF Init, WroteInv, Building
<1>4. BufferType
  BY <1>1, Sizes DEF Init, BufferType
<1>5. RegisterInv /\ BusInv
  BY DEF Init, RegisterInv, BusInv, Waiting, Reading
<1>6. MessageInv
  BY <1>1 DEF Init, MessageInv
<1>7. SlaveRxInv /\ SlaveTxInv /\ MasterRxInv /\ MasterTxInv
  BY DEF Init, SlaveRxInv, SlaveTxInv, MasterRxInv, MasterTxInv, Reading
<1> QED
  BY <1>2, <1>4, <1>5, <1>6, <1>7, <1>3 DEF IInv

LEMMA InvStep == IInv /\ [Next]_twiVars => IInv'
  BY StateTypeStep, BufferTypeStep, RegisterStep, BusStep, MessageStep,
     WroteStep, SlaveRxStep, SlaveTxStep, MasterRxStep, MasterTxStep DEF IInv

(* The inductive invariant, for every value of the constants.               *)
THEOREM Invariance == Spec => []IInv
  BY InvInit, InvStep, PTL DEF Spec

LEMMA InvTypeOK == IInv => TypeOK
<1> SUFFICES ASSUME IInv PROVE TypeOK
  OBVIOUS
<1> USE DEF IInv, StateType, BufferType
<1>1. /\ twi_masterBuffer \in Upto(Data, BUFFER_LENGTH)
      /\ twi_rxBuffer \in Upto(Bytes, BUFFER_LENGTH)
      /\ twi_txBuffer \in Upto(Data, BUFFER_LENGTH)
      /\ rxBuffer \in Upto(Data, BUFFER_LENGTH)
      /\ txBuffer \in Upto(Bytes, BUFFER_LENGTH)
  BY Sizes, UptoIs
<1>2. {UCTXBUF, UCRXBUF, shift} \subseteq Data \cup {Empty}
  BY DataIs
<1>3. ~killed => /\ length <= BUFFER_LENGTH
                 /\ call # "begin_tx_length" => txBufferLength <= BUFFER_LENGTH
                 /\ call = "write_store" => txBufferIndex < BUFFER_LENGTH
  <2>1. SUFFICES ASSUME ~killed
                 PROVE  /\ length <= BUFFER_LENGTH
                        /\ call # "begin_tx_length" =>
                             txBufferLength <= BUFFER_LENGTH
                        /\ call = "write_store" =>
                             txBufferIndex < BUFFER_LENGTH
    OBVIOUS
  <2>2. Len(wrote) \in Nat /\ Len(wrote) <= BUFFER_LENGTH
    BY <2>1, LenProperties DEF WroteInv
  <2> QED
    BY <2>1, <2>2, Sizes DEF WroteInv
<1> QED
  BY <1>1, <1>2, <1>3 DEF TypeOK

(* For any lengths, no index leaves the buffer it is used in by i2c_txrx_isr *)
(* and read, nor by write and endTransmission where no request has come     *)
(* since beginTransmission (twi.c, Wire.cpp); after one Wire::write may     *)
(* store past txBuffer and the length of twi_writeTo be too long.           *)
THEOREM TypeCorrect == Spec => []TypeOK
  BY Invariance, InvTypeOK, PTL

(* onReceiveService: what is read is one message, in order, whenever the    *)
(* next one comes.                                                          *)
THEOREM MessagesReadWhole == Spec => []MessageReadWhole
<1>1. IInv => MessageReadWhole
  <2> SUFFICES ASSUME IInv PROVE MessageReadWhole
    OBVIOUS
  <2>1. got \in Seq(Data) /\ message \in Seq(Data) /\ rxBuffer \in Seq(Data)
    BY DEF IInv, BufferType
  <2>2. CASE rxBuffer = message
    BY <2>1, <2>2, PrefixIs DEF MessageReadWhole, IInv, MessageInv
  <2>3. CASE rxBuffer = << >>
    <3>1. Len(got) = 0 /\ Len(message) \in Nat
      BY <2>1, <2>3, LenProperties, EmptySeq DEF IInv, MessageInv
    <3> QED
      <4>1. Len(got) <= Len(message) /\ \A i \in 1 .. Len(got) : FALSE
        BY ONLY <3>1
      <4> QED
        BY <2>1, <4>1, PrefixIs DEF MessageReadWhole
  <2> QED
    BY <2>2, <2>3 DEF IInv, MessageInv
<1> QED
  BY Invariance, <1>1, PTL

(* onRequestService and i2c_txrx_isr: a master gets what the callback wrote *)
(* for this request, from the first byte on, for every number of bytes      *)
(* clocked out, where no transmission was being built and it fits.          *)
THEOREM RequestsAnswered == Spec => []RequestAnswered
<1>1. IInv => RequestAnswered
  <2> SUFFICES ASSUME IInv, bus = "rout", ~diverted,
                      Len(reply) \in 1 .. BUFFER_LENGTH,
                      NEW i \in 1 .. Min({Len(wire), Len(reply)})
               PROVE  wire[i] = reply[i]
    BY DEF RequestAnswered
  <2>1. Len(wire) \in Nat /\ Len(reply) \in Nat
    BY LenProperties DEF IInv, BufferType
  <2>2. i \in 1 .. Len(wire) /\ i <= Len(reply)
    <3>1. Min({Len(wire), Len(reply)})
            = IF Len(wire) <= Len(reply) THEN Len(wire) ELSE Len(reply)
      BY <2>1, MinTwo
    <3> QED
      BY <2>1, <3>1
  <2>3. wire # << >>
    BY <2>2
  <2>4. "START" \notin ifg
    BY <2>3 DEF IInv, BusInv
  <2> QED
    BY <2>2, <2>4 DEF IInv, SlaveTxInv, Sends
<1> QED
  BY Invariance, <1>1, PTL

(* twi_readFrom: a slave is clocked for no more bytes than asked, and       *)
(* requestFrom returns what it sent, all of it or nothing.                  *)
THEOREM ReadsAsAsked == Spec => ReadAsAsked
<1>1. ASSUME IInv, HwRecv
      PROVE  Len(wire') <= twi_masterBufferLength + 1
  <2>1. Reading /\ bus = "in" /\ "STT" \notin ctl
    BY <1>1 DEF HwRecv, IInv, BusInv, MasterRxInv
  <2>2. call = "reading" /\ "RX" \notin ifg /\ ~lost
    BY <1>1, <2>1 DEF HwRecv, Settled, Pending, Reading, IInv, BusInv,
                      MasterRxInv
  <2>3. wire = twi_masterBuffer /\ Len(wire) <= twi_masterBufferLength
    BY <1>1, <2>1, <2>2 DEF IInv, MasterRxInv, RegisterInv, Received,
                            BufferType
  <2>4. /\ wire \in Seq(Data) /\ UCRXBUF' \in Data
        /\ twi_masterBufferLength \in Int
    BY <1>1, DataIs DEF HwRecv, IInv, BufferType
  <2>5. Len(wire') = Len(wire) + 1 /\ Len(wire) \in Nat
    BY <1>1, <2>4, AppendProperties, LenProperties DEF HwRecv
  <2> QED
    BY <2>3, <2>4, <2>5
<1>2. IInv /\ [Next]_twiVars =>
        [/\ HwRecv => Len(wire') <= twi_masterBufferLength + 1
         /\ ReadReturns /\ ~lost =>
              /\ rxBuffer' = wire
              /\ Len(wire) \in {0, twi_masterBufferLength + 1}]_twiVars
  BY <1>1, ReadDone, SMTT(30)
<1> QED
  BY Invariance, <1>2, PTL DEF Spec, ReadAsAsked

-----------------------------------------------------------------------------
(* Between start and stop, wire, shift register and UCB0TXBUF hold the      *)
(* first bytes of the copy; the step out of a call leaves the bus.          *)
LEMMA SendingStep == ASSUME Stops \subseteq {TRUE}
  PROVE  IInv /\ SendingInv /\ [Next]_twiVars => SendingInv'
<1> SUFFICES ASSUME IInv, SendingInv, [Next]_twiVars PROVE SendingInv'
  OBVIOUS
<1> USE DEF IInv, StateType, BusInv, RegisterInv, Waiting, Reading,
      BufferType, MasterTxInv, SendingInv, Moved, Held, Sends, twiVars, twi,
      master, slave, toRead, toWrite, txBufferIndices, asked, regs, doing,
      Settled, Pending, StatePending, Handler
<1>1. CASE Quiet
  BY <1>1, QuietIs
<1>2. CASE BeginState
  BY <1>2 DEF BeginState, Sketch
<1>3. CASE BeginReset
  BY <1>3 DEF BeginReset, Sketch, Reset
<1>4. CASE EndUnsent
  BY <1>4, TwiAssumption DEF EndUnsent, Sketch, Reset, Ended
<1>5. CASE EndTransmission
  BY <1>5 DEF EndTransmission, Sketch, Reset
<1>6. CASE RequestFrom
  BY <1>6 DEF RequestFrom, Sketch, Reset
<1>7. CASE WriteReturns
  BY <1>7 DEF WriteReturns, Sketch, Ended, Forgotten
<1>8. CASE StopSingle
  BY <1>8 DEF StopSingle, Sketch
<1>9. CASE ReadReturns
  BY <1>9 DEF ReadReturns, Sketch, MasterRxInv
<1>10. CASE RxMaster
  BY <1>10 DEF RxMaster, StopDue
<1>11. CASE RxSlave
  BY <1>11 DEF RxSlave
<1>12. CASE TxMaster
  <2>1. call = "writing" /\ bus \in {"addr", "out"} /\ UCTXBUF = Empty
    BY <1>12 DEF TxMaster
  <2>2. Moved = twi_masterBufferIndex /\ Sends(twi_masterBuffer)
    BY <1>12, <2>1 DEF TxMaster
  <2>3. UCTXBUF' # Empty /\ UCTXBUF' = twi_masterBuffer[Moved + 1]
    <3>1. twi_masterBufferIndex + 1 \in 1 .. Len(twi_masterBuffer)
      BY <1>12, <2>1 DEF TxMaster, AllSent
    <3>2. twi_masterBuffer[twi_masterBufferIndex + 1] \in Data
      BY <3>1, ElementOfSeq
    <3> QED
      BY <1>12, <2>2, <3>2, DataIs DEF TxMaster
  <2>4. Moved = Len(wire) + Held(shift) /\ Moved' = Moved + 1
    BY <1>12, <2>1, <2>3 DEF TxMaster
  <2>5. Sends(twi_masterBuffer)'
    BY <1>12, <2>2, <2>3, <2>4 DEF TxMaster
  <2>6. /\ Moved' = twi_masterBufferIndex' /\ "TX" \notin ifg'
        /\ twi_state' = "MTX" /\ twi_error' = twi_error
        /\ UNCHANGED << bus, wire, call, twi_sendStop, lost >>
    BY <1>12, <2>2, <2>4 DEF TxMaster
  <2> HIDE DEF Moved, Sends
  <2> QED
    BY <2>1, <2>3, <2>5, <2>6, <1>12 DEF TxMaster
<1>13. CASE TxMasterDone
  <2>1. /\ call = "writing" /\ bus \in {"addr", "out"} /\ UCTXBUF = Empty
        /\ ~lost /\ twi_error = 0
    BY <1>13 DEF TxMasterDone
  <2>2. Moved = twi_masterBufferIndex /\ Sends(twi_masterBuffer)
    BY <1>13, <2>1 DEF TxMasterDone
  <2>3. twi_masterBufferIndex = Len(twi_masterBuffer)
    BY <1>13, <2>1 DEF TxMasterDone, AllSent
  <2>4. bus = "out"
    <3>1. Len(twi_masterBuffer) # 0
      BY <2>1
    <3> QED
      BY <1>13, <2>1, <2>3, <3>1 DEF TxMasterDone
  <2>5. Len(wire) + Held(shift) = Len(twi_masterBuffer)
    BY <2>1, <2>2, <2>3
  <2>6. /\ ctl' = ctl \cup {"STP"} /\ twi_state' = "IDLE" /\ twi_error' = 0
        /\ Sends(twi_masterBuffer)'
        /\ (Len(wire) + Held(shift) = Len(twi_masterBuffer))'
        /\ UNCHANGED << bus, call, twi_sendStop, ifg >>
    BY <1>13, <2>1, <2>2, <2>5 DEF TxMasterDone
  <2> HIDE DEF Moved, Sends, Held
  <2> QED
    BY <2>1, <2>4, <2>6
<1>14. CASE TxSlave
  <2>1. CASE call = "writing"
    <3>1. bus = "out" /\ twi_state = "IDLE" /\ twi_error = 0 /\ ~lost
      BY <1>14, <2>1 DEF TxSlave
    <3>2. /\ Len(wire) + Held(shift) = Len(twi_masterBuffer)
          /\ Sends(twi_masterBuffer)
      BY <1>14, <2>1, <3>1 DEF TxSlave
    <3>3. Sends(twi_masterBuffer)'
      <4>1. UNCHANGED << wire, shift, twi_masterBuffer >>
        BY <1>14 DEF TxSlave
      <4>2. Len(wire) + Held(shift) + 1 > Len(twi_masterBuffer)
        BY ONLY <3>2, LenProperties, twi_masterBuffer \in Seq(Data)
      <4> QED
        BY ONLY <3>2, <4>1, <4>2, LenProperties, wire \in Seq(Data),
                twi_masterBuffer \in Seq(Data) DEF Sends, Held
    <3>4. (Len(wire) + Held(shift) = Len(twi_masterBuffer))'
      BY <1>14, <3>2 DEF TxSlave
    <3> HIDE DEF Moved, Sends, Held
    <3> QED
      BY <1>14, <2>1, <3>1, <3>3, <3>4 DEF TxSlave
  <2>2. CASE call # "writing"
    BY <1>14, <2>2 DEF TxSlave
  <2> QED
    BY <2>1, <2>2
<1>15. CASE ArbitrationIsr
  BY <1>15 DEF ArbitrationIsr
<1>16. CASE NackIsr
  BY <1>16 DEF NackIsr
<1>17. CASE StartTxIsr
  BY <1>17 DEF StartTxIsr
<1>18. CASE StartRxIsr
  BY <1>18 DEF StartRxIsr
<1>19. CASE StopIsr
  BY <1>19 DEF StopIsr, Delivered, Dropped
<1>20. CASE HwStart
  <2>1. CASE call = "writing"
    <3>1. /\ twi_state = "MTX" /\ bus = "free" /\ twi_masterBufferIndex = 0
          /\ UCTXBUF = Empty /\ shift = Empty
      BY <1>20, <2>1 DEF HwStart
    <3>2. Moved' = 0 /\ Sends(twi_masterBuffer)'
      BY <1>20, <3>1 DEF HwStart
    <3> HIDE DEF Moved, Sends, Held
    <3> QED
      BY <1>20, <2>1, <3>1, <3>2 DEF HwStart
  <2>2. CASE call # "writing"
    BY <1>20, <2>2 DEF HwStart
  <2> QED
    BY <2>1, <2>2
<1>21. CASE HwAddress
  <2>1. /\ bus = "addr" /\ bus' \in {"out", "in", "held"}
        /\ bus' = "held" => "NACK" \in ifg'
        /\ bus' # "held" => ifg' = ifg
        /\ "TR" \in ctl => bus' # "in"
        /\ "TX" \notin ifg /\ "TX" \notin ifg'
        /\ UNCHANGED << twi, master, call, lost >>
    BY <1>21 DEF HwAddress
  <2>2. /\ Sends(twi_masterBuffer) => Sends(twi_masterBuffer)'
        /\ Moved' = Moved
    BY <1>21 DEF HwAddress
  <2>3. call = "writing" => twi_state = "MTX" /\ UCTXBUF' = UCTXBUF
    BY <1>21, <2>1 DEF HwAddress
  <2>4. call = "writing" => UCTXBUF # Empty
    <3> SUFFICES ASSUME call = "writing", UCTXBUF = Empty PROVE FALSE
      OBVIOUS
    <3>1. shift = Empty /\ wire = << >> /\ twi_masterBufferIndex = Moved
      BY <2>1, <2>3
    <3>2. twi_masterBufferIndex = 1
      BY <2>1, <2>3
    <3> QED
      BY <3>1, <3>2, EmptySeq
  <2> HIDE DEF Moved, Sends, Held
  <2> QED
    BY <2>1, <2>2, <2>3, <2>4
<1>22. CASE HwLoad
  BY <1>22, SMTT(30) DEF HwLoad
<1>23. CASE HwSent
  <2>1. /\ bus = "out" /\ "TX" \notin ifg /\ "NACK" \notin ifg /\ ~lost
        /\ shift \in Data /\ shift # Empty /\ wire \in Seq(Data)
        /\ call = "writing"
        /\ UNCHANGED << twi, master, ctl, UCTXBUF, call, lost >>
    BY <1>23 DEF HwSent, MasterRxInv
  <2>2. Sends(twi_masterBuffer)
    BY <2>1
  <2>3. CASE wire' = Append(wire, shift) /\ UNCHANGED << bus, ifg >>
    <3>1. Sends(twi_masterBuffer)' /\ Moved' = Moved
          /\ (Len(wire) + Held(shift))' = Len(wire) + Held(shift)
      <4>1. shift' = Empty /\ UNCHANGED << UCTXBUF, twi_masterBuffer >>
        BY <1>23, <2>1 DEF HwSent
      <4>2. /\ Len(wire') = Len(wire) + 1 /\ Len(wire) \in Nat
            /\ \A i \in 1 .. Len(wire) : wire'[i] = wire[i]
            /\ wire'[Len(wire) + 1] = shift
        BY ONLY <2>1, <2>3, AppendProperties, LenProperties
      <4> QED
        BY ONLY <2>1, <2>2, <4>1, <4>2 DEF Sends, Moved, Held
    <3> HIDE DEF Moved, Sends, Held
    <3> QED
      BY <2>1, <2>3, <3>1
  <2>4. CASE bus' = "held" /\ ifg' = ifg \cup {"NACK"}
    BY <2>1, <2>4
  <2> QED
    BY <1>23, <2>3, <2>4 DEF HwSent
<1>24. CASE HwRecv
  BY <1>24 DEF HwRecv
<1>25. CASE HwStop
  BY <1>25 DEF HwStop
<1>26. CASE HwArbitrationLost
  BY <1>26 DEF HwArbitrationLost
<1>27. CASE RemoteStart
  BY <1>27 DEF RemoteStart
<1>28. CASE RemoteWrites
  BY <1>28 DEF RemoteWrites
<1>29. CASE RemoteReads
  BY <1>29 DEF RemoteReads
<1>30. CASE RemoteStop
  BY <1>30 DEF RemoteStop
<1>31. CASE OtherEnds
  BY <1>31 DEF OtherEnds
<1>32. CASE UNCHANGED twiVars
  BY <1>32
<1> QED
  BY <1>1, <1>2, <1>3, <1>4, <1>5, <1>6, <1>7, <1>8, <1>9, <1>10, <1>11,
     <1>12, <1>13, <1>14, <1>15, <1>16, <1>17, <1>18, <1>19, <1>20, <1>21,
     <1>22, <1>23, <1>24, <1>25, <1>26, <1>27, <1>28, <1>29, <1>30, <1>31,
     <1>32
  DEF Next, SketchAsks, SketchRuns, Isr, Hw, Remote, Quiet

(* twi_writeTo: the slave accepts the bytes written, in order, and success  *)
(* means all of them. Where a transmission may end in a second start, a     *)
(* slave may accept the byte left in UCB0TXBUF, so that every               *)
(* endTransmission must ask for a stop.                                     *)
THEOREM WritesAsAsked ==
  ASSUME Stops \subseteq {TRUE}
  PROVE  Spec => WrittenAsAsked
<1>1. Init => SendingInv
  BY DEF Init, SendingInv, Waiting
<1>2. Spec => [](IInv /\ SendingInv)
  BY <1>1, InvInit, InvStep, SendingStep, PTL DEF Spec
<1>3. ASSUME IInv, SendingInv, HwSent, ~killed
      PROVE  IsPrefix(wire', wrote)
  <2> USE DEF IInv, BufferType
  <2>1. /\ bus = "out" /\ "NACK" \notin ifg /\ ~lost
        /\ call = "writing" /\ shift \in Data /\ shift # Empty
    BY <1>3 DEF HwSent, Settled, Pending, StatePending, SendingInv, BusInv,
                MasterRxInv, Waiting, Reading
  <2>2. wrote = twi_masterBuffer /\ twi_masterBuffer \in Seq(Bytes)
    BY <1>3, <2>1 DEF MasterTxInv, WroteInv
  <2>3. Sends(wrote) /\ Len(wire) + 1 <= Len(wrote)
    <3>1. CASE twi_state = "MTX"
      <4>1. Moved = twi_masterBufferIndex /\ Sends(wrote)
        BY <1>3, <2>1, <2>2, <3>1 DEF SendingInv
      <4>2. twi_masterBufferIndex <= Len(wrote)
        BY <1>3, <2>1, <2>2 DEF MasterTxInv
      <4>3. Len(wire) \in Nat /\ Len(wrote) \in Nat
            /\ twi_masterBufferIndex \in Nat
        BY <1>3, <2>2, LenProperties
      <4> QED
        BY <2>1, <4>1, <4>2, <4>3 DEF Moved, Held
    <3>2. CASE twi_state = "IDLE"
      <4>1. Len(wire) + Held(shift) = Len(wrote) /\ Sends(wrote)
        BY <1>3, <2>1, <2>2, <3>2 DEF SendingInv
      <4> QED
        BY <2>1, <4>1 DEF Held
    <3> QED
      BY <1>3, <2>1, <3>1, <3>2 DEF MasterTxInv
  <2>4. /\ wire \in Seq(Data) /\ wrote \in Seq(Data)
        /\ Len(wire) \in Nat /\ Len(wrote) \in Nat
    BY <1>3, <2>2, DataIs, SeqMonotonic, LenProperties
  <2>5. wire' = Append(wire, shift) \/ wire' = wire
    BY <1>3 DEF HwSent
  <2>6. /\ wire' \in Seq(Data) /\ Len(wire') <= Len(wrote)
        /\ \A i \in 1 .. Len(wire') : wire'[i] = wrote[i]
    <3>1. CASE wire' = wire
      BY ONLY <2>3, <2>4, <3>1 DEF Sends
    <3>2. CASE wire' = Append(wire, shift)
      BY ONLY <2>1, <2>3, <2>4, <3>2, AppendProperties, SMTT(30) DEF Sends
    <3> QED
      BY <2>5, <3>1, <3>2
  <2> QED
    BY ONLY <2>4, <2>6, PrefixIs
<1>4. ASSUME IInv, SendingInv, WriteReturns, twi_error = 0, ~killed, ~lost
      PROVE  wire = wrote
  <2> USE DEF IInv, BufferType
  <2>1. /\ call = "writing" /\ twi_state = "IDLE" /\ "STP" \notin ctl
        /\ "NACK" \notin ifg
    BY <1>4 DEF WriteReturns, Sketch, Pending, StatePending, SendingInv
  <2>2. wrote = twi_masterBuffer
    BY <1>4, <2>1 DEF MasterTxInv, WroteInv
  <2>3. bus # "out" /\ Len(wire) + Held(shift) = Len(wrote) /\ Sends(wrote)
    BY <1>4, <2>1, <2>2 DEF SendingInv
  <2>4. shift = Empty
    BY <1>4, <2>1, <2>3 DEF SendingInv, RegisterInv
  <2>5. wire \in Seq(Data) /\ wrote \in Seq(Data)
    <3>1. wire \in Seq(Data) /\ wrote \in Seq(Bytes)
      BY <1>4
    <3> QED
      BY <3>1, DataIs, SeqMonotonic
  <2>6. Len(wire) = Len(wrote) /\ Len(wire) \in Nat
    BY ONLY <2>3, <2>4, <2>5, LenProperties DEF Held
  <2>7. \A i \in 1 .. Len(wire) : wire[i] = wrote[i]
    BY ONLY <2>3, <2>6 DEF Sends
  <2> QED
    BY <2>5, <2>6, <2>7, SeqEqual
<1>5. ASSUME IInv, EndUnsent, ~killed
      PROVE  wrote = << >>
  <2>1. call = "end" /\ length \notin 1 .. BUFFER_LENGTH
    BY <1>5 DEF EndUnsent, Sketch
  <2>2. /\ length = Len(wrote) /\ Len(wrote) <= BUFFER_LENGTH
        /\ wrote \in Seq(Bytes)
    BY <1>5, <2>1 DEF IInv, WroteInv, BufferType
  <2>3. Len(wrote) = 0
    BY <2>1, <2>2, LenProperties
  <2> QED
    BY <2>2, <2>3, EmptySeq
<1>6. IInv /\ SendingInv /\ [Next]_twiVars =>
        [/\ HwSent /\ ~killed => IsPrefix(wire', wrote)
         /\ EndUnsent /\ ~killed => wrote = << >>
         /\ WriteReturns /\ twi_error = 0 /\ ~killed /\ ~lost =>
              wire = wrote]_twiVars
  BY <1>3, <1>4, <1>5
<1> QED
  BY <1>2, <1>6, PTL DEF Spec, WrittenAsAsked
=============================================================================
