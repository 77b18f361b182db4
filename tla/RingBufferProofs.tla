-------------------------- MODULE RingBufferProofs -------------------------
(***************************************************************************)
(* Lemmas about the ring of RingBuffer, for every SERIAL_BUFFER_SIZE: what *)
(* storing, publishing, advancing and discarding do to the sequence of     *)
(* bytes the ring stands for.  Modular arithmetic is used in this module   *)
(* alone; the proofs above it only cite these lemmas.                      *)
(***************************************************************************)
EXTENDS RingBuffer, TLAPS

Size == SERIAL_BUFFER_SIZE

(* Every index expression of the code stays below twice the ring's size,   *)
(* where % takes the size away at most once.                               *)
LEMMA ModOnce ==
  ASSUME NEW a \in 0 .. 2 * Size - 1
  PROVE  a % Size = IF a < Size THEN a ELSE a - Size
  BY SizeAssumption, SMTT(60) DEF Size

(* The slot after i, as store_char, write, read and uart_tx_isr compute it.*)
LEMMA SuccIs ==
  ASSUME NEW i \in Index
  PROVE  /\ Succ(i) = IF i = Size - 1 THEN 0 ELSE i + 1
         /\ Succ(i) \in Index
<1>1. i + 1 \in 0 .. 2 * Size - 1
  BY SizeAssumption DEF Index, Size
<1>2. (i + 1) % Size = IF i + 1 < Size THEN i + 1 ELSE i + 1 - Size
  BY <1>1, ModOnce, SizeAssumption DEF Size, Index
<1> QED
  BY <1>2, SizeAssumption DEF Succ, Index, Size

(* HardwareSerial::available counts the slots from tail up to head.        *)
LEMMA AvailableIs ==
  ASSUME NEW B, NEW r \in RingType(B)
  PROVE  /\ Available(r) = IF r.head >= r.tail THEN r.head - r.tail
                           ELSE Size + r.head - r.tail
         /\ Available(r) \in Index
         /\ Available(r) = 0 <=> IsEmpty(r)
         /\ Available(r) = Size - 1 <=> IsFull(r)
<1>1. r.head \in Index /\ r.tail \in Index
  BY DEF RingType
<1>2. Size + r.head - r.tail \in 0 .. 2 * Size - 1
  BY <1>1, SizeAssumption DEF Index, Size
<1>3. Available(r) = IF Size + r.head - r.tail < Size
                       THEN Size + r.head - r.tail
                       ELSE Size + r.head - r.tail - Size
  BY <1>2, ModOnce, SizeAssumption, <1>1 DEF Available, Size, Index
<1>4. Succ(r.head) = IF r.head = Size - 1 THEN 0 ELSE r.head + 1
  BY <1>1, SuccIs
<1> QED
  BY <1>1, <1>3, <1>4, SizeAssumption DEF IsEmpty, IsFull, Index, Size

(* The slot of the k-th oldest byte, or of the byte stored next.           *)
Slot(r, k) == (r.tail + k - 1) % Size

LEMMA SlotIs ==
  ASSUME NEW B, NEW r \in RingType(B), NEW k \in 1 .. Size
  PROVE  /\ Slot(r, k) = IF r.tail + k - 1 < Size THEN r.tail + k - 1
                         ELSE r.tail + k - 1 - Size
         /\ Slot(r, k) \in Index
<1>1. r.tail \in Index
  BY DEF RingType
<1>2. r.tail + k - 1 \in 0 .. 2 * Size - 1
  BY <1>1, SizeAssumption DEF Index, Size
<1>3. Slot(r, k) = IF r.tail + k - 1 < Size THEN r.tail + k - 1
                   ELSE r.tail + k - 1 - Size
  BY <1>1, <1>2, ModOnce, SizeAssumption DEF Slot, Size, Index
<1> QED
  BY <1>1, <1>3, SizeAssumption DEF Index, Size

(* The head slot is the one after the newest byte, and is never in use.    *)
LEMMA HeadSlot ==
  ASSUME NEW B, NEW r \in RingType(B)
  PROVE  /\ Slot(r, Available(r) + 1) = r.head
         /\ \A k \in 1 .. Available(r) : Slot(r, k) # r.head
<1>1. r.head \in Index /\ r.tail \in Index
  BY DEF RingType
<1>2. Available(r) \in Index
  BY AvailableIs
<1>3. Available(r) + 1 \in 1 .. Size
  BY <1>2, SizeAssumption DEF Index, Size
<1>4. Slot(r, Available(r) + 1) = r.head
  <2>1. Available(r) = IF r.head >= r.tail THEN r.head - r.tail
                       ELSE Size + r.head - r.tail
    BY AvailableIs
  <2>2. Slot(r, Available(r) + 1) =
          IF r.tail + (Available(r) + 1) - 1 < Size
            THEN r.tail + (Available(r) + 1) - 1
            ELSE r.tail + (Available(r) + 1) - 1 - Size
    BY <1>3, SlotIs
  <2> QED
    BY <1>1, <2>1, <2>2, SizeAssumption DEF Index, Size
<1>5. ASSUME NEW k \in 1 .. Available(r)
      PROVE  Slot(r, k) # r.head
  <2>1. k \in 1 .. Size
    BY <1>2, SizeAssumption DEF Index, Size
  <2> QED
    BY <1>1, <1>2, <2>1, AvailableIs, SlotIs, SizeAssumption DEF Index, Size
<1> QED
  BY <1>4, <1>5

-----------------------------------------------------------------------------
(* The contents, slot by slot.                                             *)
LEMMA ContentsIs ==
  ASSUME NEW B, NEW r \in RingType(B)
  PROVE  /\ Contents(r) \in Seq(B)
         /\ Len(Contents(r)) = Available(r)
         /\ \A k \in 1 .. Available(r) :
              Contents(r)[k] = r.buffer[Slot(r, k)]
<1>1. Available(r) \in Nat /\ \A k \in 1 .. Available(r) : k \in 1 .. Size
  BY AvailableIs, SizeAssumption DEF Index, Size
<1>2. Contents(r) = [k \in 1 .. Available(r) |-> r.buffer[Slot(r, k)]]
  BY DEF Contents, Slot, Size
<1>3. \A k \in 1 .. Available(r) : r.buffer[Slot(r, k)] \in B
  BY <1>1, SlotIs DEF RingType
<1> QED
  BY <1>1, <1>2, <1>3

(* The oldest byte is the first of the contents.                           *)
LEMMA OldestIsFirst ==
  ASSUME NEW B, NEW r \in RingType(B), ~IsEmpty(r)
  PROVE  /\ Available(r) \in Nat /\ Available(r) >= 1
         /\ Oldest(r) = Contents(r)[1]
         /\ Oldest(r) \in B
<1>1. Available(r) \in Nat /\ Available(r) >= 1
  BY AvailableIs DEF Index
<1>2. r.tail \in Index /\ r.buffer \in [Index -> B]
  BY DEF RingType
<1>3. 1 \in 1 .. Size
  BY SizeAssumption DEF Size
<1>4. Slot(r, 1) = r.tail
  BY <1>2, <1>3, SlotIs, SizeAssumption DEF Index, Size
<1> QED
  BY <1>1, <1>2, <1>4, ContentsIs DEF Oldest

(* Writing the free slot changes nothing that the ring stands for, even    *)
(* when the ring is full.                                                  *)
LEMMA PutSlotKeepsContents ==
  ASSUME NEW B, NEW r \in RingType(B), NEW c \in B
  PROVE  /\ PutSlot(r, c) \in RingType(B)
         /\ Available(PutSlot(r, c)) = Available(r)
         /\ Contents(PutSlot(r, c)) = Contents(r)
         /\ PutSlot(r, c).buffer[r.head] = c
         /\ PutSlot(r, c).head = r.head /\ PutSlot(r, c).tail = r.tail
<1> DEFINE s == PutSlot(r, c)
<1>1. s \in RingType(B) /\ s.head = r.head /\ s.tail = r.tail
  BY DEF PutSlot, RingType
<1>2. s.buffer = [r.buffer EXCEPT ![r.head] = c] /\ s.buffer[r.head] = c
  BY DEF PutSlot, RingType
<1>3. Available(s) = Available(r)
  BY <1>1 DEF Available
<1>4. \A k \in 1 .. Available(r) : Slot(s, k) = Slot(r, k)
  BY <1>1 DEF Slot
<1>5. ASSUME NEW k \in 1 .. Available(r)
      PROVE  s.buffer[Slot(s, k)] = r.buffer[Slot(r, k)]
  <2>1. Slot(r, k) # r.head
    BY HeadSlot
  <2>2. k \in 1 .. Size
    BY AvailableIs, SizeAssumption DEF Index, Size
  <2>3. Slot(r, k) \in Index
    BY <2>2, SlotIs
  <2> QED
    BY <1>2, <1>4, <2>1, <2>3 DEF RingType
<1>6. Contents(s) = Contents(r)
  BY <1>3, <1>5 DEF Contents, Slot, Size
<1> QED
  BY <1>1, <1>2, <1>3, <1>6

(* Publishing the head of a ring that is not full appends the byte in the  *)
(* head slot.                                                              *)
LEMMA PublishAppends ==
  ASSUME NEW B, NEW r \in RingType(B), ~IsFull(r)
  PROVE  /\ PublishHead(r) \in RingType(B)
         /\ Available(PublishHead(r)) = Available(r) + 1
         /\ Contents(PublishHead(r)) = Append(Contents(r), r.buffer[r.head])
         /\ ~IsEmpty(PublishHead(r))
         /\ PublishHead(r).tail = r.tail
<1> DEFINE s == PublishHead(r)
<1>1. r.head \in Index /\ r.tail \in Index /\ r.buffer[r.head] \in B
  BY DEF RingType
<1>2. s \in RingType(B)
  BY <1>1, SuccIs DEF PublishHead, RingType
<1>3. s.head = Succ(r.head) /\ s.tail = r.tail /\ s.buffer = r.buffer
  BY DEF PublishHead, RingType
<1>4. Available(s) = Available(r) + 1
  <2>1. Available(r) = IF r.head >= r.tail THEN r.head - r.tail
                       ELSE Size + r.head - r.tail
    BY AvailableIs
  <2>2. Available(s) = IF s.head >= s.tail THEN s.head - s.tail
                       ELSE Size + s.head - s.tail
    BY <1>2, AvailableIs
  <2>3. Succ(r.head) = IF r.head = Size - 1 THEN 0 ELSE r.head + 1
    BY <1>1, SuccIs
  <2> QED
    BY <1>1, <1>3, <2>1, <2>2, <2>3, SizeAssumption DEF IsFull, Index, Size
<1>5. Available(r) \in Nat
  BY AvailableIs DEF Index
<1>6. \A k \in 1 .. Available(s) : Slot(s, k) = Slot(r, k)
  BY <1>3 DEF Slot
<1>7. \A k \in 1 .. Available(s) :
        Contents(s)[k] = Append(Contents(r), r.buffer[r.head])[k]
  <2> TAKE k \in 1 .. Available(s)
  <2>1. Contents(s)[k] = r.buffer[Slot(r, k)]
    BY <1>2, <1>3, <1>6, ContentsIs
  <2>2. CASE k = Available(r) + 1
    BY <1>1, <1>5, <2>1, <2>2, HeadSlot, ContentsIs
  <2>3. CASE k \in 1 .. Available(r)
    BY <1>1, <1>5, <2>1, <2>3, ContentsIs
  <2>4. k = Available(r) + 1 \/ k \in 1 .. Available(r)
    BY <1>4, <1>5
  <2> QED
    BY <2>2, <2>3, <2>4
<1>8. Contents(s) = Append(Contents(r), r.buffer[r.head])
  BY <1>1, <1>2, <1>4, <1>5, <1>7, ContentsIs
<1>9. ~IsEmpty(s)
  BY <1>2, <1>4, <1>5, AvailableIs
<1> QED
  BY <1>2, <1>3, <1>4, <1>8, <1>9

(* Advancing the tail of a ring that is not empty drops its first byte.    *)
LEMMA AdvanceTakesFirst ==
  ASSUME NEW B, NEW r \in RingType(B), ~IsEmpty(r)
  PROVE  /\ AdvanceTail(r) \in RingType(B)
         /\ Available(AdvanceTail(r)) = Available(r) - 1
         /\ Contents(AdvanceTail(r)) = Tail(Contents(r))
         /\ AdvanceTail(r).head = r.head
<1> DEFINE s == AdvanceTail(r)
<1>1. r.head \in Index /\ r.tail \in Index
  BY DEF RingType
<1>2. s \in RingType(B)
  BY <1>1, SuccIs DEF AdvanceTail, RingType
<1>3. s.tail = Succ(r.tail) /\ s.head = r.head /\ s.buffer = r.buffer
  BY DEF AdvanceTail, RingType
<1>4. Succ(r.tail) = IF r.tail = Size - 1 THEN 0 ELSE r.tail + 1
  BY <1>1, SuccIs
<1>5. Available(s) = Available(r) - 1
  <2>1. Available(r) = IF r.head >= r.tail THEN r.head - r.tail
                       ELSE Size + r.head - r.tail
    BY AvailableIs
  <2>2. Available(s) = IF s.head >= s.tail THEN s.head - s.tail
                       ELSE Size + s.head - s.tail
    BY <1>2, AvailableIs
  <2> QED
    BY <1>1, <1>3, <1>4, <2>1, <2>2, SizeAssumption DEF IsEmpty, Index, Size
<1>6. Available(r) \in Nat /\ Available(r) >= 1
  BY OldestIsFirst
<1>7. ASSUME NEW k \in 1 .. Available(s)
      PROVE  Contents(s)[k] = Contents(r)[k + 1]
  <2>1. k \in 1 .. Size /\ k + 1 \in 1 .. Size /\ k + 1 \in 1 .. Available(r)
    BY <1>5, <1>6, AvailableIs, SizeAssumption DEF Index, Size
  <2>2. Slot(s, k) = IF s.tail + k - 1 < Size THEN s.tail + k - 1
                     ELSE s.tail + k - 1 - Size
    BY <1>2, <2>1, SlotIs
  <2>3. Slot(r, k + 1) = IF r.tail + (k + 1) - 1 < Size THEN r.tail + (k + 1) - 1
                         ELSE r.tail + (k + 1) - 1 - Size
    BY <2>1, SlotIs
  <2>4. Slot(s, k) = Slot(r, k + 1)
    BY <1>1, <1>3, <1>4, <2>1, <2>2, <2>3, SizeAssumption DEF Index, Size
  <2> QED
    BY <1>2, <1>3, <2>1, <2>4, ContentsIs
<1>8. Contents(s) = Tail(Contents(r))
  BY <1>2, <1>5, <1>6, <1>7, ContentsIs
<1> QED
  BY <1>2, <1>3, <1>5, <1>8

(* end's assignment of the receive head empties the ring.                  *)
LEMMA DiscardEmpties ==
  ASSUME NEW B, NEW r \in RingType(B)
  PROVE  /\ Discard(r) \in RingType(B)
         /\ Available(Discard(r)) = 0
         /\ Contents(Discard(r)) = << >>
<1>1. Discard(r) \in RingType(B) /\ IsEmpty(Discard(r))
  BY DEF Discard, RingType, IsEmpty
<1>2. Available(Discard(r)) = 0
  BY <1>1, AvailableIs
<1> QED
  BY <1>1, <1>2, ContentsIs

(* store_char appends the byte, or leaves a full ring alone.               *)
LEMMA StoreCharAppends ==
  ASSUME NEW B, NEW r \in RingType(B), NEW c \in B
  PROVE  /\ StoreChar(r, c) \in RingType(B)
         /\ IsFull(r) => StoreChar(r, c) = r
         /\ ~IsFull(r) =>
              /\ Available(StoreChar(r, c)) = Available(r) + 1
              /\ Contents(StoreChar(r, c)) = Append(Contents(r), c)
              /\ StoreChar(r, c).tail = r.tail
              /\ ~IsEmpty(StoreChar(r, c))
<1>1. CASE IsFull(r)
  BY <1>1 DEF StoreChar
<1>2. CASE ~IsFull(r)
  <2> DEFINE s == PutSlot(r, c)
  <2>1. /\ s \in RingType(B) /\ s.head = r.head /\ s.tail = r.tail
        /\ s.buffer[s.head] = c
        /\ Available(s) = Available(r) /\ Contents(s) = Contents(r)
    BY PutSlotKeepsContents
  <2>2. ~IsFull(s)
    BY <1>2, <2>1 DEF IsFull
  <2>3. StoreChar(r, c) = PublishHead(s)
    BY <1>2 DEF StoreChar
  <2> HIDE DEF s
  <2> QED
    BY <1>2, <2>1, <2>2, <2>3, PublishAppends
<1> QED
  BY <1>1, <1>2
=============================================================================
