------------------------- MODULE TimerSerialProofs -------------------------
(***************************************************************************)
(* The bytes of the timer's serial port, for every number of ticks per bit *)
(* that four divides, every number of data bits and every set of bytes:    *)
(* what the peer hears is what write accepted (HeardAsWritten), and what   *)
(* the receive handler stores is what the peer sent (StoredAsSent), at any *)
(* phase of the two ends and at any tick between a match and its handler.  *)
(*                                                                         *)
(* Each direction has its own invariant.  It says in which phase of a bit  *)
(* the end that samples is, by how much its timer and the sender's differ  *)
(* there, and that the bits gathered so far and those still to come make up*)
(* the byte: data + mask * rest = byte + STOP_BIT, where rest is what the  *)
(* sender has left to shift out with the stop bit on top.  A sample moves  *)
(* the lowest bit of rest to data and doubles mask, which leaves the sum as*)
(* it is.  The other direction enters neither, nor does the rest of the    *)
(* program: TimerA0Proofs lifts both to the composition.                   *)
(*                                                                         *)
(* Masks are powers of two, which Weight gives; that they are ordered, and *)
(* that none but the last leads out of a byte, is by induction, on the set *)
(* of numbers for which it holds.                                          *)
(***************************************************************************)
EXTENDS TimerSerial, RingBufferProofs, WellFoundedInduction, TLAPS

(* Induction on a set of numbers: what is left out of it has a least member,*)
(* which is neither 0 nor the successor of one that is in.                 *)
LEMMA SetInduction ==
  ASSUME NEW S, S \subseteq Nat, 0 \in S, \A n \in S : n + 1 \in S
  PROVE  S = Nat
<1>1. SUFFICES ASSUME Nat \ S # {} PROVE FALSE
  OBVIOUS
<1>2. PICK x \in Nat \ S :
        \A y \in Nat \ S : ~(<< y, x >> \in OpToRel(<, Nat))
  <2>1. Nat \ S \subseteq Nat
    OBVIOUS
  <2> QED
    BY ONLY <1>1, <2>1, NatLessThanWellFounded, WFMin, Zenon
<1>3. \A y \in Nat \ S : ~(y < x)
  BY <1>2 DEF OpToRel
<1>4. x - 1 \in S /\ x - 1 + 1 = x
  BY <1>3
<1> QED
  BY <1>4

(* f gives the weights of the bits up to n.                                *)
WeightUpTo(n, f) ==
  f = [k \in 0 .. n |-> IF k = 0 THEN 1 ELSE 2 * f[k - 1]]

(* Such a function exists, so that the recursive definition of Weight      *)
(* defines one.                                                            *)
LEMMA WeightExists ==
  ASSUME NEW n \in Nat
  PROVE  \E f \in [0 .. n -> Nat] : WeightUpTo(n, f)
<1> DEFINE S == {m \in Nat : \E f \in [0 .. m -> Nat] : WeightUpTo(m, f)}
<1>1. 0 \in S
  <2> DEFINE f == [k \in 0 .. 0 |-> 1]
  <2>1. f \in [0 .. 0 -> Nat] /\ WeightUpTo(0, f)
    BY DEF WeightUpTo
  <2> QED
    BY <2>1
<1>2. ASSUME NEW m \in S PROVE m + 1 \in S
  <2>1. PICK f \in [0 .. m -> Nat] : WeightUpTo(m, f)
    OBVIOUS
  <2> DEFINE g == [k \in 0 .. m + 1 |-> IF k <= m THEN f[k] ELSE 2 * f[m]]
  <2>2. g \in [0 .. m + 1 -> Nat]
    <3>1. f[m] \in Nat
      OBVIOUS
    <3> QED
      BY <3>1
  <2>3. \A k \in 0 .. m + 1 : g[k] = IF k = 0 THEN 1 ELSE 2 * g[k - 1]
    <3>1. \A k \in 0 .. m : f[k] = IF k = 0 THEN 1 ELSE 2 * f[k - 1]
      BY <2>1 DEF WeightUpTo
    <3> QED
      BY <3>1
  <2>4. WeightUpTo(m + 1, g)
    BY <2>2, <2>3 DEF WeightUpTo
  <2>5. \E h \in [0 .. m + 1 -> Nat] : WeightUpTo(m + 1, h)
    <3> HIDE DEF g
    <3> QED
      BY <2>2, <2>4
  <2>6. m + 1 \in Nat
    OBVIOUS
  <2> QED
    BY <2>5, <2>6
<1>3. S = Nat
  <2> HIDE DEF S
  <2>1. S \subseteq Nat
    BY DEF S
  <2> QED
    BY <1>1, <1>2, <2>1, SetInduction
<1> QED
  BY <1>3

(* What Weight says, without the recursion.                                *)
LEMMA WeightIs ==
  /\ Weight \in [0 .. DATA_BITS -> Nat]
  /\ Weight[0] = 1
  /\ \A k \in 0 .. DATA_BITS - 1 : Weight[k + 1] = 2 * Weight[k]
<1>1. PICK f \in [0 .. DATA_BITS -> Nat] : WeightUpTo(DATA_BITS, f)
  BY WeightExists, BitAssumption
<1>2. Weight = [k \in 0 .. DATA_BITS |->
                  IF k = 0 THEN 1 ELSE 2 * Weight[k - 1]]
  BY <1>1, Zenon DEF Weight, WeightUpTo
<1>3. \A k \in 0 .. DATA_BITS :
        Weight[k] = IF k = 0 THEN 1 ELSE 2 * Weight[k - 1]
  BY <1>2
<1> DEFINE S == {k \in Nat : k <= DATA_BITS => Weight[k] \in Nat}
<1>4. 0 \in S
  BY <1>3, BitAssumption
<1>5. ASSUME NEW k \in S PROVE k + 1 \in S
  <2> SUFFICES ASSUME k + 1 <= DATA_BITS PROVE Weight[k + 1] \in Nat
    OBVIOUS
  <2>1. k + 1 \in 0 .. DATA_BITS /\ k + 1 # 0 /\ k + 1 - 1 = k
    BY BitAssumption
  <2>2. Weight[k + 1] = 2 * Weight[k] /\ Weight[k] \in Nat
    BY <1>3, <2>1, BitAssumption
  <2> QED
    BY <2>2
<1>6. S = Nat
  <2> HIDE DEF S
  <2>1. S \subseteq Nat
    BY DEF S
  <2> QED
    BY <1>4, <1>5, <2>1, SetInduction
<1>7. \A k \in 0 .. DATA_BITS : Weight[k] \in Nat
  BY <1>6, BitAssumption
<1>8. Weight \in [0 .. DATA_BITS -> Nat]
  BY <1>2, <1>7
<1> QED
  BY <1>3, <1>8, BitAssumption

(* Weights grow, so that none but the last reaches STOP_BIT.               *)
LEMMA WeightGrows ==
  ASSUME NEW k \in 0 .. DATA_BITS - 1
  PROVE  Weight[k] > 0 /\ 2 * Weight[k] <= STOP_BIT
<1> USE BitAssumption, WeightIs
<1> DEFINE P == {m \in Nat : m <= DATA_BITS => Weight[m] > 0}
<1>1. 0 \in P /\ \A m \in P : m + 1 \in P
  OBVIOUS
<1>2. P = Nat
  <2> HIDE DEF P
  <2>1. P \subseteq Nat
    BY DEF P
  <2> QED
    BY <1>1, <2>1, SetInduction
<1>3. \A m \in 0 .. DATA_BITS : Weight[m] \in Nat /\ Weight[m] > 0
  <2>1. \A m \in Nat : m <= DATA_BITS => Weight[m] > 0
    BY <1>2
  <2> QED
    BY <2>1
<1> DEFINE S == {m \in Nat : k + 1 + m <= DATA_BITS =>
                              Weight[k + 1] <= Weight[k + 1 + m]}
<1>4. 0 \in S
  OBVIOUS
<1>5. ASSUME NEW m \in S PROVE m + 1 \in S
  <2> SUFFICES ASSUME k + 1 + (m + 1) <= DATA_BITS
               PROVE  Weight[k + 1] <= Weight[k + 1 + (m + 1)]
    OBVIOUS
  <2>1. Weight[k + 1] <= Weight[k + 1 + m]
    OBVIOUS
  <2>2. k + 1 + m \in 0 .. DATA_BITS - 1 /\ k + 1 + (m + 1) = (k + 1 + m) + 1
    OBVIOUS
  <2>3. Weight[k + 1 + (m + 1)] = 2 * Weight[k + 1 + m]
    BY <2>2
  <2>4. Weight[k + 1] \in Nat /\ Weight[k + 1 + m] \in Nat
    BY <2>2, <1>3
  <2> QED
    BY ONLY <2>1, <2>3, <2>4
<1>6. S = Nat
  <2> HIDE DEF S
  <2>1. S \subseteq Nat
    BY DEF S
  <2> QED
    BY <1>4, <1>5, <2>1, SetInduction
<1>7. \A m \in Nat : k + 1 + m <= DATA_BITS =>
                        Weight[k + 1] <= Weight[k + 1 + m]
  BY <1>6
<1>8. DATA_BITS - (k + 1) \in Nat
      /\ k + 1 + (DATA_BITS - (k + 1)) = DATA_BITS
  OBVIOUS
<1>9. Weight[k + 1] <= Weight[DATA_BITS]
  <2> HIDE DEF S, P
  <2> DEFINE d == DATA_BITS - (k + 1)
  <2>1. d \in Nat /\ k + 1 + d = DATA_BITS
    BY <1>8
  <2> HIDE DEF d
  <2>2. k + 1 + d <= DATA_BITS
    BY <2>1
  <2>3. Weight[k + 1] <= Weight[k + 1 + d]
    BY <1>7, <2>1, <2>2
  <2> QED
    BY <2>1, <2>3
<1> QED
  BY <1>3, <1>9 DEF STOP_BIT

(* The values rx_mask and its like take while a byte is gathered.          *)
Masks == {Weight[k] : k \in 0 .. DATA_BITS - 1}

(* A mask is shifted to the next, or out of the byte with its last bit.    *)
LEMMA MaskStep ==
  /\ STOP_BIT \in Nat /\ STOP_BIT >= 2 /\ 1 \in Masks
  /\ \A m \in Masks :
       /\ m \in Nat /\ m > 0 /\ 2 * m <= STOP_BIT
       /\ IF 2 * m = STOP_BIT THEN (2 * m) % STOP_BIT = 0
          ELSE (2 * m) % STOP_BIT = 2 * m /\ 2 * m \in Masks
<1> USE BitAssumption, WeightIs
<1>1. STOP_BIT \in Nat /\ 1 \in Masks
  <2>1. 0 \in 0 .. DATA_BITS - 1
    OBVIOUS
  <2>2. STOP_BIT \in Nat
    BY DEF STOP_BIT
  <2>3. Weight[0] \in Masks
    BY <2>1 DEF Masks
  <2> QED
    BY <2>2, <2>3
<1>2. ASSUME NEW m \in Masks
      PROVE  /\ m \in Nat /\ m > 0 /\ 2 * m <= STOP_BIT
             /\ IF 2 * m = STOP_BIT THEN (2 * m) % STOP_BIT = 0
                ELSE (2 * m) % STOP_BIT = 2 * m /\ 2 * m \in Masks
  <2>1. PICK k \in 0 .. DATA_BITS - 1 : m = Weight[k]
    BY DEF Masks
  <2>2. m \in Nat /\ m > 0 /\ 2 * m <= STOP_BIT
    <3>1. Weight[k] > 0 /\ 2 * Weight[k] <= STOP_BIT
      BY WeightGrows
    <3> QED
      BY <2>1, <3>1
  <2>3. CASE 2 * m = STOP_BIT
    <3>1. STOP_BIT % STOP_BIT = 0
      BY ONLY <2>2, <2>3, <1>1
    <3> QED
      BY <2>2, <2>3, <3>1
  <2>4. CASE 2 * m < STOP_BIT
    <3>1. (2 * m) % STOP_BIT = 2 * m
      BY ONLY <2>2, <2>4, <1>1
    <3>2. k # DATA_BITS - 1
      <4> SUFFICES ASSUME k = DATA_BITS - 1 PROVE FALSE
        OBVIOUS
      <4>1. k + 1 = DATA_BITS /\ Weight[k + 1] = 2 * Weight[k]
        OBVIOUS
      <4> QED
        BY <2>1, <2>2, <2>4, <4>1 DEF STOP_BIT
    <3>3. 2 * m = Weight[k + 1] /\ k + 1 \in 0 .. DATA_BITS - 1
      BY <2>1, <3>2
    <3>4. 2 * m \in Masks
      BY <3>3 DEF Masks
    <3> QED
      BY <2>2, <2>4, <3>1, <3>4
  <2> QED
    BY <2>2, <2>3, <2>4, <1>1
<1> QED
  BY <1>1, <1>2

(* Half a bit, in ticks.                                                   *)
Half == TICKS_PER_BIT_DIV2

(* A bit is cut into halves, and a half has two ticks or more.             *)
LEMMA Halves == Half \in Nat /\ Half >= 2 /\ TICKS_PER_BIT = 2 * Half
  BY BitAssumption DEF Half, TICKS_PER_BIT_DIV2

(* A frame is the start bit, the byte and the stop bit, in that order.     *)
LEMMA FrameIs ==
  ASSUME NEW b \in 0 .. STOP_BIT - 1
  PROVE  /\ Frame(b) \in 4 .. 4 * STOP_BIT - 1
         /\ Frame(b) % 2 = 0 /\ Frame(b) \div 2 = b + STOP_BIT
<1>1. b \in Nat /\ STOP_BIT \in Nat /\ STOP_BIT >= 2 /\ b < STOP_BIT
  BY MaskStep
<1>2. \A n \in Nat : (2 * n) % 2 = 0 /\ (2 * n) \div 2 = n
  BY ONLY TRUE
<1> QED
  BY ONLY <1>1, <1>2 DEF Frame

(* The bits of a byte gathered so far lie below the mask of the next.      *)
BitsOK(bits) ==
  /\ bits \in [data : 0 .. STOP_BIT - 1, mask : Masks \cup {0}]
  /\ bits.mask # 0 => bits.data < bits.mask

(* bits holds the low bits of b, rest the others and the stop bit on top.  *)
Gathers(bits, rest, b) ==
  /\ BitsOK(bits) /\ bits.mask # 0
  /\ bits.data + bits.mask * rest = b + STOP_BIT

(* Before the first bit all of the byte, and the stop bit, are to come.    *)
LEMMA NoBitsOK ==
  /\ BitsOK(NoBits)
  /\ \A b \in Nat : Gathers(NoBits, b + STOP_BIT, b)
  BY MaskStep DEF BitsOK, NoBits, Gathers

(* A sample keeps data below mask; after the last one it changes nothing.  *)
LEMMA AddBitOK ==
  ASSUME NEW bits, BitsOK(bits), NEW x \in {0, 1}
  PROVE  /\ BitsOK(AddBit(bits, x))
         /\ bits.mask = 0 => AddBit(bits, x) = bits
<1> DEFINE d == bits.data
           m == bits.mask
<1>1. bits = [data |-> d, mask |-> m] /\ d \in 0 .. STOP_BIT - 1
      /\ m \in Masks \cup {0} /\ (m # 0 => d < m)
  BY DEF BitsOK
<1>2. AddBit(bits, x) = [data |-> d + m * x, mask |-> (2 * m) % STOP_BIT]
  BY DEF AddBit
<1>3. STOP_BIT \in Nat /\ STOP_BIT >= 2
  BY MaskStep
<1>6. bits.mask = m
  OBVIOUS
<1> HIDE DEF d, m
<1>4. CASE m = 0
  <2>1. 0 % STOP_BIT = 0
    BY ONLY <1>3
  <2>2. d + m * x = d /\ 2 * m = 0
    BY ONLY <1>1, <1>4, x \in {0, 1}
  <2>3. AddBit(bits, x) = [data |-> d, mask |-> 0]
    BY ONLY <1>2, <2>1, <2>2
  <2> QED
    BY <1>1, <1>4, <2>3 DEF BitsOK
<1>5. CASE m # 0
  <2>1. m \in Masks /\ m \in Nat /\ m > 0 /\ 2 * m <= STOP_BIT
    BY <1>1, <1>5, MaskStep
  <2>2. d + m * x \in Nat /\ d + m * x < 2 * m
    <3>1. m * x \in {0, m}
      BY ONLY <2>1, x \in {0, 1}
    <3> QED
      BY ONLY <1>1, <1>5, <2>1, <3>1, <1>3
  <2>3. CASE 2 * m = STOP_BIT
    <3>1. AddBit(bits, x) = [data |-> d + m * x, mask |-> 0]
      BY <1>2, <2>1, <2>3, MaskStep
    <3>2. d + m * x \in 0 .. STOP_BIT - 1
      BY ONLY <2>1, <2>2, <2>3, <1>3
    <3> QED
      BY <1>5, <3>1, <3>2, <1>6 DEF BitsOK
  <2>4. CASE 2 * m # STOP_BIT
    <3>1. /\ AddBit(bits, x) = [data |-> d + m * x, mask |-> 2 * m]
          /\ 2 * m \in Masks
      BY <1>2, <2>1, <2>4, MaskStep
    <3>2. d + m * x \in 0 .. STOP_BIT - 1
      BY ONLY <2>1, <2>2, <1>3
    <3> QED
      BY <1>5, <3>1, <3>2, <2>2, <1>6 DEF BitsOK
  <2> QED
    BY <2>3, <2>4
<1> QED
  BY <1>4, <1>5

(* While a mask is left, so is a bit of the byte besides the stop bit.     *)
LEMMA GatherMore ==
  ASSUME NEW bits, NEW r \in Nat, NEW b \in 0 .. STOP_BIT - 1,
         Gathers(bits, r, b)
  PROVE  r >= 2
<1> DEFINE d == bits.data
           m == bits.mask
<1>1. /\ d \in Nat /\ m \in Masks /\ d < m
      /\ d + m * r = b + STOP_BIT
  BY MaskStep DEF Gathers, BitsOK
<1>2. m \in Nat /\ m > 0 /\ 2 * m <= STOP_BIT /\ STOP_BIT \in Nat
  BY <1>1, MaskStep
<1> HIDE DEF d, m
<1>3. CASE r = 0
  BY ONLY <1>1, <1>2, <1>3, b \in 0 .. STOP_BIT - 1
<1>4. CASE r = 1
  BY ONLY <1>1, <1>2, <1>4, b \in 0 .. STOP_BIT - 1
<1> QED
  BY <1>3, <1>4

(* With the bit on the line taken into the byte, the rest is the others;   *)
(* when none but the stop bit is left, the byte is whole.                  *)
LEMMA GatherNext ==
  ASSUME NEW bits, NEW x \in {0, 1}, NEW r \in Nat,
         NEW b \in 0 .. STOP_BIT - 1, Gathers(bits, x + 2 * r, b)
  PROVE  /\ BitsOK(AddBit(bits, x))
         /\ r >= 1
         /\ IF r = 1 THEN AddBit(bits, x) = [data |-> b, mask |-> 0]
            ELSE Gathers(AddBit(bits, x), r, b)
<1> DEFINE d == bits.data
           m == bits.mask
           e == d + m * x
<1>1. /\ bits = [data |-> d, mask |-> m]
      /\ d \in Nat /\ m \in Masks /\ d < m
      /\ d + m * (x + 2 * r) = b + STOP_BIT
  BY MaskStep DEF Gathers, BitsOK
<1>2. m \in Nat /\ m > 0 /\ 2 * m <= STOP_BIT /\ STOP_BIT \in Nat
  BY <1>1, MaskStep
<1>3. BitsOK(AddBit(bits, x))
  BY AddBitOK DEF Gathers
<1>4. AddBit(bits, x) = [data |-> e, mask |-> (2 * m) % STOP_BIT]
  BY DEF AddBit
<1>5. x + 2 * r >= 2
  BY GatherMore
<1>6. r >= 1
  BY ONLY <1>5, x \in {0, 1}, r \in Nat
<1> HIDE DEF d, m
<1>7. e \in Nat /\ e < 2 * m /\ e + (2 * m) * r = b + STOP_BIT
  <2>1. CASE x = 0
    <3>1. e = d
      BY ONLY <2>1, <1>1, <1>2
    <3>2. m * (0 + 2 * r) = (2 * m) * r
      BY ONLY <1>2, r \in Nat
    <3> QED
      BY ONLY <1>1, <1>2, <2>1, <3>1, <3>2
  <2>2. CASE x = 1
    <3>1. e = d + m
      BY ONLY <2>2, <1>1, <1>2
    <3>2. m * (1 + 2 * r) = m + (2 * m) * r
      BY ONLY <1>2, r \in Nat
    <3>3. (2 * m) * r \in Nat
      BY ONLY <1>2, r \in Nat
    <3> HIDE DEF e
    <3> QED
      BY ONLY <1>1, <1>2, <2>2, <3>1, <3>2, <3>3
  <2> QED
    BY <2>1, <2>2
<1> HIDE DEF e
<1>8. CASE 2 * m = STOP_BIT
  <2>1. e + STOP_BIT * r = b + STOP_BIT /\ e < STOP_BIT
    BY <1>7, <1>8
  <2>2. r < 2
    <3> SUFFICES ASSUME r >= 2 PROVE FALSE
      BY r \in Nat
    <3>1. PICK q \in Nat : r = 2 + q
      <4>1. r - 2 \in Nat /\ r = 2 + (r - 2)
        OBVIOUS
      <4> QED
        BY <4>1
    <3>2. STOP_BIT * (2 + q) = 2 * STOP_BIT + STOP_BIT * q
          /\ STOP_BIT * q \in Nat
      BY ONLY <1>2, q \in Nat
    <3> QED
      BY ONLY <1>2, <1>7, <2>1, <3>1, <3>2, b \in 0 .. STOP_BIT - 1
  <2>3. r = 1
    BY ONLY <1>6, <2>2, r \in Nat
  <2>4. e = b
    BY ONLY <1>2, <1>7, <2>1, <2>3, b \in 0 .. STOP_BIT - 1
  <2>5. (2 * m) % STOP_BIT = 0
    BY <1>1, <1>8, MaskStep
  <2> QED
    BY <1>3, <1>4, <2>3, <2>4, <2>5
<1>9. CASE 2 * m # STOP_BIT
  <2>1. (2 * m) % STOP_BIT = 2 * m /\ 2 * m \in Masks
    BY <1>1, <1>9, MaskStep
  <2>2. AddBit(bits, x) = [data |-> e, mask |-> 2 * m]
    BY <1>4, <2>1
  <2>3. Gathers(AddBit(bits, x), r, b)
    BY <1>2, <1>3, <1>7, <2>2 DEF Gathers
  <2>4. r # 1
    <3>1. r >= 2
      BY <2>3, GatherMore
    <3> QED
      BY <3>1
  <2> QED
    BY <1>3, <1>6, <2>3, <2>4
<1> QED
  BY <1>8, <1>9
-----------------------------------------------------------------------------
(* The byte that was added last.                                           *)
LastOf(s) == s[Len(s)]

(* The sketch polls only while the pin is its own, and reads what is there.*)
SketchInv ==
  /\ call \in {"idle", "write", "flush", "end", "read"}
  /\ arg \in 0 .. STOP_BIT - 1 /\ open \in BOOLEAN
  /\ call = "write" => arg \in Bytes
  /\ call \in {"write", "flush", "end"} => open = TRUE
  /\ call = "read" => ~IsEmpty(rx_buffer)

(* A byte on the line has a bit on it, and time left for that bit.         *)
LineInv ==
  /\ line \in [frame : 0 .. 4 * STOP_BIT - 1, t : 0 .. TICKS_PER_BIT]
  /\ line = NoFrame \/ (line.frame > 0 /\ line.t > 0)
  /\ sent \in Seq(Bytes)

(* The registers and variables of the receiver.                            *)
ReceiverType ==
  /\ cctl1 \in [cap : BOOLEAN, ifg : BOOLEAN, scci : {0, 1}]
  /\ ccr1 \in 0 .. TICKS_PER_BIT + Half
  /\ BitsOK(rx_bits) /\ rx_buffer \in RingType(0 .. STOP_BIT - 1)

(* Where the receiver stands: it waits for an edge, with at most the last  *)
(* bit and the stop bit of a byte still to come; it has seen one; it waits *)
(* for the middle of a bit, half a bit or more after the edge before it or *)
(* less; it has sampled.                                                   *)
RxWaits == cctl1.cap /\ ~cctl1.ifg /\ line.frame \in 0 .. 3

RxEdge ==
  /\ cctl1.cap /\ cctl1.ifg /\ sent # << >>
  /\ line = [frame |-> Frame(LastOf(sent)), t |-> TICKS_PER_BIT]

RxBeforeBit ==
  /\ ~cctl1.cap /\ ~cctl1.ifg /\ sent # << >>
  /\ ccr1 > Half /\ line.t = ccr1 - Half
  /\ Gathers(rx_bits, line.frame \div 2, LastOf(sent))

RxInBit ==
  /\ ~cctl1.cap /\ ~cctl1.ifg /\ sent # << >>
  /\ ccr1 \in 1 .. Half /\ line.t = ccr1 + Half
  /\ Gathers(rx_bits, line.frame, LastOf(sent))

RxSampled ==
  /\ ~cctl1.cap /\ cctl1.ifg /\ sent # << >>
  /\ line.t = Half /\ cctl1.scci = line.frame % 2
  /\ Gathers(rx_bits, line.frame, LastOf(sent))

(* The receiver is in one of four phases, whatever the transmitter does.   *)
ReceiverInv ==
  /\ SketchInv /\ LineInv /\ ReceiverType
  /\ RxWaits \/ RxEdge \/ RxBeforeBit \/ RxInBit \/ RxSampled

(* The byte sent or written last is one.                                   *)
LEMMA LastIsByte ==
  ASSUME NEW s \in Seq(Bytes), s # << >>
  PROVE  LastOf(s) \in Bytes /\ LastOf(s) \in 0 .. STOP_BIT - 1
<1>1. Len(s) \in 1 .. Len(s)
  OBVIOUS
<1>2. s[Len(s)] \in Bytes
  BY <1>1
<1> QED
  BY <1>2, BitAssumption DEF LastOf

(* The four things a tick can do to the line.                              *)
LEMMA NextOnLineIs ==
  ASSUME LineInv
  PROVE  /\ line = NoFrame => NextOnLine = NoFrame
         /\ line.t > 1 => NextOnLine = [frame |-> line.frame, t |-> line.t - 1]
         /\ line.t = 1 /\ line.frame > 1 =>
              NextOnLine = [frame |-> line.frame \div 2, t |-> TICKS_PER_BIT]
         /\ line.t = 1 /\ line.frame = 1 => NextOnLine = NoFrame
  BY DEF LineInv, NextOnLine, NoFrame

(* The line stays what it is through a tick.                               *)
LEMMA LineInvTick ==
  ASSUME LineInv, line' = NextOnLine, sent' = sent
  PROVE  LineInv'
<1> USE Halves, MaskStep DEF LineInv
<1>1. CASE line = NoFrame
  BY <1>1, NextOnLineIs
<1>2. CASE line.t > 1
  <2>1. line' = [frame |-> line.frame, t |-> line.t - 1]
    BY <1>2, NextOnLineIs
  <2>2. line # NoFrame
    BY <1>2 DEF NoFrame
  <2> QED
    BY <1>2, <2>1, <2>2
<1>3. CASE line.t = 1 /\ line.frame > 1
  <2>1. line' = [frame |-> line.frame \div 2, t |-> TICKS_PER_BIT]
    BY <1>3, NextOnLineIs
  <2>2. line.frame \in Nat /\ line.frame < 4 * STOP_BIT
    OBVIOUS
  <2>3. line.frame \div 2 \in 1 .. 4 * STOP_BIT - 1
    BY ONLY <1>3, <2>2, MaskStep
  <2> QED
    BY <2>1, <2>3
<1>4. CASE line.t = 1 /\ line.frame = 1
  <2>1. line' = NoFrame
    BY <1>4, NextOnLineIs
  <2> QED
    BY <2>1 DEF NoFrame
<1> QED
  BY <1>1, <1>2, <1>3, <1>4

(* store_rxchar keeps the ring a ring; where it moves the head, what it was*)
(* given is the last of the contents.                                      *)
LEMMA StoreRxCharIs ==
  ASSUME NEW B, NEW r \in RingType(B), NEW c \in B
  PROVE  /\ StoreRxChar(r, c) \in RingType(B)
         /\ ~IsEmpty(r) => ~IsEmpty(StoreRxChar(r, c))
         /\ StoreRxChar(r, c).head # r.head =>
              /\ Available(StoreRxChar(r, c)) \in Nat \ {0}
              /\ Contents(StoreRxChar(r, c))[Available(StoreRxChar(r, c))] = c
<1> DEFINE s == PutSlot(r, c)
<1>1. /\ s \in RingType(B) /\ s.buffer[r.head] = c
      /\ s.head = r.head /\ s.tail = r.tail
  BY PutSlotKeepsContents
<1>2. CASE IsFull(r)
  <2>1. StoreRxChar(r, c) = s
    BY <1>2 DEF StoreRxChar
  <2> HIDE DEF s
  <2> QED
    BY <1>1, <2>1 DEF IsEmpty
<1>3. CASE ~IsFull(r)
  <2>1. StoreRxChar(r, c) = PublishHead(s)
    BY <1>3 DEF StoreRxChar
  <2> HIDE DEF s
  <2>2. ~IsFull(s)
    BY <1>1, <1>3 DEF IsFull
  <2>3. /\ PublishHead(s) \in RingType(B)
        /\ Available(PublishHead(s)) = Available(s) + 1
        /\ Contents(PublishHead(s)) = Append(Contents(s), c)
        /\ ~IsEmpty(PublishHead(s))
    BY <1>1, <2>2, PublishAppends
  <2>4. /\ Contents(s) \in Seq(B) /\ Len(Contents(s)) = Available(s)
        /\ Available(s) \in Nat
    BY <1>1, ContentsIs, AvailableIs DEF Index
  <2>5. Append(Contents(s), c)[Available(s) + 1] = c
    BY ONLY <2>4, c \in B
  <2> QED
    BY <2>1, <2>3, <2>4, <2>5
<1> QED
  BY <1>2, <1>3

(* The same, for an argument that a step supplies.                         *)
LEMMA StoredIsLast ==
  ASSUME NEW B, NEW r \in RingType(B)
  PROVE  \A c \in B :
           StoreRxChar(r, c).head # r.head =>
             Contents(StoreRxChar(r, c))[Available(StoreRxChar(r, c))] = c
  BY StoreRxCharIs

(* What a tick of the timer does to the receiver, phase by phase.          *)
RxTick ==
  /\ ~cctl1.ifg /\ line' = NextOnLine /\ ccr1' = Down(ccr1)
  /\ UNCHANGED << rx_bits, rx_buffer, call, arg, open, sent >>
  /\ LET match1 == ~cctl1.cap /\ ccr1 = 1
     IN cctl1' = [cctl1 EXCEPT
          !.ifg = IF cctl1.cap THEN Level(line) = 1 /\ Level(NextOnLine) = 0
                  ELSE match1,
          !.scci = IF match1 THEN Level(NextOnLine) ELSE @]

(* The unit captures a falling edge, or latches the level at a match.      *)
LEMMA CaptureTick ==
  ASSUME cctl1 \in [cap : BOOLEAN, ifg : BOOLEAN, scci : {0, 1}], RxTick
  PROVE  /\ cctl1.cap /\ ~(Level(line) = 1 /\ Level(NextOnLine) = 0) =>
              cctl1' = cctl1
         /\ ~cctl1.cap /\ ccr1 # 1 => cctl1' = cctl1
         /\ ~cctl1.cap /\ ccr1 = 1 =>
              cctl1' = [cap |-> FALSE, ifg |-> TRUE,
                        scci |-> Level(NextOnLine)]
<1> DEFINE match1 == ~cctl1.cap /\ ccr1 = 1
           flag == IF cctl1.cap
                   THEN Level(line) = 1 /\ Level(NextOnLine) = 0 ELSE match1
           latch == IF match1 THEN Level(NextOnLine) ELSE cctl1.scci
<1>1. cctl1' = [cctl1 EXCEPT !.ifg = flag, !.scci = latch]
  BY DEF RxTick
<1>2. cctl1 = [cap |-> cctl1.cap, ifg |-> FALSE, scci |-> cctl1.scci]
  BY DEF RxTick
<1>3. cctl1' = [cap |-> cctl1.cap, ifg |-> flag, scci |-> latch]
  <2> HIDE DEF flag, latch
  <2> QED
    BY ONLY <1>1, cctl1 \in [cap : BOOLEAN, ifg : BOOLEAN, scci : {0, 1}]
<1>4. CASE cctl1.cap /\ ~(Level(line) = 1 /\ Level(NextOnLine) = 0)
  <2>1. flag = FALSE /\ latch = cctl1.scci
    BY <1>4
  <2> HIDE DEF flag, latch
  <2> QED
    BY <1>2, <1>3, <1>4, <2>1, Zenon
<1>5. CASE ~cctl1.cap /\ ccr1 # 1
  <2>1. flag = FALSE /\ latch = cctl1.scci
    BY <1>5
  <2> HIDE DEF flag, latch
  <2> QED
    BY <1>2, <1>3, <1>5, <2>1, Zenon
<1>6. CASE ~cctl1.cap /\ ccr1 = 1
  <2>1. flag = TRUE /\ latch = Level(NextOnLine) /\ cctl1.cap = FALSE
    BY <1>6
  <2> HIDE DEF flag, latch
  <2> QED
    BY <1>3, <2>1, <1>6, Zenon
<1> QED
  BY <1>4, <1>5, <1>6

(* A tick takes the receiver from a phase to itself or to the next.        *)
LEMMA ReceiverTick ==
  ASSUME ReceiverInv, RxTick
  PROVE  ReceiverInv'
<1> USE DEF ReceiverInv
<1>1. LineInv'
  BY LineInvTick DEF RxTick
<1>2. SketchInv'
  BY DEF RxTick, SketchInv
<1>3. line.frame \in Nat /\ line.t \in Nat /\ line.t <= TICKS_PER_BIT
      /\ Half \in Nat /\ Half >= 2 /\ TICKS_PER_BIT = 2 * Half
  BY Halves DEF LineInv
<1>8. /\ ~cctl1.ifg /\ line' = NextOnLine /\ ccr1' = Down(ccr1)
      /\ UNCHANGED << rx_bits, rx_buffer, call, arg, open, sent >>
  BY DEF RxTick
<1>9. cctl1 \in [cap : BOOLEAN, ifg : BOOLEAN, scci : {0, 1}]
  BY DEF ReceiverType
<1>4. ccr1' \in 0 .. TICKS_PER_BIT + Half
  BY <1>3, <1>8 DEF ReceiverType, Down
<1>5. CASE RxWaits
  <2>1. Level(line) = 1 => Level(NextOnLine) = 1
    <3>1. CASE line = NoFrame
      BY <3>1, NextOnLineIs DEF LineInv, Level, NoFrame
    <3>2. CASE line.t > 1
      BY <3>2, NextOnLineIs DEF LineInv, Level
    <3>3. CASE line.t = 1
      BY <3>3, <1>5, NextOnLineIs DEF LineInv, Level, RxWaits, NoFrame
    <3> QED
      BY <3>1, <3>2, <3>3 DEF LineInv
  <2>2. NextOnLine.frame \in 0 .. 3
    <3>1. CASE line = NoFrame
      BY <3>1, NextOnLineIs DEF LineInv, NoFrame
    <3>2. CASE line.t > 1
      BY <3>2, <1>5, NextOnLineIs DEF LineInv, RxWaits
    <3>3. CASE line.t = 1
      BY <3>3, <1>5, NextOnLineIs DEF LineInv, RxWaits, NoFrame
    <3> QED
      BY <3>1, <3>2, <3>3 DEF LineInv
  <2>3. cctl1' = cctl1
    BY <1>5, <1>9, <2>1, CaptureTick DEF RxWaits
  <2> QED
    BY <1>1, <1>2, <1>4, <1>5, <1>8, <2>2, <2>3 DEF RxWaits, ReceiverType
<1>6. CASE RxBeforeBit
  <2>1. ~cctl1.cap /\ ~cctl1.ifg /\ ccr1 \in Nat /\ ccr1 > 1
    BY <1>6, <1>3 DEF RxBeforeBit, ReceiverType
  <2>2. cctl1' = cctl1
    BY <1>9, <2>1, CaptureTick
  <2>3. ccr1' = ccr1 - 1 /\ ReceiverType'
    BY <1>4, <1>8, <2>1, <2>2 DEF ReceiverType, Down
  <2>4. LastOf(sent) \in 0 .. STOP_BIT - 1
    BY <1>6, LastIsByte DEF RxBeforeBit, LineInv
  <2>5. line.frame \div 2 \in Nat
    BY <1>3
  <2>6. line.frame \div 2 >= 2
    BY <1>6, <2>4, <2>5, GatherMore DEF RxBeforeBit
  <2>7. CASE line.t > 1
    <3>1. line' = [frame |-> line.frame, t |-> line.t - 1]
      BY <2>7, NextOnLineIs, <1>8
    <3>2. RxBeforeBit'
      BY <1>3, <1>6, <1>8, <2>1, <2>2, <2>3, <2>7, <3>1 DEF RxBeforeBit
    <3> QED
      BY <1>1, <1>2, <2>3, <3>2
  <2>8. CASE line.t = 1
    <3>1. line.frame > 1
      BY <1>3, <2>6
    <3>2. line' = [frame |-> line.frame \div 2, t |-> TICKS_PER_BIT]
      BY <2>8, <3>1, NextOnLineIs, <1>8
    <3>3. ccr1' = Half
      BY <1>3, <1>6, <2>1, <2>3, <2>8 DEF RxBeforeBit
    <3>4. RxInBit'
      BY <1>3, <1>6, <1>8, <2>1, <2>2, <3>2, <3>3 DEF RxBeforeBit, RxInBit
    <3> QED
      BY <1>1, <1>2, <2>3, <3>4
  <2> QED
    BY <1>3, <1>6, <2>7, <2>8 DEF RxBeforeBit, ReceiverType
<1>7. CASE RxInBit
  <2>1. /\ ~cctl1.cap /\ ~cctl1.ifg /\ ccr1 \in 1 .. Half
        /\ line.t = ccr1 + Half
    BY <1>7 DEF RxInBit
  <2>2. LastOf(sent) \in 0 .. STOP_BIT - 1
    BY <1>7, LastIsByte DEF RxInBit, LineInv
  <2>3. line.frame >= 2
    BY <1>3, <1>7, <2>2, GatherMore DEF RxInBit
  <2>4. line' = [frame |-> line.frame, t |-> line.t - 1]
        /\ Level(NextOnLine) = line.frame % 2
    BY <1>3, <2>1, <2>3, NextOnLineIs, <1>8 DEF Level
  <2>5. ccr1' = ccr1 - 1
    BY <1>3, <1>8, <2>1 DEF Down
  <2>6. CASE ccr1 > 1
    <3>1. cctl1' = cctl1
      BY <1>9, <2>1, <2>6, CaptureTick
    <3>2. RxInBit' /\ ReceiverType'
      BY <1>3, <1>4, <1>7, <1>8, <2>1, <2>4, <2>5, <2>6, <3>1
      DEF RxInBit, ReceiverType
    <3> QED
      BY <1>1, <1>2, <3>2
  <2>7. CASE ccr1 = 1
    <3>1. line.frame % 2 \in {0, 1}
      BY <1>3
    <3>2. cctl1' = [cap |-> FALSE, ifg |-> TRUE, scci |-> line.frame % 2]
      BY <1>9, <2>1, <2>4, <2>7, CaptureTick
    <3>3. RxSampled' /\ ReceiverType'
      BY <1>3, <1>4, <1>7, <1>8, <2>1, <2>4, <2>7, <3>1, <3>2
      DEF RxInBit, RxSampled, ReceiverType
    <3> QED
      BY <1>1, <1>2, <3>3
  <2> QED
    BY <1>3, <2>1, <2>6, <2>7
<1> QED
  BY <1>5, <1>6, <1>7 DEF RxTick, RxEdge, RxSampled

(* A sample adds the bit on the line; the last data bit makes the byte     *)
(* whole, and is followed on the line by the stop bit alone.               *)
LEMMA SampleIs ==
  ASSUME ReceiverInv, cctl1.ifg, ~cctl1.cap
  PROVE  LET bits == AddBit(rx_bits, cctl1.scci)
             rest == line.frame \div 2
             b == LastOf(sent)
         IN /\ RxSampled /\ BitsOK(bits) /\ rest \in Nat
            /\ cctl1.scci \in {0, 1} /\ line.frame = cctl1.scci + 2 * rest
            /\ IF rest = 1 THEN bits = [data |-> b, mask |-> 0]
               ELSE bits.mask # 0 /\ Gathers(bits, rest, b)
<1> DEFINE bits == AddBit(rx_bits, cctl1.scci)
           rest == line.frame \div 2
           b == LastOf(sent)
<1>1. RxSampled /\ LineInv /\ ReceiverType
  BY DEF ReceiverInv, RxWaits, RxEdge, RxBeforeBit, RxInBit, RxSampled
<1>2. b \in 0 .. STOP_BIT - 1
  BY <1>1, LastIsByte DEF RxSampled, LineInv
<1>3. /\ rest \in Nat /\ cctl1.scci \in {0, 1}
      /\ line.frame = cctl1.scci + 2 * rest
  BY <1>1 DEF RxSampled, LineInv, ReceiverType
<1>4. Gathers(rx_bits, cctl1.scci + 2 * rest, b)
  BY <1>1, <1>3 DEF RxSampled
<1>5. /\ BitsOK(bits)
      /\ IF rest = 1 THEN bits = [data |-> b, mask |-> 0]
         ELSE Gathers(bits, rest, b)
  BY <1>2, <1>3, <1>4, GatherNext
<1>6. Gathers(bits, rest, b) => bits.mask # 0
  BY DEF Gathers
<1> QED
  BY <1>1, <1>3, <1>5, <1>6

(* The start of a byte, its bits and its end, phase by phase.              *)
LEMMA ReceiverStep == ReceiverInv /\ [SerialNext]_serialVars => ReceiverInv'
<1> SUFFICES ASSUME ReceiverInv, [SerialNext]_serialVars PROVE ReceiverInv'
  OBVIOUS
<1>0. SketchInv /\ LineInv /\ ReceiverType
  BY DEF ReceiverInv
<1>q. ASSUME UNCHANGED << receiver, line, sent >>, SketchInv'
      PROVE  ReceiverInv'
  BY <1>q, <1>0 DEF ReceiverInv, LineInv, ReceiverType, RxWaits, RxEdge,
     RxBeforeBit, RxInBit, RxSampled, receiver
<1>1. CASE WriteSerial \/ FlushSerial \/ EndSerial
  <2>1. /\ UNCHANGED << receiver, line, sent, open >> /\ open
        /\ call' \in {"write", "flush", "end"}
        /\ arg' = arg \/ arg' \in Bytes
        /\ call' = "write" => arg' \in Bytes
    BY <1>1 DEF WriteSerial, FlushSerial, EndSerial, Invoke, serialHistory
  <2>2. SketchInv'
    BY <1>0, <2>1, BitAssumption DEF SketchInv
  <2> QED
    BY <1>q, <2>1, <2>2
<1>2. CASE WriteStart \/ FlushDone \/ EndDone
  <2>1. /\ UNCHANGED << receiver, line, sent >>
        /\ call' = "idle" /\ arg' \in {0, arg} /\ open' \in BOOLEAN
    BY <1>0, <1>2 DEF WriteStart, FlushDone, EndDone, serialHistory, SketchInv
  <2>2. SketchInv'
    BY <1>0, <2>1, MaskStep DEF SketchInv
  <2> QED
    BY <1>q, <2>1, <2>2
<1>3. CASE SerialTxIsr
  BY <1>0, <1>3, <1>q
  DEF SerialTxIsr, sketch, serialHistory, receiver, SketchInv
<1>4. CASE ReadSerial
  <2>1. /\ UNCHANGED << receiver, line, sent, open >>
        /\ call' = "read" /\ arg' = Oldest(rx_buffer) /\ ~IsEmpty(rx_buffer)
    BY <1>4 DEF ReadSerial, serialHistory
  <2>2. Oldest(rx_buffer) \in 0 .. STOP_BIT - 1
    BY <1>0, <2>1, OldestIsFirst DEF ReceiverType
  <2>3. SketchInv'
    BY <1>0, <2>1, <2>2 DEF SketchInv, receiver
  <2> QED
    BY <1>q, <2>1, <2>3
<1>5. CASE ReadDone
  <2>1. /\ UNCHANGED << cctl1, ccr1, rx_bits, line, sent, open >>
        /\ call = "read" /\ call' = "idle" /\ arg' = 0
        /\ rx_buffer' = AdvanceTail(rx_buffer)
    BY <1>5 DEF ReadDone, serialHistory
  <2>2. rx_buffer' \in RingType(0 .. STOP_BIT - 1)
    BY <1>0, <2>1, AdvanceTakesFirst DEF ReceiverType, SketchInv
  <2>3. SketchInv' /\ ReceiverType' /\ LineInv'
    BY <1>0, <2>1, <2>2, MaskStep DEF SketchInv, ReceiverType, LineInv
  <2> QED
    BY <2>1, <2>3 DEF ReceiverInv, RxWaits, RxEdge, RxBeforeBit, RxInBit,
       RxSampled
<1>6. CASE BeginSerial
  <2>1. /\ UNCHANGED << ccr1, rx_bits, rx_buffer, call, arg, line, sent >>
        /\ open' = TRUE /\ line = NoFrame /\ ~cctl1.ifg
        /\ cctl1' = [cctl1 EXCEPT !.cap = TRUE]
    BY <1>6 DEF BeginSerial, serialHistory
  <2>2. cctl1' \in [cap : BOOLEAN, ifg : BOOLEAN, scci : {0, 1}]
        /\ cctl1'.cap /\ ~cctl1'.ifg
    BY <1>0, <2>1 DEF ReceiverType
  <2>3. SketchInv' /\ ReceiverType' /\ LineInv'
    BY <1>0, <2>1, <2>2 DEF SketchInv, ReceiverType, LineInv
  <2>4. RxWaits'
    BY <2>1, <2>2 DEF RxWaits, NoFrame
  <2> QED
    BY <2>3, <2>4 DEF ReceiverInv
<1>7. CASE PeerSend
  <2>1. PICK b \in Bytes :
          /\ line' = [frame |-> Frame(b), t |-> TICKS_PER_BIT]
          /\ sent' = Append(sent, b)
    BY <1>7 DEF PeerSend
  <2>2. /\ UNCHANGED << ccr1, rx_bits, rx_buffer, call, arg, open >>
        /\ line = NoFrame
        /\ cctl1' = [cctl1 EXCEPT !.ifg = @ \/ cctl1.cap]
    BY <1>7 DEF PeerSend, sketch
  <2>3. b \in 0 .. STOP_BIT - 1 /\ Frame(b) \in 4 .. 4 * STOP_BIT - 1
    BY FrameIs, BitAssumption
  <2>4. cctl1.cap
    <3>1. ASSUME NEW n \in Nat, NEW s \in Seq(Bytes), s # << >>,
                 Gathers(rx_bits, n, LastOf(s))
          PROVE  n >= 2
      BY <3>1, LastIsByte, GatherMore
    <3>2. line.frame = 0 /\ line.frame \div 2 = 0
      BY <2>2 DEF NoFrame
    <3> QED
      BY <1>0, <3>1, <3>2 DEF ReceiverInv, RxWaits, RxEdge, RxBeforeBit,
         RxInBit, RxSampled, LineInv
  <2>5. cctl1' = [cap |-> TRUE, ifg |-> TRUE, scci |-> cctl1.scci]
    <3>1. (cctl1.ifg \/ cctl1.cap) = TRUE /\ cctl1.cap = TRUE
      BY <1>0, <2>4 DEF ReceiverType
    <3>2. cctl1' = [cctl1 EXCEPT !.ifg = TRUE]
      BY <2>2, <3>1
    <3> QED
      BY <1>0, <3>1, <3>2 DEF ReceiverType
  <2>6. SketchInv' /\ ReceiverType'
    BY <1>0, <2>2, <2>5 DEF SketchInv, ReceiverType
  <2>7. /\ sent' \in Seq(Bytes) /\ sent' # << >>
        /\ sent'[Len(sent')] = b
    BY <1>0, <2>1 DEF LineInv
  <2>8. LineInv'
    BY <2>1, <2>3, <2>7, Halves, MaskStep DEF LineInv
  <2>9. RxEdge'
    BY <2>1, <2>5, <2>7 DEF RxEdge, LastOf
  <2> QED
    BY <2>6, <2>8, <2>9 DEF ReceiverInv
<1>8. CASE SerialRxStart
  <2>1. /\ cctl1.ifg /\ cctl1.cap /\ ccr1' = TICKS_PER_BIT + Half
        /\ rx_bits' = NoBits
        /\ cctl1' = [cctl1 EXCEPT !.ifg = FALSE, !.cap = FALSE]
        /\ UNCHANGED << rx_buffer, call, arg, open, line, sent >>
    BY <1>8 DEF SerialRxStart, FirstSample, Half, sketch, serialHistory
  <2>2. RxEdge
    BY <2>1 DEF ReceiverInv, RxWaits, RxEdge, RxBeforeBit, RxInBit, RxSampled
  <2>3. cctl1' \in [cap : BOOLEAN, ifg : BOOLEAN, scci : {0, 1}]
        /\ ~cctl1'.cap /\ ~cctl1'.ifg
    BY <1>0, <2>1 DEF ReceiverType
  <2>4. SketchInv' /\ LineInv'
    BY <1>0, <2>1 DEF SketchInv, LineInv
  <2>5. ReceiverType'
    BY <1>0, <2>1, <2>3, NoBitsOK, Halves DEF ReceiverType
  <2>6. LastOf(sent) \in 0 .. STOP_BIT - 1
    BY <1>0, <2>2, LastIsByte DEF RxEdge, LineInv
  <2>7. line.frame \div 2 = LastOf(sent) + STOP_BIT /\ line.t = TICKS_PER_BIT
    BY <2>2, <2>6, FrameIs DEF RxEdge
  <2>8. Gathers(rx_bits', line.frame \div 2, LastOf(sent))
    BY <2>1, <2>6, <2>7, NoBitsOK
  <2>9. RxBeforeBit'
    BY <2>1, <2>2, <2>3, <2>7, <2>8, Halves DEF RxBeforeBit, RxEdge
  <2> QED
    BY <2>4, <2>5, <2>9 DEF ReceiverInv
<1>9. CASE SerialRxBit
  <2> DEFINE bits == AddBit(rx_bits, cctl1.scci)
             whole == bits.mask = 0
  <2>1. /\ cctl1.ifg /\ ~cctl1.cap /\ rx_bits' = bits
        /\ ccr1' = IF whole THEN 0 ELSE TICKS_PER_BIT
        /\ cctl1' = [cctl1 EXCEPT !.ifg = FALSE, !.cap = whole]
        /\ rx_buffer' = IF whole THEN StoreRxChar(rx_buffer, bits.data)
                        ELSE rx_buffer
        /\ UNCHANGED << call, arg, open, line, sent >>
    BY <1>9 DEF SerialRxBit, sketch, serialHistory
  <2> DEFINE r == line.frame \div 2
             b == LastOf(sent)
  <2>2. /\ RxSampled /\ BitsOK(bits) /\ r \in Nat
        /\ cctl1.scci \in {0, 1} /\ line.frame = cctl1.scci + 2 * r
        /\ IF r = 1 THEN bits = [data |-> b, mask |-> 0]
           ELSE bits.mask # 0 /\ Gathers(bits, r, b)
    BY <2>1, SampleIs
  <2>7. line.t = Half
    BY <2>2 DEF RxSampled
  <2>8. bits.data \in 0 .. STOP_BIT - 1
    BY <2>2 DEF BitsOK
  <2> HIDE DEF bits, r, b
  <2>9. CASE r = 1
    <3>1. whole = TRUE
      BY <2>2, <2>9
    <3> HIDE DEF whole
    <3>2. /\ cctl1' \in [cap : BOOLEAN, ifg : BOOLEAN, scci : {0, 1}]
          /\ cctl1'.cap /\ ~cctl1'.ifg /\ ccr1' = 0
          /\ rx_buffer' = StoreRxChar(rx_buffer, bits.data)
      BY <1>0, <2>1, <3>1 DEF ReceiverType
    <3>3. /\ rx_buffer' \in RingType(0 .. STOP_BIT - 1)
          /\ ~IsEmpty(rx_buffer) => ~IsEmpty(rx_buffer')
      BY <1>0, <2>8, <3>2, StoreRxCharIs DEF ReceiverType
    <3>4. SketchInv' /\ LineInv'
      BY <1>0, <2>1, <3>3 DEF SketchInv, LineInv
    <3>5. ReceiverType'
      BY <2>1, <2>2, <3>2, <3>3, Halves DEF ReceiverType
    <3>6. line.frame \in 0 .. 3
      BY <2>2, <2>9
    <3> QED
      BY <2>1, <3>2, <3>4, <3>5, <3>6 DEF ReceiverInv, RxWaits
  <2>10. CASE r # 1
    <3>1. whole = FALSE
      BY <2>2, <2>10
    <3> HIDE DEF whole
    <3>2. /\ cctl1' \in [cap : BOOLEAN, ifg : BOOLEAN, scci : {0, 1}]
          /\ ~cctl1'.cap /\ ~cctl1'.ifg /\ ccr1' = TICKS_PER_BIT
          /\ rx_buffer' = rx_buffer
      BY <1>0, <2>1, <3>1 DEF ReceiverType
    <3>3. SketchInv' /\ LineInv'
      BY <1>0, <2>1, <3>2 DEF SketchInv, LineInv
    <3>4. ReceiverType'
      BY <1>0, <2>1, <2>2, <3>2, Halves DEF ReceiverType
    <3>5. Gathers(bits, line.frame \div 2, LastOf(sent))
      BY <2>2, <2>10 DEF r, b
    <3>6. RxBeforeBit'
      BY <2>1, <2>2, <2>7, <3>2, <3>5, Halves DEF RxBeforeBit, RxSampled
    <3> QED
      BY <3>3, <3>4, <3>6 DEF ReceiverInv
  <2> QED
    BY <2>9, <2>10
<1>10. CASE Tick
  BY <1>10, ReceiverTick DEF Tick, RxTick, sketch
<1>11. CASE UNCHANGED serialVars
  BY <1>0, <1>11, <1>q
  DEF serialVars, receiver, sketch, serialHistory, SketchInv
<1> QED
  BY <1>1, <1>2, <1>3, <1>4, <1>5, <1>6, <1>7, <1>8, <1>9, <1>10, <1>11
  DEF SerialNext, SerialRun
-----------------------------------------------------------------------------
(* What the peer hears: a byte, and the level where its stop bit belongs.  *)
Heard == [byte : 0 .. STOP_BIT - 1, stop : {0, 1}]

(* The registers and variables of the transmitter, and the peer's ear.     *)
TransmitterType ==
  /\ txd \in {0, 1} /\ cctl0 \in [ie : BOOLEAN, ifg : BOOLEAN, out : {0, 1}]
  /\ ccr0 \in 0 .. TICKS_PER_BIT /\ USARTTXBUF \in 0 .. 4 * STOP_BIT - 1
  /\ ear = [bits |-> ear.bits, t |-> ear.t] /\ BitsOK(ear.bits)
  /\ ear.t \in 0 .. TICKS_PER_BIT + Half
  /\ written \in Seq(Bytes) /\ heard \in Seq(Heard)

(* The transmitter has nothing left to put out.                            *)
Free == ~cctl0.ie /\ cctl0.out = 1 /\ USARTTXBUF = 0

(* The peer has heard all bytes written but the last n.                    *)
Behind(n) == Len(written) = Len(heard) + n

(* The ear has the bits of b and waits for the stop bit.                   *)
Whole(b) == ear.t > 0 /\ ear.bits = [data |-> b, mask |-> 0]

(* The byte before the last: write does not wait for its stop bit.         *)
Previous == written[Len(written) - 1]

(* Where the transmitter stands.  It has nothing to do and the peer has    *)
(* heard everything.                                                       *)
TxIdle == Free /\ txd = 1 /\ ear.t = 0 /\ Behind(0)

(* end let go of the pin while the peer still listens.                     *)
TxClosed ==
  /\ Free /\ ~open /\ txd = 1
  /\ ear.t > 0 /\ Behind(1) /\ Len(written) \in cut

(* write has handed over a frame whose start bit is to come; the peer may  *)
(* still be at the stop bit of the byte before, or at its last data bit.   *)
TxLead ==
  /\ cctl0.ie /\ cctl0.out = 1 /\ open /\ written # << >>
  /\ USARTTXBUF = Frame(LastOf(written))
  /\ IF cctl0.ifg THEN ccr0 = 0 /\ txd = 1 ELSE ccr0 > 0
  /\ \/ ear.t = 0 /\ Behind(1)
     \/ Behind(2) /\ Whole(Previous) /\ ear.t <= ccr0 + Half
     \/ /\ Behind(2) /\ ear.t > 0 /\ ear.t + Half <= ccr0
        /\ Gathers(ear.bits, txd + 2, Previous)

(* The start bit is in the unit, and comes with the next match.            *)
TxStart ==
  /\ cctl0.ie /\ ~cctl0.ifg /\ cctl0.out = 0 /\ open /\ written # << >>
  /\ USARTTXBUF = LastOf(written) + STOP_BIT
  /\ txd = 1 /\ ccr0 > 0
  /\ \/ ear.t = 0 /\ Behind(1)
     \/ Behind(2) /\ Whole(Previous) /\ ear.t + Half <= ccr0

(* The bits that have not been put out.                                    *)
Remaining == IF cctl0.ifg THEN USARTTXBUF ELSE cctl0.out + 2 * USARTTXBUF

(* The ticks to the next match that puts one out, whether or not the       *)
(* handler of the last has run.                                            *)
ToMatch == IF cctl0.ifg THEN TICKS_PER_BIT ELSE ccr0

(* Start and data bits are on their way; the peer samples in the middle of *)
(* each, half a bit after the match that put it out.                       *)
TxBody ==
  /\ open /\ Behind(1)
  /\ IF USARTTXBUF = 0 THEN ~cctl0.ie /\ ~cctl0.ifg /\ cctl0.out = 1
     ELSE cctl0.ie
  /\ IF cctl0.ifg THEN ccr0 = 0 ELSE ccr0 > 0
  /\ \/ /\ ear.t + Half = ToMatch /\ ear.t > 0
        /\ Gathers(ear.bits, txd + 2 * Remaining, LastOf(written))
     \/ /\ ear.t = ToMatch + Half
        /\ Gathers(ear.bits, Remaining, LastOf(written))

(* The last data bit is out, or the stop bit, and the peer waits for it.   *)
TxStop ==
  /\ Free /\ open /\ Behind(1) /\ Whole(LastOf(written))
  /\ IF ccr0 = 0 THEN txd = 1 /\ ear.t <= Half ELSE ear.t = ccr0 + Half

(* The transmitter is in one of six phases, whatever the receiver does.    *)
TransmitterInv ==
  /\ TransmitterType /\ HeardAsWritten
  /\ TxIdle \/ TxClosed \/ TxLead \/ TxStart \/ TxBody \/ TxStop

(* The byte the peer hears next is the last written, or the one before.    *)
LEMMA WrittenIs ==
  ASSUME TransmitterType, NEW n \in {1, 2}, Behind(n)
  PROVE  /\ Len(written) \in Nat /\ Len(heard) \in Nat /\ written # << >>
         /\ LastOf(written) \in 0 .. STOP_BIT - 1
         /\ n = 1 => written[Len(heard) + 1] = LastOf(written)
         /\ n = 2 => /\ written[Len(heard) + 1] = Previous
                     /\ Previous \in 0 .. STOP_BIT - 1
<1>1. Len(written) \in Nat /\ Len(heard) \in Nat
      /\ Len(written) = Len(heard) + n
  BY DEF TransmitterType, Behind
<1>2. written # << >> /\ written \in Seq(Bytes)
  BY <1>1 DEF TransmitterType
<1>3. LastOf(written) \in 0 .. STOP_BIT - 1
  BY <1>2, LastIsByte
<1>4. \A k \in 1 .. Len(written) : written[k] \in 0 .. STOP_BIT - 1
  <2>1. \A k \in 1 .. Len(written) : written[k] \in Bytes
    BY <1>2
  <2> QED
    BY <2>1, BitAssumption
<1>5. CASE n = 1
  BY <1>1, <1>2, <1>3, <1>5 DEF LastOf
<1>6. CASE n = 2
  <2>1. /\ Len(written) - 1 = Len(heard) + 1
        /\ Len(heard) + 1 \in 1 .. Len(written)
    BY <1>1, <1>6
  <2> QED
    BY <1>1, <1>2, <1>3, <1>4, <1>6, <2>1 DEF Previous
<1> QED
  BY <1>5, <1>6

(* A byte the peer has heard is the one written, or end had cut it short.  *)
LEMMA HeardOneMore ==
  ASSUME TransmitterType, HeardAsWritten, NEW x \in Heard,
         heard' = Append(heard, x), UNCHANGED << written, cut >>,
         NEW n \in {1, 2}, Behind(n),
         x.byte = written[Len(heard) + 1] \/ Len(heard) + 1 \in cut
  PROVE  HeardAsWritten' /\ heard' \in Seq(Heard) /\ Behind(n - 1)'
<1>1. /\ Len(written) \in Nat /\ Len(heard) \in Nat
      /\ Len(written) = Len(heard) + n
      /\ heard \in Seq(Heard) /\ DOMAIN heard = 1 .. Len(heard)
  BY DEF TransmitterType, Behind
<1>2. /\ heard' \in Seq(Heard) /\ Len(heard') = Len(heard) + 1
      /\ DOMAIN heard' = 1 .. Len(heard) + 1
      /\ \A k \in 1 .. Len(heard) : heard'[k] = heard[k]
      /\ heard'[Len(heard) + 1] = x
  BY <1>1
<1>3. Behind(n - 1)'
  BY <1>1, <1>2 DEF Behind
<1>4. HeardAsWritten'
  <2>1. Len(heard') <= Len(written')
    BY <1>1, <1>2
  <2>2. ASSUME NEW k \in DOMAIN heard' \ cut'
        PROVE  heard'[k].byte = written'[k]
    <3>1. CASE k \in 1 .. Len(heard)
      BY <1>1, <1>2, <2>2, <3>1 DEF HeardAsWritten
    <3>2. CASE k = Len(heard) + 1
      BY <1>2, <2>2, <3>2
    <3> QED
      BY <1>1, <1>2, <2>2, <3>1, <3>2
  <2> QED
    BY <2>1, <2>2 DEF HeardAsWritten
<1> QED
  BY <1>2, <1>3, <1>4

(* What a tick does to the transmitter, and to the ear at the other end.   *)
NewLevel == IF ccr0 = 1 /\ open THEN cctl0.out ELSE txd

TxTick ==
  /\ ~(cctl0.ie /\ cctl0.ifg)
  /\ txd' = NewLevel /\ Listen(NewLevel)
  /\ cctl0' = [cctl0 EXCEPT !.ifg = @ \/ ccr0 = 1]
  /\ ccr0' = Down(ccr0)
  /\ UNCHANGED << USARTTXBUF, open, written, cut >>

(* A match raises the flag and no tick does more to the unit.              *)
LEMMA MatchTick ==
  ASSUME TransmitterType, TxTick
  PROVE  /\ ccr0 # 1 => cctl0' = cctl0
         /\ ccr0 = 1 => cctl0' = [ie |-> cctl0.ie, ifg |-> TRUE,
                                  out |-> cctl0.out]
         /\ cctl0' \in [ie : BOOLEAN, ifg : BOOLEAN, out : {0, 1}]
         /\ cctl0'.ie = cctl0.ie /\ cctl0'.out = cctl0.out
         /\ ccr0' = IF ccr0 > 0 THEN ccr0 - 1 ELSE 0
         /\ ccr0' \in 0 .. TICKS_PER_BIT
         /\ NewLevel \in {0, 1}
<1>1. /\ cctl0 \in [ie : BOOLEAN, ifg : BOOLEAN, out : {0, 1}]
      /\ ccr0 \in 0 .. TICKS_PER_BIT /\ txd \in {0, 1}
  BY DEF TransmitterType
<1> DEFINE flag == cctl0.ifg \/ ccr0 = 1
<1>2. cctl0' = [cctl0 EXCEPT !.ifg = flag]
  BY DEF TxTick
<1>3. ccr0 # 1 => flag = cctl0.ifg
  BY <1>1
<1>4. ccr0 = 1 => flag = TRUE
  OBVIOUS
<1>5. flag \in BOOLEAN
  OBVIOUS
<1> HIDE DEF flag
<1>6. /\ ccr0 # 1 => cctl0' = cctl0
      /\ ccr0 = 1 => cctl0' = [ie |-> cctl0.ie, ifg |-> TRUE,
                               out |-> cctl0.out]
  BY <1>1, <1>2, <1>3, <1>4
<1>7. /\ cctl0' \in [ie : BOOLEAN, ifg : BOOLEAN, out : {0, 1}]
      /\ cctl0'.ie = cctl0.ie /\ cctl0'.out = cctl0.out
  BY <1>1, <1>2, <1>5
<1>8. /\ ccr0' = IF ccr0 > 0 THEN ccr0 - 1 ELSE 0
      /\ ccr0' \in 0 .. TICKS_PER_BIT
  BY <1>1, Halves DEF TxTick, Down
<1>9. NewLevel \in {0, 1}
  BY <1>1 DEF NewLevel
<1> QED
  BY <1>6, <1>7, <1>8, <1>9

(* The five things a tick can do to the peer's ear.                        *)
LEMMA EarTick ==
  ASSUME TransmitterType, TxTick
  PROVE  /\ ear.t = 0 /\ ~(txd = 1 /\ NewLevel = 0) =>
              ear' = ear /\ heard' = heard
         /\ ear.t = 0 /\ txd = 1 /\ NewLevel = 0 =>
              /\ ear' = [bits |-> NoBits, t |-> TICKS_PER_BIT + Half]
              /\ heard' = heard
         /\ ear.t > 1 =>
              /\ ear' = [bits |-> ear.bits, t |-> ear.t - 1]
              /\ heard' = heard
         /\ ear.t = 1 /\ ear.bits.mask # 0 =>
              /\ ear' = [bits |-> AddBit(ear.bits, NewLevel),
                         t |-> TICKS_PER_BIT]
              /\ heard' = heard
         /\ ear.t = 1 /\ ear.bits.mask = 0 =>
              /\ ear' = [bits |-> NoBits, t |-> 0]
              /\ heard' = Append(heard, [byte |-> ear.bits.data,
                                        stop |-> NewLevel])
<1>1. ear = [bits |-> ear.bits, t |-> ear.t] /\ ear.t \in Nat
  BY Halves DEF TransmitterType
<1> QED
  BY <1>1 DEF TxTick, Listen, Down, Deaf, Half

(* A tick keeps the transmitter's types; what it makes heard is apart.     *)
LEMMA TransmitterTypeTick ==
  ASSUME TransmitterType, TxTick
  PROVE  /\ txd' \in {0, 1}
         /\ cctl0' \in [ie : BOOLEAN, ifg : BOOLEAN, out : {0, 1}]
         /\ ccr0' \in 0 .. TICKS_PER_BIT
         /\ USARTTXBUF' \in 0 .. 4 * STOP_BIT - 1
         /\ ear' = [bits |-> ear'.bits, t |-> ear'.t] /\ BitsOK(ear'.bits)
         /\ ear'.t \in 0 .. TICKS_PER_BIT + Half
         /\ written' \in Seq(Bytes)
         /\ heard' = heard => heard' \in Seq(Heard)
<1>1. /\ BitsOK(ear.bits) /\ ear = [bits |-> ear.bits, t |-> ear.t]
      /\ ear.t \in 0 .. TICKS_PER_BIT + Half
  BY DEF TransmitterType
<1>2. NewLevel \in {0, 1}
  BY MatchTick
<1>3. BitsOK(AddBit(ear.bits, NewLevel))
  BY <1>1, <1>2, AddBitOK
<1>4. /\ ear' = [bits |-> ear'.bits, t |-> ear'.t] /\ BitsOK(ear'.bits)
      /\ ear'.t \in 0 .. TICKS_PER_BIT + Half
  <2>1. ear.t = 0 \/ ear.t = 1 \/ ear.t > 1
    BY <1>1, Halves
  <2> QED
    BY <1>1, <1>3, <2>1, EarTick, NoBitsOK, Halves
<1> QED
  BY <1>2, <1>4, MatchTick DEF TransmitterType, TxTick

(* A tick takes the transmitter from a phase to itself or to the next.     *)
LEMMA TransmitterTick ==
  ASSUME TransmitterInv, TxTick
  PROVE  TransmitterInv'
<1> USE DEF TransmitterInv
<1>1. /\ TransmitterType /\ HeardAsWritten
      /\ Half \in Nat /\ Half >= 2 /\ TICKS_PER_BIT = 2 * Half
      /\ ccr0 \in Nat /\ ccr0 <= TICKS_PER_BIT /\ txd \in {0, 1}
      /\ ear.t \in Nat /\ USARTTXBUF \in Nat
      /\ cctl0.out \in {0, 1}
  BY Halves DEF TransmitterType
<1>2. /\ UNCHANGED << USARTTXBUF, open, written, cut >>
      /\ ~(cctl0.ie /\ cctl0.ifg) /\ txd' = NewLevel
      /\ cctl0'.ie = cctl0.ie /\ cctl0'.out = cctl0.out
      /\ ccr0 # 1 => cctl0' = cctl0
      /\ ccr0 = 1 => cctl0'.ifg
      /\ ccr0' = IF ccr0 > 0 THEN ccr0 - 1 ELSE 0
  BY <1>1, MatchTick DEF TxTick
<1>a. ASSUME heard' = heard
      PROVE  /\ TransmitterType' /\ HeardAsWritten'
             /\ \A n \in Nat : Behind(n)' <=> Behind(n)
  BY <1>1, <1>2, <1>a, TransmitterTypeTick
  DEF TransmitterType, HeardAsWritten, Behind
<1>b. ASSUME NEW n \in {1, 2}, Behind(n), ear.t = 1, ear.bits.mask = 0,
             \/ ear.bits.data = written[Len(heard) + 1]
             \/ Len(heard) + 1 \in cut
      PROVE  TransmitterType' /\ HeardAsWritten' /\ Behind(n - 1)'
             /\ ear'.t = 0
  <2> DEFINE x == [byte |-> ear.bits.data, stop |-> NewLevel]
  <2>1. /\ ear' = [bits |-> NoBits, t |-> 0] /\ heard' = Append(heard, x)
    BY <1>1, <1>b, EarTick
  <2>2. x \in Heard
    BY <1>1, MatchTick DEF TransmitterType, BitsOK, Heard
  <2>3. x.byte = ear.bits.data
    OBVIOUS
  <2> HIDE DEF x
  <2>4. HeardAsWritten' /\ heard' \in Seq(Heard) /\ Behind(n - 1)'
    BY <1>1, <1>2, <1>b, <2>1, <2>2, <2>3, HeardOneMore
  <2> QED
    BY <1>1, <2>1, <2>4, TransmitterTypeTick DEF TransmitterType
<1>c. ASSUME ear.t > 1
      PROVE  /\ ear' = [bits |-> ear.bits, t |-> ear.t - 1] /\ heard' = heard
             /\ ear'.bits = ear.bits /\ ear'.t = ear.t - 1
  BY <1>1, <1>c, EarTick
<1>d. ASSUME ear.t = 1, ear.bits.mask # 0
      PROVE  /\ ear'.bits = AddBit(ear.bits, NewLevel)
             /\ ear'.t = TICKS_PER_BIT /\ heard' = heard
  BY <1>1, <1>d, EarTick
<1>e. ear.t = 0 \/ ear.t = 1 \/ ear.t > 1
  BY <1>1
<1>3. CASE TxIdle
  <2>1. NewLevel = 1
    BY <1>3 DEF TxIdle, Free, NewLevel
  <2>2. ear' = ear /\ heard' = heard
    BY <1>1, <1>3, <2>1, EarTick DEF TxIdle
  <2>3. TxIdle'
    BY <1>2, <1>3, <1>a, <2>1, <2>2 DEF TxIdle, Free
  <2> QED
    BY <1>a, <2>2, <2>3
<1>4. CASE TxClosed
  <2>1. NewLevel = 1
    BY <1>4 DEF TxClosed, Free, NewLevel
  <2>2. Free' /\ txd' = 1 /\ ~open'
    BY <1>2, <1>4, <2>1 DEF TxClosed, Free
  <2>3. CASE ear.t = 1 /\ ear.bits.mask = 0
    <3>1. Len(heard) + 1 \in cut /\ Behind(1)
      BY <1>4 DEF TxClosed, Behind
    <3>2. TransmitterType' /\ HeardAsWritten' /\ Behind(1 - 1)' /\ ear'.t = 0
      BY <1>b, <2>3, <3>1
    <3> QED
      BY <2>2, <3>2 DEF TxIdle
  <2>4. CASE ~(ear.t = 1 /\ ear.bits.mask = 0)
    <3>1. heard' = heard /\ ear'.t > 0
      BY <1>1, <1>4, <1>c, <1>d, <1>e, <2>4 DEF TxClosed
    <3>2. TxClosed'
      BY <1>2, <1>4, <1>a, <2>2, <3>1 DEF TxClosed
    <3> QED
      BY <1>a, <3>1, <3>2
  <2> QED
    BY <2>3, <2>4
<1>5. CASE TxLead
  <2>1. /\ cctl0.ie /\ ~cctl0.ifg /\ cctl0.out = 1 /\ open
        /\ written # << >> /\ USARTTXBUF = Frame(LastOf(written)) /\ ccr0 > 0
    BY <1>2, <1>5 DEF TxLead
  <2>2. /\ cctl0'.ie /\ cctl0'.out = 1 /\ open' /\ written' # << >>
        /\ USARTTXBUF' = Frame(LastOf(written'))
        /\ IF cctl0'.ifg THEN ccr0' = 0 /\ txd' = 1 ELSE ccr0' > 0
        /\ ccr0' = ccr0 - 1
    BY <1>1, <1>2, <2>1 DEF NewLevel
  <2>3. CASE ear.t = 0 /\ Behind(1)
    <3>1. ~(txd = 1 /\ NewLevel = 0)
      BY <2>1 DEF NewLevel
    <3>2. ear' = ear /\ heard' = heard
      BY <1>1, <2>3, <3>1, EarTick
    <3>3. TxLead'
      BY <1>a, <2>2, <2>3, <3>2 DEF TxLead
    <3> QED
      BY <1>a, <3>2, <3>3
  <2>4. CASE Behind(2) /\ Whole(Previous) /\ ear.t <= ccr0 + Half
    <3>1. CASE ear.t = 1
      <4>1. ear.bits.mask = 0 /\ ear.bits.data = written[Len(heard) + 1]
        BY <1>1, <2>4, WrittenIs DEF Whole
      <4>2. TransmitterType' /\ HeardAsWritten' /\ Behind(2 - 1)'
            /\ ear'.t = 0
        BY <1>b, <2>4, <3>1, <4>1
      <4>3. TxLead'
        BY <2>2, <4>2 DEF TxLead
      <4> QED
        BY <4>2, <4>3
    <3>2. CASE ear.t > 1
      <4>1. Behind(2)' /\ Whole(Previous)' /\ ear'.t <= ccr0' + Half
        BY <1>1, <1>2, <1>a, <1>c, <2>2, <2>4, <3>2 DEF Whole, Previous
      <4>2. TxLead'
        BY <2>2, <4>1 DEF TxLead
      <4> QED
        BY <1>a, <1>c, <3>2, <4>2
    <3> QED
      BY <1>e, <2>4, <3>1, <3>2 DEF Whole
  <2>5. CASE /\ Behind(2) /\ ear.t > 0 /\ ear.t + Half <= ccr0
             /\ Gathers(ear.bits, txd + 2, Previous)
    <3>1. ccr0 # 1 /\ NewLevel = txd
      BY <1>1, <2>5 DEF NewLevel
    <3>2. Previous \in 0 .. STOP_BIT - 1
      BY <1>1, <2>5, WrittenIs
    <3>3. CASE ear.t = 1
      <4>1. Gathers(ear.bits, txd + 2 * 1, Previous)
        BY <2>5
      <4>2. AddBit(ear.bits, txd) = [data |-> Previous, mask |-> 0]
        BY <1>1, <3>2, <4>1, GatherNext
      <4>3. ear.bits.mask # 0
        BY <2>5 DEF Gathers
      <4>4. Behind(2)' /\ Whole(Previous)' /\ ear'.t <= ccr0' + Half
        BY <1>1, <1>2, <1>a, <1>d, <2>2, <2>5, <3>1, <3>3, <4>2, <4>3
        DEF Whole, Previous
      <4>5. TxLead'
        BY <2>2, <4>4 DEF TxLead
      <4> QED
        BY <1>a, <1>d, <3>3, <4>3, <4>5
    <3>4. CASE ear.t > 1
      <4>1. /\ Behind(2)' /\ ear'.t > 0 /\ ear'.t + Half <= ccr0'
            /\ Gathers(ear'.bits, txd' + 2, Previous')
        BY <1>1, <1>2, <1>a, <1>c, <2>2, <2>5, <3>1, <3>4 DEF Previous
      <4>2. TxLead'
        BY <2>2, <4>1 DEF TxLead
      <4> QED
        BY <1>a, <1>c, <3>4, <4>2
    <3> QED
      BY <1>e, <2>5, <3>3, <3>4
  <2> QED
    BY <1>5, <2>3, <2>4, <2>5 DEF TxLead
<1>6. CASE TxStart
  <2>1. /\ cctl0.ie /\ ~cctl0.ifg /\ cctl0.out = 0 /\ open
        /\ written # << >> /\ USARTTXBUF = LastOf(written) + STOP_BIT
        /\ txd = 1 /\ ccr0 > 0 /\ ccr0' = ccr0 - 1
    BY <1>1, <1>2, <1>6 DEF TxStart
  <2>2. LastOf(written) \in 0 .. STOP_BIT - 1
    BY <1>1, <2>1, LastIsByte DEF TransmitterType
  <2>3. CASE ccr0 = 1
    <3>1. ear.t = 0 /\ Behind(1)
      BY <1>1, <1>6, <2>3 DEF TxStart, Whole
    <3>2. NewLevel = 0 /\ cctl0'.ifg /\ cctl0'.ie /\ ccr0' = 0
      BY <1>1, <1>2, <2>1, <2>3 DEF NewLevel
    <3>3. ear' = [bits |-> NoBits, t |-> TICKS_PER_BIT + Half]
          /\ heard' = heard
      BY <1>1, <2>1, <3>1, <3>2, EarTick
    <3>4. Remaining' = LastOf(written') + STOP_BIT /\ USARTTXBUF' # 0
          /\ ToMatch' = TICKS_PER_BIT
      BY <1>1, <1>2, <2>1, <2>2, <3>2, MaskStep DEF Remaining, ToMatch
    <3>5. Gathers(ear'.bits, Remaining', LastOf(written'))
      BY <1>2, <2>2, <3>3, <3>4, NoBitsOK
    <3>6. TxBody'
      BY <1>2, <1>a, <2>1, <3>1, <3>2, <3>3, <3>4, <3>5 DEF TxBody
    <3> QED
      BY <1>a, <3>3, <3>6
  <2>4. CASE ccr0 > 1
    <3>1. NewLevel = 1 /\ cctl0' = cctl0 /\ ccr0' > 0
      BY <1>1, <1>2, <2>1, <2>4 DEF NewLevel
    <3>2. CASE ear.t = 0 /\ Behind(1)
      <4>1. ear' = ear /\ heard' = heard
        BY <1>1, <3>1, <3>2, EarTick
      <4>2. TxStart'
        BY <1>2, <1>a, <2>1, <3>1, <3>2, <4>1 DEF TxStart
      <4> QED
        BY <1>a, <4>1, <4>2
    <3>3. CASE Behind(2) /\ Whole(Previous) /\ ear.t + Half <= ccr0
      <4>1. CASE ear.t = 1
        <5>1. ear.bits.mask = 0 /\ ear.bits.data = written[Len(heard) + 1]
          BY <1>1, <3>3, WrittenIs DEF Whole
        <5>2. TransmitterType' /\ HeardAsWritten' /\ Behind(2 - 1)'
              /\ ear'.t = 0
          BY <1>b, <3>3, <4>1, <5>1
        <5>3. TxStart'
          BY <1>2, <2>1, <3>1, <5>2 DEF TxStart
        <5> QED
          BY <5>2, <5>3
      <4>2. CASE ear.t > 1
        <5>1. Behind(2)' /\ Whole(Previous)' /\ ear'.t + Half <= ccr0'
          BY <1>1, <1>2, <1>a, <1>c, <2>1, <3>3, <4>2 DEF Whole, Previous
        <5>2. TxStart'
          BY <1>2, <2>1, <3>1, <5>1 DEF TxStart
        <5> QED
          BY <1>a, <1>c, <4>2, <5>2
      <4> QED
        BY <1>e, <3>3, <4>1, <4>2 DEF Whole
    <3> QED
      BY <1>6, <3>2, <3>3 DEF TxStart
  <2> QED
    BY <1>1, <2>1, <2>3, <2>4
<1>7. CASE TxBody
  <2>1. /\ open /\ Behind(1) /\ ~cctl0.ifg /\ ccr0 > 0 /\ ccr0' = ccr0 - 1
        /\ Remaining = cctl0.out + 2 * USARTTXBUF /\ Remaining \in Nat
        /\ ToMatch = ccr0
        /\ IF USARTTXBUF = 0 THEN ~cctl0.ie /\ cctl0.out = 1 ELSE cctl0.ie
    BY <1>1, <1>2, <1>7 DEF TxBody, Remaining, ToMatch
  <2>2. LastOf(written) \in 0 .. STOP_BIT - 1
    BY <1>1, <2>1, WrittenIs
  <2>3. CASE /\ ear.t + Half = ccr0 /\ ear.t > 0
             /\ Gathers(ear.bits, txd + 2 * Remaining, LastOf(written))
    <3>1. /\ NewLevel = txd /\ cctl0' = cctl0 /\ ccr0' > 0
          /\ Remaining' = Remaining /\ ToMatch' = ccr0'
      BY <1>1, <1>2, <2>1, <2>3 DEF NewLevel, Remaining, ToMatch
    <3>2. CASE ear.t > 1
      <4>1. TxBody'
        BY <1>1, <1>2, <1>a, <1>c, <2>1, <2>3, <3>1, <3>2 DEF TxBody
      <4> QED
        BY <1>a, <1>c, <3>2, <4>1
    <3>3. CASE ear.t = 1
      <4>1. ear.bits.mask # 0
        BY <2>3 DEF Gathers
      <4>2. /\ ear'.bits = AddBit(ear.bits, txd) /\ ear'.t = TICKS_PER_BIT
            /\ heard' = heard /\ ccr0' = Half
        BY <1>1, <1>d, <2>1, <2>3, <3>1, <3>3, <4>1
      <4>3. IF Remaining = 1
            THEN AddBit(ear.bits, txd) = [data |-> LastOf(written), mask |-> 0]
            ELSE Gathers(AddBit(ear.bits, txd), Remaining, LastOf(written))
        BY <1>1, <2>1, <2>2, <2>3, GatherNext
      <4>4. CASE Remaining = 1
        <5>1. USARTTXBUF = 0
          BY <1>1, <2>1, <4>4
        <5>2. Whole(LastOf(written))'
          BY <1>1, <1>2, <4>2, <4>3, <4>4 DEF Whole
        <5>3. TxStop'
          BY <1>1, <1>2, <1>a, <2>1, <3>1, <4>2, <5>1, <5>2 DEF TxStop, Free
        <5> QED
          BY <1>a, <4>2, <5>3
      <4>5. CASE Remaining # 1
        <5>1. ear'.t = ToMatch' + Half
              /\ Gathers(ear'.bits, Remaining', LastOf(written'))
          BY <1>1, <1>2, <3>1, <4>2, <4>3, <4>5
        <5>2. TxBody'
          BY <1>1, <1>2, <1>a, <2>1, <3>1, <4>2, <5>1 DEF TxBody
        <5> QED
          BY <1>a, <4>2, <5>2
      <4> QED
        BY <4>4, <4>5
    <3> QED
      BY <1>e, <2>3, <3>2, <3>3
  <2>4. CASE /\ ear.t = ccr0 + Half
             /\ Gathers(ear.bits, Remaining, LastOf(written))
    <3>1. Remaining >= 2
      BY <2>1, <2>2, <2>4, GatherMore
    <3>2. USARTTXBUF # 0 /\ cctl0.ie
      BY <1>1, <2>1, <3>1
    <3>3. ear.t > 1
      BY <1>1, <2>1, <2>4
    <3>4. CASE ccr0 = 1
      <4>1. /\ txd' = cctl0.out /\ cctl0'.ifg /\ cctl0'.ie /\ ccr0' = 0
            /\ Remaining' = USARTTXBUF /\ ToMatch' = TICKS_PER_BIT
        BY <1>1, <1>2, <2>1, <3>2, <3>4 DEF NewLevel, Remaining, ToMatch
      <4>2. ear'.t = Half /\ ear'.bits = ear.bits /\ heard' = heard
        BY <1>1, <1>c, <2>4, <3>3, <3>4
      <4>3. Gathers(ear'.bits, txd' + 2 * Remaining', LastOf(written'))
        BY <1>2, <2>1, <2>4, <4>1, <4>2
      <4>4. TxBody'
        BY <1>1, <1>2, <1>a, <2>1, <3>2, <4>1, <4>2, <4>3 DEF TxBody
      <4> QED
        BY <1>a, <4>2, <4>4
    <3>5. CASE ccr0 > 1
      <4>1. /\ cctl0' = cctl0 /\ ccr0' > 0
            /\ Remaining' = Remaining /\ ToMatch' = ccr0'
        BY <1>1, <1>2, <2>1, <3>5 DEF Remaining, ToMatch
      <4>2. TxBody'
        BY <1>1, <1>2, <1>a, <1>c, <2>1, <2>4, <3>2, <3>3, <3>5, <4>1
        DEF TxBody
      <4> QED
        BY <1>a, <1>c, <3>3, <4>2
    <3> QED
      BY <1>1, <2>1, <3>4, <3>5
  <2> QED
    BY <1>7, <2>1, <2>3, <2>4 DEF TxBody
<1>8. CASE TxStop
  <2>1. /\ Free /\ open /\ Behind(1) /\ Whole(LastOf(written))
        /\ Free'
    BY <1>2, <1>8 DEF TxStop, Free
  <2>2. CASE ear.t = 1
    <3>1. ccr0 = 0 /\ txd = 1
      BY <1>1, <1>8, <2>2 DEF TxStop
    <3>2. ear.bits.mask = 0 /\ ear.bits.data = written[Len(heard) + 1]
      BY <1>1, <2>1, WrittenIs DEF Whole
    <3>3. TransmitterType' /\ HeardAsWritten' /\ Behind(1 - 1)' /\ ear'.t = 0
      BY <1>b, <2>1, <2>2, <3>2
    <3>4. txd' = 1
      BY <1>2, <3>1 DEF NewLevel
    <3> QED
      BY <2>1, <3>3, <3>4 DEF TxIdle
  <2>3. CASE ear.t > 1
    <3>1. Whole(LastOf(written))' /\ heard' = heard /\ ear'.t = ear.t - 1
      BY <1>1, <1>2, <1>c, <2>1, <2>3 DEF Whole
    <3>2. IF ccr0' = 0 THEN txd' = 1 /\ ear'.t <= Half
          ELSE ear'.t = ccr0' + Half
      BY <1>1, <1>2, <1>8, <2>1, <2>3, <3>1 DEF TxStop, NewLevel, Free
    <3>3. TxStop'
      BY <1>2, <1>a, <2>1, <3>1, <3>2 DEF TxStop
    <3> QED
      BY <1>a, <3>1, <3>3
  <2> QED
    BY <1>e, <2>1, <2>2, <2>3 DEF Whole
<1> QED
  BY <1>3, <1>4, <1>5, <1>6, <1>7, <1>8

(* The calls of the sketch and the handler, phase by phase.                *)
LEMMA TransmitterStep ==
  TransmitterInv /\ SketchInv /\ [SerialNext]_serialVars => TransmitterInv'
<1> SUFFICES ASSUME TransmitterInv, SketchInv, [SerialNext]_serialVars
             PROVE  TransmitterInv'
  OBVIOUS
<1>0. /\ TransmitterType /\ HeardAsWritten
      /\ Half \in Nat /\ Half >= 2 /\ TICKS_PER_BIT = 2 * Half
      /\ ccr0 \in Nat /\ ccr0 <= TICKS_PER_BIT /\ txd \in {0, 1}
      /\ ear.t \in Nat /\ USARTTXBUF \in Nat
      /\ cctl0.out \in {0, 1} /\ written \in Seq(Bytes)
      /\ Len(written) \in Nat /\ Len(heard) \in Nat
      /\ STOP_BIT \in Nat /\ STOP_BIT >= 2
  BY Halves, MaskStep DEF TransmitterType, TransmitterInv
<1>q. ASSUME UNCHANGED << transmitter, ear, written, heard, cut, open >>
      PROVE  TransmitterInv'
  <2>1. TransmitterType' /\ HeardAsWritten'
    BY <1>0, <1>q DEF TransmitterType, HeardAsWritten, transmitter
  <2>2. UNCHANGED << txd, cctl0, ccr0, USARTTXBUF, ear, written, heard, cut,
                     open >>
    BY <1>q DEF transmitter
  <2> QED
    BY <2>1, <2>2 DEF TransmitterInv, TxIdle, TxClosed, TxLead, TxStart,
       TxBody, TxStop, Free, Behind, Whole, Previous, Remaining, ToMatch
<1>1. CASE \/ WriteSerial \/ FlushSerial \/ EndSerial \/ FlushDone
           \/ ReadSerial \/ ReadDone \/ SerialRxStart \/ SerialRxBit
           \/ PeerSend \/ UNCHANGED serialVars
  BY <1>1, <1>q DEF WriteSerial, FlushSerial, EndSerial, Invoke, FlushDone,
     ReadSerial, ReadDone, SerialRxStart, SerialRxBit, PeerSend, serialVars,
     serialHistory, sketch
<1>2. CASE WriteStart
  <2>1. /\ ~cctl0.ie /\ arg \in Bytes /\ open
        /\ ccr0' = TICKS_PER_BIT
        /\ cctl0' = [ie |-> TRUE, ifg |-> FALSE, out |-> 1]
        /\ USARTTXBUF' = Frame(arg) /\ written' = Append(written, arg)
        /\ UNCHANGED << txd, open, ear, heard, cut >>
    BY <1>2 DEF WriteStart, Polled, SketchInv
  <2>2. /\ written' \in Seq(Bytes) /\ Len(written') = Len(written) + 1
        /\ written'[Len(written) + 1] = arg
        /\ \A k \in 1 .. Len(written) : written'[k] = written[k]
        /\ written' # << >>
    BY <1>0, <2>1
  <2>3. LastOf(written') = arg
    BY <2>2 DEF LastOf
  <2>4. \A n \in Nat : Behind(n) => Behind(n + 1)'
    BY <1>0, <2>1, <2>2 DEF Behind
  <2>5. TransmitterType'
    <3>1. arg \in 0 .. STOP_BIT - 1
      BY <2>1, BitAssumption
    <3>2. Frame(arg) \in 0 .. 4 * STOP_BIT - 1
      BY <1>0, <3>1, FrameIs
    <3> QED
      BY <1>0, <2>1, <2>2, <3>2 DEF TransmitterType
  <2>6. HeardAsWritten'
    <3>1. Len(heard) <= Len(written) /\ DOMAIN heard = 1 .. Len(heard)
      BY <1>0 DEF TransmitterType, HeardAsWritten
    <3>2. ASSUME NEW k \in DOMAIN heard \ cut
          PROVE  heard[k].byte = written'[k]
      <4>1. k \in 1 .. Len(written)
        BY <1>0, <3>1, <3>2
      <4> QED
        BY <1>0, <2>2, <3>2, <4>1 DEF HeardAsWritten
    <3> QED
      BY <1>0, <2>1, <2>2, <3>1, <3>2 DEF HeardAsWritten
  <2>7. /\ cctl0'.ie /\ cctl0'.out = 1 /\ open' /\ written' # << >>
        /\ USARTTXBUF' = Frame(LastOf(written')) /\ ~cctl0'.ifg /\ ccr0' > 0
    BY <1>0, <2>1, <2>2, <2>3
  <2>8. ASSUME written # << >> PROVE Previous' = LastOf(written)
    <3>1. /\ Len(written) \in 1 .. Len(written)
          /\ Len(written') - 1 = Len(written)
      BY <1>0, <2>2, <2>8
    <3> QED
      BY <2>2, <3>1 DEF Previous, LastOf
  <2>9. CASE TxIdle
    <3>1. ear'.t = 0 /\ Behind(0 + 1)'
      BY <2>1, <2>4, <2>9 DEF TxIdle
    <3>2. TxLead'
      BY <2>7, <3>1 DEF TxLead
    <3> QED
      BY <2>5, <2>6, <3>2 DEF TransmitterInv
  <2>10. CASE TxBody
    <3>1. /\ Behind(1) /\ USARTTXBUF = 0 /\ ~cctl0.ifg /\ cctl0.out = 1
      BY <2>1, <2>10 DEF TxBody
    <3>2. Remaining = 1 /\ ToMatch = ccr0
      BY <1>0, <3>1 DEF Remaining, ToMatch
    <3>3. written # << >> /\ LastOf(written) \in 0 .. STOP_BIT - 1
      BY <1>0, <3>1, WrittenIs
    <3>4. ~Gathers(ear.bits, 1, LastOf(written))
      <4> SUFFICES ASSUME Gathers(ear.bits, 1, LastOf(written)) PROVE FALSE
        OBVIOUS
      <4>1. 1 >= 2
        BY <3>3, GatherMore
      <4> QED
        BY <4>1
    <3>5. /\ ear.t + Half = ccr0 /\ ear.t > 0
          /\ Gathers(ear.bits, txd + 2, LastOf(written))
      BY <2>10, <3>2, <3>4 DEF TxBody
    <3>6. /\ Behind(1 + 1)' /\ ear'.t > 0 /\ ear'.t + Half <= ccr0'
          /\ Gathers(ear'.bits, txd' + 2, Previous')
      BY <1>0, <2>1, <2>4, <2>8, <3>1, <3>3, <3>5
    <3>7. TxLead'
      BY <2>7, <3>6 DEF TxLead
    <3> QED
      BY <2>5, <2>6, <3>7 DEF TransmitterInv
  <2>11. CASE TxStop
    <3>1. Behind(1) /\ Whole(LastOf(written)) /\ ear.t <= ccr0 + Half
      BY <1>0, <2>11 DEF TxStop
    <3>2. written # << >>
      BY <1>0, <3>1, WrittenIs
    <3>3. Behind(1 + 1)' /\ Whole(Previous)' /\ ear'.t <= ccr0' + Half
      BY <1>0, <2>1, <2>4, <2>8, <3>1, <3>2 DEF Whole
    <3>4. TxLead'
      BY <2>7, <3>3 DEF TxLead
    <3> QED
      BY <2>5, <2>6, <3>4 DEF TransmitterInv
  <2> QED
    BY <2>1, <2>9, <2>10, <2>11
    DEF TransmitterInv, TxClosed, TxLead, TxStart
<1>3. CASE EndDone
  <2>1. /\ ~cctl0.ie /\ open /\ ~open' /\ txd' = 1
        /\ cut' = IF Len(heard) < Len(written)
                  THEN {Len(written)} \cup cut ELSE cut
        /\ UNCHANGED << cctl0, ccr0, USARTTXBUF, ear, written, heard >>
    BY <1>3 DEF EndDone, Polled, SketchInv
  <2>2. TransmitterType'
    BY <1>0, <2>1 DEF TransmitterType
  <2>3. HeardAsWritten'
    BY <1>0, <2>1 DEF HeardAsWritten
  <2>4. CASE TxIdle
    <3>1. TxIdle'
      BY <2>1, <2>4 DEF TxIdle, Free, Behind
    <3> QED
      BY <2>2, <2>3, <3>1 DEF TransmitterInv
  <2>5. CASE TxBody \/ TxStop
    <3>1. Free /\ Behind(1) /\ ear.t > 0
      BY <1>0, <2>1, <2>5 DEF TxBody, TxStop, Free, Whole, ToMatch
    <3>2. Len(written) \in cut'
      BY <1>0, <2>1, <3>1 DEF Behind
    <3>3. TxClosed'
      BY <2>1, <3>1, <3>2 DEF TxClosed, Free, Behind
    <3> QED
      BY <2>2, <2>3, <3>3 DEF TransmitterInv
  <2> QED
    BY <2>1, <2>4, <2>5 DEF TransmitterInv, TxClosed, TxLead, TxStart
<1>4. CASE BeginSerial
  <2>1. /\ ~open /\ ear.t = 0 /\ txd' = 1
        /\ cctl0' = [ie |-> FALSE, ifg |-> FALSE, out |-> cctl0.out]
        /\ UNCHANGED << ccr0, USARTTXBUF, ear, written, heard, cut >>
    BY <1>4 DEF BeginSerial, serialHistory
  <2>2. TxIdle
    BY <2>1 DEF TransmitterInv, TxIdle, TxClosed, TxLead, TxStart, TxBody,
       TxStop
  <2>3. TransmitterType' /\ HeardAsWritten'
    BY <1>0, <2>1 DEF TransmitterType, HeardAsWritten
  <2>4. TxIdle'
    BY <2>1, <2>2 DEF TxIdle, Free, Behind
  <2> QED
    BY <2>3, <2>4 DEF TransmitterInv
<1>5. CASE SerialTxIsr
  <2> DEFINE rest == USARTTXBUF \div 2
             bit == USARTTXBUF % 2
  <2>1. /\ cctl0.ie /\ cctl0.ifg /\ ccr0' = TICKS_PER_BIT
        /\ cctl0' = [ie |-> rest # 0, ifg |-> FALSE, out |-> bit]
        /\ USARTTXBUF' = rest
        /\ UNCHANGED << txd, open, ear, written, heard, cut >>
    BY <1>5 DEF SerialTxIsr, TxIsrMore, sketch, serialHistory
  <2>2. /\ rest \in Nat /\ bit \in {0, 1} /\ USARTTXBUF = bit + 2 * rest
        /\ rest <= USARTTXBUF
    BY <1>0
  <2> HIDE DEF rest, bit
  <2>3. TransmitterType' /\ HeardAsWritten'
    BY <1>0, <2>1, <2>2 DEF TransmitterType, HeardAsWritten
  <2>4. cctl0'.out = bit /\ ~cctl0'.ifg /\ (cctl0'.ie <=> rest # 0)
    BY <2>1
  <2>5. CASE TxLead
    <3>1. /\ written # << >> /\ USARTTXBUF = Frame(LastOf(written))
          /\ ccr0 = 0 /\ txd = 1 /\ open
      BY <2>1, <2>5 DEF TxLead
    <3>2. LastOf(written) \in 0 .. STOP_BIT - 1
      BY <1>0, <3>1, LastIsByte
    <3>3. bit = 0 /\ rest = LastOf(written) + STOP_BIT /\ rest # 0
      <4>1. Frame(LastOf(written)) % 2 = 0
            /\ Frame(LastOf(written)) \div 2 = LastOf(written) + STOP_BIT
        BY <3>2, FrameIs
      <4> QED
        BY <1>0, <3>1, <3>2, <4>1 DEF bit, rest
    <3>4. \/ ear.t = 0 /\ Behind(1)
          \/ Behind(2) /\ Whole(Previous) /\ ear.t <= Half
      BY <1>0, <2>5, <3>1 DEF TxLead
    <3>5. \/ ear'.t = 0 /\ Behind(1)'
          \/ Behind(2)' /\ Whole(Previous)' /\ ear'.t + Half <= ccr0'
      BY <1>0, <2>1, <3>4 DEF Behind, Whole, Previous
    <3>6. TxStart'
      BY <1>0, <2>1, <2>4, <3>1, <3>3, <3>5 DEF TxStart
    <3> QED
      BY <2>3, <3>6 DEF TransmitterInv
  <2>6. CASE TxBody
    <3>1. /\ USARTTXBUF # 0 /\ open /\ Behind(1)
          /\ Remaining = USARTTXBUF /\ ToMatch = TICKS_PER_BIT
      BY <2>1, <2>6 DEF TxBody, Remaining, ToMatch
    <3>2. Remaining' = Remaining /\ ToMatch' = ToMatch
      BY <2>1, <2>2, <2>4, <3>1 DEF Remaining, ToMatch
    <3>3. IF USARTTXBUF' = 0
          THEN ~cctl0'.ie /\ ~cctl0'.ifg /\ cctl0'.out = 1 ELSE cctl0'.ie
      BY <2>1, <2>2, <2>4, <3>1
    <3>4. /\ open' /\ Behind(1)' /\ ~cctl0'.ifg /\ ccr0' > 0
      BY <1>0, <2>1, <2>4, <3>1 DEF Behind
    <3>5. \/ /\ ear'.t + Half = ToMatch' /\ ear'.t > 0
             /\ Gathers(ear'.bits, txd' + 2 * Remaining', LastOf(written'))
          \/ /\ ear'.t = ToMatch' + Half
             /\ Gathers(ear'.bits, Remaining', LastOf(written'))
      BY <2>1, <2>6, <3>2 DEF TxBody
    <3>6. TxBody'
      BY <3>3, <3>4, <3>5 DEF TxBody
    <3> QED
      BY <2>3, <3>6 DEF TransmitterInv
  <2> QED
    BY <2>1, <2>5, <2>6
    DEF TransmitterInv, TxIdle, TxClosed, TxStart, TxStop, Free
<1>6. CASE Tick
  <2>1. TxTick
    BY <1>6 DEF Tick, TxTick, NewLevel, sketch
  <2> QED
    BY <2>1, TransmitterTick
<1> QED
  BY <1>1, <1>2, <1>3, <1>4, <1>5, <1>6 DEF SerialNext, SerialRun

(* The inductive invariant: both directions, side by side.                 *)
SerialInv == ReceiverInv /\ TransmitterInv

(* An open port with nothing written or sent is in it.                     *)
LEMMA SerialInvInit == SerialInit => SerialInv
<1> SUFFICES ASSUME SerialInit PROVE SerialInv
  OBVIOUS
<1> USE DEF SerialInit
<1>1. SketchInv
  BY MaskStep DEF SketchInv
<1>2. LineInv
  BY MaskStep, Halves DEF LineInv, NoFrame
<1>3. ReceiverType
  <2>1. EmptyRing \in RingType(0 .. STOP_BIT - 1)
    BY MaskStep, SizeAssumption DEF EmptyRing, RingType, Index
  <2> QED
    BY <2>1, NoBitsOK, Halves DEF ReceiverType
<1>4. RxWaits
  BY DEF RxWaits, NoFrame
<1>5. TransmitterType
  BY NoBitsOK, Halves, MaskStep DEF TransmitterType, Deaf
<1>6. HeardAsWritten /\ TxIdle
  BY DEF HeardAsWritten, TxIdle, Free, Behind, Deaf
<1> QED
  BY <1>1, <1>2, <1>3, <1>4, <1>5, <1>6
  DEF SerialInv, ReceiverInv, TransmitterInv

(* Every step of the serial port preserves it.                             *)
LEMMA SerialInvStep == SerialInv /\ [SerialNext]_serialVars => SerialInv'
  BY ReceiverStep, TransmitterStep DEF SerialInv, ReceiverInv

(* What a step stores is the byte the peer sent last.                      *)
LEMMA StoredStep ==
  SerialInv /\ [SerialNext]_serialVars =>
    [rx_buffer'.head # rx_buffer.head =>
       Contents(rx_buffer')[Available(rx_buffer')]
         = sent[Len(sent)]]_serialVars
<1> SUFFICES ASSUME SerialInv, SerialNext, rx_buffer'.head # rx_buffer.head
             PROVE  Contents(rx_buffer')[Available(rx_buffer')]
                      = sent[Len(sent)]
  OBVIOUS
<1>1. ReceiverInv /\ rx_buffer \in RingType(0 .. STOP_BIT - 1)
  BY DEF SerialInv, ReceiverInv, ReceiverType
<1>2. SerialRxBit
  <2>1. AdvanceTail(rx_buffer).head = rx_buffer.head
    BY <1>1 DEF AdvanceTail, RingType
  <2> QED
    BY <2>1 DEF SerialNext, SerialRun, WriteSerial, FlushSerial, EndSerial,
       Invoke, WriteStart, FlushDone, EndDone, BeginSerial, ReadSerial,
       ReadDone, SerialTxIsr, SerialRxStart, PeerSend, Tick, receiver
<1> DEFINE bits == AddBit(rx_bits, cctl1.scci)
           b == LastOf(sent)
<1>3. /\ cctl1.ifg /\ ~cctl1.cap
      /\ bits.mask = 0 /\ rx_buffer' = StoreRxChar(rx_buffer, bits.data)
  BY <1>2 DEF SerialRxBit
<1>4. bits = [data |-> b, mask |-> 0] /\ BitsOK(bits)
  BY <1>1, <1>3, SampleIs
<1>5. bits.data = b /\ bits.data \in 0 .. STOP_BIT - 1
  BY <1>4 DEF BitsOK
<1> HIDE DEF bits, b
<1>6. rx_buffer' = StoreRxChar(rx_buffer, b) /\ b \in 0 .. STOP_BIT - 1
  BY <1>3, <1>5
<1>7. StoreRxChar(rx_buffer, b).head # rx_buffer.head =>
        Contents(StoreRxChar(rx_buffer, b))[
          Available(StoreRxChar(rx_buffer, b))] = b
  BY ONLY <1>1, <1>6, StoredIsLast
<1>8. Contents(rx_buffer')[Available(rx_buffer')] = b
  BY <1>6, <1>7
<1> QED
  BY <1>8 DEF b, LastOf

(* The phases' types are those the runs check.                             *)
LEMMA SerialTyped == SerialInv => SerialTypeOK
<1> SUFFICES ASSUME SerialInv PROVE SerialTypeOK
  OBVIOUS
<1>1. SketchInv /\ ReceiverType /\ TransmitterType
  BY DEF SerialInv, ReceiverInv, TransmitterInv
<1>2. ASSUME NEW bits, BitsOK(bits)
      PROVE  bits \in [data : 0 .. STOP_BIT - 1, mask : 0 .. STOP_BIT - 1]
  <2>1. Masks \cup {0} \subseteq 0 .. STOP_BIT - 1
    BY MaskStep
  <2> QED
    BY <1>2, <2>1 DEF BitsOK
<1>3. rx_bits \in [data : 0 .. STOP_BIT - 1, mask : 0 .. STOP_BIT - 1]
  BY <1>1, <1>2 DEF ReceiverType
<1> QED
  BY <1>1, <1>3
  DEF SerialTypeOK, SketchInv, ReceiverType, TransmitterType, Half
============================================================================
