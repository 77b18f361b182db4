---------------------------- MODULE WiringProofs ---------------------------
(***************************************************************************)
(* The msp430 clock and the calls that wait for it, for every tick         *)
(* interval, word size and set of arguments.                               *)
(*                                                                         *)
(* First the clock: type correctness and ClockExact.  Only watchdog_isr    *)
(* writes it, so all rests on one step, and that one on arithmetic:        *)
(* milliseconds that wrap at WORD and a fraction kept apart count like one *)
(* number that wraps at WORD * FRACT_MAX.                                  *)
(*                                                                         *)
(* Then an invariant of the place (PlaceInv): what drives the timer where, *)
(* where the CPU can be asleep, and that a call meets one tick per pass.   *)
(* On it rest three timings: of delay (DelayInv), of wakeup() (WokenInv)   *)
(* and of sleep and sleepSeconds (SleepsInv).  Each relates taken, the     *)
(* time the timer measured, to what the call made of the clock.            *)
(***************************************************************************)
EXTENDS Wiring, TLAPS

(* Division with remainder, by any positive number.                        *)
LEMMA Division == ASSUME NEW b \in Nat \ {0}, NEW a \in Int
             PROVE /\ a \div b \in Int /\ a % b \in 0 .. b - 1
                   /\ a = b * (a \div b) + (a % b)
  BY SMT

(* A multiple of b that stays below b is zero.                             *)
LEMMA NoMultipleBelow ==
  ASSUME NEW b \in Nat \ {0}, NEW k \in Int, NEW s \in 0 .. b - 1,
         b * k + s \in 0 .. b - 1
  PROVE  k = 0
<1>1. CASE k >= 1
  <2>1. b * k >= b BY <1>1, SMT
  <2> QED BY <2>1, SMT
<1>2. CASE k <= -1
  <2>1. b * k <= -b BY <1>2, SMT
  <2> QED BY <2>1, SMT
<1> QED BY <1>1, <1>2, SMT

(* The remainder is the one number below b that leaves a multiple of b.    *)
LEMMA RemainderIs ==
  ASSUME NEW b \in Nat \ {0}, NEW q \in Int, NEW s \in 0 .. b - 1
  PROVE  (b * q + s) % b = s
<1> DEFINE x == b * q + s
<1>1. x \in Int BY SMT
<1>2. x \div b \in Int /\ x % b \in 0 .. b - 1 /\ x = b * (x \div b) + (x % b)
  BY <1>1, Division
<1> HIDE DEF x
<1> DEFINE d == x \div b  r == x % b
<1>3. d \in Int /\ r \in 0 .. b - 1 /\ x = b * d + r
  BY <1>2
<1> HIDE DEF d, r
<1>4. b * (q - d) + s = r
  <2>1. b * q + s = b * d + r BY <1>3 DEF x
  <2>2. b * (q - d) = b * q - b * d BY <1>3, SMT
  <2> QED BY <2>1, <2>2, <1>3, SMT
<1>5. q - d = 0 BY <1>3, <1>4, NoMultipleBelow, q - d \in Int
<1>6. b * (q - d) = 0 BY <1>5, SMT
<1>7. s = r BY <1>4, <1>6, <1>3, SMT
<1> QED BY <1>7 DEF x, r

(* Carrying into milliseconds that wrap is wrapping the whole count.       *)
LEMMA CarryWraps ==
  ASSUME NEW a \in Nat, NEW f \in 0 .. FRACT_MAX - 1
  PROVE  (a % WORD) * FRACT_MAX + f
           = (a * FRACT_MAX + f) % (WORD * FRACT_MAX)
<1> DEFINE b == WORD * FRACT_MAX  q == a \div WORD  r == a % WORD
<1>1. q \in Int /\ r \in 0 .. WORD - 1 /\ a = WORD * q + r
  BY Division, ClockAssumption
<1>2. b \in Nat \ {0} BY ClockAssumption, SMT
<1> HIDE DEF q, r
<1>3. r * FRACT_MAX + f \in 0 .. b - 1
  <2>1. r * FRACT_MAX <= (WORD - 1) * FRACT_MAX BY <1>1, ClockAssumption, SMT
  <2>2. (WORD - 1) * FRACT_MAX = b - FRACT_MAX BY ClockAssumption, SMT
  <2>3. r * FRACT_MAX \in Nat BY <1>1, ClockAssumption, SMT
  <2> QED BY <2>1, <2>2, <2>3, <1>2, ClockAssumption, SMT
<1>4. a * FRACT_MAX + f = b * q + (r * FRACT_MAX + f)
  <2>1. a * FRACT_MAX = (WORD * q) * FRACT_MAX + r * FRACT_MAX
    BY <1>1, ClockAssumption, SMT
  <2>2. (WORD * q) * FRACT_MAX = b * q BY <1>1, ClockAssumption, SMT
  <2> QED BY <2>1, <2>2, <1>1, <1>2, ClockAssumption, SMT
<1> HIDE DEF b
<1>5. (b * q + (r * FRACT_MAX + f)) % b = r * FRACT_MAX + f
  BY <1>1, <1>2, <1>3, RemainderIs
<1> QED BY <1>4, <1>5 DEF b, r

-----------------------------------------------------------------------------
(* What one tick is worth is a number of milliseconds and a fraction.      *)
LEMMA TickCreditType ==
  ASSUME TypeOK
  PROVE  /\ TickCredit[1] \in Nat /\ TickCredit[2] \in 0 .. FRACT_MAX - 1
         /\ Time(TickCredit) = TickCredit[1] * FRACT_MAX + TickCredit[2]
<1>1. MILLIS_INC \in Nat /\ FRACT_INC \in 0 .. FRACT_MAX - 1
  <2>1. /\ MICROSECONDS_PER_WDT_OVERFLOW \div FRACT_MAX \in Nat
        /\ MICROSECONDS_PER_WDT_OVERFLOW % FRACT_MAX \in 0 .. FRACT_MAX - 1
    BY ClockAssumption, SMT
  <2> QED BY <2>1 DEF MILLIS_INC, FRACT_INC
<1>2. CASE sleeping
  BY <1>2 DEF TypeOK, TickCredit, Time
<1>3. CASE ~sleeping
  BY <1>1, <1>3 DEF TickCredit, RunTick, Time
<1> QED BY <1>2, <1>3

(* The carry of one tick keeps the fraction below a millisecond and loses  *)
(* nothing of the sum.                                                     *)
LEMMA CarryKeepsTime ==
  ASSUME NEW m \in Nat, NEW f \in 0 .. 2 * FRACT_MAX - 2
  PROVE  /\ Carry(m, f)[1] \in Nat /\ Carry(m, f)[2] \in 0 .. FRACT_MAX - 1
         /\ Carry(m, f)[1] * FRACT_MAX + Carry(m, f)[2] = m * FRACT_MAX + f
<1>1. CASE f >= FRACT_MAX
  <2>1. Carry(m, f) = << m + 1, f - FRACT_MAX >>
    BY <1>1 DEF Carry
  <2>2. (m + 1) * FRACT_MAX = m * FRACT_MAX + FRACT_MAX
    BY ClockAssumption, SMT
  <2>3. m * FRACT_MAX \in Nat
    BY ClockAssumption, SMT
  <2> QED BY <1>1, <2>1, <2>2, <2>3, ClockAssumption
<1>2. CASE ~(f >= FRACT_MAX)
  BY <1>2, ClockAssumption DEF Carry
<1> QED BY <1>1, <1>2

(* One run of watchdog_isr: the clock stays well-typed and exact.          *)
LEMMA WatchdogKeepsTime ==
  ASSUME TypeOK, ClockExact, WatchdogIsr
  PROVE  /\ wdt_millis' \in 0 .. WORD - 1 /\ wdt_fract' \in 0 .. FRACT_MAX - 1
         /\ wdt_overflow_count' \in 0 .. WORD - 1
         /\ credited' \in 0 .. WORD * FRACT_MAX - 1
         /\ ClockExact'
<1> DEFINE m == wdt_millis + TickCredit[1]
           f == wdt_fract + TickCredit[2]
           now == Carry(m, f)
<1>1. m \in Nat /\ f \in 0 .. 2 * FRACT_MAX - 2
  BY TickCreditType, ClockAssumption DEF TypeOK
<1>2. /\ wdt_millis' = now[1] % WORD /\ wdt_fract' = now[2]
      /\ wdt_overflow_count' = (wdt_overflow_count + 1) % WORD
      /\ credited' = (credited + Time(TickCredit)) % (WORD * FRACT_MAX)
  BY DEF WatchdogIsr
<1>3. credited + Time(TickCredit) = m * FRACT_MAX + f
  <2>1. TickCredit[1] \in Nat /\ TickCredit[2] \in 0 .. FRACT_MAX - 1
    BY TickCreditType
  <2>2. m * FRACT_MAX = wdt_millis * FRACT_MAX + TickCredit[1] * FRACT_MAX
    BY <2>1, ClockAssumption, SMT DEF TypeOK
  <2>3. /\ wdt_millis * FRACT_MAX \in Nat /\ TickCredit[1] * FRACT_MAX \in Nat
    BY <2>1, ClockAssumption, SMT DEF TypeOK
  <2>4. /\ credited = wdt_millis * FRACT_MAX + wdt_fract
        /\ Time(TickCredit) = TickCredit[1] * FRACT_MAX + TickCredit[2]
    BY TickCreditType DEF ClockExact
  <2> HIDE DEF m
  <2>5. wdt_fract \in Nat /\ FRACT_MAX \in Nat
    BY ClockAssumption DEF TypeOK
  <2> QED BY <2>1, <2>2, <2>3, <2>4, <2>5
<1> HIDE DEF m, f
<1>4. /\ now[1] \in Nat /\ now[2] \in 0 .. FRACT_MAX - 1
      /\ now[1] * FRACT_MAX + now[2] = m * FRACT_MAX + f
  BY <1>1, CarryKeepsTime
<1> HIDE DEF now
<1>5. wdt_millis' * FRACT_MAX + wdt_fract' = credited'
  BY <1>2, <1>3, <1>4, CarryWraps
<1>6. now[1] % WORD \in 0 .. WORD - 1
  <2>1. now[1] \in Int /\ WORD \in Nat \ {0}
    BY <1>4, ClockAssumption
  <2> QED BY <2>1, Division
<1>7. (wdt_overflow_count + 1) % WORD \in 0 .. WORD - 1
  BY Division, ClockAssumption DEF TypeOK
<1>8. credited' \in 0 .. WORD * FRACT_MAX - 1
  <2>1. WORD * FRACT_MAX \in Nat \ {0}
    BY ClockAssumption, SMT
  <2>2. m * FRACT_MAX + f \in Int
    BY <1>1, ClockAssumption
  <2> QED BY <1>2, <1>3, <2>1, <2>2, Division
<1> QED BY <1>2, <1>4, <1>5, <1>6, <1>7, <1>8 DEF ClockExact

(* No other step touches the clock.                                        *)
LEMMA OnlyWatchdogTicks ==
  ASSUME [Next]_vars, ~WatchdogIsr
  PROVE  UNCHANGED << clock, credited >>
  BY DEF Next, vars, history, Call, Running, Delay, InSeconds, InSleep, Exit,
         InSuspend, NoInterrupts, Interrupts, Expire, WakeupIsr, DelayCall,
         DelayReturn, DelayCount, DelaySleep, SleepSecondsCall, SecondsStart,
         SecondsSleeping, SecondsStay, SecondsMillis, SecondsFract, SecondsWdt,
         SecondsTest, SecondsSleep, ExitSleeping, ExitStay, ExitWdt, NextPart,
         SleepCall, SleepMillis, SleepFract, SleepWdt, SleepSleeping,
         SleepStay, SleepStart, SleepTest, SleepSleep,
         SuspendCall, SuspendSleeping,
         SuspendStay, SuspendTest, SuspendSleep, SuspendExit, SuspendWdt,
         Enter, Return, LowPower

-----------------------------------------------------------------------------
(* A call reads the clock, and its locals stay words.                      *)
LEMMA WordsAreWords ==
  ASSUME TypeOK
  PROVE  /\ millis \in 0 .. WORD - 1 /\ micros \in 0 .. WORD - 1
         /\ CountedFrom \in 0 .. WORD - 1
         /\ \A ms \in Nat :
              WholeSeconds(ms) \in Nat /\ RestOf(ms) \in 0 .. WORD - 1
<1>1. wdt_overflow_count * MICROSECONDS_PER_WDT_OVERFLOW \in Int
  BY ClockAssumption, SMT DEF TypeOK
<1>2. start + FRACT_MAX \in Int
  BY ClockAssumption DEF TypeOK
<1>3. ASSUME NEW ms \in Nat
      PROVE  WholeSeconds(ms) \in Nat /\ RestOf(ms) \in 0 .. WORD - 1
  <2>1. WholeSeconds(ms) \in Nat
    BY ClockAssumption, SMT DEF WholeSeconds
  <2>2. WholeSeconds(ms) * MS_PER_S \in Int
    BY <2>1, ClockAssumption, SMT
  <2>3. ms - ((WholeSeconds(ms) * MS_PER_S) % INT) \in Int
    BY <2>2, ClockAssumption, SMT
  <2> QED BY <2>1, <2>3, Division, ClockAssumption DEF RestOf
<1> QED BY <1>1, <1>2, <1>3, Division, ClockAssumption
        DEF TypeOK, millis, micros, CountedFrom

(* What a call and its end do keeps the type.                              *)
LEMMA CallsKeepType ==
  ASSUME TypeOK, Call PROVE TypeOK'
<1>1. CASE DelayCall
  BY <1>1, WordsAreWords, ClockAssumption
     DEF DelayCall, Enter, Step, TypeOK, Labels, clock, credit, cpu
<1>2. CASE SleepSecondsCall
  BY <1>2, ClockAssumption
     DEF SleepSecondsCall, Enter, Step, TypeOK, Labels, clock, credit, cpu
<1>3. CASE SleepCall
  BY <1>3, WordsAreWords, ClockAssumption
     DEF SleepCall, Enter, Step, TypeOK, Labels, clock, credit, cpu
<1>4. CASE SuspendCall
  BY <1>4
     DEF SuspendCall, Enter, Step, TypeOK, Labels, clock, credit, cpu, locals
<1> QED BY <1>1, <1>2, <1>3, <1>4 DEF Call

(* So does delay...                                                        *)
LEMMA DelayKeepsType ==
  ASSUME TypeOK, Delay PROVE TypeOK'
<1>1. CASE DelayReturn
  BY <1>1, ClockAssumption
     DEF DelayReturn, Return, Step, TypeOK, Labels, clock, credit, cpu
<1>2. CASE DelayCount
  BY <1>2, WordsAreWords
     DEF DelayCount, Step, TypeOK, Labels, clock, credit, cpu, history
<1>3. CASE DelaySleep
  BY <1>3 DEF DelaySleep, LowPower, Step, TypeOK, Labels, clock, credit, locals
<1> QED BY <1>1, <1>2, <1>3 DEF Delay

(* ... and sleepSeconds...                                                 *)
LEMMA SecondsKeepsType ==
  ASSUME TypeOK, InSeconds PROVE TypeOK'
<1> USE DEF Step, TypeOK, Labels, clock, credit, cpu, locals, history
<1>1. CASE SecondsStart
  BY <1>1, WordsAreWords DEF SecondsStart
<1>2. CASE SecondsSleeping \/ SecondsStay
  BY <1>2 DEF SecondsSleeping, SecondsStay
<1>3. CASE SecondsMillis \/ SecondsFract
  BY <1>3, ClockAssumption DEF SecondsMillis, SecondsFract
<1>4. CASE SecondsWdt \/ SecondsTest
  BY <1>4 DEF SecondsWdt, SecondsTest
<1>5. CASE SecondsSleep
  BY <1>5 DEF SecondsSleep, LowPower
<1> QED BY <1>1, <1>2, <1>3, <1>4, <1>5 DEF InSeconds

(* ... and the rest of sleep...                                            *)
LEMMA SleepKeepsType ==
  ASSUME TypeOK, InSleep PROVE TypeOK'
<1> USE DEF Step, TypeOK, Labels, clock, credit, cpu, locals, history
<1>1. CASE SleepMillis \/ SleepFract
  BY <1>1, ClockAssumption DEF SleepMillis, SleepFract
<1>2. CASE SleepWdt \/ SleepSleeping
  BY <1>2 DEF SleepWdt, SleepSleeping
<1>3. CASE SleepStay \/ SleepTest
  BY <1>3 DEF SleepStay, SleepTest
<1>4. CASE SleepStart
  BY <1>4, WordsAreWords DEF SleepStart
<1>5. CASE SleepSleep
  BY <1>5 DEF SleepSleep, LowPower
<1> QED BY <1>1, <1>2, <1>3, <1>4, <1>5 DEF InSleep

(* ... and the epilogue of both...                                         *)
LEMMA ExitKeepsType ==
  ASSUME TypeOK, Exit PROVE TypeOK'
<1> USE DEF Step, TypeOK, Labels, clock, credit, cpu, locals, history
<1>1. CASE ExitSleeping
  BY <1>1 DEF ExitSleeping
<1>2. CASE ExitStay
  BY <1>2 DEF ExitStay
<1>3. CASE ExitWdt
  <2>1. CASE NextPart
    BY <1>3, <2>1, ClockAssumption DEF ExitWdt, NextPart
  <2>2. CASE Return("seconds_unwdt") \/ Return("sleep_unwdt")
    BY <1>3, <2>2, ClockAssumption DEF ExitWdt, Return
  <2> QED BY <1>3, <2>1, <2>2 DEF ExitWdt
<1> QED BY <1>1, <1>2, <1>3 DEF Exit

(* ... and suspend.                                                        *)
LEMMA SuspendKeepsType ==
  ASSUME TypeOK, InSuspend PROVE TypeOK'
<1> USE DEF Step, TypeOK, Labels, clock, credit, cpu, locals, history
<1>1. CASE SuspendSleeping \/ SuspendStay
  BY <1>1 DEF SuspendSleeping, SuspendStay
<1>2. CASE SuspendTest \/ SuspendExit
  BY <1>2 DEF SuspendTest, SuspendExit
<1>3. CASE SuspendSleep
  BY <1>3 DEF SuspendSleep, LowPower
<1>4. CASE SuspendWdt
  BY <1>4, ClockAssumption DEF SuspendWdt, Return
<1> QED BY <1>1, <1>2, <1>3, <1>4 DEF InSuspend

(* What happens outside the call: the sketch's critical sections, the timer*)
(* and the interrupts.                                                     *)
LEMMA OutsideKeepsType ==
  ASSUME TypeOK, ClockExact,
         NoInterrupts \/ Interrupts \/ Expire \/ WatchdogIsr \/ WakeupIsr
  PROVE  TypeOK'
<1>1. CASE NoInterrupts \/ Interrupts
  BY <1>1 DEF NoInterrupts, Interrupts, TypeOK, clock, credit, locals, history
<1>2. CASE Expire
  BY <1>2 DEF Expire, TypeOK, clock, credit, cpu, locals
<1>3. CASE WatchdogIsr
  BY <1>3, WatchdogKeepsTime DEF WatchdogIsr, TypeOK, credit, locals
<1>4. CASE WakeupIsr
  BY <1>4 DEF WakeupIsr, TypeOK, clock, credit, locals
<1> QED BY <1>1, <1>2, <1>3, <1>4

-----------------------------------------------------------------------------
(* The clock is exact and every variable well-typed, in every run: the two *)
(* facts are proved together, the inductive invariant being their          *)
(* conjunction.                                                            *)
Timekeeping == TypeOK /\ ClockExact

(* The clock starts at zero, exact.                                        *)
LEMMA InitTimekeeping ==
  ASSUME Init PROVE Timekeeping
<1>1. 0 \in 0 .. WORD - 1 /\ 0 \in 0 .. FRACT_MAX - 1
  BY ClockAssumption
<1>2. 0 \in 0 .. WORD * FRACT_MAX - 1
  <2>1. WORD * FRACT_MAX \in Nat \ {0}
    BY ClockAssumption, SMT
  <2> QED BY <2>1
<1>3. 0 * FRACT_MAX + 0 = 0
  BY ClockAssumption
<1> QED BY <1>1, <1>2, <1>3
        DEF Init, Timekeeping, TypeOK, ClockExact, Labels

(* Every step keeps the clock exact.                                       *)
LEMMA NextKeepsTime ==
  ASSUME Timekeeping, [Next]_vars PROVE Timekeeping'
<1>1. TypeOK /\ ClockExact
  BY DEF Timekeeping
<1>2. TypeOK'
  <2>1. CASE Next
    <3>1. CASE Running
      BY <1>1, <3>1, DelayKeepsType, SecondsKeepsType, SleepKeepsType,
         ExitKeepsType, SuspendKeepsType DEF Running
    <3>2. CASE Call
      BY <1>1, <3>2, CallsKeepType
    <3> QED BY <1>1, <2>1, <3>1, <3>2, OutsideKeepsType DEF Next
  <2>2. CASE UNCHANGED vars
    BY <1>1, <2>2 DEF vars, TypeOK, clock, credit, cpu, locals, history
  <2> QED BY <2>1, <2>2
<1>3. ClockExact'
  <2>1. CASE WatchdogIsr
    BY <1>1, <2>1, WatchdogKeepsTime
  <2>2. CASE ~WatchdogIsr
    BY <1>1, <2>2, OnlyWatchdogTicks DEF ClockExact, clock
  <2> QED BY <2>1, <2>2
<1> QED BY <1>2, <1>3 DEF Timekeeping

(* Type correctness of the clock, the timer, the CPU and the calls.        *)
THEOREM WiringTypeCorrect == Spec => []TypeOK
<1>1. Init => Timekeeping
  BY InitTimekeeping
<1>2. Timekeeping /\ [Next]_vars => Timekeeping'
  BY NextKeepsTime
<1>3. Timekeeping => TypeOK
  BY DEF Timekeeping
<1> QED BY <1>1, <1>2, <1>3, PTL DEF Spec

(* millis() and its fraction are the sum of what all ticks were credited,  *)
(* modulo the word, whatever mixture of running, sleeping and suspending.  *)
THEOREM ClockLosesNothing == Spec => []ClockExact
<1>1. Init => Timekeeping
  BY InitTimekeeping
<1>2. Timekeeping /\ [Next]_vars => Timekeeping'
  BY NextKeepsTime
<1>3. Timekeeping => ClockExact
  BY DEF Timekeeping
<1> QED BY <1>1, <1>2, <1>3, PTL DEF Spec
-----------------------------------------------------------------------------
Tick == MICROSECONDS_PER_WDT_OVERFLOW

(* Whole words that are left out do not change a remainder.                *)
LEMMA SameRemainder ==
  ASSUME NEW b \in Nat \ {0}, NEW q \in Int, NEW a \in Int
  PROVE  (b * q + a) % b = a % b
<1> DEFINE d == a \div b  r == a % b
<1>1. d \in Int /\ r \in 0 .. b - 1 /\ a = b * d + r
  BY Division
<1> HIDE DEF d, r
<1>2. b * q + a = b * (q + d) + r
  <2>1. b * (q + d) = b * q + b * d
    BY ONLY <1>1, b \in Nat, q \in Int
  <2>2. b * q \in Int /\ b * d \in Int
    BY ONLY <1>1, b \in Nat, q \in Int
  <2> QED
    BY ONLY <1>1, <2>1, <2>2
<1>3. (b * (q + d) + r) % b = r
  BY <1>1, q + d \in Int, RemainderIs
<1> QED
  BY <1>2, <1>3 DEF r

(* A sum or a product may wrap before it is taken or after.                *)
LEMMA SumWraps ==
  ASSUME NEW b \in Nat \ {0}, NEW a \in Int, NEW c \in Int
  PROVE  ((a % b) + c) % b = (a + c) % b
<1> DEFINE d == a \div b  r == a % b
<1>1. d \in Int /\ r \in 0 .. b - 1 /\ a = b * d + r
  BY Division
<1> HIDE DEF d, r
<1>2. a + c = b * d + (r + c)
  <2>1. b * d \in Int
    BY ONLY <1>1, b \in Nat
  <2> QED
    BY ONLY <1>1, <2>1, c \in Int
<1>3. (b * d + (r + c)) % b = (r + c) % b
  BY <1>1, r + c \in Int, SameRemainder
<1> QED
  BY <1>2, <1>3 DEF r

(* The same for the word, for all operands at once.                        *)
LEMMA Sums == \A a, c \in Int : ((a % WORD) + c) % WORD = (a + c) % WORD
  BY SumWraps, ClockAssumption

(* A product may wrap before it is taken or after.                         *)
LEMMA ProductWraps ==
  ASSUME NEW b \in Nat \ {0}, NEW a \in Int, NEW c \in Int
  PROVE  ((a % b) * c) % b = (a * c) % b
<1> DEFINE d == a \div b  r == a % b
<1>1. d \in Int /\ r \in 0 .. b - 1 /\ a = b * d + r
  BY Division
<1> HIDE DEF d, r
<1>2. a * c = b * (d * c) + r * c
  <2>1. (b * d + r) * c = (b * d) * c + r * c
    BY ONLY <1>1, b \in Nat, c \in Int
  <2>2. (b * d) * c = b * (d * c)
    BY ONLY <1>1, b \in Nat, c \in Int
  <2> QED
    BY ONLY <1>1, <2>1, <2>2
<1>3. (b * (d * c) + r * c) % b = (r * c) % b
  <2>1. d * c \in Int /\ r * c \in Int
    BY ONLY <1>1, b \in Nat, c \in Int
  <2> QED
    BY <2>1, SameRemainder
<1> QED
  BY <1>2, <1>3 DEF r

(* A number below b is its own remainder.                                  *)
LEMMA WordIs == ASSUME NEW b \in Nat \ {0}, NEW a \in 0 .. b - 1
                PROVE  a % b = a
<1>1. (b * 0 + a) % b = a
  BY 0 \in Int, RemainderIs
<1>2. b * 0 + a = a
  BY ONLY b \in Nat, a \in 0 .. b - 1
<1> QED
  BY <1>1, <1>2

(* What delay makes of micros().                                           *)
Elapsed == Since(micros)

(* It is a word.                                                           *)
LEMMA ElapsedType == ASSUME TypeOK PROVE Elapsed \in 0 .. WORD - 1
<1>1. micros \in 0 .. WORD - 1
  BY WordsAreWords
<1> QED
  BY <1>1, Division, ClockAssumption DEF TypeOK, Elapsed, Since

(* A tick adds its length to it, through every rollover of the overflow    *)
(* count and of micros(), as long as the sum itself is below a word.       *)
LEMMA ElapsedTick ==
  ASSUME TypeOK, wdt_overflow_count' = (wdt_overflow_count + 1) % WORD,
         start' = start, Elapsed + Tick < WORD
  PROVE  Elapsed' = Elapsed + Tick
<1> DEFINE n == wdt_overflow_count
<1>1. /\ WORD \in Nat \ {0} /\ Tick \in Nat /\ n \in Nat /\ start \in Nat
      /\ n + 1 \in Int /\ n * Tick \in Int /\ micros \in Nat
  <2>1. n \in Nat /\ start \in Nat /\ micros \in Nat
    BY WordsAreWords, ClockAssumption DEF TypeOK
  <2>2. WORD \in Nat \ {0} /\ Tick \in Nat
    BY ClockAssumption DEF Tick
  <2> HIDE DEF n
  <2>3. n + 1 \in Int /\ n * Tick \in Int
    BY ONLY <2>1, <2>2
  <2> QED
    BY <2>1, <2>2, <2>3
<1>2. micros' = (((n + 1) % WORD) * Tick) % WORD
  BY DEF micros, Tick
<1>3. micros = (n * Tick) % WORD
  BY DEF micros, Tick
<1> HIDE DEF n
<1>4. (((n + 1) % WORD) * Tick) % WORD = ((n + 1) * Tick) % WORD
  <2>1. \A a, c \in Int : ((a % WORD) * c) % WORD = (a * c) % WORD
    BY <1>1, ProductWraps
  <2>2. n + 1 \in Int /\ Tick \in Int
    BY <1>1
  <2> QED
    BY ONLY <2>1, <2>2, Zenon
<1>5. (n + 1) * Tick = n * Tick + Tick
  BY ONLY <1>1
<1>6. micros' = (micros + Tick) % WORD
  <2>1. (((n * Tick) % WORD) + Tick) % WORD = (n * Tick + Tick) % WORD
    BY ONLY <1>1, Tick \in Int, Sums, Zenon
  <2> QED
    BY <1>2, <1>3, <1>4, <1>5, <2>1, Zenon
<1>7. Elapsed' = (micros' - start) % WORD
  BY DEF Elapsed, Since
<1>8. Elapsed = (micros - start) % WORD
  BY DEF Elapsed, Since
<1>9. (((micros + Tick) % WORD) + (-start)) % WORD
        = (micros + Tick + (-start)) % WORD
  BY <1>1, micros + Tick \in Int, -start \in Int, Sums, Zenon
<1>10. (((micros - start) % WORD) + Tick) % WORD
         = (micros - start + Tick) % WORD
  BY <1>1, micros - start \in Int, Tick \in Int, Sums, Zenon
<1>11. (micros + Tick) % WORD \in Int
  BY <1>1, Division, micros + Tick \in Int
<1>12. /\ ((micros + Tick) % WORD) - start
            = ((micros + Tick) % WORD) + (-start)
       /\ micros + Tick + (-start) = micros - start + Tick
  BY ONLY <1>1, <1>11
<1>13. Elapsed' = (Elapsed + Tick) % WORD
  BY <1>6, <1>7, <1>8, <1>9, <1>10, <1>12
<1>14. Elapsed + Tick \in 0 .. WORD - 1
  BY <1>1, ElapsedType
<1> QED
  BY <1>1, <1>13, <1>14, WordIs

(* Counting a millisecond off takes one from it.                           *)
LEMMA ElapsedCount ==
  ASSUME TypeOK, UNCHANGED wdt_overflow_count, start' = CountedFrom,
         Elapsed >= FRACT_MAX
  PROVE  Elapsed' = Elapsed - FRACT_MAX
<1>1. /\ WORD \in Nat \ {0} /\ FRACT_MAX \in Nat /\ start \in Nat
      /\ micros \in Nat
  BY WordsAreWords, ClockAssumption DEF TypeOK
<1>2. micros' = micros
  BY DEF micros
<1>3. Elapsed' = (micros - ((start + FRACT_MAX) % WORD)) % WORD
  <2>1. Elapsed' = (micros' - start') % WORD
    BY DEF Elapsed, Since
  <2>2. start' = (start + FRACT_MAX) % WORD
    BY DEF CountedFrom
  <2> QED
    BY <1>2, <2>1, <2>2, Zenon
<1> DEFINE s == start + FRACT_MAX
           d == s \div WORD  r == s % WORD
<1>4. d \in Int /\ r \in 0 .. WORD - 1 /\ s = WORD * d + r
  BY <1>1, s \in Int, Division
<1>5. s \in Int /\ Elapsed' = (micros - r) % WORD
  <2>1. s \in Int
    BY <1>1
  <2>2. Elapsed' = (micros - r) % WORD
    BY <1>3
  <2> QED
    BY <2>1, <2>2
<1>6. s = start + FRACT_MAX
  OBVIOUS
<1> HIDE DEF s, d, r
<1>7. micros - r = WORD * d + (micros - s)
  <2>1. WORD * d \in Int
    BY ONLY <1>1, <1>4
  <2> QED
    BY ONLY <1>1, <1>4, <1>5, <2>1
<1>8. (WORD * d + (micros - s)) % WORD = (micros - s) % WORD
  BY <1>1, <1>4, <1>5, micros - s \in Int, SameRemainder
<1>9. micros - s = micros - start + (-FRACT_MAX)
  BY ONLY <1>1, <1>6
<1>10. (((micros - start) % WORD) + (-FRACT_MAX)) % WORD
         = (micros - start + (-FRACT_MAX)) % WORD
  BY <1>1, micros - start \in Int, -FRACT_MAX \in Int, Sums, Zenon
<1>11. Elapsed = (micros - start) % WORD
  BY DEF Elapsed, Since
<1>12. Elapsed + (-FRACT_MAX) \in 0 .. WORD - 1
       /\ Elapsed + (-FRACT_MAX) = Elapsed - FRACT_MAX
  BY <1>1, ElapsedType
<1>13. Elapsed' = (Elapsed + (-FRACT_MAX)) % WORD
  BY <1>5, <1>7, <1>8, <1>9, <1>10, <1>11
<1> QED
  BY <1>1, <1>12, <1>13, WordIs

(* At the call nothing has elapsed.                                        *)
LEMMA ElapsedFromNow ==
  ASSUME TypeOK, UNCHANGED wdt_overflow_count, start' = micros
  PROVE  Elapsed' = 0
<1>1. micros' = micros /\ micros \in Nat
  BY WordsAreWords DEF micros
<1>2. Elapsed' = (micros - micros) % WORD
  BY <1>1 DEF Elapsed, Since
<1>3. micros - micros = 0 /\ 0 \in 0 .. WORD - 1
  BY <1>1, ClockAssumption
<1> QED
  BY <1>2, <1>3, WordIs, ClockAssumption

-----------------------------------------------------------------------------
(* Where the sketch is, and what it has to do with the timer and the CPU.  *)
Awake ==
  { "idle", "delay_test", "delay_sleep", "seconds_start", "seconds_sleeping",
    "seconds_stay", "seconds_unwdt", "sleep_millis", "sleep_fract",
    "sleep_wdt", "sleep_sleeping", "sleep_stay", "sleep_unwdt",
    "suspend_sleeping", "suspend_stay", "suspend_exit", "suspend_unwdt" }

(* Where the timer runs from SMCLK, and where as in the two sleeps.        *)
OnSmclk ==
  { "idle", "delay_test", "delay_sleep", "seconds_start", "seconds_sleeping",
    "seconds_stay", "seconds_millis", "seconds_fract", "seconds_wdt",
    "sleep_millis", "sleep_fract", "sleep_wdt" }

OnSeconds ==
  { "seconds_test", "seconds_sleep", "seconds_exit", "seconds_unstay",
    "seconds_unwdt" }

OnSleep ==
  { "sleep_sleeping", "sleep_stay", "sleep_start", "sleep_test",
    "sleep_sleep", "sleep_exit", "sleep_unstay", "sleep_unwdt" }

Source(p) ==
  IF p \in OnSmclk THEN "smclk"
  ELSE IF p \in OnSeconds THEN "seconds"
  ELSE IF p \in OnSleep THEN "sleep" ELSE "hold"

(* The types of the history.                                               *)
HistoryOK ==
  /\ asked \in Nat /\ taken \in Nat /\ wokenAt \in Nat \cup {-1}
  /\ ticked \in BOOLEAN

(* stay_asleep is set in sleeps only, the timer has the source of the place*)
(* and a low-power mode holds the CPU at the tests only; a call meets one  *)
(* tick before its first low-power mode and one in each.                   *)
PlaceInv ==
  /\ stay_asleep => pc \notin Awake
  /\ wdt = Source(pc)
  /\ lpm # "active" =>
       /\ gie /\ (ticked => wdtifg)
       /\ pc \in {"delay_test", "seconds_test", "sleep_test", "suspend_test"}
       /\ pc = "delay_test" => lpm = "LPM0"
  /\ pc # "idle" /\ wdtifg => ticked

Placed == TypeOK /\ HistoryOK /\ PlaceInv

(* A tick is worth a positive number of microseconds but in suspend.       *)
LEMMA TickTimeType ==
  ASSUME wdt \in {"smclk", "seconds", "sleep"} PROVE TickTime \in Nat
<1>1. CASE wdt = "smclk"
  BY <1>1, ClockAssumption DEF TickTime
<1>2. CASE wdt = "seconds"
  <2>1. TickTime = Time(SecondsTick)
    BY <1>2 DEF TickTime
  <2> QED
    BY <2>1, ClockAssumption DEF Time
<1>3. CASE wdt = "sleep"
  <2>1. TickTime = Time(SleepTick)
    BY <1>3 DEF TickTime
  <2> QED
    BY <2>1, ClockAssumption DEF Time
<1> QED
  BY <1>1, <1>2, <1>3

(* A call is made awake and on SMCLK; only suspend stops the timer at      *)
(* once.                                                                   *)
LEMMA CallsKeepPlace ==
  ASSUME Placed, Call PROVE HistoryOK' /\ PlaceInv'
<1> USE DEF Enter, Step, Placed, TypeOK, HistoryOK, PlaceInv, clock, credit,
            cpu, locals
<1>1. CASE DelayCall
  <2>1. asked' \in Nat
    BY <1>1, ClockAssumption DEF DelayCall
  <2> QED
    BY <1>1, <2>1 DEF DelayCall, Awake, Source, OnSmclk
<1>2. CASE SleepSecondsCall
  <2>1. asked' \in Nat
    BY <1>2, ClockAssumption DEF SleepSecondsCall
  <2> QED
    BY <1>2, <2>1 DEF SleepSecondsCall, Awake, Source, OnSmclk
<1>3. CASE SleepCall
  <2>1. asked' \in Nat
    BY <1>3, ClockAssumption DEF SleepCall
  <2> QED
    BY <1>3, <2>1 DEF SleepCall, Awake, Source, OnSmclk
<1>4. CASE SuspendCall
  BY <1>4 DEF SuspendCall, Awake, Source, OnSmclk, OnSeconds, OnSleep
<1> QED
  BY <1>1, <1>2, <1>3, <1>4 DEF Call

(* delay sleeps in LPM0 and leaves the timer alone.                        *)
LEMMA DelayKeepsPlace ==
  ASSUME Placed, Delay PROVE HistoryOK' /\ PlaceInv'
<1> USE DEF Step, Placed, TypeOK, HistoryOK, PlaceInv, Awake, Source, OnSmclk,
            clock, credit, cpu, locals, history
<1>1. CASE DelayReturn
  BY <1>1 DEF DelayReturn, Return
<1>2. CASE DelayCount
  BY <1>2 DEF DelayCount
<1>3. CASE DelaySleep
  BY <1>3 DEF DelaySleep, LowPower
<1> QED
  BY <1>1, <1>2, <1>3 DEF Delay

(* sleepSeconds changes the timer's source before its loop.                *)
LEMMA SecondsKeepsPlace ==
  ASSUME Placed, InSeconds PROVE HistoryOK' /\ PlaceInv'
<1> USE DEF Step, Placed, TypeOK, HistoryOK, PlaceInv, Awake, Source, OnSmclk,
            OnSeconds, clock, credit, cpu, locals, history
<1>1. CASE SecondsStart
  BY <1>1 DEF SecondsStart
<1>2. CASE SecondsSleeping \/ SecondsStay
  BY <1>2 DEF SecondsSleeping, SecondsStay
<1>3. CASE SecondsMillis \/ SecondsFract
  BY <1>3 DEF SecondsMillis, SecondsFract
<1>4. CASE SecondsWdt \/ SecondsTest
  BY <1>4 DEF SecondsWdt, SecondsTest
<1>5. CASE SecondsSleep
  BY <1>5 DEF SecondsSleep, LowPower
<1> QED
  BY <1>1, <1>2, <1>3, <1>4, <1>5 DEF InSeconds

(* So does the rest of sleep.                                              *)
LEMMA SleepKeepsPlace ==
  ASSUME Placed, InSleep PROVE HistoryOK' /\ PlaceInv'
<1> USE DEF Step, Placed, TypeOK, HistoryOK, PlaceInv, Awake, Source, OnSmclk,
            OnSeconds, OnSleep, clock, credit, cpu, locals, history
<1>1. CASE SleepMillis \/ SleepFract
  BY <1>1 DEF SleepMillis, SleepFract
<1>2. CASE SleepWdt \/ SleepSleeping
  BY <1>2 DEF SleepWdt, SleepSleeping
<1>3. CASE SleepStay \/ SleepTest
  BY <1>3 DEF SleepStay, SleepTest
<1>4. CASE SleepStart
  BY <1>4 DEF SleepStart
<1>5. CASE SleepSleep
  BY <1>5 DEF SleepSleep, LowPower
<1> QED
  BY <1>1, <1>2, <1>3, <1>4, <1>5 DEF InSleep

(* The epilogue gives the timer back to SMCLK.                             *)
LEMMA ExitKeepsPlace ==
  ASSUME Placed, Exit PROVE HistoryOK' /\ PlaceInv'
<1> USE DEF Step, Placed, TypeOK, HistoryOK, PlaceInv, Awake, Source, OnSmclk,
            OnSeconds, OnSleep, clock, credit, cpu, locals, history
<1>1. CASE ExitSleeping
  BY <1>1 DEF ExitSleeping
<1>2. CASE ExitStay
  BY <1>2 DEF ExitStay
<1>3. CASE ExitWdt
  <2>1. CASE NextPart
    <3>1. asked' \in Nat
      BY <2>1, ClockAssumption DEF NextPart
    <3> QED
      BY <1>3, <2>1, <3>1 DEF ExitWdt, NextPart
  <2>2. CASE Return("seconds_unwdt")
    BY <1>3, <2>2 DEF ExitWdt, Return
  <2>3. CASE Return("sleep_unwdt")
    BY <1>3, <2>3 DEF ExitWdt, Return
  <2> QED
    BY <1>3, <2>1, <2>2, <2>3 DEF ExitWdt
<1> QED
  BY <1>1, <1>2, <1>3 DEF Exit

(* suspend gives it back, too.                                             *)
LEMMA SuspendKeepsPlace ==
  ASSUME Placed, InSuspend PROVE HistoryOK' /\ PlaceInv'
<1> USE DEF Step, Placed, TypeOK, HistoryOK, PlaceInv, Awake, Source, OnSmclk,
            OnSeconds, OnSleep, clock, credit, cpu, locals, history
<1>1. CASE SuspendSleeping \/ SuspendStay
  BY <1>1 DEF SuspendSleeping, SuspendStay
<1>2. CASE SuspendTest \/ SuspendExit
  BY <1>2 DEF SuspendTest, SuspendExit
<1>3. CASE SuspendSleep
  BY <1>3 DEF SuspendSleep, LowPower
<1>4. CASE SuspendWdt
  BY <1>4 DEF SuspendWdt, Return
<1> QED
  BY <1>1, <1>2, <1>3, <1>4 DEF InSuspend

(* A tick marks ticked, and waking up leaves the place alone.              *)
LEMMA OutsideKeepsPlace ==
  ASSUME Placed,
         NoInterrupts \/ Interrupts \/ Expire \/ WatchdogIsr \/ WakeupIsr
  PROVE  HistoryOK' /\ PlaceInv'
<1> USE DEF Placed, TypeOK, HistoryOK, PlaceInv, clock, credit, cpu, locals,
            history, call
<1>1. CASE NoInterrupts \/ Interrupts
  BY <1>1 DEF NoInterrupts, Interrupts
<1>2. CASE Expire
  <2>1. taken' \in Nat
    <3>1. TickTime \in Nat
      BY <1>2, TickTimeType DEF Expire
    <3> QED
      BY <1>2, <3>1 DEF Expire
  <2> QED
    BY <1>2, <2>1 DEF Expire
<1>3. CASE WatchdogIsr
  BY <1>3 DEF WatchdogIsr
<1>4. CASE WakeupIsr
  BY <1>4 DEF WakeupIsr
<1> QED
  BY <1>1, <1>2, <1>3, <1>4

(* The invariant of the place is inductive.                                *)
LEMMA InitPlaced ==
  ASSUME Init PROVE HistoryOK /\ PlaceInv
  BY DEF Init, HistoryOK, PlaceInv, Awake, Source, OnSmclk

(* Every step keeps the place.                                             *)
LEMMA NextKeepsPlace ==
  ASSUME Placed, [Next]_vars PROVE HistoryOK' /\ PlaceInv'
<1>1. CASE Next
  <2>1. CASE Running
    BY <2>1, DelayKeepsPlace, SecondsKeepsPlace, SleepKeepsPlace,
       ExitKeepsPlace, SuspendKeepsPlace DEF Running
  <2>2. CASE Call
    BY <2>2, CallsKeepPlace
  <2> QED
    BY <1>1, <2>1, <2>2, OutsideKeepsPlace DEF Next
<1>2. CASE UNCHANGED vars
  BY <1>2 DEF vars, Placed, HistoryOK, PlaceInv, clock, credit, cpu, locals,
              history
<1> QED
  BY <1>1, <1>2

Places == Timekeeping /\ HistoryOK /\ PlaceInv

(* The clock and the place, in every run.                                  *)
LEMMA PlacesHold == Spec => []Places
<1>1. Init => Places
  BY InitTimekeeping, InitPlaced DEF Places
<1>2. Places /\ [Next]_vars => Places'
  <2> SUFFICES ASSUME Places, [Next]_vars PROVE Places'
    OBVIOUS
  <2>1. Placed
    BY DEF Places, Placed, Timekeeping
  <2> QED
    BY <2>1, NextKeepsTime, NextKeepsPlace DEF Places
<1> QED
  BY <1>1, <1>2, PTL DEF Spec

-----------------------------------------------------------------------------
InDelay == { "delay_test", "delay_sleep" }

(* What delay has counted off so far, and what micros() will show when the *)
(* pending tick is taken.                                                  *)
Counted == asked - arg * FRACT_MAX

Due == Elapsed + (IF wdtifg THEN Tick ELSE 0)

(* Counted and due, the time taken is accounted for but for a tick that was*)
(* pending at the call.  A pass begins with less than a millisecond due.   *)
DelayInv ==
  pc \in InDelay =>
    /\ Counted >= 0 /\ Counted + Due - taken \in {0, Tick}
    /\ lpm = "active" /\ ~ticked => Due = 0 /\ Counted = 0
    /\ pc = "delay_sleep" \/ (lpm # "active" /\ ~ticked) =>
         asked > 0 /\ Due < FRACT_MAX /\ (arg = 0 => Due < Tick)
    /\ pc = "delay_test" =>
         /\ Due < FRACT_MAX + Tick /\ (arg = 0 => Due < 2 * Tick)
         /\ lpm = "active" =>
              /\ wdtifg => Due <= Tick /\ Counted = 0
              /\ Counted # 0 => Elapsed >= Tick

(* A tick is shorter than a millisecond, and a word holds both.            *)
ShortTick == Tick < FRACT_MAX /\ FRACT_MAX + Tick <= WORD

(* While milliseconds are left, one more can be counted off.               *)
LEMMA CountedType ==
  ASSUME Placed
  PROVE  /\ Counted \in Int /\ Counted <= asked
         /\ arg = 0 => Counted = asked
         /\ arg > 0 => Counted + FRACT_MAX <= asked
<1>1. arg \in Nat /\ FRACT_MAX \in Nat \ {0} /\ asked \in Nat
  BY ClockAssumption DEF Placed, TypeOK, HistoryOK
<1>2. arg * FRACT_MAX \in Nat
  BY ONLY <1>1
<1>3. arg = 0 => arg * FRACT_MAX = 0
  BY ONLY <1>1
<1>4. arg > 0 => arg * FRACT_MAX >= FRACT_MAX
  <2>1. SUFFICES ASSUME arg > 0 PROVE arg * FRACT_MAX >= FRACT_MAX
    OBVIOUS
  <2>2. arg * FRACT_MAX = (arg - 1) * FRACT_MAX + FRACT_MAX
    BY ONLY <1>1
  <2>3. (arg - 1) * FRACT_MAX \in Nat
    BY ONLY <1>1, <2>1, arg > 0
  <2> QED
    BY ONLY <1>1, <2>2, <2>3
<1> DEFINE p == arg * FRACT_MAX
<1> HIDE DEF p
<1>5. Counted = asked - p
  BY DEF Counted, p
<1>6. p \in Nat /\ (arg = 0 => p = 0) /\ (arg > 0 => p >= FRACT_MAX)
  BY <1>2, <1>3, <1>4 DEF p
<1> QED
  BY <1>1, <1>5, <1>6

(* The cap of taken is out of a delay's reach.                             *)
LEMMA LongestTickIs ==
  LongestTick \in Nat /\ Tick <= LongestTick
    /\ Time(SecondsTick) <= LongestTick /\ Time(SleepTick) <= LongestTick
<1> DEFINE a == MICROSECONDS_PER_WDT_OVERFLOW
           b == Time(SecondsTick)  c == Time(SleepTick)
           S == {a, b, c}
<1>1. a \in Nat /\ b \in Nat /\ c \in Nat
  BY ClockAssumption DEF Time
<1>2. LongestTick = CHOOSE t \in S : \A u \in S : u <= t
  BY DEF LongestTick, Longest
<1> HIDE DEF a, b, c
<1>3. \E t \in S : \A u \in S : u <= t
  <2>1. CASE b <= a /\ c <= a
    BY <1>1, <2>1
  <2>2. CASE a <= b /\ c <= b
    BY <1>1, <2>2
  <2>3. CASE a <= c /\ b <= c
    BY <1>1, <2>3
  <2> QED
    BY <1>1, <2>1, <2>2, <2>3
<1>4. LongestTick \in S /\ \A u \in S : u <= LongestTick
  BY <1>2, <1>3
<1> QED
  BY <1>1, <1>4 DEF a, b, c, Tick

(* The call: nothing is counted, nothing has elapsed.                      *)
LEMMA DelayCallCounts ==
  ASSUME Placed, Placed', ShortTick, DelayCall PROVE DelayInv'
<1>1. Elapsed' = 0
  BY ElapsedFromNow DEF DelayCall, clock, Placed
<1>2. Counted' = 0
  <2>1. PICK ms \in Delays : arg' = ms /\ asked' = ms * FRACT_MAX
    BY DEF DelayCall, Enter
  <2>2. ms * FRACT_MAX \in Nat
    BY ClockAssumption
  <2> QED
    BY <2>1, <2>2 DEF Counted
<1>3. /\ pc' = "delay_test" /\ lpm' = "active" /\ taken' = 0
      /\ wdtifg' = wdtifg /\ ticked' = wdtifg /\ wdtifg \in BOOLEAN
  BY DEF DelayCall, Enter, Step, cpu, Placed, TypeOK
<1>4. Tick \in Nat \ {0} /\ FRACT_MAX \in Nat \ {0}
  BY ClockAssumption DEF Tick
<1> HIDE DEF Elapsed, Counted, Tick
<1> QED
  BY <1>1, <1>2, <1>3, <1>4 DEF DelayInv, Due, InDelay, ShortTick

(* A pass: a millisecond moves from elapsed to counted, or none has        *)
(* elapsed.                                                                *)
LEMMA DelayCountCounts ==
  ASSUME Placed, Placed', ShortTick, DelayInv, DelayCount PROVE DelayInv'
<1>1. /\ pc = "delay_test" /\ pc' = "delay_sleep" /\ lpm = "active"
      /\ lpm' = "active" /\ arg > 0
      /\ UNCHANGED << wdtifg, ticked, taken, asked >>
      /\ wdt_overflow_count' = wdt_overflow_count
  BY DEF DelayCount, Step, cpu, history, clock
<1>2. /\ Tick \in Nat \ {0} /\ FRACT_MAX \in Nat \ {0} /\ Elapsed \in Nat
      /\ Counted \in Int /\ Counted + FRACT_MAX <= asked /\ asked \in Nat
      /\ taken \in Nat /\ wdtifg \in BOOLEAN /\ ticked \in BOOLEAN
      /\ arg' \in Nat
  BY <1>1, ClockAssumption, CountedType, ElapsedType
     DEF Tick, Placed, TypeOK, HistoryOK
<1>3. CASE Elapsed >= FRACT_MAX
  <2>1. arg' = arg - 1 /\ start' = CountedFrom
    BY <1>3 DEF DelayCount, Elapsed
  <2>2. Elapsed' = Elapsed - FRACT_MAX
    BY <1>1, <1>3, <2>1, ElapsedCount DEF Placed
  <2>3. Counted' = Counted + FRACT_MAX
    <3>1. arg \in Nat /\ FRACT_MAX \in Nat
      BY <1>2 DEF Placed, TypeOK
    <3>2. (arg - 1) * FRACT_MAX = arg * FRACT_MAX - FRACT_MAX
      BY ONLY <3>1
    <3>3. arg * FRACT_MAX \in Nat
      BY ONLY <3>1
    <3> QED
      BY <1>1, <1>2, <2>1, <3>1, <3>2, <3>3 DEF Counted
  <2> HIDE DEF Elapsed, Counted, Tick
  <2> QED
    BY <1>1, <1>2, <1>3, <2>2, <2>3 DEF DelayInv, Due, InDelay, ShortTick
<1>4. CASE ~(Elapsed >= FRACT_MAX)
  <2>1. UNCHANGED << arg, start >>
    BY <1>4 DEF DelayCount, Elapsed
  <2>2. Elapsed' = Elapsed
    BY <1>1, <2>1 DEF Elapsed, Since, micros
  <2>3. Counted' = Counted
    BY <1>1, <2>1 DEF Counted
  <2> HIDE DEF Elapsed, Counted, Tick
  <2>4. arg' > 0
    BY <1>1, <2>1
  <2> QED
    BY <1>1, <1>2, <1>4, <2>2, <2>3, <2>4
       DEF DelayInv, Due, InDelay, ShortTick
<1> QED
  BY <1>3, <1>4

(* The low-power mode: what is due stays less than a millisecond.          *)
LEMMA DelaySleepCounts ==
  ASSUME Placed, Placed', ShortTick, DelayInv, DelaySleep PROVE DelayInv'
<1>1. /\ pc = "delay_sleep" /\ pc' = "delay_test" /\ lpm' = "LPM0"
      /\ ticked' = wdtifg /\ UNCHANGED << wdtifg, taken, asked, arg >>
  BY DEF DelaySleep, Step, LowPower, locals
<1>2. Elapsed' = Elapsed /\ Counted' = Counted
  BY DEF DelaySleep, LowPower, clock, locals, Elapsed, Counted, Since, micros
<1>3. /\ Tick \in Nat \ {0} /\ FRACT_MAX \in Nat \ {0} /\ Elapsed \in Nat
      /\ Counted \in Int /\ asked \in Nat /\ taken \in Nat
      /\ wdtifg \in BOOLEAN
  BY ClockAssumption, CountedType, ElapsedType
     DEF Tick, Placed, TypeOK, HistoryOK
<1> HIDE DEF Elapsed, Counted, Tick
<1> QED
  BY <1>1, <1>2, <1>3 DEF DelayInv, Due, InDelay, ShortTick

(* The timer expires: what is due and what was taken grow alike.           *)
LEMMA DelayExpireCounts ==
  ASSUME Placed, Placed', ShortTick, DelayInv, Expire PROVE DelayInv'
<1> SUFFICES ASSUME pc \in InDelay PROVE DelayInv'
  BY DEF Expire, DelayInv
<1>1. /\ wdt = "smclk" /\ TickTime = Tick
  BY DEF Placed, PlaceInv, Source, OnSmclk, InDelay, TickTime, Tick
<1>2. /\ UNCHANGED << pc, lpm, asked, arg >>
      /\ wdtifg' = TRUE /\ ticked' = TRUE
      /\ taken' = IF taken + Tick > Cap THEN taken ELSE taken + Tick
  BY <1>1 DEF Expire, cpu, locals, call, InDelay
<1>3. Elapsed' = Elapsed /\ Counted' = Counted
  BY DEF Expire, clock, locals, call, Elapsed, Counted, Since, micros
<1>4. ~wdtifg /\ ~ticked
  BY DEF Expire, Placed, PlaceInv, InDelay
<1>5. /\ Tick \in Nat \ {0} /\ FRACT_MAX \in Nat \ {0} /\ Elapsed \in Nat
      /\ Counted \in Int /\ asked \in Nat /\ taken \in Nat
      /\ arg = 0 => Counted = asked
      /\ arg > 0 => Counted + FRACT_MAX <= asked
      /\ arg \in Nat
  BY ClockAssumption, CountedType, ElapsedType
     DEF Tick, Placed, TypeOK, HistoryOK
<1>6. Cap >= asked + 4 * Tick
  BY <1>5, LongestTickIs DEF Cap
<1>7. Cap \in Nat
  BY <1>5, LongestTickIs DEF Cap
<1>8. lpm # "active" => pc = "delay_test"
  BY DEF Placed, PlaceInv, InDelay
<1> HIDE DEF Elapsed, Counted, Tick
<1>9. DelayInv
  OBVIOUS
<1>10. Due = Elapsed /\ Due' = Elapsed + Tick
  BY <1>2, <1>3, <1>4, <1>5 DEF Due, Tick
<1>11. taken' = taken + Tick
  <2>1. taken + Tick <= asked + 4 * Tick
    BY <1>4, <1>5, <1>9, <1>10 DEF DelayInv, ShortTick
  <2> QED
    BY <1>2, <1>5, <1>6, <1>7, <2>1
<1> QED
  BY <1>2, <1>3, <1>4, <1>5, <1>8, <1>9, <1>10, <1>11
     DEF DelayInv, InDelay, ShortTick

(* The interrupt: the pending tick becomes elapsed time.                   *)
LEMMA DelayTickCounts ==
  ASSUME Placed, Placed', ShortTick, DelayInv, WatchdogIsr PROVE DelayInv'
<1> SUFFICES ASSUME pc \in InDelay PROVE DelayInv'
  BY DEF WatchdogIsr, DelayInv
<1>1. /\ wdtifg /\ wdtifg' = FALSE /\ lpm' = "active"
      /\ UNCHANGED << pc, asked, arg, taken, ticked >>
  BY DEF WatchdogIsr, locals
<1>2. ticked
  BY <1>1 DEF Placed, PlaceInv, InDelay
<1>3. /\ Tick \in Nat \ {0} /\ FRACT_MAX \in Nat \ {0} /\ Elapsed \in Nat
      /\ Counted \in Int /\ asked \in Nat /\ taken \in Nat /\ WORD \in Nat
  BY ClockAssumption, CountedType, ElapsedType
     DEF Tick, Placed, TypeOK, HistoryOK
<1>4. Due = Elapsed + Tick
  BY <1>1 DEF Due
<1>5. Elapsed + Tick < WORD
  <2> HIDE DEF Elapsed, Counted, Tick, Due
  <2> QED
    BY <1>3, <1>4 DEF DelayInv, InDelay, ShortTick
<1>6. Elapsed' = Elapsed + Tick
  BY <1>5, ElapsedTick DEF WatchdogIsr, locals, Placed
<1>7. Counted' = Counted
  BY DEF WatchdogIsr, locals, Counted
<1> HIDE DEF Elapsed, Counted, Tick
<1>8. Due' = Due
  BY <1>1, <1>3, <1>4, <1>6 DEF Due, Tick
<1> QED
  BY <1>1, <1>2, <1>3, <1>4, <1>6, <1>7, <1>8 DEF DelayInv, InDelay, ShortTick

(* wakeup() finds stay_asleep cleared and lets delay be.                   *)
LEMMA DelayWakeupCounts ==
  ASSUME Placed, DelayInv, WakeupIsr PROVE DelayInv'
<1> SUFFICES ASSUME pc \in InDelay PROVE DelayInv'
  BY DEF WakeupIsr, DelayInv
<1>1. ~stay_asleep
  BY DEF Placed, PlaceInv, InDelay, Awake, TypeOK
<1>2. UNCHANGED << clock, lpm, pc, wdtifg, start, arg, asked, taken, ticked >>
  BY <1>1 DEF WakeupIsr, locals, Placed, TypeOK
<1> QED
  BY <1>2 DEF DelayInv, Due, Counted, Elapsed, Since, micros, clock

(* All other steps leave delay or stay outside.                            *)
LEMMA OutsideDelay ==
  ASSUME \/ SleepSecondsCall \/ SleepCall \/ SuspendCall \/ DelayReturn
         \/ InSeconds \/ InSleep \/ Exit \/ InSuspend
         \/ NoInterrupts \/ Interrupts
  PROVE  pc' \notin InDelay
<1> USE DEF Step, Return, InDelay
<1>1. CASE SleepSecondsCall \/ SleepCall \/ SuspendCall \/ DelayReturn
  BY <1>1 DEF SleepSecondsCall, SleepCall, SuspendCall, DelayReturn
<1>2. CASE InSeconds
  BY <1>2 DEF InSeconds, SecondsStart, SecondsSleeping, SecondsStay,
              SecondsMillis, SecondsFract, SecondsWdt, SecondsTest,
              SecondsSleep
<1>3. CASE InSleep
  BY <1>3 DEF InSleep, SleepMillis, SleepFract, SleepWdt, SleepSleeping,
              SleepStay, SleepStart, SleepTest, SleepSleep
<1>4. CASE Exit \/ InSuspend
  BY <1>4 DEF Exit, ExitSleeping, ExitStay, ExitWdt, NextPart, InSuspend,
              SuspendSleeping, SuspendStay, SuspendTest, SuspendSleep,
              SuspendExit, SuspendWdt
<1>5. CASE NoInterrupts \/ Interrupts
  BY <1>5 DEF NoInterrupts, Interrupts
<1> QED
  BY <1>1, <1>2, <1>3, <1>4, <1>5

(* Every step keeps the sum of delay.                                      *)
LEMMA NextKeepsDelay ==
  ASSUME Placed, Placed', ShortTick, DelayInv, [Next]_vars PROVE DelayInv'
<1>1. CASE DelayCall \/ DelayCount \/ DelaySleep
  BY <1>1, DelayCallCounts, DelayCountCounts, DelaySleepCounts
<1>2. CASE Expire \/ WatchdogIsr \/ WakeupIsr
  BY <1>2, DelayExpireCounts, DelayTickCounts, DelayWakeupCounts
<1>3. CASE UNCHANGED vars
  BY <1>3 DEF DelayInv, Due, Counted, Elapsed, Since, micros, vars, clock,
              cpu, locals, history
<1>4. CASE pc' \notin InDelay
  BY <1>4 DEF DelayInv
<1> QED
  BY <1>1, <1>2, <1>3, <1>4, OutsideDelay DEF Next, Call, Running, Delay

(* What is left when delay returns: it has counted off all it was asked to.*)
LEMMA DelayReturnInTime ==
  ASSUME Placed, ShortTick, DelayInv, [Next]_vars,
         pc = "delay_test", pc' = "idle"
  PROVE  asked <= taken /\ taken < asked + 2 * Tick
<1>1. DelayReturn
  BY DEF Next, vars, Call, Running, Delay, DelayCall, DelayCount, DelaySleep,
         SleepSecondsCall, SleepCall, SuspendCall, Step, Return,
         InSeconds, SecondsStart, SecondsSleeping, SecondsStay,
         SecondsMillis, SecondsFract, SecondsWdt, SecondsTest, SecondsSleep,
         InSleep, SleepMillis, SleepFract, SleepWdt, SleepSleeping,
         SleepStay, SleepStart, SleepTest, SleepSleep,
         Exit, ExitSleeping, ExitStay, ExitWdt, NextPart, InSuspend,
         SuspendSleeping, SuspendStay, SuspendTest, SuspendSleep,
         SuspendExit, SuspendWdt, NoInterrupts, Interrupts, Expire,
         WatchdogIsr, WakeupIsr, locals
<1>2. arg = 0 /\ lpm = "active"
  BY <1>1 DEF DelayReturn, Return, Step
<1>3. /\ Tick \in Nat \ {0} /\ FRACT_MAX \in Nat \ {0} /\ Elapsed \in Nat
      /\ asked \in Nat /\ taken \in Nat /\ Counted = asked
      /\ wdtifg \in BOOLEAN
  BY <1>2, ClockAssumption, CountedType, ElapsedType
     DEF Tick, Placed, TypeOK, HistoryOK
<1> HIDE DEF Elapsed, Counted, Tick
<1> QED
  BY <1>2, <1>3 DEF DelayInv, Due, InDelay, ShortTick

(* delay(ms) lasts ms milliseconds and less than two ticks more, for every *)
(* argument and from every moment, the rollover of micros() included, when *)
(* a tick is shorter than a millisecond: each pass waits for one tick and  *)
(* counts off one millisecond at most.                                     *)
THEOREM DelayLasts == ASSUME ShortTick PROVE Spec => DelayTiming
<1>1. Init => DelayInv
  BY DEF Init, DelayInv, InDelay
<1>2. Places /\ Places' /\ DelayInv /\ [Next]_vars => DelayInv'
  BY NextKeepsDelay DEF Places, Placed, Timekeeping
<1>3. Places /\ DelayInv /\ [Next]_vars =>
        [pc = "delay_test" /\ pc' = "idle" =>
           /\ asked <= taken
           /\ taken < asked + 2 * MICROSECONDS_PER_WDT_OVERFLOW]_vars
  BY DelayReturnInTime DEF Places, Placed, Timekeeping, Tick
<1> QED
  BY <1>1, <1>2, <1>3, PlacesHold, PTL DEF Spec, DelayTiming

-----------------------------------------------------------------------------
(* Between a wakeup() and the end of the sleep it aborts lie two ticks:    *)
(* the one that is pending or comes before the low-power mode is entered,  *)
(* and the one that ends it.                                               *)
NotYetAsleep ==
  { "idle", "delay_test", "delay_sleep", "seconds_start", "seconds_sleeping",
    "seconds_stay", "sleep_millis", "sleep_fract", "sleep_wdt",
    "sleep_sleeping", "sleep_stay", "suspend_sleeping", "suspend_stay" }

ToTest ==
  { "seconds_millis", "seconds_fract", "seconds_wdt", "seconds_sleep",
    "sleep_start", "sleep_sleep" }

AtTest == { "seconds_test", "sleep_test" }

SourceTick == Time(IF pc \in OnSleep THEN SleepTick ELSE SecondsTick)

Late == taken - wokenAt

(* Late is the time taken since the wakeup.                                *)
WokenInv ==
  wokenAt >= 0 =>
    /\ pc \notin NotYetAsleep /\ ~stay_asleep
    /\ pc \in ToTest =>
         Late <= 0 \/ (ticked /\ Late <= SourceTick)
    /\ pc \in AtTest =>
         Late <= SourceTick \/ (ticked /\ Late <= 2 * SourceTick)

(* The tick that runs in a sleep is a time.                                *)
LEMMA SourceTickType == SourceTick \in Nat
  BY ClockAssumption DEF SourceTick, Time

(* Calls and returns forget the wakeup; the epilogue is past its end.      *)
LEMMA WokenBySteps ==
  ASSUME Placed, WokenInv, Call \/ Delay \/ InSuspend \/ Exit
  PROVE  WokenInv'
<1> USE DEF Step, Return, Enter, LowPower, NotYetAsleep, ToTest, AtTest,
            history, Placed, HistoryOK
<1>1. CASE Call
  BY <1>1 DEF Call, DelayCall, SleepSecondsCall, SleepCall, SuspendCall,
              WokenInv
<1>2. CASE Delay
  BY <1>2 DEF Delay, DelayReturn, DelayCount, DelaySleep, WokenInv
<1>3. CASE InSuspend
  BY <1>3 DEF InSuspend, SuspendSleeping, SuspendStay, SuspendTest,
              SuspendSleep, SuspendExit, SuspendWdt, WokenInv
<1>4. CASE ExitSleeping \/ ExitStay
  BY <1>4 DEF ExitSleeping, ExitStay, WokenInv
<1>5. CASE ExitWdt
  BY <1>5 DEF ExitWdt, NextPart, WokenInv
<1> QED
  BY <1>1, <1>2, <1>3, <1>4, <1>5 DEF Exit

(* The sketch in a sleep: before the low-power mode no tick, or one, has   *)
(* come since the wakeup; behind it one more; and the test sees the        *)
(* wakeup.                                                                 *)
LEMMA WokenInSleep ==
  ASSUME Placed, WokenInv, InSeconds \/ InSleep
  PROVE  WokenInv'
<1>1. taken' = taken /\ wokenAt' = wokenAt
  BY DEF InSeconds, SecondsStart, SecondsSleeping, SecondsStay, SecondsMillis,
         SecondsFract, SecondsWdt, SecondsTest, SecondsSleep, InSleep,
         SleepMillis, SleepFract, SleepWdt, SleepSleeping, SleepStay,
         SleepStart, SleepTest, SleepSleep, LowPower, history
<1> SUFFICES ASSUME wokenAt >= 0 PROVE WokenInv'
  BY <1>1 DEF WokenInv
<1>2. pc \notin NotYetAsleep /\ ~stay_asleep
  BY DEF WokenInv
<1>3. Late \in Int /\ Late' = Late /\ SourceTick \in Nat
  BY <1>1, SourceTickType DEF Late, Placed, HistoryOK
<1>4. CASE SecondsMillis \/ SecondsFract \/ SecondsWdt \/ SleepStart
  <2>1. /\ pc \in ToTest /\ pc' \in ToTest \cup AtTest
        /\ pc' \in OnSleep <=> pc \in OnSleep
        /\ stay_asleep' = stay_asleep /\ ticked' = ticked
    BY <1>4 DEF SecondsMillis, SecondsFract, SecondsWdt, SleepStart, Step,
                history, ToTest, AtTest, OnSleep
  <2>2. SourceTick' = SourceTick
    BY <2>1 DEF SourceTick
  <2>3. pc' \notin NotYetAsleep
    BY <2>1 DEF ToTest, AtTest, NotYetAsleep
  <2> HIDE DEF Late, SourceTick
  <2> QED
    BY <1>2, <1>3, <2>1, <2>2, <2>3 DEF WokenInv
<1>5. CASE SecondsSleep \/ SleepSleep
  <2>1. /\ pc \in ToTest /\ pc' \in AtTest
        /\ pc' \in OnSleep <=> pc \in OnSleep
        /\ stay_asleep' = stay_asleep
    BY <1>5 DEF SecondsSleep, SleepSleep, Step, ToTest, AtTest, OnSleep
  <2>2. SourceTick' = SourceTick
    BY <2>1 DEF SourceTick
  <2>3. pc' \notin NotYetAsleep /\ pc' \notin ToTest
    BY <2>1 DEF ToTest, AtTest, NotYetAsleep
  <2> HIDE DEF Late, SourceTick
  <2> QED
    BY <1>2, <1>3, <2>1, <2>2, <2>3 DEF WokenInv
<1>6. CASE SecondsTest \/ SleepTest
  <2>1. pc' \in {"seconds_exit", "sleep_exit"} /\ stay_asleep' = stay_asleep
    BY <1>2, <1>6 DEF SecondsTest, SleepTest, SecondsGoOn, SleepGoOn, Step
  <2> QED
    BY <1>2, <2>1 DEF WokenInv, NotYetAsleep, ToTest, AtTest
<1>7. CASE ~(\/ SecondsMillis \/ SecondsFract \/ SecondsWdt \/ SleepStart
             \/ SecondsSleep \/ SleepSleep \/ SecondsTest \/ SleepTest)
  BY <1>2, <1>7
     DEF InSeconds, SecondsStart, SecondsSleeping, SecondsStay, InSleep,
         SleepMillis, SleepFract, SleepWdt, SleepSleeping, SleepStay, Step,
         NotYetAsleep
<1> QED
  BY <1>4, <1>5, <1>6, <1>7

(* The tick's handler and the sketch's critical sections take no time.     *)
LEMMA WokenByInterrupts ==
  ASSUME Placed, WokenInv, NoInterrupts \/ Interrupts \/ WatchdogIsr
  PROVE  WokenInv'
  BY DEF NoInterrupts, Interrupts, WatchdogIsr, WokenInv, Late, SourceTick,
         history

(* wakeup() itself: the sketch is asleep, or will be, and taken is now.    *)
LEMMA WokenByWakeup ==
  ASSUME Placed, WokenInv, WakeupIsr PROVE WokenInv'
<1>1. CASE stay_asleep
  <2>1. wokenAt' = taken /\ taken' = taken /\ stay_asleep' = FALSE /\ pc' = pc
    BY <1>1 DEF WakeupIsr
  <2>2. pc \notin NotYetAsleep
    BY <1>1 DEF Placed, PlaceInv, Awake, NotYetAsleep
  <2>3. Late' = 0
    BY <2>1 DEF Late, Placed, HistoryOK
  <2>4. SourceTick' \in Nat
    BY <2>1, SourceTickType DEF SourceTick
  <2> HIDE DEF Late, SourceTick
  <2>5. ~stay_asleep' /\ pc' \notin NotYetAsleep
    BY <2>1, <2>2
  <2>6. Late' <= 0 /\ Late' <= SourceTick'
    BY <2>3, <2>4
  <2> QED
    BY <2>5, <2>6, Zenon DEF WokenInv
<1>2. CASE ~stay_asleep
  <2>1. UNCHANGED << wokenAt, taken, stay_asleep, pc, ticked >>
    BY <1>2 DEF WakeupIsr, Placed, TypeOK
  <2> QED
    BY <2>1 DEF WokenInv, Late, SourceTick
<1> QED
  BY <1>1, <1>2

(* Sleeping ticks are not shorter than running ones.                       *)
LEMMA WokenByExpire ==
  ASSUME Placed, WokenInv, Expire, Tick <= Time(SecondsTick) PROVE WokenInv'
<1>1. /\ UNCHANGED << wokenAt, stay_asleep, pc >>
      /\ pc # "idle" => ticked'
      /\ pc # "idle" => taken' \in {taken, taken + TickTime}
  BY DEF Expire, call
<1> SUFFICES ASSUME wokenAt >= 0, pc \in ToTest \cup AtTest PROVE WokenInv'
  BY <1>1 DEF WokenInv
<1>2. Late \in Int /\ SourceTick \in Nat /\ SourceTick' = SourceTick
  BY <1>1, SourceTickType DEF Late, SourceTick, Placed, HistoryOK
<1>3. ~ticked
  BY DEF Expire, Placed, PlaceInv, ToTest, AtTest
<1>4. TickTime \in Nat /\ TickTime <= SourceTick
  <2>1. CASE pc \in {"seconds_millis", "seconds_fract", "seconds_wdt"}
    <3>1. wdt = "smclk" /\ pc \notin OnSleep
      BY <2>1 DEF Placed, PlaceInv, Source, OnSmclk, OnSleep
    <3> QED
      BY <3>1, ClockAssumption DEF TickTime, SourceTick, Tick, Time
  <2>2. CASE pc \in {"seconds_sleep", "seconds_test"}
    <3>1. wdt = "seconds" /\ pc \notin OnSleep
      BY <2>2 DEF Placed, PlaceInv, Source, OnSmclk, OnSeconds, OnSleep
    <3>2. TickTime = SourceTick
      BY <3>1 DEF TickTime, SourceTick
    <3> QED
      BY <1>2, <3>2
  <2>3. CASE pc \in {"sleep_start", "sleep_sleep", "sleep_test"}
    <3>1. wdt = "sleep" /\ pc \in OnSleep
      BY <2>3 DEF Placed, PlaceInv, Source, OnSmclk, OnSeconds, OnSleep
    <3>2. TickTime = SourceTick
      BY <3>1 DEF TickTime, SourceTick
    <3> QED
      BY <1>2, <3>2
  <2> QED
    BY <2>1, <2>2, <2>3 DEF ToTest, AtTest
<1>5. Late' \in {Late, Late + TickTime}
  <2>1. pc # "idle"
    BY DEF ToTest, AtTest
  <2> QED
    BY <1>1, <1>4, <2>1 DEF Late, Placed, HistoryOK
<1>6. pc # "idle"
  BY DEF ToTest, AtTest
<1> HIDE DEF Late, SourceTick
<1> QED
  BY <1>1, <1>2, <1>3, <1>4, <1>5, <1>6 DEF WokenInv

(* Every step keeps the count of ticks since a wakeup.                     *)
LEMMA NextKeepsWoken ==
  ASSUME Placed, WokenInv, [Next]_vars, Tick <= Time(SecondsTick)
  PROVE  WokenInv'
<1>1. CASE Next
  BY <1>1, WokenBySteps, WokenInSleep, WokenByInterrupts, WokenByWakeup,
     WokenByExpire DEF Next, Running
<1>2. CASE UNCHANGED vars
  BY <1>2 DEF vars, history, WokenInv, Late, SourceTick
<1> QED
  BY <1>1, <1>2

(* The test that ends a sleep: it finds stay_asleep cleared.               *)
LEMMA WokenEnd ==
  ASSUME Placed, WokenInv, [Next]_vars, wokenAt >= 0,
         pc' \in {"seconds_exit", "sleep_exit"}, pc # pc'
  PROVE  taken - wokenAt <= 2 * TickTime
<1>1. SecondsTest \/ SleepTest
  BY DEF Next, vars, Call, Running, Delay, DelayCall, DelayReturn,
         DelayCount, DelaySleep, SleepSecondsCall, SleepCall, SuspendCall,
         Step, Return, InSeconds, SecondsStart, SecondsSleeping,
         SecondsStay, SecondsMillis, SecondsFract, SecondsWdt, SecondsSleep,
         InSleep, SleepMillis, SleepFract, SleepWdt, SleepSleeping,
         SleepStay, SleepStart, SleepSleep, Exit, ExitSleeping, ExitStay,
         ExitWdt, NextPart, InSuspend, SuspendSleeping, SuspendStay,
         SuspendTest, SuspendSleep, SuspendExit, SuspendWdt, NoInterrupts,
         Interrupts, Expire, WatchdogIsr, WakeupIsr, locals
<1>2. pc \in AtTest
  BY <1>1 DEF SecondsTest, SleepTest, Step, AtTest
<1>3. TickTime = SourceTick /\ SourceTick \in Nat
  <2>1. CASE pc = "seconds_test"
    <3>1. wdt = "seconds" /\ pc \notin OnSleep
      BY <2>1 DEF Placed, PlaceInv, Source, OnSmclk, OnSeconds, OnSleep
    <3> QED
      BY <3>1, SourceTickType DEF TickTime, SourceTick
  <2>2. CASE pc = "sleep_test"
    <3>1. wdt = "sleep" /\ pc \in OnSleep
      BY <2>2 DEF Placed, PlaceInv, Source, OnSmclk, OnSeconds, OnSleep
    <3> QED
      BY <3>1, SourceTickType DEF TickTime, SourceTick
  <2> QED
    BY <1>2, <2>1, <2>2 DEF AtTest
<1>4. Late \in Int /\ Late = taken - wokenAt
  BY DEF Late, Placed, HistoryOK
<1> HIDE DEF Late, SourceTick
<1> QED
  BY <1>2, <1>3, <1>4 DEF WokenInv

(* A wakeup() that comes between the test of stay_asleep and the low-power *)
(* mode, or before the first of them, ends the sleep within two ticks.     *)
THEOREM WakeupWithinTwoTicks ==
  ASSUME Tick <= Time(SecondsTick) PROVE Spec => WakeupPrompt
<1>1. Init => WokenInv
  BY DEF Init, WokenInv
<1>2. Places /\ WokenInv /\ [Next]_vars => WokenInv'
  BY NextKeepsWoken DEF Places, Placed, Timekeeping
<1>3. Places /\ WokenInv /\ [Next]_vars =>
        [pc' \in {"seconds_exit", "sleep_exit"} /\ pc # pc' /\ wokenAt >= 0 =>
           taken - wokenAt <= 2 * TickTime]_vars
  BY WokenEnd DEF Places, Placed, Timekeeping
<1> QED
  BY <1>1, <1>2, <1>3, PlacesHold, PTL DEF Spec, WakeupPrompt

-----------------------------------------------------------------------------
(* What a tick of a sleep is worth, and the times that its two parts count:*)
(* Whole in sleepSeconds, Rest after it, Part the rest once it is counted, *)
(* Base what was over before.  Progress is the time shown since start.     *)
SecTick == Time(SecondsTick)

SlpTick == Time(SleepTick)

Progress == Since(millis) * FRACT_MAX + wdt_fract

Whole == (arg * MS_PER_S) * FRACT_MAX

Rest == rest * FRACT_MAX

Part == arg * FRACT_MAX

Base == asked - Part

(* The arguments a sleep is proved for: they leave the word and, in sleep, *)
(* the int room, and a second is longer than the longest tick.             *)
Room(ms) == ms * FRACT_MAX + 3 * SecTick + 2 * FRACT_MAX <= WORD * FRACT_MAX

SleepsFit ==
  /\ FRACT_MAX + Tick + SlpTick <= SecTick
  /\ SecTick <= MS_PER_S * FRACT_MAX
  /\ \A s \in Seconds : Room(s * MS_PER_S)
  /\ \A ms \in Sleeps : Room(ms) /\ (ms \div MS_PER_S) * MS_PER_S < INT

(* The places of sleepSeconds, then those of the rest of sleep.            *)
SecondsBegun ==
  { "seconds_sleeping", "seconds_stay", "seconds_millis", "seconds_fract",
    "seconds_wdt" }

SecondsLoop == { "seconds_test", "seconds_sleep" }

SecondsEnd == { "seconds_exit", "seconds_unstay", "seconds_unwdt" }

InSecondsPart ==
  {"seconds_start"} \cup SecondsBegun \cup SecondsLoop \cup SecondsEnd

SleepBegun ==
  { "sleep_millis", "sleep_fract", "sleep_wdt", "sleep_sleeping",
    "sleep_stay", "sleep_start" }

SleepLoop == { "sleep_test", "sleep_sleep" }

SleepEnd == { "sleep_exit", "sleep_unstay", "sleep_unwdt" }

InSleepPart == SleepBegun \cup SleepLoop \cup SleepEnd

(* How the next tick is credited: by what the flag and the increments are, *)
(* which the sketch sets one after the other.                              *)
Sleeping ==
  { "seconds_stay", "seconds_millis", "seconds_fract", "seconds_wdt",
    "seconds_test", "seconds_sleep", "seconds_exit",
    "sleep_stay", "sleep_start", "sleep_test", "sleep_sleep", "sleep_exit",
    "suspend_stay", "suspend_test", "suspend_sleep", "suspend_exit" }

CreditInv ==
  /\ sleeping <=> pc \in Sleeping
  /\ SMILLIS_INC \in { 0, SecondsTick[1], SleepTick[1] }
  /\ pc \in {"seconds_fract", "seconds_wdt"} \cup SecondsLoop =>
       SMILLIS_INC = SecondsTick[1]
  /\ pc \in {"seconds_wdt"} \cup SecondsLoop => SFRACT_INC = SecondsTick[2]
  /\ pc \in { "sleep_fract", "sleep_wdt", "sleep_sleeping", "sleep_stay",
              "sleep_start" } \cup SleepLoop => SMILLIS_INC = SleepTick[1]
  /\ pc \in { "sleep_wdt", "sleep_sleeping", "sleep_stay", "sleep_start" }
            \cup SleepLoop => SFRACT_INC = SleepTick[2]

(* Only a wakeup clears stay_asleep before the sleep does.                 *)
StayInv ==
  /\ wokenAt < 0
  /\ pc \in { "seconds_millis", "seconds_fract", "seconds_wdt",
              "seconds_exit", "seconds_unstay", "sleep_start", "sleep_exit",
              "sleep_unstay" } \cup SecondsLoop \cup SleepLoop
  => stay_asleep

(* Every step keeps the credit and stay_asleep as they have to be.         *)
LEMMA NextKeepsCredit ==
  ASSUME Placed, CreditInv, [Next]_vars PROVE CreditInv'
<1> USE DEF Step, CreditInv, Sleeping, SecondsLoop, SleepLoop, credit
<1>1. CASE Call
  BY <1>1 DEF Call, DelayCall, SleepSecondsCall, SleepCall, SuspendCall
<1>2. CASE Delay
  BY <1>2 DEF Delay, DelayReturn, Return, DelayCount, DelaySleep
<1>3. CASE InSeconds
  <2>1. CASE SecondsStart \/ SecondsSleeping \/ SecondsStay
    BY <2>1 DEF SecondsStart, SecondsSleeping, SecondsStay
  <2>2. CASE SecondsMillis \/ SecondsFract
    BY <2>2 DEF SecondsMillis, SecondsFract
  <2>3. CASE SecondsWdt \/ SecondsTest \/ SecondsSleep
    BY <2>3 DEF SecondsWdt, SecondsTest, SecondsSleep
  <2> QED
    BY <1>3, <2>1, <2>2, <2>3 DEF InSeconds
<1>4. CASE InSleep
  <2>1. CASE SleepStart \/ SleepSleeping \/ SleepStay
    BY <2>1 DEF SleepStart, SleepSleeping, SleepStay
  <2>2. CASE SleepMillis \/ SleepFract
    BY <2>2 DEF SleepMillis, SleepFract
  <2>3. CASE SleepWdt \/ SleepTest \/ SleepSleep
    BY <2>3 DEF SleepWdt, SleepTest, SleepSleep
  <2> QED
    BY <1>4, <2>1, <2>2, <2>3 DEF InSleep
<1>5. CASE Exit
  BY <1>5 DEF Exit, ExitSleeping, ExitStay, ExitWdt, NextPart, Return
<1>6. CASE InSuspend
  BY <1>6 DEF InSuspend, SuspendSleeping, SuspendStay, SuspendTest,
              SuspendSleep, SuspendExit, SuspendWdt, Return
<1>7. CASE NoInterrupts \/ Interrupts \/ Expire \/ WatchdogIsr \/ WakeupIsr
  BY <1>7 DEF NoInterrupts, Interrupts, Expire, WatchdogIsr, WakeupIsr
<1>8. CASE UNCHANGED vars
  BY <1>8 DEF vars
<1> QED
  BY <1>1, <1>2, <1>3, <1>4, <1>5, <1>6, <1>7, <1>8 DEF Next, Running

(* Every step keeps stay_asleep until a wakeup.                            *)
LEMMA NextKeepsStay ==
  ASSUME Placed, StayInv, [Next]_vars PROVE StayInv'
<1> USE DEF Step, StayInv, SecondsLoop, SleepLoop, history
<1>1. CASE Call
  BY <1>1 DEF Call, DelayCall, SleepSecondsCall, SleepCall, SuspendCall
<1>2. CASE Delay
  BY <1>2 DEF Delay, DelayReturn, Return, DelayCount, DelaySleep
<1>3. CASE InSeconds
  BY <1>3 DEF InSeconds, SecondsStart, SecondsSleeping, SecondsStay,
              SecondsMillis, SecondsFract, SecondsWdt, SecondsTest,
              SecondsSleep, LowPower
<1>4. CASE InSleep
  BY <1>4 DEF InSleep, SleepMillis, SleepFract, SleepWdt, SleepSleeping,
              SleepStay, SleepStart, SleepTest, SleepSleep, LowPower
<1>5. CASE Exit
  BY <1>5 DEF Exit, ExitSleeping, ExitStay, ExitWdt, NextPart, Return
<1>6. CASE InSuspend
  BY <1>6 DEF InSuspend, SuspendSleeping, SuspendStay, SuspendTest,
              SuspendSleep, SuspendExit, SuspendWdt, Return
<1>7. CASE NoInterrupts \/ Interrupts \/ Expire \/ WatchdogIsr
  BY <1>7 DEF NoInterrupts, Interrupts, Expire, WatchdogIsr, call
<1>8. CASE WakeupIsr
  <2>1. CASE stay_asleep
    <3>1. wokenAt' \in Nat
      BY <1>8, <2>1 DEF WakeupIsr, Placed, HistoryOK
    <3>2. ~(wokenAt' < 0)
      BY <3>1
    <3> QED
      BY <3>2
  <2>2. CASE ~stay_asleep
    BY <1>8, <2>2 DEF WakeupIsr, Placed, TypeOK
  <2> QED
    BY <2>1, <2>2
<1>9. CASE UNCHANGED vars
  BY <1>9 DEF vars
<1> QED
  BY <1>1, <1>2, <1>3, <1>4, <1>5, <1>6, <1>7, <1>8, <1>9 DEF Next, Running

-----------------------------------------------------------------------------
(* Arithmetic of the sleeps.                                               *)
LEMMA Multiples ==
  ASSUME NEW b \in Nat, NEW m \in Nat, NEW n \in Nat, m <= n
  PROVE  /\ m * b \in Nat /\ n * b \in Nat /\ m * b <= n * b
         /\ (m + 1) * b = m * b + b
<1>1. n * b = m * b + (n - m) * b
  BY ONLY b \in Nat, m \in Nat, n \in Nat
<1>2. /\ m * b \in Nat /\ n * b \in Nat /\ (n - m) * b \in Nat
      /\ (m + 1) * b = m * b + b
  BY ONLY b \in Nat, m \in Nat, n \in Nat, m <= n
<1> QED
  BY ONLY <1>1, <1>2

(* What is a number, and how the numbers compare.                          *)
LEMMA Numbers ==
  ASSUME Placed, SleepsFit
  PROVE  /\ FRACT_MAX \in Nat \ {0} /\ Tick \in Nat \ {0}
         /\ SecTick \in Nat /\ SlpTick \in Nat
         /\ FRACT_MAX + Tick + SlpTick <= SecTick
         /\ asked \in Nat /\ taken \in Nat /\ arg \in Nat /\ rest \in Nat
         /\ wdt_fract \in 0 .. FRACT_MAX - 1 /\ ticked \in BOOLEAN
         /\ wdtifg \in BOOLEAN /\ stay_asleep \in BOOLEAN
         /\ Progress \in Nat /\ wdt_fract <= Progress
         /\ Whole \in Nat /\ Rest \in Nat /\ Part \in Nat
         /\ Base = asked - Part
         /\ arg > 0 => Whole >= SecTick /\ Part >= FRACT_MAX
<1>1. /\ FRACT_MAX \in Nat \ {0} /\ Tick \in Nat \ {0} /\ MS_PER_S \in Nat
      /\ SecTick \in Nat /\ SlpTick \in Nat
      /\ FRACT_MAX + Tick + SlpTick <= SecTick
      /\ SecTick <= MS_PER_S * FRACT_MAX
  BY ClockAssumption DEF Tick, SecTick, SlpTick, Time, SleepsFit
<1>2. /\ asked \in Nat /\ taken \in Nat /\ arg \in Nat /\ rest \in Nat
      /\ wdt_fract \in 0 .. FRACT_MAX - 1 /\ ticked \in BOOLEAN
      /\ wdtifg \in BOOLEAN /\ stay_asleep \in BOOLEAN
  BY ClockAssumption DEF Placed, TypeOK, HistoryOK
<1>3. Progress \in Nat /\ wdt_fract <= Progress
  <2>1. Since(millis) \in Nat
    <3>1. millis - start \in Int
      BY WordsAreWords DEF Placed, TypeOK
    <3>2. Since(millis) \in 0 .. WORD - 1
      BY <3>1, Division, ClockAssumption DEF Since
    <3> QED
      BY <3>2, ClockAssumption
  <2>2. Since(millis) * FRACT_MAX \in Nat
    BY ONLY <1>1, <2>1
  <2> QED
    BY <1>1, <1>2, <2>2 DEF Progress
<1>4. Whole \in Nat /\ Rest \in Nat /\ Part \in Nat
  <2>1. arg * MS_PER_S \in Nat /\ rest * FRACT_MAX \in Nat
        /\ arg * FRACT_MAX \in Nat
    BY ONLY <1>1, <1>2
  <2>2. (arg * MS_PER_S) * FRACT_MAX \in Nat
    BY ONLY <1>1, <2>1
  <2> QED
    BY <2>1, <2>2 DEF Whole, Rest, Part
<1>5. arg > 0 => Whole >= SecTick /\ Part >= FRACT_MAX
  <2> SUFFICES ASSUME arg > 0 PROVE Whole >= SecTick /\ Part >= FRACT_MAX
    OBVIOUS
  <2>1. 1 \in Nat /\ 1 <= arg
    BY <1>2
  <2>2. 1 * FRACT_MAX <= arg * FRACT_MAX
    BY <1>1, <1>2, <2>1, Multiples
  <2>3. 1 * MS_PER_S <= arg * MS_PER_S /\ arg * MS_PER_S \in Nat
    BY <1>1, <1>2, <2>1, Multiples
  <2>4. 1 * MS_PER_S = MS_PER_S /\ 1 * FRACT_MAX = FRACT_MAX
    BY ONLY <1>1
  <2>5. MS_PER_S * FRACT_MAX <= (arg * MS_PER_S) * FRACT_MAX
    BY <1>1, <2>3, <2>4, Multiples
  <2>6. MS_PER_S * FRACT_MAX \in Nat /\ Part = arg * FRACT_MAX
        /\ Whole = (arg * MS_PER_S) * FRACT_MAX
    BY ONLY <1>1 DEF Whole, Part
  <2> QED
    BY ONLY <1>1, <1>4, <2>2, <2>4, <2>5, <2>6
<1> QED
  BY <1>1, <1>2, <1>3, <1>4, <1>5 DEF Base

(* Room, in units of taken.                                                *)
LEMMA RoomIs ==
  /\ Room(arg * MS_PER_S) <=>
       Whole + 3 * SecTick + 2 * FRACT_MAX <= WORD * FRACT_MAX
  /\ Room(arg) <=> Part + 3 * SecTick + 2 * FRACT_MAX <= WORD * FRACT_MAX
  BY DEF Room, Whole, Part

(* The tests of the loops, which compare whole milliseconds.               *)
LEMMA ProgressUpTo ==
  ASSUME TypeOK, NEW n \in Nat
  PROVE  /\ n * FRACT_MAX \in Nat /\ Since(millis) \in 0 .. WORD - 1
         /\ Since(millis) <= n => Progress < n * FRACT_MAX + FRACT_MAX
         /\ Since(millis) > n =>
              Progress >= n * FRACT_MAX + FRACT_MAX + wdt_fract
         /\ Since(millis) < n => Progress < n * FRACT_MAX
         /\ Since(millis) >= n => Progress >= n * FRACT_MAX + wdt_fract
<1> DEFINE e == Since(millis)
<1>1. e \in 0 .. WORD - 1
  <2>1. millis - start \in Int
    BY WordsAreWords DEF TypeOK
  <2> QED
    BY <2>1, Division, ClockAssumption DEF Since
<1>2. FRACT_MAX \in Nat /\ wdt_fract \in 0 .. FRACT_MAX - 1 /\ WORD \in Nat
  BY ClockAssumption DEF TypeOK
<1>3. Progress = e * FRACT_MAX + wdt_fract
  BY DEF Progress
<1> HIDE DEF e
<1>4. e \in Nat /\ e * FRACT_MAX \in Nat /\ n * FRACT_MAX \in Nat
  BY ONLY <1>1, <1>2, n \in Nat
<1>5. e <= n => e * FRACT_MAX <= n * FRACT_MAX
  BY <1>2, <1>4, Multiples
<1>6. e > n => n * FRACT_MAX + FRACT_MAX <= e * FRACT_MAX
  <2>1. SUFFICES ASSUME n + 1 <= e
                 PROVE n * FRACT_MAX + FRACT_MAX <= e * FRACT_MAX
    BY <1>4
  <2>2. (n + 1) * FRACT_MAX <= e * FRACT_MAX
    BY <1>2, <1>4, <2>1, n + 1 \in Nat, Multiples
  <2>3. (n + 1) * FRACT_MAX = n * FRACT_MAX + FRACT_MAX
    BY <1>2, Multiples
  <2> QED
    BY <2>2, <2>3
<1>7. e < n => e * FRACT_MAX + FRACT_MAX <= n * FRACT_MAX
  <2>1. SUFFICES ASSUME e + 1 <= n
                 PROVE e * FRACT_MAX + FRACT_MAX <= n * FRACT_MAX
    BY <1>4
  <2>2. (e + 1) * FRACT_MAX <= n * FRACT_MAX
    BY <1>2, <1>4, <2>1, e + 1 \in Nat, Multiples
  <2>3. (e + 1) * FRACT_MAX = e * FRACT_MAX + FRACT_MAX
    BY <1>2, <1>4, Multiples
  <2> QED
    BY <2>2, <2>3
<1>8. e >= n => n * FRACT_MAX <= e * FRACT_MAX
  BY <1>2, <1>4, Multiples
<1> DEFINE p == e * FRACT_MAX  q == n * FRACT_MAX
<1>9. /\ p \in Nat /\ q \in Nat
      /\ e <= n => p <= q
      /\ e > n => q + FRACT_MAX <= p
      /\ e < n => p + FRACT_MAX <= q
      /\ e >= n => q <= p
      /\ Progress = p + wdt_fract
  BY <1>3, <1>4, <1>5, <1>6, <1>7, <1>8
<1> HIDE DEF p, q
<1>10. /\ e <= n => Progress < q + FRACT_MAX
       /\ e > n => Progress >= q + FRACT_MAX + wdt_fract
       /\ e < n => Progress < q
       /\ e >= n => Progress >= q + wdt_fract
  BY ONLY <1>2, <1>4, <1>9, n \in Nat
<1> QED
  BY <1>1, <1>4, <1>10 DEF e, p, q

(* A tick advances the progress by what it is credited with.               *)
LEMMA ProgressTick ==
  ASSUME TypeOK, WatchdogIsr,
         Progress + Time(TickCredit) < WORD * FRACT_MAX
  PROVE  Progress' = Progress + Time(TickCredit)
<1> DEFINE m == wdt_millis + TickCredit[1]
           f == wdt_fract + TickCredit[2]
           now == Carry(m, f)
           e == Since(millis)
           k == now[1] - wdt_millis
<1>1. m \in Nat /\ f \in 0 .. 2 * FRACT_MAX - 2
  BY TickCreditType, ClockAssumption DEF TypeOK
<1>2. /\ wdt_millis' = now[1] % WORD /\ wdt_fract' = now[2] /\ start' = start
  BY DEF WatchdogIsr, locals
<1>3. /\ now[1] \in Nat /\ now[2] \in 0 .. FRACT_MAX - 1
      /\ now[1] * FRACT_MAX + now[2] = m * FRACT_MAX + f
  BY <1>1, CarryKeepsTime
<1>4. now[1] >= m
  BY <1>1, ClockAssumption DEF Carry
<1>5. /\ wdt_millis \in Nat /\ wdt_fract \in Nat /\ start \in Nat
      /\ WORD \in Nat \ {0} /\ FRACT_MAX \in Nat \ {0}
      /\ TickCredit[1] \in Nat /\ TickCredit[2] \in Nat
      /\ Time(TickCredit) = TickCredit[1] * FRACT_MAX + TickCredit[2]
  BY ClockAssumption, TickCreditType DEF TypeOK
<1>6. k \in Nat /\ now[1] = wdt_millis + k
  BY <1>3, <1>4, <1>5
<1>7. e \in 0 .. WORD - 1
  BY ProgressUpTo, 0 \in Nat
<1>8. Progress = e * FRACT_MAX + wdt_fract
  BY DEF Progress
<1>9. e = (wdt_millis - start) % WORD
  BY DEF Since, millis
<1>10. Progress' = Since(millis)' * FRACT_MAX + wdt_fract'
  BY DEF Progress
<1>11. Since(millis)' = ((now[1] % WORD) - start) % WORD
  <2>1. Since(millis)' = (wdt_millis' - start') % WORD
    BY DEF Since, millis
  <2> QED
    BY <1>2, <2>1
<1>12. (e + k) * FRACT_MAX + now[2] = Progress + Time(TickCredit)
  <2> DEFINE c == TickCredit[1]  d == TickCredit[2]  n1 == now[1]  n2 == now[2]
  <2>1. /\ n1 * FRACT_MAX + n2 = (wdt_millis + c) * FRACT_MAX
                                   + (wdt_fract + d)
        /\ n1 = wdt_millis + k /\ n1 \in Nat /\ n2 \in Nat
        /\ c \in Nat /\ d \in Nat /\ Time(TickCredit) = c * FRACT_MAX + d
    BY <1>3, <1>5, <1>6
  <2> HIDE DEF c, d, n1, n2, k, e, now
  <2>2. /\ (wdt_millis + c) * FRACT_MAX
             = wdt_millis * FRACT_MAX + c * FRACT_MAX
        /\ (wdt_millis + k) * FRACT_MAX
             = wdt_millis * FRACT_MAX + k * FRACT_MAX
        /\ (e + k) * FRACT_MAX = e * FRACT_MAX + k * FRACT_MAX
        /\ wdt_millis * FRACT_MAX \in Nat /\ c * FRACT_MAX \in Nat
        /\ k * FRACT_MAX \in Nat /\ e * FRACT_MAX \in Nat
    BY ONLY <1>5, <1>6, <1>7, <2>1
  <2>3. wdt_millis * FRACT_MAX + k * FRACT_MAX + n2
          = wdt_millis * FRACT_MAX + c * FRACT_MAX + (wdt_fract + d)
    BY ONLY <2>1, <2>2
  <2>4. k * FRACT_MAX + n2 = c * FRACT_MAX + (wdt_fract + d)
    <3> DEFINE x == k * FRACT_MAX  y == c * FRACT_MAX
               z == wdt_millis * FRACT_MAX
    <3>1. /\ x \in Nat /\ y \in Nat /\ z \in Nat
          /\ z + x + n2 = z + y + (wdt_fract + d)
      BY <2>2, <2>3
    <3> HIDE DEF x, y, z
    <3>2. x + n2 = y + (wdt_fract + d)
      BY ONLY <1>5, <2>1, <3>1
    <3> QED
      BY <3>2 DEF x, y
  <2>5. (e + k) * FRACT_MAX + n2
          = e * FRACT_MAX + wdt_fract + (c * FRACT_MAX + d)
    BY ONLY <1>5, <2>1, <2>2, <2>4
  <2> QED
    BY <1>8, <2>1, <2>5 DEF n2
<1> DEFINE n2 == now[2]
<1>13. /\ n2 \in Nat /\ (e + k) * FRACT_MAX + n2 < WORD * FRACT_MAX
       /\ wdt_fract' = n2
  BY <1>2, <1>3, <1>12
<1>14. Since(millis)' = (e + k) % WORD
  <2> DEFINE n1 == now[1]
  <2>1. /\ n1 \in Nat /\ n1 = wdt_millis + k
        /\ Since(millis)' = ((n1 % WORD) - start) % WORD
    BY <1>3, <1>6, <1>11
  <2> HIDE DEF n1, now, k, e
  <2>2. n1 % WORD \in Int /\ (n1 % WORD) - start = (n1 % WORD) + (-start)
        /\ n1 + (-start) = (wdt_millis - start) + k
    BY <1>5, <1>6, <2>1, Division
  <2>3. ((n1 % WORD) + (-start)) % WORD = (n1 + (-start)) % WORD
    BY <1>5, <2>1, n1 \in Int, -start \in Int, Sums, Zenon
  <2>4. (((wdt_millis - start) % WORD) + k) % WORD
          = ((wdt_millis - start) + k) % WORD
    BY <1>5, <1>6, wdt_millis - start \in Int, k \in Int, Sums, Zenon
  <2> QED
    BY <1>9, <2>1, <2>2, <2>3, <2>4
<1> HIDE DEF now, m, f, k, e, n2
<1>15. e + k < WORD
  <2> SUFFICES ASSUME WORD <= e + k PROVE FALSE
    BY <1>5, <1>6, <1>7
  <2>1. WORD * FRACT_MAX <= (e + k) * FRACT_MAX
        /\ (e + k) * FRACT_MAX \in Nat /\ WORD * FRACT_MAX \in Nat
    BY <1>5, <1>6, <1>7, e + k \in Nat, Multiples
  <2> QED
    BY <1>13, <2>1
<1>16. (e + k) % WORD = e + k
  BY <1>5, <1>6, <1>7, <1>15, e + k \in 0 .. WORD - 1, WordIs
<1> QED
  BY <1>10, <1>12, <1>13, <1>14, <1>16 DEF n2

(* Where start is read, only the fraction of a millisecond has gone.       *)
LEMMA ProgressFromNow ==
  ASSUME TypeOK, UNCHANGED clock, start' = millis
  PROVE  Progress' = wdt_fract
<1>1. millis' = millis /\ millis \in Nat /\ wdt_fract' = wdt_fract
  BY WordsAreWords DEF millis, clock
<1>2. Since(millis)' = (millis - millis) % WORD
  BY <1>1 DEF Since
<1>3. millis - millis = 0 /\ 0 \in 0 .. WORD - 1
  BY <1>1, ClockAssumption
<1>4. Since(millis)' = 0
  BY <1>2, <1>3, WordIs, ClockAssumption
<1>5. Progress' = Since(millis)' * FRACT_MAX + wdt_fract'
  BY DEF Progress
<1>6. 0 * FRACT_MAX = 0 /\ wdt_fract \in Nat
  BY ClockAssumption DEF TypeOK
<1> QED
  BY <1>1, <1>4, <1>5, <1>6

(* What the increments credit a tick with.                                 *)
LEMMA CreditIs ==
  ASSUME TypeOK, CreditInv, SleepsFit
  PROVE  /\ Time(TickCredit) \in Nat
         /\ Time(TickCredit) < SecTick + FRACT_MAX
         /\ pc \in SecondsLoop => Time(TickCredit) = SecTick
         /\ pc \in SleepLoop => Time(TickCredit) = SlpTick
<1>1. /\ FRACT_MAX \in Nat \ {0} /\ Tick \in Nat
      /\ SecondsTick[1] \in Nat /\ SleepTick[1] \in Nat
      /\ SecondsTick[2] \in 0 .. FRACT_MAX - 1
      /\ SleepTick[2] \in 0 .. FRACT_MAX - 1
  BY ClockAssumption DEF Tick
<1>2. /\ SecTick = SecondsTick[1] * FRACT_MAX + SecondsTick[2]
      /\ SlpTick = SleepTick[1] * FRACT_MAX + SleepTick[2]
  BY DEF SecTick, SlpTick, Time
<1>3. /\ TickCredit[1] \in Nat /\ TickCredit[2] \in 0 .. FRACT_MAX - 1
      /\ Time(TickCredit) = TickCredit[1] * FRACT_MAX + TickCredit[2]
  BY TickCreditType
<1>4. /\ SecondsTick[1] * FRACT_MAX \in Nat /\ SleepTick[1] * FRACT_MAX \in Nat
      /\ TickCredit[1] * FRACT_MAX \in Nat /\ 0 * FRACT_MAX = 0
  BY ONLY <1>1, <1>3
<1>5. SlpTick <= SecTick /\ Tick + FRACT_MAX <= SecTick
  BY <1>1, <1>2, <1>4 DEF SleepsFit
<1>6. CASE sleeping
  <2>1. TickCredit[1] = SMILLIS_INC /\ TickCredit[2] = SFRACT_INC
    BY <1>6 DEF TickCredit
  <2>2. TickCredit[1] * FRACT_MAX <= SecTick
    <3>1. CASE SMILLIS_INC = 0
      BY <1>1, <1>2, <1>4, <2>1, <3>1
    <3>2. CASE SMILLIS_INC = SecondsTick[1]
      BY <1>1, <1>2, <1>4, <2>1, <3>2
    <3>3. CASE SMILLIS_INC = SleepTick[1]
      BY <1>1, <1>2, <1>4, <1>5, <2>1, <3>3
    <3> QED
      BY <3>1, <3>2, <3>3 DEF CreditInv
  <2>3. /\ pc \in SecondsLoop => Time(TickCredit) = SecTick
        /\ pc \in SleepLoop => Time(TickCredit) = SlpTick
    BY <1>2, <1>3, <2>1 DEF CreditInv
  <2>4. SecTick \in Nat
    BY <1>1, <1>2, <1>4
  <2> QED
    BY ONLY <1>1, <1>3, <1>4, <2>2, <2>3, <2>4
<1>7. CASE ~sleeping
  <2>1. pc \notin SecondsLoop /\ pc \notin SleepLoop
    BY <1>7 DEF CreditInv, Sleeping, SecondsLoop, SleepLoop
  <2>2. Time(TickCredit) = Tick
    <3>1. TickCredit = RunTick
      BY <1>7 DEF TickCredit
    <3>2. Time(RunTick) = MILLIS_INC * FRACT_MAX + FRACT_INC
      BY DEF Time, RunTick
    <3>3. /\ MILLIS_INC \in Int
          /\ MILLIS_INC * FRACT_MAX = FRACT_MAX * MILLIS_INC
          /\ Tick = FRACT_MAX * MILLIS_INC + FRACT_INC
      <4>1. /\ MILLIS_INC \in Int
            /\ Tick = FRACT_MAX * MILLIS_INC + FRACT_INC
        BY <1>1, Division DEF MILLIS_INC, FRACT_INC, Tick
      <4> QED
        BY ONLY <1>1, <4>1
    <3> QED
      BY <3>1, <3>2, <3>3
  <2>3. SecTick \in Nat
    BY <1>1, <1>2, <1>4
  <2> QED
    BY ONLY <1>1, <1>5, <2>1, <2>2, <2>3
<1> QED
  BY <1>6, <1>7

-----------------------------------------------------------------------------
(* What a sleep was asked for, and that its two parts have room.           *)
ArgsInv ==
  /\ pc \in InSecondsPart =>
       /\ asked = Whole + Rest /\ Room(arg * MS_PER_S) /\ Room(rest)
       /\ rest # 0 => arg > 0
  /\ pc \in InSleepPart => arg > 0 /\ rest = 0 /\ Room(arg)

(* The first pass of a loop may still meet a tick of before.               *)
First(loop) == lpm = "active" /\ (pc = loop \/ stay_asleep)

(* By how much a loop is late when it goes to sleep once more.             *)
Slack == IF arg = 0 THEN SecTick + 1 ELSE FRACT_MAX + Tick

Lead == FRACT_MAX + Tick + SecTick

Pending(tick) == IF wdtifg THEN tick ELSE 0

(* sleep splits its argument without loss while the products fit an int.   *)
LEMMA Split ==
  ASSUME SleepsFit, NEW ms \in Sleeps
  PROVE  LET w == WholeSeconds(ms)  r == RestOf(ms)
         IN  /\ w \in Nat /\ r \in Nat /\ ms = w * MS_PER_S + r
             /\ ms >= MS_PER_S => w > 0
             /\ Room(w * MS_PER_S) /\ Room(r)
<1> DEFINE q == ms \div MS_PER_S  p == q * MS_PER_S
<1>1. /\ ms \in Nat /\ MS_PER_S \in Nat \ {0} /\ INT \in Nat \ {0}
      /\ WORD \in Nat \ {0} /\ FRACT_MAX \in Nat \ {0}
      /\ SecTick \in Nat
  BY ClockAssumption DEF SecTick, Time
<1>2. /\ q \in Int /\ ms % MS_PER_S \in 0 .. MS_PER_S - 1
      /\ ms = MS_PER_S * q + (ms % MS_PER_S)
  BY <1>1, Division
<1>3. p < INT /\ Room(ms)
  BY DEF SleepsFit
<1>4. WholeSeconds(ms) = q % INT
  BY DEF WholeSeconds
<1>5. RestOf(ms) = (ms - ((WholeSeconds(ms) * MS_PER_S) % INT)) % WORD
  BY DEF RestOf
<1> HIDE DEF q
<1>6. MS_PER_S * q = p
  BY ONLY <1>1, <1>2
<1>7. q \in Nat
  <2> SUFFICES ASSUME q <= -1 PROVE FALSE
    BY <1>2
  <2>1. MS_PER_S * q <= -MS_PER_S
    BY ONLY <1>1, <1>2, q <= -1
  <2>2. MS_PER_S * q \in Int
    BY ONLY <1>1, <1>2
  <2> QED
    BY ONLY <1>1, <1>2, <2>1, <2>2
<1>8. p \in Nat /\ q <= p
  <2>1. 1 * q <= MS_PER_S * q /\ MS_PER_S * q \in Nat /\ 1 * q = q
    BY <1>1, <1>7, 1 <= MS_PER_S, Multiples
  <2> QED
    BY <1>6, <2>1
<1> HIDE DEF p
<1>9. q % INT = q /\ p % INT = p
  BY <1>1, <1>3, <1>7, <1>8, q \in 0 .. INT - 1, p \in 0 .. INT - 1, WordIs
<1>10. p <= ms /\ ms - p \in 0 .. ms
  BY <1>1, <1>2, <1>6, <1>8
<1>11. ms < WORD
  <2> SUFFICES ASSUME WORD <= ms PROVE FALSE
    BY <1>1
  <2>1. /\ WORD * FRACT_MAX <= ms * FRACT_MAX
        /\ WORD * FRACT_MAX \in Nat /\ ms * FRACT_MAX \in Nat
    BY <1>1, Multiples
  <2>2. ms * FRACT_MAX + 3 * SecTick + 2 * FRACT_MAX <= WORD * FRACT_MAX
    BY <1>3 DEF Room
  <2> QED
    BY ONLY <1>1, <2>1, <2>2
<1>12. (ms - p) % WORD = ms - p
  BY <1>1, <1>10, <1>11, ms - p \in 0 .. WORD - 1, WordIs
<1>13. WholeSeconds(ms) = q /\ WholeSeconds(ms) * MS_PER_S = p
       /\ RestOf(ms) = ms - p
  BY <1>4, <1>5, <1>9, <1>12 DEF p
<1>14. ms >= MS_PER_S => q > 0
  <2> SUFFICES ASSUME ms >= MS_PER_S, q = 0 PROVE FALSE
    BY <1>7
  <2>1. p = 0
    BY <1>1 DEF p
  <2> QED
    BY <1>1, <1>2, <1>6, <2>1
<1>15. ASSUME NEW n \in Nat, n <= ms PROVE Room(n)
  <2>1. n * FRACT_MAX <= ms * FRACT_MAX /\ n * FRACT_MAX \in Nat
        /\ ms * FRACT_MAX \in Nat /\ WORD * FRACT_MAX \in Nat
    BY <1>1, <1>15, Multiples
  <2>2. ms * FRACT_MAX + 3 * SecTick + 2 * FRACT_MAX <= WORD * FRACT_MAX
    BY <1>3 DEF Room
  <2>3. n * FRACT_MAX + 3 * SecTick + 2 * FRACT_MAX <= WORD * FRACT_MAX
    BY ONLY <1>1, <2>1, <2>2
  <2> QED
    BY <2>3 DEF Room
<1> QED
  BY <1>1, <1>7, <1>8, <1>10, <1>13, <1>14, <1>15

(* The call of a sleep splits its argument and leaves both parts room.     *)
LEMMA CallsKeepArgs ==
  ASSUME Placed, SleepsFit, Call PROVE ArgsInv'
<1> USE DEF Step, ArgsInv
<1>1. CASE DelayCall \/ SuspendCall
  BY <1>1 DEF DelayCall, SuspendCall, InSecondsPart, SecondsBegun,
              SecondsLoop, SecondsEnd, InSleepPart, SleepBegun, SleepLoop,
              SleepEnd
<1>2. CASE SleepSecondsCall
  <2>1. PICK s \in Seconds :
          arg' = s /\ rest' = 0 /\ asked' = s * MS_PER_S * FRACT_MAX
    BY <1>2 DEF SleepSecondsCall, Enter
  <2>2. pc' \notin InSleepPart
    BY <1>2 DEF SleepSecondsCall, InSleepPart, SleepBegun, SleepLoop, SleepEnd
  <2>3. /\ s \in Nat /\ MS_PER_S \in Nat /\ FRACT_MAX \in Nat
        /\ (s * MS_PER_S) * FRACT_MAX \in Nat
    <3>1. s \in Nat /\ MS_PER_S \in Nat /\ FRACT_MAX \in Nat
      BY ClockAssumption
    <3>2. s * MS_PER_S \in Nat
      BY ONLY <3>1
    <3> QED
      BY ONLY <3>1, <3>2
  <2>4. Room(s * MS_PER_S)
    BY DEF SleepsFit
  <2>5. Room(0)
    <3>1. /\ FRACT_MAX \in Nat /\ WORD * FRACT_MAX \in Nat /\ SecTick \in Nat
          /\ 0 * FRACT_MAX = 0
      BY ClockAssumption DEF SecTick, Time
    <3>2. (s * MS_PER_S) * FRACT_MAX + 3 * SecTick + 2 * FRACT_MAX
            <= WORD * FRACT_MAX
      BY <2>4 DEF Room
    <3>3. 0 * FRACT_MAX + 3 * SecTick + 2 * FRACT_MAX <= WORD * FRACT_MAX
      BY ONLY <2>3, <3>1, <3>2
    <3> QED
      BY <3>3 DEF Room
  <2>6. Whole' = s * MS_PER_S * FRACT_MAX /\ Rest' = 0
    BY <2>1, <2>3 DEF Whole, Rest
  <2>7. Room(arg * MS_PER_S)' /\ Room(rest)'
    BY <2>1, <2>4, <2>5 DEF Room
  <2> QED
    BY <2>1, <2>2, <2>3, <2>6, <2>7
<1>3. CASE SleepCall
  <2>1. PICK ms \in Sleeps :
          /\ asked' = ms * FRACT_MAX
          /\ \/ /\ ms >= MS_PER_S /\ pc' = "seconds_start"
                /\ arg' = WholeSeconds(ms) /\ rest' = RestOf(ms)
             \/ /\ 0 < ms /\ ms < MS_PER_S /\ pc' = "sleep_millis"
                /\ arg' = ms /\ rest' = 0
    BY <1>3 DEF SleepCall, Enter
  <2>2. Room(ms)
    BY DEF SleepsFit
  <2>3. CASE pc' = "sleep_millis"
    <3>1. pc' \notin InSecondsPart
      BY <2>3 DEF InSecondsPart, SecondsBegun, SecondsLoop, SecondsEnd
    <3>2. Room(arg)' /\ arg' > 0 /\ rest' = 0
      BY <2>1, <2>2, <2>3 DEF Room
    <3> QED
      BY <3>1, <3>2
  <2>4. CASE pc' = "seconds_start"
    <3> DEFINE w == WholeSeconds(ms)  r == RestOf(ms)
    <3>1. /\ w \in Nat /\ r \in Nat /\ ms = w * MS_PER_S + r
          /\ w > 0 /\ Room(w * MS_PER_S) /\ Room(r)
          /\ arg' = w /\ rest' = r
      BY <2>1, <2>4, Split
    <3> HIDE DEF w, r
    <3>2. pc' \notin InSleepPart
      BY <2>4 DEF InSleepPart, SleepBegun, SleepLoop, SleepEnd
    <3>3. Room(arg * MS_PER_S)' /\ Room(rest)' /\ arg' > 0
      BY <3>1 DEF Room
    <3>4. asked' = Whole' + Rest'
      <4>1. w * MS_PER_S \in Nat /\ FRACT_MAX \in Nat
        <5>1. MS_PER_S \in Nat /\ FRACT_MAX \in Nat
          BY ClockAssumption
        <5> QED
          BY ONLY <3>1, <5>1
      <4> DEFINE x == w * MS_PER_S
      <4>2. x \in Nat /\ FRACT_MAX \in Nat /\ r \in Nat
        BY <3>1, <4>1
      <4> HIDE DEF x
      <4>3. (x + r) * FRACT_MAX = x * FRACT_MAX + r * FRACT_MAX
        BY ONLY <4>2
      <4>4. asked' = (x + r) * FRACT_MAX
        BY <2>1, <3>1 DEF x
      <4>5. Whole' = x * FRACT_MAX /\ Rest' = r * FRACT_MAX
        BY <3>1 DEF Whole, Rest, x
      <4> QED
        BY <4>3, <4>4, <4>5
    <3> QED
      BY <3>2, <3>3, <3>4
  <2> QED
    BY <2>1, <2>3, <2>4
<1> QED
  BY <1>1, <1>2, <1>3 DEF Call

(* What the steps of a part leave alone.                                   *)
LEMMA SameValues ==
  ASSUME UNCHANGED << arg, rest, asked >>
  PROVE  /\ Whole' = Whole /\ Rest' = Rest /\ Part' = Part /\ Base' = Base
         /\ Room(arg * MS_PER_S)' = Room(arg * MS_PER_S)
         /\ Room(rest)' = Room(rest) /\ Room(arg)' = Room(arg)
         /\ Slack' = Slack
  BY DEF Whole, Rest, Part, Base, Room, Slack

(* Inside a sleep the sketch changes neither its arguments nor the clock.  *)
LEMMA PartSteps ==
  ASSUME InSeconds \/ InSleep \/ ExitSleeping \/ ExitStay
  PROVE  /\ UNCHANGED << arg, rest, asked, taken, wokenAt >>
         /\ UNCHANGED << wdt_millis, wdt_fract, wdtifg >>
         /\ pc \in InSecondsPart <=> pc' \in InSecondsPart
         /\ pc \in InSleepPart <=> pc' \in InSleepPart
         /\ pc # "idle" /\ pc' # "idle"
<1> USE DEF Step, InSecondsPart, SecondsBegun, SecondsLoop, SecondsEnd,
            InSleepPart, SleepBegun, SleepLoop, SleepEnd, history, locals,
            clock
<1>1. CASE InSeconds
  BY <1>1 DEF InSeconds, SecondsStart, SecondsSleeping, SecondsStay,
              SecondsMillis, SecondsFract, SecondsWdt, SecondsTest,
              SecondsSleep, LowPower
<1>2. CASE InSleep
  BY <1>2 DEF InSleep, SleepMillis, SleepFract, SleepWdt, SleepSleeping,
              SleepStay, SleepStart, SleepTest, SleepSleep, LowPower
<1>3. CASE ExitSleeping \/ ExitStay
  BY <1>3 DEF ExitSleeping, ExitStay
<1> QED
  BY <1>1, <1>2, <1>3

(* These steps do not lead into a sleep.                                   *)
LEMMA OutsideParts ==
  ASSUME \/ DelayCall \/ SuspendCall \/ Delay \/ InSuspend
         \/ NoInterrupts \/ Interrupts
         \/ Return("seconds_unwdt") \/ Return("sleep_unwdt")
  PROVE  pc' \notin InSecondsPart /\ pc' \notin InSleepPart
<1> USE DEF Step, Return, InSecondsPart, SecondsBegun, SecondsLoop,
            SecondsEnd, InSleepPart, SleepBegun, SleepLoop, SleepEnd
<1>1. CASE DelayCall \/ SuspendCall \/ Delay
  BY <1>1 DEF DelayCall, SuspendCall, Delay, DelayReturn, DelayCount,
              DelaySleep
<1>2. CASE InSuspend
  BY <1>2 DEF InSuspend, SuspendSleeping, SuspendStay, SuspendTest,
              SuspendSleep, SuspendExit, SuspendWdt
<1>3. CASE NoInterrupts \/ Interrupts
  BY <1>3 DEF NoInterrupts, Interrupts
<1>4. CASE Return("seconds_unwdt") \/ Return("sleep_unwdt")
  BY <1>4
<1> QED
  BY <1>1, <1>2, <1>3, <1>4

(* Every step keeps the arguments; the second part takes the rest over.    *)
LEMMA NextKeepsArgs ==
  ASSUME Placed, SleepsFit, ArgsInv, [Next]_vars PROVE ArgsInv'
<1>1. CASE Call
  BY <1>1, CallsKeepArgs
<1>2. CASE InSeconds \/ InSleep \/ ExitSleeping \/ ExitStay
  BY <1>2, PartSteps, SameValues DEF ArgsInv
<1>3. CASE ExitWdt
  <2>1. CASE NextPart
    <3>1. /\ pc = "seconds_unwdt" /\ pc' = "sleep_millis" /\ rest # 0
          /\ arg' = rest /\ rest' = 0
      BY <2>1 DEF NextPart, Step
    <3>2. pc \in InSecondsPart /\ pc' \notin InSecondsPart
      BY <3>1 DEF InSecondsPart, SecondsBegun, SecondsLoop, SecondsEnd
    <3>3. rest > 0
      BY <3>1, ClockAssumption DEF Placed, TypeOK
    <3>4. Room(arg)'
      BY <3>1, <3>2 DEF ArgsInv, Room
    <3> QED
      BY <3>1, <3>2, <3>3, <3>4 DEF ArgsInv
  <2>2. CASE Return("seconds_unwdt") \/ Return("sleep_unwdt")
    BY <2>2, OutsideParts DEF ArgsInv
  <2> QED
    BY <1>3, <2>1, <2>2 DEF ExitWdt
<1>4. CASE Expire \/ WatchdogIsr \/ WakeupIsr
  <2>1. UNCHANGED << pc, arg, rest, asked >>
    BY <1>4 DEF Expire, WatchdogIsr, WakeupIsr, locals, call
  <2> QED
    BY <2>1, SameValues DEF ArgsInv
<1>5. CASE Delay \/ InSuspend \/ NoInterrupts \/ Interrupts
  BY <1>5, OutsideParts DEF ArgsInv
<1>6. CASE UNCHANGED vars
  <2>1. UNCHANGED << pc, arg, rest, asked >>
    BY <1>6 DEF vars, locals, history
  <2> QED
    BY <2>1, SameValues DEF ArgsInv
<1> QED
  BY <1>1, <1>2, <1>3, <1>4, <1>5, <1>6 DEF Next, Running, Exit

-----------------------------------------------------------------------------
(* sleepSeconds, place by place.  At most one tick comes before the first  *)
(* low-power mode; it may be credited with too much or with nothing.  From *)
(* then on each tick adds the same to progress and to taken.               *)
SecondsInv ==
  /\ pc \in {"seconds_start"} \cup SecondsBegun =>
       taken <= Tick /\ (~ticked => taken = 0)
  /\ pc \in SecondsBegun =>
       /\ ~ticked \/ wdtifg => Progress < FRACT_MAX
       /\ ~wdtifg => Progress < taken + SecTick + 2 * FRACT_MAX - 1
  /\ pc \in SecondsLoop =>
       /\ Progress + Pending(SecTick) < taken + SecTick + 2 * FRACT_MAX - 1
       /\ taken <= Progress + Tick + Pending(SecTick)
       /\ First("seconds_sleep") =>
            /\ ~ticked => taken = 0
            /\ wdtifg => taken <= SecTick
            /\ ~ticked \/ wdtifg => Progress < FRACT_MAX
  /\ pc = "seconds_sleep" => taken < Whole + Slack
  /\ pc \in {"seconds_test"} \cup SecondsEnd =>
       /\ taken < Whole + Slack + SecTick
       /\ ~ticked => taken < Whole + Slack
  /\ pc \in SecondsEnd /\ wokenAt < 0 =>
       /\ ticked /\ ~wdtifg
       /\ Whole + wdt_fract < taken + SecTick + FRACT_MAX - 1

(* The call: no time is taken yet.                                         *)
LEMMA CallsKeepSeconds ==
  ASSUME Placed, SleepsFit, Call PROVE SecondsInv'
<1>1. CASE DelayCall \/ SuspendCall
  BY <1>1, OutsideParts DEF SecondsInv, InSecondsPart, SecondsLoop
<1>2. CASE SleepSecondsCall \/ SleepCall
  <2>1. /\ pc' \in {"seconds_start", "sleep_millis"} /\ taken' = 0
    BY <1>2 DEF SleepSecondsCall, SleepCall, Step, Enter
  <2>2. Tick \in Nat
    BY Numbers
  <2> QED
    BY <2>1, <2>2 DEF SecondsInv, SecondsBegun, SecondsLoop, SecondsEnd
<1> QED
  BY <1>1, <1>2 DEF Call

(* The prologue: start is read, then the flags and increments are set.     *)
LEMMA SecondsBegins ==
  ASSUME Placed, SleepsFit, SecondsInv,
         SecondsStart \/ SecondsSleeping \/ SecondsStay \/ SecondsMillis
           \/ SecondsFract
  PROVE  SecondsInv'
<1>1. /\ pc \in {"seconds_start"} \cup SecondsBegun /\ pc' \in SecondsBegun
      /\ UNCHANGED << ticked, taken, wdtifg, clock >>
      /\ pc = "seconds_start" => start' = millis
      /\ pc \in SecondsBegun => start' = start
  BY DEF SecondsStart, SecondsSleeping, SecondsStay, SecondsMillis,
         SecondsFract, SecondsBegun, Step, history, locals
<1>2. pc' \notin SecondsLoop \cup SecondsEnd
                   \cup {"seconds_test", "seconds_sleep"}
  BY <1>1 DEF SecondsBegun, SecondsLoop, SecondsEnd
<1>3. CASE pc = "seconds_start"
  <2>1. Progress' = wdt_fract
    BY <1>1, <1>3, ProgressFromNow DEF Placed
  <2>2. Progress' < FRACT_MAX
        /\ Progress' < taken + SecTick + 2 * FRACT_MAX - 1
    BY <2>1, Numbers
  <2> QED
    BY <1>1, <1>2, <1>3, <2>2 DEF SecondsInv
<1>4. CASE pc \in SecondsBegun
  <2>1. Progress' = Progress
    BY <1>1, <1>4 DEF Progress, Since, millis, clock
  <2> QED
    BY <1>1, <1>2, <1>4, <2>1 DEF SecondsInv
<1> QED
  BY <1>1, <1>3, <1>4

(* The timer changes its source: the loop begins.                          *)
LEMMA SecondsSwitches ==
  ASSUME Placed, SleepsFit, SecondsInv, SecondsWdt PROVE SecondsInv'
<1>1. /\ pc \in SecondsBegun /\ pc' = "seconds_test"
      /\ UNCHANGED << arg, rest, asked, ticked, taken, wdtifg >>
      /\ Progress' = Progress
  BY DEF SecondsWdt, SecondsBegun, Step, history, locals, Progress, Since,
         millis, clock
<1>2. Whole' = Whole /\ Slack' = Slack
  BY <1>1, SameValues
<1>3. /\ pc' \in SecondsLoop /\ pc' \notin SecondsBegun \cup SecondsEnd
      /\ pc' # "seconds_start" /\ pc' # "seconds_sleep"
  BY <1>1 DEF SecondsBegun, SecondsLoop, SecondsEnd
<1>4. /\ ticked \in BOOLEAN /\ wdtifg \in BOOLEAN
      /\ taken <= Tick /\ (~ticked => taken = 0)
      /\ ~ticked \/ wdtifg => Progress < FRACT_MAX
      /\ ~wdtifg => Progress < taken + SecTick + 2 * FRACT_MAX - 1
  BY <1>1, Numbers DEF SecondsInv
<1>5. Slack \in Nat \ {0}
  BY Numbers DEF Slack
<1>6. /\ Progress + Pending(SecTick) < taken + SecTick + 2 * FRACT_MAX - 1
      /\ taken <= Progress + Tick + Pending(SecTick)
      /\ taken < Whole + Slack + SecTick
      /\ ~ticked => taken < Whole + Slack
      /\ wdtifg => taken <= SecTick
  BY <1>4, <1>5, Numbers DEF Pending
<1>7. Pending(SecTick)' = Pending(SecTick)
  BY <1>1 DEF Pending, SecTick
<1> QED
  BY <1>1, <1>2, <1>3, <1>4, <1>6, <1>7 DEF SecondsInv, First

(* The test: as long as it holds, less than the whole time is over; when   *)
(* it fails without a wakeup, more than that is, and no tick is pending.   *)
LEMMA SecondsTests ==
  ASSUME Placed, SleepsFit, SecondsInv, StayInv, ArgsInv, SecondsTest
  PROVE  SecondsInv'
<1>1. /\ pc = "seconds_test" /\ lpm = "active" /\ lpm' = "active"
      /\ pc' = IF SecondsGoOn THEN "seconds_sleep" ELSE "seconds_exit"
      /\ UNCHANGED << arg, rest, asked, ticked, taken, wdtifg, stay_asleep,
                      wdt_fract, wokenAt >>
      /\ Progress' = Progress
  BY DEF SecondsTest, Step, history, locals, cpu, Progress, Since, millis,
         clock
<1>2. Whole' = Whole /\ Slack' = Slack /\ Pending(SecTick)' = Pending(SecTick)
  BY <1>1, SameValues DEF Pending, SecTick
<1>3. /\ Progress + Pending(SecTick) < taken + SecTick + 2 * FRACT_MAX - 1
      /\ taken <= Progress + Tick + Pending(SecTick)
      /\ stay_asleep =>
           /\ ~ticked => taken = 0
           /\ wdtifg => taken <= SecTick
           /\ ~ticked \/ wdtifg => Progress < FRACT_MAX
      /\ taken < Whole + Slack + SecTick
      /\ ~ticked => taken < Whole + Slack
  BY <1>1 DEF SecondsInv, SecondsLoop, First
<1>4. (arg * MS_PER_S) % WORD = arg * MS_PER_S /\ arg * MS_PER_S \in Nat
  <2> DEFINE n == arg * MS_PER_S
  <2>1. /\ n \in Nat /\ WORD \in Nat \ {0} /\ FRACT_MAX \in Nat \ {0}
        /\ SecTick \in Nat
    <3>1. arg \in Nat /\ MS_PER_S \in Nat
      BY Numbers, ClockAssumption
    <3>2. n \in Nat
      BY ONLY <3>1
    <3> QED
      BY <3>2, Numbers, ClockAssumption
  <2>2. n * FRACT_MAX + 3 * SecTick + 2 * FRACT_MAX <= WORD * FRACT_MAX
    BY <1>1 DEF ArgsInv, InSecondsPart, SecondsLoop, Room
  <2> HIDE DEF n
  <2>3. n < WORD
    <3> SUFFICES ASSUME WORD <= n PROVE FALSE
      BY <2>1
    <3>1. /\ WORD * FRACT_MAX <= n * FRACT_MAX
          /\ WORD * FRACT_MAX \in Nat /\ n * FRACT_MAX \in Nat
      BY <2>1, Multiples
    <3> QED
      BY ONLY <2>1, <2>2, <3>1
  <2> QED
    BY <2>1, <2>3, n \in 0 .. WORD - 1, WordIs DEF n
<1>5. /\ Since(millis) <= arg * MS_PER_S => Progress < Whole + FRACT_MAX
      /\ Since(millis) > arg * MS_PER_S =>
           Progress >= Whole + FRACT_MAX + wdt_fract
      /\ Since(millis) \in Int /\ arg * MS_PER_S \in Int
  <2>1. Since(millis) \in Nat
    BY <1>4, ProgressUpTo, ClockAssumption DEF Placed
  <2> QED
    BY <1>4, <2>1, ProgressUpTo DEF Placed, Whole
<1>6. CASE SecondsGoOn
  <2>1. /\ pc' = "seconds_sleep" /\ stay_asleep
        /\ Progress < Whole + FRACT_MAX
    BY <1>1, <1>4, <1>5, <1>6 DEF SecondsGoOn
  <2>2. taken < Whole + Slack
    <3>1. CASE wdtifg
      <4>1. taken <= SecTick
        BY <1>3, <2>1, <3>1
      <4> QED
        BY <4>1, Numbers DEF Slack
    <3>2. CASE ~wdtifg
      <4>1. taken <= Progress + Tick
        BY <1>3, <3>2, Numbers DEF Pending
      <4>2. arg = 0 => Whole = 0
        <5>1. MS_PER_S \in Nat /\ FRACT_MAX \in Nat
          BY ClockAssumption
        <5>2. 0 * MS_PER_S * FRACT_MAX = 0
          BY ONLY <5>1
        <5> QED
          BY <5>2 DEF Whole
      <4> QED
        BY <2>1, <4>1, <4>2, Numbers DEF Slack
    <3> QED
      BY <3>1, <3>2
  <2> QED
    BY <1>1, <1>2, <1>3, <2>1, <2>2
       DEF SecondsInv, First, SecondsLoop, SecondsBegun, SecondsEnd
<1>7. CASE ~SecondsGoOn
  <2>1. pc' = "seconds_exit"
    BY <1>1, <1>7
  <2>2. ASSUME wokenAt < 0
        PROVE  /\ ticked /\ ~wdtifg
               /\ Whole + wdt_fract < taken + SecTick + FRACT_MAX - 1
    <3>1. stay_asleep
      BY <1>1, <2>2 DEF StayInv, SecondsLoop
    <3>2. Progress >= Whole + FRACT_MAX + wdt_fract
      BY <1>4, <1>5, <1>7, <3>1 DEF SecondsGoOn
    <3>3. ticked /\ ~wdtifg
      BY <1>3, <3>1, <3>2, Numbers
    <3> QED
      BY <1>3, <3>2, <3>3, Numbers DEF Pending
  <2> QED
    BY <1>1, <1>2, <1>3, <2>1, <2>2
       DEF SecondsInv, SecondsLoop, SecondsBegun, SecondsEnd
<1> QED
  BY <1>6, <1>7

(* The low-power mode: one more tick may come.                             *)
LEMMA SecondsSleeps ==
  ASSUME Placed, SleepsFit, SecondsInv, SecondsSleep PROVE SecondsInv'
<1>1. /\ pc = "seconds_sleep" /\ lpm' = "LPM3" /\ pc' = "seconds_test"
      /\ UNCHANGED << arg, rest, asked, taken, wdtifg >>
      /\ Progress' = Progress
  BY DEF SecondsSleep, LowPower, Step, locals, Progress, Since, millis, clock
<1>2. Whole' = Whole /\ Slack' = Slack /\ Pending(SecTick)' = Pending(SecTick)
  BY <1>1, SameValues DEF Pending, SecTick
<1>3. /\ Progress + Pending(SecTick) < taken + SecTick + 2 * FRACT_MAX - 1
      /\ taken <= Progress + Tick + Pending(SecTick)
      /\ taken < Whole + Slack
  BY <1>1 DEF SecondsInv, SecondsLoop
<1>4. Slack \in Nat
  BY Numbers DEF Slack
<1>5. taken < Whole + Slack + SecTick
  BY <1>3, <1>4, Numbers
<1> QED
  BY <1>1, <1>2, <1>3, <1>5
     DEF SecondsInv, First, SecondsLoop, SecondsBegun, SecondsEnd

(* The epilogue takes no time.                                             *)
LEMMA ExitKeepsSeconds ==
  ASSUME Placed, SleepsFit, SecondsInv, ExitSleeping \/ ExitStay
  PROVE  SecondsInv'
<1>1. /\ UNCHANGED << arg, rest, asked, taken, wdtifg, ticked, wdt_fract,
                      wokenAt >>
      /\ pc \in SecondsEnd \cup SleepEnd
      /\ pc' \in IF pc \in SecondsEnd THEN SecondsEnd ELSE SleepEnd
  BY DEF ExitSleeping, ExitStay, Step, SecondsEnd, SleepEnd, locals, history,
         clock
<1>2. Whole' = Whole /\ Slack' = Slack
  BY <1>1, SameValues
<1>3. CASE pc \in SecondsEnd
  BY <1>1, <1>2, <1>3 DEF SecondsInv, SecondsEnd, SecondsLoop, SecondsBegun
<1>4. CASE pc \in SleepEnd
  BY <1>1, <1>4 DEF SecondsInv, SecondsEnd, SleepEnd, SecondsLoop,
                    SecondsBegun
<1> QED
  BY <1>1, <1>3, <1>4

(* The length of a tick, place by place.                                   *)
LEMMA SecondsPartPlace ==
  ASSUME Placed
  PROVE  /\ pc \in {"seconds_start"} \cup SecondsBegun =>
              wdt = "smclk" /\ TickTime = Tick
         /\ pc \in SecondsLoop \cup SecondsEnd =>
              wdt = "seconds" /\ TickTime = SecTick
         /\ pc \in {"sleep_millis", "sleep_fract", "sleep_wdt"} =>
              wdt = "smclk" /\ TickTime = Tick
         /\ pc \in {"sleep_sleeping", "sleep_stay", "sleep_start"}
                  \cup SleepLoop \cup SleepEnd =>
              wdt = "sleep" /\ TickTime = SlpTick
<1>1. CASE pc \in {"seconds_start"} \cup SecondsBegun
  <2>1. wdt = "smclk"
    BY <1>1 DEF Placed, PlaceInv, Source, OnSmclk, SecondsBegun
  <2> QED
    BY <1>1, <2>1 DEF TickTime, Tick, SecondsBegun, SecondsLoop, SecondsEnd,
                      SleepLoop, SleepEnd
<1>2. CASE pc \in SecondsLoop \cup SecondsEnd
  <2>1. wdt = "seconds"
    BY <1>2 DEF Placed, PlaceInv, Source, OnSmclk, OnSeconds, SecondsLoop,
                SecondsEnd
  <2>2. TickTime = SecTick
    BY <2>1 DEF TickTime, SecTick
  <2> QED
    BY <1>2, <2>1, <2>2 DEF SecondsBegun, SecondsLoop, SecondsEnd, SleepLoop,
                            SleepEnd
<1>3. CASE pc \in {"sleep_millis", "sleep_fract", "sleep_wdt"}
  <2>1. wdt = "smclk"
    BY <1>3 DEF Placed, PlaceInv, Source, OnSmclk
  <2> QED
    BY <1>3, <2>1 DEF TickTime, Tick, SecondsBegun, SecondsLoop, SecondsEnd,
                      SleepLoop, SleepEnd
<1>4. CASE pc \in {"sleep_sleeping", "sleep_stay", "sleep_start"}
                    \cup SleepLoop \cup SleepEnd
  <2>1. wdt = "sleep"
    BY <1>4 DEF Placed, PlaceInv, Source, OnSmclk, OnSeconds, OnSleep,
                SleepLoop, SleepEnd
  <2>2. TickTime = SlpTick
    BY <2>1 DEF TickTime, SlpTick
  <2> QED
    BY <1>4, <2>1, <2>2 DEF SecondsBegun, SecondsLoop, SecondsEnd, SleepLoop,
                            SleepEnd
<1> QED
  BY <1>1, <1>2, <1>3, <1>4

(* Before a tick neither another one nor its interrupt is left: the timer  *)
(* expires once per pass, and the cap of taken is out of reach.            *)
LEMMA ExpireOnce ==
  ASSUME Placed, SleepsFit, Expire,
         pc \in InSecondsPart \cup InSleepPart,
         taken <= asked + 3 * SecTick
  PROVE  /\ ~ticked /\ ~wdtifg /\ ticked' = TRUE /\ wdtifg' = TRUE
         /\ taken' = taken + TickTime
         /\ UNCHANGED << pc, lpm, stay_asleep, asked, arg, rest, wokenAt,
                         wdt_fract >>
         /\ Progress' = Progress
<1>1. pc # "idle"
  BY DEF InSecondsPart, SecondsBegun, SecondsLoop, SecondsEnd, InSleepPart,
         SleepBegun, SleepLoop, SleepEnd
<1>2. /\ UNCHANGED << pc, lpm, stay_asleep, asked, arg, rest, wokenAt,
                      wdt_fract >>
      /\ Progress' = Progress
      /\ ticked' = TRUE /\ wdtifg' = TRUE
      /\ taken' = IF taken + TickTime > Cap THEN taken ELSE taken + TickTime
  BY <1>1 DEF Expire, cpu, clock, locals, call, Progress, Since, millis
<1>3. ~wdtifg /\ ~ticked
  BY <1>1 DEF Expire, Placed, PlaceInv
<1>4. TickTime <= SecTick /\ TickTime \in Nat
  <2>1. TickTime \in {Tick, SecTick, SlpTick}
    BY SecondsPartPlace DEF InSecondsPart, InSleepPart, SleepBegun
  <2> QED
    BY <2>1, Numbers
<1>5. Cap \in Nat /\ Cap >= asked + 4 * SecTick
  BY LongestTickIs, Numbers DEF Cap, SecTick
<1>6. ~(taken + TickTime > Cap)
  BY <1>4, <1>5, Numbers
<1> QED
  BY <1>2, <1>3, <1>6

(* A bound on the time taken, for the cap.                                 *)
LEMMA SecondsTaken ==
  ASSUME Placed, SleepsFit, ArgsInv, SecondsInv, pc \in InSecondsPart
  PROVE  taken <= asked + 2 * SecTick /\ Slack \in Nat \ {0}
<1>1. Slack \in Nat /\ Slack >= 1 /\ Slack <= SecTick + 1
  BY Numbers DEF Slack
<1>2. Whole <= asked
  BY Numbers DEF ArgsInv
<1>3. CASE pc \in {"seconds_start"} \cup SecondsBegun
  BY <1>1, <1>2, <1>3, Numbers DEF SecondsInv
<1>4. CASE pc = "seconds_sleep"
  BY <1>1, <1>2, <1>4, Numbers DEF SecondsInv
<1>5. CASE pc \in {"seconds_test"} \cup SecondsEnd
  BY <1>1, <1>2, <1>5, Numbers DEF SecondsInv
<1> QED
  BY <1>1, <1>3, <1>4, <1>5 DEF InSecondsPart, SecondsLoop

(* The timer expires in sleepSeconds: in the loop what is pending and what *)
(* was taken grow alike.                                                   *)
LEMMA ExpireKeepsSeconds ==
  ASSUME Placed, SleepsFit, ArgsInv, SecondsInv, Expire PROVE SecondsInv'
<1>1. pc' = pc
  BY DEF Expire
<1> SUFFICES ASSUME pc \in InSecondsPart PROVE SecondsInv'
  BY <1>1 DEF SecondsInv, InSecondsPart, SecondsLoop
<1>2. taken <= asked + 3 * SecTick /\ Slack \in Nat \ {0}
  BY SecondsTaken, Numbers
<1>3. /\ ~ticked /\ ~wdtifg /\ ticked' = TRUE /\ wdtifg' = TRUE
      /\ taken' = taken + TickTime
      /\ UNCHANGED << pc, lpm, stay_asleep, asked, arg, rest, wokenAt,
                      wdt_fract >>
      /\ Progress' = Progress
  BY <1>2, ExpireOnce
<1>4. Whole' = Whole /\ Slack' = Slack
  BY <1>3, SameValues
<1>5. CASE pc \in {"seconds_start"} \cup SecondsBegun
  <2>1. TickTime = Tick
    BY <1>5, SecondsPartPlace
  <2>2. taken' <= Tick /\ (pc \in SecondsBegun => Progress < FRACT_MAX)
    BY <1>3, <1>5, <2>1, Numbers DEF SecondsInv
  <2> QED
    BY <1>3, <1>5, <2>2 DEF SecondsInv, SecondsBegun, SecondsLoop, SecondsEnd
<1>6. CASE pc \in SecondsLoop
  <2>1. taken' = taken + SecTick
    BY <1>3, <1>6, SecondsPartPlace
  <2>2. Pending(SecTick) = 0 /\ Pending(SecTick)' = SecTick
    BY <1>3 DEF Pending, SecTick
  <2>3. /\ Progress < taken + SecTick + 2 * FRACT_MAX - 1
        /\ taken <= Progress + Tick
    BY <1>6, <2>2, Numbers DEF SecondsInv
  <2>4. First("seconds_sleep") => taken = 0 /\ Progress < FRACT_MAX
    BY <1>3, <1>6 DEF SecondsInv
  <2>5. First("seconds_sleep")' <=> First("seconds_sleep")
    BY <1>3 DEF First
  <2>6. pc = "seconds_sleep" => taken' < Whole + Slack
    <3>1. SUFFICES ASSUME pc = "seconds_sleep" PROVE taken' < Whole + Slack
      OBVIOUS
    <3>2. First("seconds_sleep")
      BY <3>1 DEF First, Placed, PlaceInv
    <3>3. taken' = SecTick
      BY <2>1, <2>4, <3>2, Numbers
    <3> QED
      BY <3>3, Numbers DEF Slack
  <2>7. pc = "seconds_test" => taken' < Whole + Slack + SecTick
    BY <1>2, <1>3, <2>1, Numbers DEF SecondsInv
  <2>8. pc \notin {"seconds_start"} \cup SecondsBegun \cup SecondsEnd
    BY <1>6 DEF SecondsBegun, SecondsLoop, SecondsEnd
  <2>9. /\ Progress' + SecTick < taken' + SecTick + 2 * FRACT_MAX - 1
        /\ taken' <= Progress' + Tick + SecTick
        /\ First("seconds_sleep") => taken' <= SecTick
    BY <1>3, <2>1, <2>3, <2>4, Numbers
  <2> QED
    BY <1>3, <1>4, <2>2, <2>4, <2>5, <2>6, <2>7, <2>8, <2>9
       DEF SecondsInv
<1>7. CASE pc \in SecondsEnd
  <2>1. taken' = taken + SecTick
    BY <1>3, <1>7, SecondsPartPlace
  <2>2. taken' < Whole + Slack + SecTick
    BY <1>2, <1>3, <1>7, <2>1, Numbers DEF SecondsInv
  <2>3. ~(wokenAt < 0)
    BY <1>3, <1>7 DEF SecondsInv
  <2> QED
    BY <1>3, <1>4, <1>7, <2>2, <2>3
       DEF SecondsInv, SecondsBegun, SecondsLoop, SecondsEnd
<1> QED
  BY <1>5, <1>6, <1>7 DEF InSecondsPart

(* The handler in sleepSeconds: in the prologue it may credit too much or  *)
(* nothing, in the loop what the tick was worth.                           *)
LEMMA TickKeepsSeconds ==
  ASSUME Placed, SleepsFit, CreditInv, ArgsInv, SecondsInv, WatchdogIsr
  PROVE  SecondsInv'
<1>1. /\ wdtifg /\ wdtifg' = FALSE /\ lpm' = "active"
      /\ UNCHANGED << pc, stay_asleep, asked, arg, rest, wokenAt, taken,
                      ticked >>
  BY DEF WatchdogIsr, locals
<1> SUFFICES ASSUME pc \in InSecondsPart PROVE SecondsInv'
  BY <1>1 DEF SecondsInv, InSecondsPart, SecondsLoop
<1>2. ticked
  BY <1>1 DEF Placed, PlaceInv, InSecondsPart, SecondsBegun, SecondsLoop,
              SecondsEnd
<1>3. Whole' = Whole /\ Slack' = Slack
  BY <1>1, SameValues
<1>4. Slack \in Nat /\ Slack >= 1 /\ Slack <= SecTick + 1
  BY Numbers DEF Slack
<1>5. /\ Whole + 3 * SecTick + 2 * FRACT_MAX <= WORD * FRACT_MAX
      /\ WORD * FRACT_MAX \in Nat
  BY RoomIs, ClockAssumption DEF ArgsInv
<1> DEFINE c == Time(TickCredit)
<1>6. /\ c \in Nat /\ c < SecTick + FRACT_MAX
      /\ pc \in SecondsLoop => c = SecTick
  BY CreditIs DEF Placed
<1>7. Progress + c < WORD * FRACT_MAX => Progress' = Progress + c
  BY ProgressTick DEF Placed
<1> HIDE DEF c
<1>8. CASE pc = "seconds_start"
  BY <1>1, <1>2, <1>8 DEF SecondsInv, SecondsBegun, SecondsLoop, SecondsEnd
<1>9. CASE pc \in SecondsBegun
  <2>1. Progress < FRACT_MAX
    BY <1>1, <1>9 DEF SecondsInv
  <2>2. Progress' = Progress + c
    BY <1>5, <1>6, <1>7, <2>1, Numbers
  <2>3. Progress' < taken + SecTick + 2 * FRACT_MAX - 1
    BY <1>6, <2>1, <2>2, Numbers
  <2> QED
    BY <1>1, <1>2, <1>9, <2>3
       DEF SecondsInv, SecondsBegun, SecondsLoop, SecondsEnd
<1>10. CASE pc \in SecondsLoop
  <2>1. Pending(SecTick) = SecTick /\ Pending(SecTick)' = 0
    BY <1>1 DEF Pending
  <2>2. /\ Progress + SecTick < taken + SecTick + 2 * FRACT_MAX - 1
        /\ taken <= Progress + Tick + SecTick
    BY <1>10, <2>1 DEF SecondsInv
  <2>3. taken < Whole + Slack + SecTick
    BY <1>4, <1>10, Numbers DEF SecondsInv, SecondsLoop
  <2>4. Progress' = Progress + SecTick
    BY <1>4, <1>5, <1>6, <1>7, <1>10, <2>2, <2>3, Numbers
  <2>5. pc \notin {"seconds_start"} \cup SecondsBegun \cup SecondsEnd
    BY <1>10 DEF SecondsBegun, SecondsLoop, SecondsEnd
  <2>6. /\ Progress' + 0 < taken' + SecTick + 2 * FRACT_MAX - 1
        /\ taken' <= Progress' + Tick + 0
    BY <1>1, <2>2, <2>4, Numbers
  <2> QED
    BY <1>1, <1>2, <1>3, <2>1, <2>5, <2>6 DEF SecondsInv
<1>11. CASE pc \in SecondsEnd
  BY <1>1, <1>2, <1>3, <1>11
     DEF SecondsInv, SecondsBegun, SecondsLoop, SecondsEnd
<1> QED
  BY <1>8, <1>9, <1>10, <1>11 DEF InSecondsPart

(* A wakeup changes no time.                                               *)
LEMMA WakeupKeepsSeconds ==
  ASSUME Placed, SleepsFit, SecondsInv, WakeupIsr PROVE SecondsInv'
<1>1. /\ UNCHANGED << pc, asked, arg, rest, taken, ticked, wdtifg, wdt_fract >>
      /\ Progress' = Progress
      /\ ~stay_asleep'
      /\ \/ stay_asleep /\ wokenAt' = taken
         \/ ~stay_asleep /\ UNCHANGED << lpm, wokenAt >>
  BY DEF WakeupIsr, locals, clock, Progress, Since, millis, Placed, TypeOK
<1>2. Whole' = Whole /\ Slack' = Slack /\ Pending(SecTick)' = Pending(SecTick)
  BY <1>1, SameValues DEF Pending, SecTick
<1>3. wokenAt' < 0 => wokenAt < 0
  BY <1>1, Numbers
<1>4. pc \in SecondsLoop /\ First("seconds_sleep")' => First("seconds_sleep")
  BY <1>1 DEF First, SecondsLoop, Placed, PlaceInv
<1> QED
  BY <1>1, <1>2, <1>3, <1>4 DEF SecondsInv

(* Every step keeps the bounds of sleepSeconds.                            *)
LEMMA NextKeepsSeconds ==
  ASSUME Placed, SleepsFit, CreditInv, StayInv, ArgsInv, SecondsInv,
         [Next]_vars
  PROVE  SecondsInv'
<1>1. CASE Call
  BY <1>1, CallsKeepSeconds
<1>2. CASE InSeconds
  BY <1>2, SecondsBegins, SecondsSwitches, SecondsTests, SecondsSleeps
     DEF InSeconds
<1>3. CASE Expire \/ WatchdogIsr \/ WakeupIsr
  BY <1>3, ExpireKeepsSeconds, TickKeepsSeconds, WakeupKeepsSeconds
<1>4. CASE ExitSleeping \/ ExitStay
  BY <1>4, ExitKeepsSeconds
<1>5. CASE pc' \notin InSecondsPart
  BY <1>5 DEF SecondsInv, InSecondsPart, SecondsLoop
<1>6. CASE InSleep
  <2>1. pc' \notin InSecondsPart
    BY <1>6 DEF InSleep, SleepMillis, SleepFract, SleepWdt, SleepSleeping,
                SleepStay, SleepStart, SleepTest, SleepSleep, Step,
                InSecondsPart, SecondsBegun, SecondsLoop, SecondsEnd
  <2> QED
    BY <1>5, <2>1
<1>7. CASE ExitWdt
  <2>1. NextPart => pc' \notin InSecondsPart
    BY DEF NextPart, Step, InSecondsPart, SecondsBegun, SecondsLoop,
           SecondsEnd
  <2> QED
    BY <1>5, <1>7, <2>1, OutsideParts DEF ExitWdt
<1>8. CASE Delay \/ InSuspend \/ NoInterrupts \/ Interrupts
  BY <1>5, <1>8, OutsideParts
<1>9. CASE UNCHANGED vars
  BY <1>9 DEF vars, clock, cpu, locals, history, SecondsInv, Progress, Since,
              millis, Whole, Slack, Pending, First
<1> QED
  BY <1>1, <1>2, <1>3, <1>4, <1>6, <1>7, <1>8, <1>9 DEF Next, Running, Exit

-----------------------------------------------------------------------------
(* The rest of sleep, place by place.  What its first part was late or     *)
(* early is in taken - Base when it begins; a first tick may come before   *)
(* start is read only if the first part had none.                          *)
SleepInv ==
  /\ pc \in SleepBegun =>
       /\ taken < Base + Lead
       /\ ~ticked => taken <= Base
       /\ wdtifg => taken <= Base + SecTick
       /\ \/ Base <= taken
          \/ /\ ticked /\ ~wdtifg
             /\ Base + wdt_fract < taken + SecTick + FRACT_MAX
  /\ pc \in SleepLoop =>
       /\ Base + Progress + Pending(SlpTick) < taken + SecTick + FRACT_MAX
       /\ taken < Base + Progress + Lead + Pending(SlpTick)
       /\ First("sleep_sleep") =>
            /\ ~ticked => taken <= Base
            /\ wdtifg => taken <= Base + SecTick
  /\ pc = "sleep_sleep" => taken < asked + Lead
  /\ pc \in {"sleep_test"} \cup SleepEnd =>
       /\ taken < asked + Lead + SlpTick
       /\ ~ticked => taken < asked + Lead
  /\ pc \in SleepEnd /\ wokenAt < 0 => asked < taken + SecTick + FRACT_MAX

(* sleep begins with its rest when it was asked for less than a second...  *)
LEMMA CallsKeepSleep ==
  ASSUME Placed, SleepsFit, Call PROVE SleepInv'
<1>1. CASE DelayCall \/ SuspendCall
  BY <1>1, OutsideParts DEF SleepInv, InSleepPart, SleepLoop
<1>2. CASE pc' = "seconds_start"
  BY <1>2 DEF SleepInv, SleepBegun, SleepLoop, SleepEnd
<1>3. CASE SleepCall /\ pc' # "seconds_start"
  <2>1. PICK ms \in Sleeps :
          /\ pc' = "sleep_millis" /\ arg' = ms /\ asked' = ms * FRACT_MAX
          /\ taken' = 0 /\ ticked' = wdtifg /\ wdtifg' = wdtifg
    BY <1>3 DEF SleepCall, Enter, Step
  <2>2. ms * FRACT_MAX \in Nat
    <3>1. ms \in Nat /\ FRACT_MAX \in Nat
      BY ClockAssumption
    <3> QED
      BY ONLY <3>1
  <2>3. Base' = 0
    BY <2>1, <2>2 DEF Base, Part
  <2>4. Lead \in Nat \ {0} /\ SecTick \in Nat
    BY Numbers DEF Lead
  <2>5. Lead' = Lead
    BY DEF Lead, Tick, SecTick
  <2>6. /\ taken' < Base' + Lead /\ taken' <= Base' + SecTick
        /\ Base' <= taken' /\ taken' <= Base'
    BY <2>1, <2>3, <2>4
  <2>7. pc' \notin SleepLoop \cup SleepEnd \cup {"sleep_test", "sleep_sleep"}
    BY <2>1 DEF SleepLoop, SleepEnd
  <2> QED
    BY <2>5, <2>6, <2>7 DEF SleepInv, SecTick
<1> QED
  BY <1>1, <1>2, <1>3 DEF Call, SleepSecondsCall, Step

(* ... and goes on with it when sleepSeconds is over, or was aborted: then *)
(* what was taken so far is not counted against it.                        *)
LEMMA NextPartKeepsSleep ==
  ASSUME Placed, SleepsFit, ArgsInv, SecondsInv, NextPart,
         wdtifg' = wdtifg, wdt_fract' = wdt_fract
  PROVE  SleepInv'
<1>1. /\ pc = "seconds_unwdt" /\ pc' = "sleep_millis" /\ rest # 0
      /\ arg' = rest /\ taken' = taken /\ ticked' = ticked
      /\ asked' = IF wokenAt >= 0 THEN taken + Rest ELSE asked
  BY DEF NextPart, Step, Rest
<1>2. Part' = Rest
  BY <1>1 DEF Part, Rest
<1>3. /\ asked = Whole + Rest /\ arg > 0
      /\ taken < Whole + Slack + SecTick
      /\ wokenAt < 0 => /\ ticked /\ ~wdtifg
                        /\ Whole + wdt_fract < taken + SecTick + FRACT_MAX - 1
  BY <1>1 DEF ArgsInv, SecondsInv, InSecondsPart, SecondsEnd
<1>4. Base' = asked' - Rest
  BY <1>2 DEF Base
<1>5. wokenAt \in Int /\ Lead \in Nat \ {0} /\ Slack = FRACT_MAX + Tick
  BY <1>3, Numbers DEF Lead, Slack, Placed, HistoryOK
<1>6. Lead = FRACT_MAX + Tick + SecTick /\ Lead' = Lead
  BY DEF Lead, Tick, SecTick
<1>7. pc' \in SleepBegun /\ pc' \notin SleepLoop \cup SleepEnd
      /\ pc' \notin {"sleep_test", "sleep_sleep"}
  BY <1>1 DEF SleepBegun, SleepLoop, SleepEnd
<1>8. CASE wokenAt >= 0
  <2>1. Base' = taken
    BY <1>1, <1>4, <1>8, Numbers
  <2>2. /\ taken' < Base' + Lead /\ taken' <= Base' + SecTick
        /\ Base' <= taken' /\ taken' <= Base'
    BY <1>1, <1>5, <2>1, Numbers
  <2> QED
    BY <1>6, <1>7, <2>2 DEF SleepInv, SecTick
<1>9. CASE wokenAt < 0
  <2>1. Base' = Whole
    BY <1>1, <1>3, <1>4, <1>5, <1>9, Numbers
  <2>2. ticked' /\ ~wdtifg'
    BY <1>1, <1>3, <1>9
  <2>3. /\ taken' < Base' + Lead
        /\ Base' + wdt_fract' < taken' + SecTick + FRACT_MAX
    BY <1>1, <1>3, <1>5, <1>6, <1>9, <2>1, Numbers
  <2> QED
    BY <1>6, <1>7, <2>2, <2>3 DEF SleepInv, SecTick
<1> QED
  BY <1>5, <1>8, <1>9

(* What the steps of the second part leave alone.                          *)
LEMMA SameSleep ==
  ASSUME UNCHANGED << arg, rest, asked, wdtifg >>
  PROVE  /\ Part' = Part /\ Base' = Base /\ Lead' = Lead
         /\ Pending(SlpTick)' = Pending(SlpTick)
         /\ SecTick' = SecTick /\ SlpTick' = SlpTick
  BY DEF Part, Base, Lead, Pending, SecTick, SlpTick, Tick

(* The prologue of the second part.                                        *)
LEMMA SleepBegins ==
  ASSUME Placed, SleepsFit, SleepInv,
         SleepMillis \/ SleepFract \/ SleepWdt \/ SleepSleeping \/ SleepStay
  PROVE  SleepInv'
<1>1. /\ pc \in SleepBegun /\ pc' \in SleepBegun
      /\ UNCHANGED << arg, rest, asked, wdtifg, ticked, taken, wdt_fract >>
  BY DEF SleepMillis, SleepFract, SleepWdt, SleepSleeping, SleepStay, Step,
         SleepBegun, history, locals, clock
<1>2. pc' \notin SleepLoop \cup SleepEnd \cup {"sleep_test", "sleep_sleep"}
  BY <1>1 DEF SleepBegun, SleepLoop, SleepEnd
<1> QED
  BY <1>1, <1>2, SameSleep DEF SleepInv

(* start is read last: what went wrong before is forgotten.                *)
LEMMA SleepStarts ==
  ASSUME Placed, SleepsFit, ArgsInv, SleepInv, SleepStart PROVE SleepInv'
<1>1. /\ pc = "sleep_start" /\ pc' = "sleep_test"
      /\ UNCHANGED << arg, rest, asked, wdtifg, ticked, taken >>
      /\ Progress' = wdt_fract
  BY ProgressFromNow
     DEF SleepStart, Step, history, locals, Placed
<1>2. /\ pc' \in SleepLoop /\ pc' \notin SleepBegun \cup SleepEnd
      /\ pc' # "sleep_sleep"
  BY <1>1 DEF SleepLoop, SleepBegun, SleepEnd
<1>3. /\ taken < Base + Lead
      /\ ~ticked => taken <= Base
      /\ wdtifg => taken <= Base + SecTick
      /\ \/ Base <= taken
         \/ /\ ticked /\ ~wdtifg
            /\ Base + wdt_fract < taken + SecTick + FRACT_MAX
  BY <1>1 DEF SleepInv, SleepBegun
<1>4. Lead \in Nat \ {0} /\ Part > 0
  BY <1>1, Numbers DEF Lead, ArgsInv, InSleepPart, SleepBegun
<1>5. Base + wdt_fract + Pending(SlpTick) < taken + SecTick + FRACT_MAX
  BY <1>3, Numbers DEF Pending
<1>6. taken < Base + wdt_fract + Lead + Pending(SlpTick)
  BY <1>3, <1>4, Numbers DEF Pending
<1>7. /\ taken < asked + Lead + SlpTick
      /\ ~ticked => taken < asked + Lead
  BY <1>3, <1>4, Numbers
<1> QED
  BY <1>1, <1>2, <1>3, <1>5, <1>6, <1>7, SameSleep DEF SleepInv

(* The test: as long as it holds, less than the part is over; when it      *)
(* fails without a wakeup, all of it is.                                   *)
LEMMA SleepTests ==
  ASSUME Placed, SleepsFit, StayInv, ArgsInv, SleepInv, SleepTest
  PROVE  SleepInv'
<1>1. /\ pc = "sleep_test" /\ lpm = "active" /\ lpm' = "active"
      /\ pc' = IF SleepGoOn THEN "sleep_sleep" ELSE "sleep_exit"
      /\ UNCHANGED << arg, rest, asked, ticked, taken, wdtifg, stay_asleep,
                      wokenAt >>
      /\ Progress' = Progress
  BY DEF SleepTest, Step, history, locals, cpu, Progress, Since, millis,
         clock
<1>2. /\ Base + Progress + Pending(SlpTick) < taken + SecTick + FRACT_MAX
      /\ taken < Base + Progress + Lead + Pending(SlpTick)
      /\ stay_asleep =>
           /\ ~ticked => taken <= Base
           /\ wdtifg => taken <= Base + SecTick
      /\ taken < asked + Lead + SlpTick
      /\ ~ticked => taken < asked + Lead
  BY <1>1 DEF SleepInv, SleepLoop, First
<1>3. Lead = FRACT_MAX + Tick + SecTick /\ Pending(SlpTick) \in Nat
  BY Numbers DEF Lead, Pending
<1>4. /\ Since(millis) < arg => Progress < Part
      /\ Since(millis) >= arg => Progress >= Part + wdt_fract
      /\ Since(millis) \in Int /\ arg \in Nat
  <2>1. Since(millis) \in Nat
    BY Numbers, ProgressUpTo, ClockAssumption DEF Placed
  <2> QED
    BY <2>1, Numbers, ProgressUpTo DEF Placed, Part
<1>5. CASE SleepGoOn
  <2>1. pc' = "sleep_sleep" /\ stay_asleep /\ Progress < Part
    BY <1>1, <1>4, <1>5 DEF SleepGoOn
  <2>2. taken < asked + Lead
    <3>1. CASE wdtifg
      BY <1>2, <1>3, <2>1, <3>1, Numbers
    <3>2. CASE ~wdtifg
      BY <1>2, <1>3, <2>1, <3>2, Numbers DEF Pending
    <3> QED
      BY <3>1, <3>2
  <2> QED
    BY <1>1, <1>2, <2>1, <2>2, SameSleep
       DEF SleepInv, First, SleepLoop, SleepBegun, SleepEnd
<1>6. CASE ~SleepGoOn
  <2>1. pc' = "sleep_exit"
    BY <1>1, <1>6
  <2>2. ASSUME wokenAt < 0 PROVE asked < taken + SecTick + FRACT_MAX
    <3>1. stay_asleep
      BY <1>1, <2>2 DEF StayInv, SleepLoop
    <3>2. Progress >= Part + wdt_fract
      BY <1>4, <1>6, <3>1 DEF SleepGoOn
    <3> QED
      BY <1>2, <1>3, <3>2, Numbers
  <2> QED
    BY <1>1, <1>2, <2>1, <2>2, SameSleep
       DEF SleepInv, SleepLoop, SleepBegun, SleepEnd
<1> QED
  BY <1>5, <1>6

(* The low-power mode: one more tick may come.                             *)
LEMMA SleepSleeps ==
  ASSUME Placed, SleepsFit, SleepInv, SleepSleep PROVE SleepInv'
<1>1. /\ pc = "sleep_sleep" /\ lpm' = "LPM3" /\ pc' = "sleep_test"
      /\ UNCHANGED << arg, rest, asked, taken, wdtifg >>
      /\ Progress' = Progress
  BY DEF SleepSleep, LowPower, Step, locals, Progress, Since, millis, clock
<1>2. /\ Base + Progress + Pending(SlpTick) < taken + SecTick + FRACT_MAX
      /\ taken < Base + Progress + Lead + Pending(SlpTick)
      /\ taken < asked + Lead
  BY <1>1 DEF SleepInv, SleepLoop
<1>3. taken < asked + Lead + SlpTick
  <2>1. Lead \in Nat
    BY Numbers DEF Lead
  <2> QED
    BY <1>2, <2>1, Numbers
<1> QED
  BY <1>1, <1>2, <1>3, SameSleep
     DEF SleepInv, First, SleepLoop, SleepBegun, SleepEnd

(* The epilogue takes no time.                                             *)
LEMMA ExitKeepsSleep ==
  ASSUME Placed, SleepInv, ExitSleeping \/ ExitStay PROVE SleepInv'
<1>1. /\ UNCHANGED << arg, rest, asked, taken, wdtifg, ticked, wokenAt >>
      /\ pc \in SecondsEnd \cup SleepEnd
      /\ pc' \in IF pc \in SleepEnd THEN SleepEnd ELSE SecondsEnd
  BY DEF ExitSleeping, ExitStay, Step, SecondsEnd, SleepEnd, locals, history
<1>2. CASE pc \in SleepEnd
  BY <1>1, <1>2, SameSleep DEF SleepInv, SleepEnd, SleepLoop, SleepBegun
<1>3. CASE pc \notin SleepEnd
  BY <1>1, <1>3 DEF SleepInv, SecondsEnd, SleepEnd, SleepLoop, SleepBegun
<1> QED
  BY <1>2, <1>3

(* A bound on the time taken, for the cap.                                 *)
LEMMA SleepTaken ==
  ASSUME Placed, SleepsFit, ArgsInv, SleepInv, pc \in InSleepPart
  PROVE  taken <= asked + 2 * SecTick /\ Part > 0
<1>1. Part > 0 /\ Lead = FRACT_MAX + Tick + SecTick
  BY Numbers DEF ArgsInv, Lead
<1>2. CASE pc \in SleepBegun
  BY <1>1, <1>2, Numbers DEF SleepInv
<1>3. CASE pc = "sleep_sleep"
  BY <1>1, <1>3, Numbers DEF SleepInv
<1>4. CASE pc \in {"sleep_test"} \cup SleepEnd
  BY <1>1, <1>4, Numbers DEF SleepInv
<1> QED
  BY <1>1, <1>2, <1>3, <1>4 DEF InSleepPart, SleepLoop

(* The timer expires in the second part.                                   *)
LEMMA ExpireKeepsSleep ==
  ASSUME Placed, SleepsFit, ArgsInv, SleepInv, Expire PROVE SleepInv'
<1>1. pc' = pc
  BY DEF Expire
<1> SUFFICES ASSUME pc \in InSleepPart PROVE SleepInv'
  BY <1>1 DEF SleepInv, InSleepPart, SleepLoop
<1>2. taken <= asked + 3 * SecTick /\ Part > 0
  BY SleepTaken, Numbers
<1>3. /\ ~ticked /\ ~wdtifg /\ ticked' = TRUE /\ wdtifg' = TRUE
      /\ taken' = taken + TickTime
      /\ UNCHANGED << pc, lpm, stay_asleep, asked, arg, rest, wokenAt,
                      wdt_fract >>
      /\ Progress' = Progress
  BY <1>2, ExpireOnce
<1>4. Part' = Part /\ Base' = Base /\ Lead' = Lead
      /\ SecTick' = SecTick /\ SlpTick' = SlpTick
  BY <1>3 DEF Part, Base, Lead, SecTick, SlpTick, Tick
<1>5. Lead = FRACT_MAX + Tick + SecTick
  BY DEF Lead
<1>6. CASE pc \in SleepBegun
  <2>1. TickTime \in {Tick, SlpTick}
    BY <1>6, SecondsPartPlace DEF SleepBegun
  <2>2. taken <= Base /\ Base <= taken
    BY <1>3, <1>6 DEF SleepInv
  <2>3. /\ taken' < Base + Lead /\ taken' <= Base + SecTick
        /\ Base <= taken'
    BY <1>3, <1>5, <2>1, <2>2, Numbers
  <2>4. pc \notin SleepLoop \cup SleepEnd \cup {"sleep_test", "sleep_sleep"}
    BY <1>6 DEF SleepBegun, SleepLoop, SleepEnd
  <2> QED
    BY <1>3, <1>4, <2>3, <2>4 DEF SleepInv
<1>7. CASE pc \in SleepLoop
  <2>1. taken' = taken + SlpTick
    BY <1>3, <1>7, SecondsPartPlace
  <2>2. Pending(SlpTick) = 0 /\ Pending(SlpTick)' = SlpTick
    BY <1>3, <1>4 DEF Pending
  <2>3. /\ Base + Progress < taken + SecTick + FRACT_MAX
        /\ taken < Base + Progress + Lead
    BY <1>5, <1>7, <2>2, Numbers DEF SleepInv
  <2>4. First("sleep_sleep") => taken <= Base
    BY <1>3, <1>7 DEF SleepInv
  <2>5. First("sleep_sleep")' <=> First("sleep_sleep")
    BY <1>3 DEF First
  <2>6. pc = "sleep_sleep" => taken' < asked + Lead
    <3>1. SUFFICES ASSUME pc = "sleep_sleep" PROVE taken' < asked + Lead
      OBVIOUS
    <3>2. First("sleep_sleep")
      BY <3>1 DEF First, Placed, PlaceInv
    <3> QED
      BY <1>2, <1>5, <2>1, <2>4, <3>2, Numbers
  <2>7. pc = "sleep_test" => taken' < asked + Lead + SlpTick
    BY <1>3, <1>5, <2>1, Numbers DEF SleepInv
  <2>8. pc \notin SleepBegun \cup SleepEnd
    BY <1>7 DEF SleepBegun, SleepLoop, SleepEnd
  <2>9. /\ Base + Progress' + SlpTick < taken' + SecTick + FRACT_MAX
        /\ taken' < Base + Progress' + Lead + SlpTick
        /\ First("sleep_sleep") => taken' <= Base + SecTick
    BY <1>3, <1>5, <2>1, <2>3, <2>4, Numbers
  <2> QED
    BY <1>3, <1>4, <2>2, <2>5, <2>6, <2>7, <2>8, <2>9 DEF SleepInv
<1>8. CASE pc \in SleepEnd
  <2>1. taken' = taken + SlpTick
    BY <1>3, <1>8, SecondsPartPlace
  <2>2. /\ taken < asked + Lead
        /\ wokenAt < 0 => asked < taken + SecTick + FRACT_MAX
    BY <1>3, <1>8 DEF SleepInv
  <2>3. /\ taken' < asked + Lead + SlpTick
        /\ wokenAt < 0 => asked < taken' + SecTick + FRACT_MAX
    BY <1>5, <2>1, <2>2, Numbers
  <2> QED
    BY <1>3, <1>4, <1>8, <2>3 DEF SleepInv, SleepBegun, SleepLoop, SleepEnd
<1> QED
  BY <1>6, <1>7, <1>8 DEF InSleepPart

(* The handler in the second part: it credits what the tick was worth.     *)
LEMMA TickKeepsSleep ==
  ASSUME Placed, SleepsFit, CreditInv, ArgsInv, SleepInv, WatchdogIsr
  PROVE  SleepInv'
<1>1. /\ wdtifg /\ wdtifg' = FALSE /\ lpm' = "active"
      /\ UNCHANGED << pc, stay_asleep, asked, arg, rest, wokenAt, taken,
                      ticked >>
  BY DEF WatchdogIsr, locals
<1> SUFFICES ASSUME pc \in InSleepPart PROVE SleepInv'
  BY <1>1 DEF SleepInv, InSleepPart, SleepLoop
<1>2. ticked
  BY <1>1 DEF Placed, PlaceInv, InSleepPart, SleepBegun, SleepLoop, SleepEnd
<1>3. Part' = Part /\ Base' = Base /\ Lead' = Lead
      /\ SecTick' = SecTick /\ SlpTick' = SlpTick
  BY <1>1 DEF Part, Base, Lead, SecTick, SlpTick, Tick
<1>4. Lead = FRACT_MAX + Tick + SecTick
  BY DEF Lead
<1>5. /\ Part + 3 * SecTick + 2 * FRACT_MAX <= WORD * FRACT_MAX
      /\ WORD * FRACT_MAX \in Nat
  BY RoomIs, ClockAssumption DEF ArgsInv
<1>6. pc \in SleepLoop => Time(TickCredit) = SlpTick
  BY CreditIs DEF Placed
<1>7. CASE pc \in SleepBegun
  <2>1. Base <= taken
    BY <1>1, <1>7 DEF SleepInv
  <2> QED
    BY <1>1, <1>2, <1>3, <1>7, <2>1
       DEF SleepInv, SleepBegun, SleepLoop, SleepEnd
<1>8. CASE pc \in SleepLoop
  <2>1. Pending(SlpTick) = SlpTick /\ Pending(SlpTick)' = 0
    BY <1>1 DEF Pending
  <2>2. /\ Base + Progress + SlpTick < taken + SecTick + FRACT_MAX
        /\ taken < Base + Progress + Lead + SlpTick
    BY <1>8, <2>1 DEF SleepInv
  <2>3. taken < asked + Lead + SlpTick
    <3>1. CASE pc = "sleep_sleep"
      BY <1>4, <3>1, Numbers DEF SleepInv
    <3>2. CASE pc = "sleep_test"
      BY <3>2 DEF SleepInv
    <3> QED
      BY <1>8, <3>1, <3>2 DEF SleepLoop
  <2>4. Progress + SlpTick < WORD * FRACT_MAX
    BY <1>4, <1>5, <2>2, <2>3, Numbers
  <2>5. Progress' = Progress + SlpTick
    BY <1>6, <1>8, <2>4, ProgressTick DEF Placed
  <2>6. /\ Base + Progress' + 0 < taken' + SecTick + FRACT_MAX
        /\ taken' < Base + Progress' + Lead + 0
    BY <1>1, <1>4, <2>2, <2>5, Numbers
  <2>7. pc \notin SleepBegun \cup SleepEnd
    BY <1>8 DEF SleepBegun, SleepLoop, SleepEnd
  <2> QED
    BY <1>1, <1>2, <1>3, <2>1, <2>6, <2>7 DEF SleepInv
<1>9. CASE pc \in SleepEnd
  BY <1>1, <1>2, <1>3, <1>9 DEF SleepInv, SleepBegun, SleepLoop, SleepEnd
<1> QED
  BY <1>7, <1>8, <1>9 DEF InSleepPart

(* A wakeup changes no time.                                               *)
LEMMA WakeupKeepsSleep ==
  ASSUME Placed, SleepsFit, SleepInv, WakeupIsr PROVE SleepInv'
<1>1. /\ UNCHANGED << pc, asked, arg, rest, taken, ticked, wdtifg, wdt_fract >>
      /\ Progress' = Progress
      /\ ~stay_asleep'
      /\ \/ stay_asleep /\ wokenAt' = taken
         \/ ~stay_asleep /\ UNCHANGED << lpm, wokenAt >>
  BY DEF WakeupIsr, locals, clock, Progress, Since, millis, Placed, TypeOK
<1>2. wokenAt' < 0 => wokenAt < 0
  BY <1>1, Numbers
<1>3. pc \in SleepLoop /\ First("sleep_sleep")' => First("sleep_sleep")
  BY <1>1 DEF First, SleepLoop, Placed, PlaceInv
<1> QED
  BY <1>1, <1>2, <1>3, SameSleep DEF SleepInv

(* Every step keeps the bounds of the second part.                         *)
LEMMA NextKeepsSleep ==
  ASSUME Placed, SleepsFit, CreditInv, StayInv, ArgsInv, SecondsInv,
         SleepInv, [Next]_vars
  PROVE  SleepInv'
<1>1. CASE Call
  BY <1>1, CallsKeepSleep
<1>2. CASE InSleep
  BY <1>2, SleepBegins, SleepStarts, SleepTests, SleepSleeps DEF InSleep
<1>3. CASE Expire \/ WatchdogIsr \/ WakeupIsr
  BY <1>3, ExpireKeepsSleep, TickKeepsSleep, WakeupKeepsSleep
<1>4. CASE ExitSleeping \/ ExitStay
  BY <1>4, ExitKeepsSleep
<1>5. CASE pc' \notin InSleepPart
  BY <1>5 DEF SleepInv, InSleepPart, SleepLoop
<1>6. CASE InSeconds
  <2>1. pc' \notin InSleepPart
    BY <1>6 DEF InSeconds, SecondsStart, SecondsSleeping, SecondsStay,
                SecondsMillis, SecondsFract, SecondsWdt, SecondsTest,
                SecondsSleep, Step, InSleepPart, SleepBegun, SleepLoop,
                SleepEnd
  <2> QED
    BY <1>5, <2>1
<1>7. CASE ExitWdt
  <2>1. wdtifg' = wdtifg /\ wdt_fract' = wdt_fract
    BY <1>7 DEF ExitWdt, clock
  <2> QED
    BY <1>5, <1>7, <2>1, NextPartKeepsSleep, OutsideParts DEF ExitWdt
<1>8. CASE Delay \/ InSuspend \/ NoInterrupts \/ Interrupts
  BY <1>5, <1>8, OutsideParts
<1>9. CASE UNCHANGED vars
  <2>1. UNCHANGED << arg, rest, asked, wdtifg, ticked, taken, wokenAt, pc,
                     lpm, stay_asleep, wdt_fract >> /\ Progress' = Progress
    BY <1>9 DEF vars, clock, cpu, locals, history, Progress, Since, millis
  <2>2. First("sleep_sleep")' <=> First("sleep_sleep")
    BY <2>1 DEF First
  <2> QED
    BY <2>1, <2>2, SameSleep DEF SleepInv
<1> QED
  BY <1>1, <1>2, <1>3, <1>4, <1>6, <1>7, <1>8, <1>9 DEF Next, Running, Exit

(* What is left when a sleep returns.                                      *)
LEMMA SleepReturnInTime ==
  ASSUME Placed, SleepsFit, ArgsInv, SecondsInv, SleepInv, [Next]_vars,
         pc' = "idle", pc \in {"seconds_unwdt", "sleep_unwdt"}
  PROVE  /\ asked < taken + LongestTick + FRACT_MAX \/ wokenAt >= 0
         /\ taken <= asked + 2 * LongestTick
<1>1. LongestTick \in Nat /\ SecTick <= LongestTick
  BY LongestTickIs DEF SecTick
<1>2. wokenAt \in Int
  BY DEF Placed, HistoryOK
<1>3. CASE pc = "seconds_unwdt"
  <2>1. rest = 0
    <3>1. ExitWdt
      BY <1>3 DEF Next, vars, Call, Running, Delay, DelayCall, DelayReturn,
         DelayCount, DelaySleep, SleepSecondsCall, SleepCall, SuspendCall,
         Step, Return, InSeconds, SecondsStart, SecondsSleeping,
         SecondsStay, SecondsMillis, SecondsFract, SecondsWdt, SecondsTest,
         SecondsSleep, InSleep, SleepMillis, SleepFract, SleepWdt,
         SleepSleeping, SleepStay, SleepStart, SleepTest, SleepSleep, Exit,
         ExitSleeping, ExitStay, InSuspend, SuspendSleeping, SuspendStay,
         SuspendTest, SuspendSleep, SuspendExit, SuspendWdt, NoInterrupts,
         Interrupts, Expire, WatchdogIsr, WakeupIsr
    <3> QED
      BY <1>3, <3>1 DEF ExitWdt, NextPart, Return, Step
  <2>2. asked = Whole
    <3>1. 0 * FRACT_MAX = 0
      BY ClockAssumption
    <3>2. Rest = 0 /\ asked = Whole + Rest
      BY <1>3, <2>1, <3>1 DEF Rest, ArgsInv, InSecondsPart, SecondsEnd
    <3> QED
      BY <3>2, Numbers
  <2>3. /\ taken < Whole + Slack + SecTick
        /\ wokenAt < 0 => Whole + wdt_fract < taken + SecTick + FRACT_MAX - 1
    BY <1>3 DEF SecondsInv, SecondsEnd
  <2> QED
    BY <1>1, <1>2, <2>2, <2>3, Numbers DEF Slack
<1>4. CASE pc = "sleep_unwdt"
  <2>1. /\ taken < asked + Lead + SlpTick
        /\ wokenAt < 0 => asked < taken + SecTick + FRACT_MAX
    BY <1>4 DEF SleepInv, SleepEnd
  <2> QED
    BY <1>1, <1>2, <2>1, Numbers DEF Lead
<1> QED
  BY <1>3, <1>4

(* All of it together is inductive, with the clock and the place.          *)
SleepsInv == CreditInv /\ StayInv /\ ArgsInv /\ SecondsInv /\ SleepInv

(* sleep and sleepSeconds last what they were asked to, but for a tick and *)
(* less than a millisecond before and two ticks after, whatever ticks fall *)
(* between setting sleeping, the increments and the timer, and through the *)
(* rollover of millis().                                                   *)
THEOREM SleepsLast == ASSUME SleepsFit PROVE Spec => SleepTiming
<1>1. Init => SleepsInv
  BY DEF Init, SleepsInv, CreditInv, StayInv, ArgsInv, SecondsInv, SleepInv,
         Sleeping, InSecondsPart, SecondsBegun, SecondsLoop, SecondsEnd,
         InSleepPart, SleepBegun, SleepLoop, SleepEnd
<1>2. Places /\ SleepsInv /\ [Next]_vars => SleepsInv'
  BY NextKeepsCredit, NextKeepsStay, NextKeepsArgs, NextKeepsSeconds,
     NextKeepsSleep DEF Places, Placed, Timekeeping, SleepsInv
<1>3. Places /\ SleepsInv /\ [Next]_vars =>
        [pc' = "idle" /\ pc \in {"seconds_unwdt", "sleep_unwdt"} =>
           /\ (asked < taken + LongestTick + FRACT_MAX \/ wokenAt >= 0)
           /\ taken <= asked + 2 * LongestTick]_vars
  BY SleepReturnInTime DEF Places, Placed, Timekeeping, SleepsInv
<1> QED
  BY <1>1, <1>2, <1>3, PlacesHold, PTL DEF Spec, SleepTiming
=============================================================================
