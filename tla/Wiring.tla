------------------------------- MODULE Wiring ------------------------------
(***************************************************************************)
(* Time and sleep on the msp430 core: wiring.c.  The watchdog timer runs in*)
(* interval mode; its interrupt keeps the clock (wdt_millis, wdt_fract,    *)
(* wdt_overflow_count) and wakes the CPU, so delay, sleep and sleepSeconds *)
(* are loops around a low-power mode.  sleep and sleepSeconds run the timer*)
(* from another source and tell the interrupt so through sleeping and the  *)
(* S increments; suspend stops the timer.  Any interrupt may call wakeup().*)
(*                                                                         *)
(* The sketch runs one statement that touches shared state per step; an    *)
(* interrupt handler is one step.  Time is counted in 1/FRACT_MAX of a     *)
(* millisecond, the unit of wdt_fract.                                     *)
(***************************************************************************)
EXTENDS Integers

CONSTANTS
  WORD,          \* unsigned long counts modulo this (2^32 in the code)
  INT,           \* unsigned int counts modulo this (2^16 in the code)
  FRACT_MAX,     \* fractions of a millisecond, microseconds (1000)
  MS_PER_S,      \* milliseconds in a second (1000)
  MICROSECONDS_PER_WDT_OVERFLOW,   \* interval of the timer on SMCLK
  SecondsTick,   \* <<millis, fract>> of its interval in sleepSeconds
  SleepTick,     \* <<millis, fract>> of its interval in sleep
  Delays, Sleeps, Seconds          \* arguments the sketch passes

Time(t) == t[1] * FRACT_MAX + t[2]

ASSUME ClockAssumption ==
  /\ WORD \in Nat \ {0} /\ INT \in Nat \ {0} /\ MS_PER_S \in Nat \ {0}
  /\ FRACT_MAX \in Nat \ {0}
  /\ MICROSECONDS_PER_WDT_OVERFLOW \in Nat \ {0}
  /\ SecondsTick \in Nat \X (0 .. FRACT_MAX - 1)
  /\ SleepTick \in Nat \X (0 .. FRACT_MAX - 1)
  /\ Delays \subseteq Nat /\ Sleeps \subseteq Nat /\ Seconds \subseteq Nat

MILLIS_INC == MICROSECONDS_PER_WDT_OVERFLOW \div FRACT_MAX
FRACT_INC == MICROSECONDS_PER_WDT_OVERFLOW % FRACT_MAX
RunTick == << MILLIS_INC, FRACT_INC >>

VARIABLES
  wdt_millis, wdt_fract, wdt_overflow_count,  \* the clock
  sleeping, SMILLIS_INC, SFRACT_INC,          \* how a tick is credited
  stay_asleep,                                \* cleared by wakeup()
  wdt,       \* what drives the timer: smclk, seconds or sleep (ACLK), hold
  wdtifg,    \* the timer's interrupt is pending
  gie,       \* the CPU's general interrupt enable
  lpm,       \* the CPU's mode: active, LPM0, LPM3, LPM4
  pc,        \* what the sketch does next
  start,     \* local start of delay, sleep and sleepSeconds
  arg,       \* what is left of the argument of the call in progress
  rest       \* milliseconds sleep has still to do after sleepSeconds

clock == << wdt_millis, wdt_fract, wdt_overflow_count >>
credit == << sleeping, SMILLIS_INC, SFRACT_INC >>
cpu == << gie, lpm >>
locals == << start, arg, rest >>

(* History, of which no step of the code depends.                          *)
VARIABLES
  credited,  \* what all ticks so far were credited with, as clock counts it
  asked,     \* time the call in progress was asked to take
  taken,     \* time the timer measured since the call (up to a cap)
  wokenAt,   \* what taken was when wakeup() last cleared stay_asleep, or -1
  ticked     \* the timer expired since the call or its last low-power mode

call == << asked, wokenAt >>
history == << credited, asked, taken, wokenAt, ticked >>

vars == << clock, credit, stay_asleep, wdt, wdtifg, cpu, pc, locals, history >>

Init ==
  /\ wdt_millis = 0 /\ wdt_fract = 0 /\ wdt_overflow_count = 0
  /\ sleeping = FALSE /\ SMILLIS_INC = 0 /\ SFRACT_INC = 0
  /\ stay_asleep = FALSE
  /\ wdt = "smclk" /\ wdtifg = FALSE /\ gie = TRUE /\ lpm = "active"
  /\ pc = "idle" /\ start = 0 /\ arg = 0 /\ rest = 0
  /\ credited = 0 /\ asked = 0 /\ taken = 0 /\ wokenAt = -1 /\ ticked = FALSE

-----------------------------------------------------------------------------
micros == (wdt_overflow_count * MICROSECONDS_PER_WDT_OVERFLOW) % WORD

millis == wdt_millis

Since(now) == (now - start) % WORD

(* The sketch runs only while no low-power mode holds the CPU.             *)
Step(from, to) == lpm = "active" /\ pc = from /\ pc' = to

Enter(time) ==
  /\ asked' = time /\ taken' = 0 /\ wokenAt' = -1 /\ ticked' = wdtifg
  /\ UNCHANGED credited

(* A call returns: its locals are gone.                                    *)
Return(from) ==
  /\ Step(from, "idle")
  /\ start' = 0 /\ arg' = 0 /\ rest' = 0
  /\ asked' = 0 /\ taken' = 0 /\ wokenAt' = -1 /\ ticked' = FALSE
  /\ UNCHANGED credited

(* Entering a low-power mode also enables interrupts.                      *)
LowPower(mode) ==
  /\ lpm' = mode /\ gie' = TRUE
  /\ ticked' = wdtifg
  /\ UNCHANGED << credited, asked, taken, wokenAt >>

NoInterrupts ==
  /\ lpm = "active" /\ pc = "idle" /\ gie
  /\ gie' = FALSE
  /\ UNCHANGED << clock, credit, stay_asleep, wdt, wdtifg, lpm, pc, locals,
                  history >>

Interrupts ==
  /\ lpm = "active" /\ pc = "idle" /\ ~gie
  /\ gie' = TRUE
  /\ UNCHANGED << clock, credit, stay_asleep, wdt, wdtifg, lpm, pc, locals,
                  history >>

-----------------------------------------------------------------------------
(* delay: one millisecond at most is counted off per pass, and every pass, *)
(* the last one included, ends in LPM0 until the next tick.                *)
DelayCall ==
  \E ms \in Delays :
    /\ Step("idle", "delay_test")
    /\ arg' = ms /\ start' = micros
    /\ Enter(ms * FRACT_MAX)
    /\ UNCHANGED << clock, credit, stay_asleep, wdt, wdtifg, cpu, rest >>

DelayReturn ==
  /\ Return("delay_test") /\ arg = 0
  /\ UNCHANGED << clock, credit, stay_asleep, wdt, wdtifg, cpu >>

BugCountedFrom == start

CountedFrom == (start + FRACT_MAX) % WORD

DelayCount ==
  /\ Step("delay_test", "delay_sleep") /\ arg > 0
  /\ IF Since(micros) >= FRACT_MAX
       THEN arg' = arg - 1 /\ start' = CountedFrom
       ELSE UNCHANGED << arg, start >>
  /\ UNCHANGED << clock, credit, stay_asleep, wdt, wdtifg, cpu, rest, history >>

(* In LPM3 SMCLK stops, and the timer with it.                             *)
BugDelaySleep ==
  /\ Step("delay_sleep", "delay_test")
  /\ LowPower("LPM3")
  /\ UNCHANGED << clock, credit, stay_asleep, wdt, wdtifg, locals >>

DelaySleep ==
  /\ Step("delay_sleep", "delay_test")
  /\ LowPower("LPM0")
  /\ UNCHANGED << clock, credit, stay_asleep, wdt, wdtifg, locals >>

-----------------------------------------------------------------------------
(* sleepSeconds, on its own or as the first part of sleep.  The ticks are  *)
(* credited as sleeping ones before the increments are set and before the  *)
(* timer changes its source.                                               *)
SleepSecondsCall ==
  \E s \in Seconds :
    /\ Step("idle", "seconds_start")
    /\ arg' = s /\ rest' = 0
    /\ Enter(s * MS_PER_S * FRACT_MAX)
    /\ UNCHANGED << clock, credit, stay_asleep, wdt, wdtifg, cpu, start >>

SecondsStart ==
  /\ Step("seconds_start", "seconds_sleeping")
  /\ start' = millis
  /\ UNCHANGED << clock, credit, stay_asleep, wdt, wdtifg, cpu, arg, rest,
                  history >>

SecondsSleeping ==
  /\ Step("seconds_sleeping", "seconds_stay")
  /\ sleeping' = TRUE
  /\ UNCHANGED << clock, SMILLIS_INC, SFRACT_INC, stay_asleep, wdt, wdtifg,
                  cpu, locals, history >>

SecondsStay ==
  /\ Step("seconds_stay", "seconds_millis")
  /\ stay_asleep' = TRUE
  /\ UNCHANGED << clock, credit, wdt, wdtifg, cpu, locals, history >>

SecondsMillis ==
  /\ Step("seconds_millis", "seconds_fract")
  /\ SMILLIS_INC' = SecondsTick[1]
  /\ UNCHANGED << clock, sleeping, SFRACT_INC, stay_asleep, wdt, wdtifg, cpu,
                  locals, history >>

SecondsFract ==
  /\ Step("seconds_fract", "seconds_wdt")
  /\ SFRACT_INC' = SecondsTick[2]
  /\ UNCHANGED << clock, sleeping, SMILLIS_INC, stay_asleep, wdt, wdtifg, cpu,
                  locals, history >>

SecondsWdt ==
  /\ Step("seconds_wdt", "seconds_test")
  /\ wdt' = "seconds"
  /\ UNCHANGED << clock, credit, stay_asleep, wdtifg, cpu, locals, history >>

SecondsGoOn == stay_asleep /\ Since(millis) <= (arg * MS_PER_S) % WORD

SecondsTest ==
  /\ Step("seconds_test", IF SecondsGoOn THEN "seconds_sleep" ELSE "seconds_exit")
  /\ UNCHANGED << clock, credit, stay_asleep, wdt, wdtifg, cpu, locals,
                  history >>

SecondsSleep ==
  /\ Step("seconds_sleep", "seconds_test")
  /\ LowPower("LPM3")
  /\ UNCHANGED << clock, credit, stay_asleep, wdt, wdtifg, locals >>

(* The epilogue that sleepSeconds and sleep share: sleeping, stay_asleep,  *)
(* then the timer, in this order.                                          *)
ExitSleeping ==
  /\ \/ Step("seconds_exit", "seconds_unstay")
     \/ Step("sleep_exit", "sleep_unstay")
  /\ sleeping' = FALSE
  /\ UNCHANGED << clock, SMILLIS_INC, SFRACT_INC, stay_asleep, wdt, wdtifg,
                  cpu, locals, history >>

ExitStay ==
  /\ \/ Step("seconds_unstay", "seconds_unwdt")
     \/ Step("sleep_unstay", "sleep_unwdt")
  /\ stay_asleep' = FALSE
  /\ UNCHANGED << clock, credit, wdt, wdtifg, cpu, locals, history >>

(* A wakeup that aborted sleepSeconds is not seen by the rest of sleep.    *)
NextPart ==
  /\ Step("seconds_unwdt", "sleep_millis") /\ rest # 0
  /\ arg' = rest /\ rest' = 0
  /\ asked' = IF wokenAt >= 0 THEN taken + rest * FRACT_MAX ELSE asked
  /\ wokenAt' = -1
  /\ UNCHANGED << start, credited, taken, ticked >>

ExitWdt ==
  /\ NextPart \/ (Return("seconds_unwdt") /\ rest = 0) \/ Return("sleep_unwdt")
  /\ wdt' = "smclk"
  /\ UNCHANGED << clock, credit, stay_asleep, wdtifg, cpu >>

-----------------------------------------------------------------------------
(* sleep: whole seconds first, in 16-bit arithmetic, then the rest.        *)
WholeSeconds(ms) == (ms \div MS_PER_S) % INT

RestOf(ms) == (ms - ((WholeSeconds(ms) * MS_PER_S) % INT)) % WORD

SleepCall ==
  \E ms \in Sleeps :
    /\ Enter(ms * FRACT_MAX)
    /\ \/ /\ ms >= MS_PER_S
          /\ Step("idle", "seconds_start")
          /\ arg' = WholeSeconds(ms) /\ rest' = RestOf(ms)
       \/ /\ 0 < ms /\ ms < MS_PER_S
          /\ Step("idle", "sleep_millis")
          /\ arg' = ms /\ rest' = 0
    /\ UNCHANGED << clock, credit, stay_asleep, wdt, wdtifg, cpu, start >>

SleepMillis ==
  /\ Step("sleep_millis", "sleep_fract")
  /\ SMILLIS_INC' = SleepTick[1]
  /\ UNCHANGED << clock, sleeping, SFRACT_INC, stay_asleep, wdt, wdtifg, cpu,
                  locals, history >>

SleepFract ==
  /\ Step("sleep_fract", "sleep_wdt")
  /\ SFRACT_INC' = SleepTick[2]
  /\ UNCHANGED << clock, sleeping, SMILLIS_INC, stay_asleep, wdt, wdtifg, cpu,
                  locals, history >>

SleepWdt ==
  /\ Step("sleep_wdt", "sleep_sleeping")
  /\ wdt' = "sleep"
  /\ UNCHANGED << clock, credit, stay_asleep, wdtifg, cpu, locals, history >>

SleepSleeping ==
  /\ Step("sleep_sleeping", "sleep_stay")
  /\ sleeping' = TRUE
  /\ UNCHANGED << clock, SMILLIS_INC, SFRACT_INC, stay_asleep, wdt, wdtifg,
                  cpu, locals, history >>

SleepStay ==
  /\ Step("sleep_stay", "sleep_start")
  /\ stay_asleep' = TRUE
  /\ UNCHANGED << clock, credit, wdt, wdtifg, cpu, locals, history >>

SleepStart ==
  /\ Step("sleep_start", "sleep_test")
  /\ start' = millis
  /\ UNCHANGED << clock, credit, stay_asleep, wdt, wdtifg, cpu, arg, rest,
                  history >>

BugSleepUnaborted == Since(millis) < arg

SleepGoOn == stay_asleep /\ Since(millis) < arg

SleepTest ==
  /\ Step("sleep_test", IF SleepGoOn THEN "sleep_sleep" ELSE "sleep_exit")
  /\ UNCHANGED << clock, credit, stay_asleep, wdt, wdtifg, cpu, locals,
                  history >>

SleepSleep ==
  /\ Step("sleep_sleep", "sleep_test")
  /\ LowPower("LPM3")
  /\ UNCHANGED << clock, credit, stay_asleep, wdt, wdtifg, locals >>

-----------------------------------------------------------------------------
(* suspend: the timer is stopped, so only wakeup() can end it.             *)
SuspendCall ==
  /\ Step("idle", "suspend_sleeping")
  /\ wdt' = "hold"
  /\ Enter(0)
  /\ UNCHANGED << clock, credit, stay_asleep, wdtifg, cpu, locals >>

SuspendSleeping ==
  /\ Step("suspend_sleeping", "suspend_stay")
  /\ sleeping' = TRUE
  /\ UNCHANGED << clock, SMILLIS_INC, SFRACT_INC, stay_asleep, wdt, wdtifg,
                  cpu, locals, history >>

SuspendStay ==
  /\ Step("suspend_stay", "suspend_test")
  /\ stay_asleep' = TRUE
  /\ UNCHANGED << clock, credit, wdt, wdtifg, cpu, locals, history >>

SuspendTest ==
  /\ Step("suspend_test", IF stay_asleep THEN "suspend_sleep" ELSE "suspend_exit")
  /\ UNCHANGED << clock, credit, stay_asleep, wdt, wdtifg, cpu, locals,
                  history >>

SuspendSleep ==
  /\ Step("suspend_sleep", "suspend_test")
  /\ LowPower("LPM4")
  /\ UNCHANGED << clock, credit, stay_asleep, wdt, wdtifg, locals >>

SuspendExit ==
  /\ Step("suspend_exit", "suspend_unwdt")
  /\ sleeping' = FALSE
  /\ UNCHANGED << clock, SMILLIS_INC, SFRACT_INC, stay_asleep, wdt, wdtifg,
                  cpu, locals, history >>

SuspendWdt ==
  /\ Return("suspend_unwdt")
  /\ wdt' = "smclk"
  /\ UNCHANGED << clock, credit, stay_asleep, wdtifg, cpu >>

-----------------------------------------------------------------------------
(* The timer expires.  SMCLK stops in LPM3 and every clock in LPM4.  The   *)
(* interval is far longer than the code a call runs between two low-power  *)
(* modes: the timer expires once before the first of them at most, not     *)
(* again between a tick that wakes the CPU and the next low-power mode, and*)
(* never while GIE is set and its interrupt still waits for other handlers.*)
TickTime ==
  CASE wdt = "smclk" -> MICROSECONDS_PER_WDT_OVERFLOW
    [] wdt = "seconds" -> Time(SecondsTick)
    [] wdt = "sleep" -> Time(SleepTick)

Longest(S) == CHOOSE t \in S : \A u \in S : u <= t

LongestTick ==
  Longest({ MICROSECONDS_PER_WDT_OVERFLOW, Time(SecondsTick), Time(SleepTick) })

(* taken stops counting where no property looks any more.                  *)
Cap == asked + 4 * LongestTick

Expire ==
  /\ \/ wdt = "smclk" /\ lpm \in {"active", "LPM0"}
     \/ wdt \in {"seconds", "sleep"} /\ lpm # "LPM4"
  /\ lpm = "active" /\ pc # "idle" => ~ticked
  /\ wdtifg => ~gie
  /\ wdtifg' = TRUE
  /\ ticked' = (pc # "idle")
  /\ taken' = IF pc = "idle" \/ taken + TickTime > Cap THEN taken
              ELSE taken + TickTime
  /\ UNCHANGED << clock, credit, stay_asleep, wdt, cpu, pc, locals, credited,
                  call >>

(* watchdog_isr: fract carries into millis, and the CPU leaves LPM3.       *)
BugTickCredit == RunTick

TickCredit == IF sleeping THEN << SMILLIS_INC, SFRACT_INC >> ELSE RunTick

BugCarryLate(m, f) ==
  IF f > FRACT_MAX THEN << m + 1, f - FRACT_MAX >> ELSE << m, f >>

BugCarryLost(m, f) == << m, f % FRACT_MAX >>

Carry(m, f) ==
  IF f >= FRACT_MAX THEN << m + 1, f - FRACT_MAX >> ELSE << m, f >>

WatchdogIsr ==
  LET now == Carry(wdt_millis + TickCredit[1], wdt_fract + TickCredit[2])
  IN /\ gie /\ wdtifg
     /\ wdtifg' = FALSE
     /\ wdt_millis' = now[1] % WORD /\ wdt_fract' = now[2]
     /\ wdt_overflow_count' = (wdt_overflow_count + 1) % WORD
     /\ lpm' = "active"
     /\ credited' = (credited + Time(TickCredit)) % (WORD * FRACT_MAX)
     /\ UNCHANGED << credit, stay_asleep, wdt, gie, pc, locals, asked, taken,
                     wokenAt, ticked >>

(* Any other handler whose callback calls wakeup(): it leaves the          *)
(* low-power mode only if stay_asleep is not what it was on entry.         *)
WakeupIsr ==
  /\ gie
  /\ stay_asleep' = FALSE
  /\ IF stay_asleep # stay_asleep'
       THEN lpm' = "active" /\ wokenAt' = taken
       ELSE UNCHANGED << lpm, wokenAt >>
  /\ UNCHANGED << clock, credit, wdt, wdtifg, gie, pc, locals, credited, asked,
                  taken, ticked >>

-----------------------------------------------------------------------------
Delay == DelayReturn \/ DelayCount \/ DelaySleep

InSeconds ==
  \/ SecondsStart \/ SecondsSleeping \/ SecondsStay \/ SecondsMillis
  \/ SecondsFract \/ SecondsWdt \/ SecondsTest \/ SecondsSleep

InSleep ==
  \/ SleepMillis \/ SleepFract \/ SleepWdt \/ SleepSleeping \/ SleepStay
  \/ SleepStart \/ SleepTest \/ SleepSleep

Exit == ExitSleeping \/ ExitStay \/ ExitWdt

InSuspend ==
  \/ SuspendSleeping \/ SuspendStay \/ SuspendTest \/ SuspendSleep
  \/ SuspendExit \/ SuspendWdt

Call == DelayCall \/ SleepSecondsCall \/ SleepCall \/ SuspendCall

Running == Delay \/ InSeconds \/ InSleep \/ Exit \/ InSuspend

Next ==
  \/ Call \/ Running \/ NoInterrupts \/ Interrupts
  \/ Expire \/ WatchdogIsr \/ WakeupIsr

(* The CPU runs the call it is in, the timer runs while it is not held, and*)
(* its interrupt is taken once GIE lets it.                                *)
Fairness ==
  /\ WF_vars(Running)
  /\ WF_vars(Expire)
  /\ SF_vars(WatchdogIsr)

Spec == Init /\ [][Next]_vars

FairSpec == Spec /\ Fairness

(* Moreover interrupts keep calling wakeup().                              *)
WakingSpec == FairSpec /\ SF_vars(WakeupIsr)
-----------------------------------------------------------------------------
Labels ==
  { "idle", "delay_test", "delay_sleep",
    "seconds_start", "seconds_sleeping", "seconds_stay", "seconds_millis",
    "seconds_fract", "seconds_wdt", "seconds_test", "seconds_sleep",
    "seconds_exit", "seconds_unstay", "seconds_unwdt",
    "sleep_millis", "sleep_fract", "sleep_wdt", "sleep_sleeping", "sleep_stay",
    "sleep_start", "sleep_test", "sleep_sleep", "sleep_exit", "sleep_unstay",
    "sleep_unwdt",
    "suspend_sleeping", "suspend_stay", "suspend_test", "suspend_sleep",
    "suspend_exit", "suspend_unwdt" }

(* Type invariant of the clock, the timer, the CPU and the call in progress*)
TypeOK ==
  /\ wdt_millis \in 0 .. WORD - 1 /\ wdt_fract \in 0 .. FRACT_MAX - 1
  /\ wdt_overflow_count \in 0 .. WORD - 1
  /\ sleeping \in BOOLEAN /\ stay_asleep \in BOOLEAN
  /\ SMILLIS_INC \in Nat /\ SFRACT_INC \in 0 .. FRACT_MAX - 1
  /\ wdt \in { "smclk", "seconds", "sleep", "hold" }
  /\ wdtifg \in BOOLEAN /\ gie \in BOOLEAN
  /\ lpm \in { "active", "LPM0", "LPM3", "LPM4" }
  /\ pc \in Labels /\ start \in 0 .. WORD - 1 /\ arg \in Nat
  /\ rest \in 0 .. WORD - 1
  /\ credited \in 0 .. WORD * FRACT_MAX - 1

(* The clock loses nothing of what its ticks are worth: milliseconds and   *)
(* fraction are the sum of all ticks credited, although the handler carries*)
(* at most one millisecond per tick and millis() rolls over.               *)
ClockExact == wdt_millis * FRACT_MAX + wdt_fract = credited

(* delay(ms) is never early and less than two ticks late, measured in      *)
(* whole ticks, although each pass counts at most one millisecond off and  *)
(* the last pass waits for one more tick: Delay.html:50 says that it       *)
(* "pauses the program for the amount of time (in miliseconds) specified". *)
DelayTiming ==
  [][pc = "delay_test" /\ pc' = "idle" =>
       /\ asked <= taken
       /\ taken < asked + 2 * MICROSECONDS_PER_WDT_OVERFLOW]_vars

(* Unless woken, sleep and sleepSeconds return less than a tick and a      *)
(* millisecond early, and they return two ticks late at most: the tick that*)
(* straddles setting sleeping and setting the timer is credited wrongly,   *)
(* the fraction left out of start is lost, but these errors never add up.  *)
SleepTiming ==
  [][pc' = "idle" /\ pc \in {"seconds_unwdt", "sleep_unwdt"} =>
       /\ (asked < taken + LongestTick + FRACT_MAX \/ wokenAt >= 0)
       /\ taken <= asked + 2 * LongestTick]_vars

(* "A user's ISR may abort this sleep using wakeup()" (wiring.c:493, 533):  *)
(* a wakeup that comes between the test of stay_asleep and the low-power   *)
(* mode takes effect at a tick, the second one at the latest.              *)
WakeupPrompt ==
  [][pc' \in {"seconds_exit", "sleep_exit"} /\ pc # pc' /\ wokenAt >= 0 =>
       taken - wokenAt <= 2 * TickTime]_vars

(* Every delay, sleep and sleepSeconds returns, with interrupts off or on  *)
(* when it was called and across the rollover of millis() and micros().    *)
CallsReturn ==
  (pc \in Labels \ {"idle", "suspend_sleeping", "suspend_stay",
                     "suspend_test", "suspend_sleep"}) ~> pc = "idle"

(* wiring.c:554-556 says of suspend that "only a user ISR may wake it up   *)
(* using wakeup()": once wakeup() cleared stay_asleep, suspend ends.       *)
WakeupEndsSuspend ==
  (pc \in {"suspend_test", "suspend_sleep"} /\ ~stay_asleep) ~> pc = "idle"
=============================================================================
