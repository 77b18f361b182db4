------------------------------- MODULE Servo -------------------------------
(***************************************************************************)
(* Up to MAX_SERVOS servos on one compare channel of Timer A0: Servo.cpp.  *)
(* The handler Timer_A ends the pulse of one servo and starts the next; a  *)
(* slot, the time between two of its runs, is as long as it sets TA0CCR0.  *)
(* The sketch's calls may come at any point of a slot.                     *)
(***************************************************************************)
EXTENDS Integers

CONSTANTS
  ServoCount,   \* servos constructed, at most 8 in the code
  ServoPins,    \* the pins they are attached to
  Widths,       \* pulse widths in timer ticks
  REFRESH,      \* usToTicks(REFRESH_INTERVAL)
  MIN_WAIT      \* the least wait between two cycles, 1000 ticks in the code

Servos == 0 .. ServoCount - 1

(* The widths of all servos fit the refresh interval, as eight of the      *)
(* widest default pulse, 2400 us, fit 20 ms.                               *)
ASSUME ServoAssumption ==
  /\ ServoCount \in Nat \ {0} /\ ServoPins # {}
  /\ REFRESH \in Nat /\ MIN_WAIT \in Nat
  /\ Widths \subseteq Nat /\ Widths # {}
  /\ \A w \in Widths : w * ServoCount <= REFRESH

VARIABLES
  isActive, nbr, ticks,  \* the servos attached; the pin and width of each
  counter,               \* the servo whose pulse is on, -1 for none
  totalWait,             \* the widths of this cycle's pulses
  TA0CCR0,               \* the length of the slot
  servo_ie,              \* the handler is enabled, and the timer runs
  high,                  \* the pins that are high
  servoCall, servo,      \* what the sketch does next, the servo of its call
  timer_active           \* local of attach

servos == << isActive, nbr, ticks >>
timer == << counter, totalWait, TA0CCR0, servo_ie >>

(* History: the time since the cycle began, and the pins that a detach or  *)
(* a change of pin left high in the middle of a pulse.                     *)
VARIABLES elapsed, stuck

servoVars == << servos, timer, high, servoCall, servo, timer_active, elapsed,
                stuck >>

ServoInit ==
  /\ isActive = {}
  /\ ticks = [s \in Servos |-> CHOOSE w \in Widths : TRUE]
  /\ nbr = [s \in Servos |-> CHOOSE p \in ServoPins : TRUE]
  /\ counter = 0 /\ totalWait = 0 /\ TA0CCR0 = 0 /\ servo_ie = FALSE
  /\ high = {} /\ servoCall = "idle" /\ servo = 0 /\ timer_active = FALSE
  /\ elapsed = 0 /\ stuck = {}

-----------------------------------------------------------------------------
BugFollowing(c) == {s \in isActive : s > c + 1}

Following(c) == {s \in isActive : s > c}

BugServed(c) == {}

(* The pin whose pulse Timer_A ends.                                       *)
Served(c) == IF c >= 0 THEN {nbr[c]} ELSE {}

BugWaited(t) == IF REFRESH < MIN_WAIT THEN MIN_WAIT ELSE REFRESH

Waited(t) == IF REFRESH - t < MIN_WAIT THEN MIN_WAIT ELSE REFRESH - t

(* Timer_A, entered with counter c and totalWait t.                        *)
Timer_A(c, t) ==
  \/ \E s \in Following(c) :
       /\ \A r \in Following(c) : s <= r
       /\ counter' = s
       /\ high' = (high \ Served(c)) \cup {nbr[s]}
       /\ totalWait' = t + ticks[s]
       /\ TA0CCR0' = ticks[s]
       /\ stuck' = stuck \ (Served(c) \cup {nbr[s]})
  \/ /\ Following(c) = {}
     /\ counter' = -1
     /\ high' = high \ Served(c)
     /\ totalWait' = 0
     /\ TA0CCR0' = Waited(t)
     /\ stuck' = stuck \ Served(c)

ServoIsr ==
  /\ servo_ie
  /\ Timer_A(counter, totalWait)
  /\ elapsed' = IF counter = -1 THEN 0 ELSE elapsed + TA0CCR0
  /\ UNCHANGED << servos, servo_ie, servoCall, servo, timer_active >>

-----------------------------------------------------------------------------
ServoStep(from, to) == servoCall = from /\ servoCall' = to

(* attach, also of a servo that is attached already, to a pin no other has.*)
Attach ==
  \E s \in Servos, p \in ServoPins :
    /\ ServoStep("idle", "attach_test")
    /\ \A r \in isActive \ {s} : nbr[r] # p
    /\ servo' = s
    /\ nbr' = [nbr EXCEPT ![s] = p]
    /\ stuck' = IF servo_ie /\ counter = s /\ nbr[s] # p
                THEN stuck \cup {nbr[s]} ELSE stuck
    /\ UNCHANGED << isActive, ticks, timer, high, timer_active, elapsed >>

AttachTest ==
  /\ ServoStep("attach_test", "attach_set")
  /\ timer_active' = (isActive # {})
  /\ UNCHANGED << servos, timer, high, servo, elapsed, stuck >>

AttachSet ==
  /\ ServoStep("attach_set", IF timer_active THEN "idle" ELSE "enable")
  /\ isActive' = isActive \cup {servo}
  /\ UNCHANGED << nbr, ticks, timer, high, servo, timer_active, elapsed,
                  stuck >>

EnableTimer ==
  /\ ServoStep("enable", "idle")
  /\ Timer_A(-1, 0)
  /\ servo_ie' = TRUE /\ elapsed' = 0
  /\ UNCHANGED << servos, servo, timer_active >>

Detach ==
  \E s \in isActive :
    /\ ServoStep("idle", "detach_test")
    /\ servo' = s
    /\ isActive' = isActive \ {s}
    /\ UNCHANGED << nbr, ticks, timer, high, timer_active, elapsed, stuck >>

DetachTest ==
  /\ ServoStep("detach_test", IF isActive = {} THEN "disable" ELSE "idle")
  /\ UNCHANGED << servos, timer, high, servo, timer_active, elapsed, stuck >>

DisableTimer ==
  /\ ServoStep("disable", "idle")
  /\ servo_ie' = FALSE /\ TA0CCR0' = 0
  /\ stuck' = high
  /\ UNCHANGED << servos, counter, totalWait, high, servo, timer_active,
                  elapsed >>

WriteMicroseconds ==
  \E s \in Servos, w \in Widths :
    /\ ServoStep("idle", "idle")
    /\ ticks' = [ticks EXCEPT ![s] = w]
    /\ UNCHANGED << isActive, nbr, timer, high, servo, timer_active, elapsed,
                    stuck >>

ServoRun ==
  AttachTest \/ AttachSet \/ EnableTimer \/ DetachTest \/ DisableTimer

ServoNext == Attach \/ Detach \/ WriteMicroseconds \/ ServoRun \/ ServoIsr

ServoSpec == ServoInit /\ [][ServoNext]_servoVars
-----------------------------------------------------------------------------
(* Type invariant of the servos: the pulse is that of a servo there is.    *)
ServoTypeOK ==
  /\ isActive \in SUBSET Servos /\ nbr \in [Servos -> ServoPins]
  /\ ticks \in [Servos -> Widths]
  /\ counter \in Servos \cup {-1} /\ totalWait \in 0 .. REFRESH
  /\ TA0CCR0 \in Nat /\ servo_ie \in BOOLEAN /\ high \in SUBSET ServoPins
  /\ servoCall \in { "idle", "attach_test", "attach_set", "enable",
                     "detach_test", "disable" }
  /\ servo \in Servos /\ timer_active \in BOOLEAN
  /\ elapsed \in Nat /\ stuck \in SUBSET ServoPins

(* Pulses follow one another and never overlap: the only pin that is high, *)
(* but for those a detach or a new pin abandoned in a pulse, is the one of *)
(* the servo being served.                                                 *)
OnePulse ==
  high \ stuck \subseteq (IF servo_ie THEN Served(counter) ELSE {})

(* A servo gets a pulse every REFRESH_INTERVAL, whatever was attached,     *)
(* detached or written in the cycle: its pulses and the wait that ends it  *)
(* make up the interval, or more only by the least wait.                   *)
CycleLength ==
  [][ServoIsr /\ counter' = -1 =>
       elapsed' + TA0CCR0' =
         IF elapsed' + MIN_WAIT > REFRESH THEN elapsed' + MIN_WAIT ELSE REFRESH
    ]_servoVars

(* An attached servo is served again and again, whatever the others do.    *)
ServoServed ==
  \A s \in Servos : s \in isActive ~> counter = s \/ s \notin isActive
=============================================================================
