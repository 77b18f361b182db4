--------------------------- MODULE TimerA0Proofs ---------------------------
(***************************************************************************)
(* Safety of the three users of Timer A0, for every number of channels,    *)
(* pins, servos and widths.  In each part the inductive invariant says what*)
(* a call relies on between two of its statements, where the handler may   *)
(* run; that of the serial port is in TimerSerialProofs.  OneUserSteps lifts*)
(* what holds of a part's steps to those of the program.                   *)
(***************************************************************************)
EXTENDS TimerA0, TimerSerialProofs, TLAPS

(* What tone and noTone rely on: the channel they work on is the pin's, or *)
(* no longer; a channel that has a pin puts out on it.                     *)
ChannelInv ==
  /\ tone_pins \in [Channels -> TonePins \cup {NoPin}]
  /\ tone_out \in [Channels -> TonePins \cup {NoPin}]
  /\ tone_ie \in SUBSET Channels /\ chan \in Channels
  /\ level \in [TonePins -> {0, 1}]
  /\ \A c \in Channels : tone_pins[c] \in {NoPin, tone_out[c]}
  /\ toneCall \in {"periods", "enable"} => tone_pins[chan] # NoPin
  /\ toneCall \in {"stop", "clear"} =>
       tone_pins[chan] = NoPin /\ tone_out[chan] \in TonePins
  /\ toneCall = "clear" => chan \notin tone_ie

ToneInv == ChannelInv /\ OneTonePerPin /\ SilentPinIsLow

(* No channel has a pin at first.                                          *)
LEMMA ToneInvInit == ToneInit => ToneInv
  BY ToneAssumption DEF ToneInit, ToneInv, ChannelInv, OneTonePerPin,
     SilentPinIsLow, Channels

(* Every statement of tone and noTone, and every run of a handler, keeps   *)
(* the pins apart and leaves no pin high that no one will clear.           *)
LEMMA ToneInvStep == ToneInv /\ [ToneNext]_toneVars => ToneInv'
<1> SUFFICES ASSUME ToneInv, [ToneNext]_toneVars PROVE ToneInv'
  OBVIOUS
<1> USE ToneAssumption DEF ToneInv, ChannelInv, Stopping, ToneStep, channels
<1>1. CASE ToneAgain
  <2>1. PICK p \in TonePins : chan' \in First(Holding(p))
    BY <1>1 DEF ToneAgain
  <2>2. chan' \in Channels /\ tone_pins[chan'] # NoPin
    BY <2>1 DEF First, Holding
  <2>3. toneCall = "idle" /\ toneCall' = "periods"
        /\ UNCHANGED << tone_pins, tone_out, tone_periods, tone_ie, level >>
    BY <1>1 DEF ToneAgain
  <2> QED
    BY <2>2, <2>3 DEF OneTonePerPin, SilentPinIsLow
<1>2. CASE ToneNew
  <2>1. PICK p \in TonePins :
          /\ ~Taken(p) /\ chan' \in First(Holding(NoPin))
          /\ tone_pins' = [tone_pins EXCEPT ![chan'] = p]
          /\ tone_out' = [tone_out EXCEPT ![chan'] = p]
    BY <1>2 DEF ToneNew
  <2>2. /\ toneCall = "idle" /\ toneCall' = "periods"
        /\ UNCHANGED << tone_periods, tone_ie, level >>
    BY <1>2 DEF ToneNew
  <2>3. chan' \in Channels /\ tone_pins[chan'] = NoPin
    BY <2>1 DEF First, Holding
  <2>4. \A c \in Channels : tone_pins[c] # p
    BY <2>1 DEF Taken, Holding
  <2>5. chan' \notin tone_ie
    BY <2>2, <2>3 DEF OneTonePerPin
  <2>6. ChannelInv'
    BY <2>1, <2>2, <2>3
  <2>7. OneTonePerPin'
    BY <2>1, <2>2, <2>3, <2>4, <2>5 DEF OneTonePerPin
  <2>8. SilentPinIsLow'
    BY <2>1, <2>2, <2>3, <2>5 DEF SilentPinIsLow
  <2> QED
    BY <2>6, <2>7, <2>8
<1>3. CASE SetPeriods
  <2>1. /\ toneCall = "periods" /\ toneCall' \in {"idle", "enable"}
        /\ UNCHANGED << tone_pins, tone_out, tone_ie, level, chan >>
    BY <1>3 DEF SetPeriods
  <2> QED
    BY <2>1 DEF OneTonePerPin, SilentPinIsLow
<1>4. CASE SetEnable
  <2>1. /\ toneCall = "enable" /\ toneCall' = "idle"
        /\ tone_ie' = tone_ie \cup {chan}
        /\ UNCHANGED << tone_pins, tone_out, level, chan >>
    BY <1>4 DEF SetEnable
  <2>2. tone_out[chan] = tone_pins[chan] /\ tone_out[chan] \in TonePins
    BY <2>1
  <2> QED
    BY <2>1, <2>2 DEF OneTonePerPin, SilentPinIsLow
<1>5. CASE NoTone
  <2>1. PICK p \in TonePins :
          /\ chan' \in First(Holding(p))
          /\ tone_pins' = [tone_pins EXCEPT ![chan'] = NoPin]
    BY <1>5 DEF NoTone
  <2>2. /\ toneCall = "idle" /\ toneCall' = "stop"
        /\ UNCHANGED << tone_out, tone_ie, level >>
    BY <1>5 DEF NoTone
  <2>3. chan' \in Channels /\ tone_pins[chan'] = p /\ tone_out[chan'] = p
    BY <2>1 DEF First, Holding
  <2>4. ChannelInv'
    BY <2>1, <2>2, <2>3
  <2>5. OneTonePerPin'
    BY <2>1, <2>2, <2>3 DEF OneTonePerPin
  <2>6. SilentPinIsLow'
    BY <2>2 DEF SilentPinIsLow
  <2> QED
    BY <2>4, <2>5, <2>6
<1>6. CASE NoToneStop
  <2>1. /\ toneCall = "stop" /\ toneCall' = "clear"
        /\ tone_ie' = tone_ie \ {chan}
        /\ UNCHANGED << tone_pins, tone_out, level, chan >>
    BY <1>6 DEF NoToneStop
  <2> QED
    BY <2>1 DEF OneTonePerPin, SilentPinIsLow
<1>7. CASE NoToneClear
  <2>1. /\ toneCall = "clear" /\ toneCall' = "idle"
        /\ level' = [level EXCEPT ![tone_out[chan]] = 0]
        /\ UNCHANGED << tone_pins, tone_out, tone_ie, chan >>
    BY <1>7 DEF NoToneClear
  <2> QED
    BY <2>1 DEF OneTonePerPin, SilentPinIsLow
<1>8. CASE ToneIsrs
  <2>1. PICK c \in Channels : ToneIsr(c)
    BY <1>8 DEF ToneIsrs
  <2>2. /\ c \in tone_ie /\ tone_out[c] \in TonePins
        /\ UNCHANGED << tone_pins, tone_out, toneCall, chan >>
    BY <2>1 DEF ToneIsr, OneTonePerPin
  <2>3. CASE tone_periods[c] = 0
    <3>1. /\ tone_ie' = tone_ie \ {c}
          /\ level' = [level EXCEPT ![tone_out[c]] = 0]
      BY <2>1, <2>3 DEF ToneIsr
    <3> QED
      BY <2>2, <3>1 DEF OneTonePerPin, SilentPinIsLow
  <2>4. CASE tone_periods[c] # 0
    <3>1. /\ tone_ie' = tone_ie
          /\ level' = [level EXCEPT ![tone_out[c]] = 1 - @]
      BY <2>1, <2>4 DEF ToneIsr
    <3> QED
      BY <2>2, <3>1 DEF OneTonePerPin, SilentPinIsLow
  <2> QED
    BY <2>3, <2>4
<1>9. CASE UNCHANGED toneVars
  BY <1>9 DEF toneVars, OneTonePerPin, SilentPinIsLow
<1> QED
  BY <1>1, <1>2, <1>3, <1>4, <1>5, <1>6, <1>7, <1>8, <1>9
  DEF ToneNext, ToneRun

(* A step of the program is a step of each of the three, or leaves it be.  *)
LEMMA OneUserSteps ==
  [Next]_vars =>
    [ToneNext]_toneVars /\ [ServoNext]_servoVars /\ [SerialNext]_serialVars
  BY DEF Next, SerialOnly, ToneOnly, ServoOnly, vars

(* However tone, noTone and the handlers interleave, no two tones share a  *)
(* pin, and a pin is left low when its tone ends.                          *)
THEOREM TonesInTune == Spec => []PinsInTune
<1>1. Init => ToneInv
  BY ToneInvInit DEF Init
<1>2. ToneInv => PinsInTune
  BY DEF ToneInv, PinsInTune
<1> QED
  BY <1>1, <1>2, ToneInvStep, OneUserSteps, PTL DEF Spec
-----------------------------------------------------------------------------
(* What attach and detach rely on: without a servo the timer is off, but   *)
(* where detach is about to turn it off.                                   *)
AttachInv ==
  /\ isActive \in SUBSET Servos /\ servo \in Servos
  /\ nbr \in [Servos -> ServoPins] /\ ticks \in [Servos -> Widths]
  /\ counter \in Servos \cup {-1} /\ servo_ie \in BOOLEAN
  /\ servo_ie /\ isActive = {} => servoCall \in {"detach_test", "disable"}
  /\ servoCall = "attach_set" => (timer_active <=> isActive # {})
  /\ servoCall = "enable" => ~servo_ie /\ isActive # {}

(* totalWait is the time from the start of the cycle to the end of the     *)
(* slot: what a write changed in the middle of a pulse does not count.     *)
CycleInv ==
  /\ elapsed \in Nat /\ TA0CCR0 \in Nat /\ totalWait \in Nat
  /\ servo_ie => IF counter = -1 THEN totalWait = 0
                 ELSE elapsed + TA0CCR0 = totalWait

ServoInv == AttachInv /\ OnePulse /\ CycleInv

(* Timer_A starts a pulse or ends the cycle; either way no pin stays high  *)
(* but those that were abandoned and the one it serves now.                *)
LEMMA Timer_AIs ==
  ASSUME AttachInv, UNCHANGED nbr,
         NEW c \in Servos \cup {-1}, NEW t \in Nat, Timer_A(c, t)
  PROVE  /\ counter' \in Servos \cup {-1} /\ totalWait' \in Nat
         /\ TA0CCR0' \in Nat
         /\ high \ stuck \subseteq Served(c) =>
              high' \ stuck' \subseteq Served(counter)'
         /\ counter' = -1 => totalWait' = 0 /\ TA0CCR0' = Waited(t)
         /\ counter' # -1 => totalWait' = t + TA0CCR0'
<1> USE ServoAssumption DEF AttachInv
<1>1. CASE \E s \in Following(c) :
             /\ counter' = s
             /\ high' = (high \ Served(c)) \cup {nbr[s]}
             /\ totalWait' = t + ticks[s] /\ TA0CCR0' = ticks[s]
             /\ stuck' = stuck \ (Served(c) \cup {nbr[s]})
  <2>1. PICK s \in Following(c) :
             /\ counter' = s
             /\ high' = (high \ Served(c)) \cup {nbr[s]}
             /\ totalWait' = t + ticks[s] /\ TA0CCR0' = ticks[s]
             /\ stuck' = stuck \ (Served(c) \cup {nbr[s]})
    BY <1>1
  <2>2. s \in Servos /\ s \in Nat
    BY DEF Following, Servos
  <2>3. ticks[s] \in Nat /\ s # -1
    <3>1. ticks[s] \in Widths /\ Widths \subseteq Nat
      BY <2>2
    <3>2. ticks[s] \in Nat
      BY <3>1, Zenon
    <3> QED
      BY <2>2, <3>2
  <2>4. Served(counter)' = {nbr[s]}
    BY <2>1, <2>2 DEF Served
  <2>5. high \ stuck \subseteq Served(c) =>
          high' \ stuck' \subseteq Served(counter)'
    BY <2>1, <2>4
  <2> QED
    BY <2>1, <2>2, <2>3, <2>5
<1>2. CASE /\ counter' = -1 /\ high' = high \ Served(c)
           /\ totalWait' = 0 /\ TA0CCR0' = Waited(t)
           /\ stuck' = stuck \ Served(c)
  <2>1. Waited(t) \in Nat
    BY DEF Waited
  <2>2. high \ stuck \subseteq Served(c) =>
          high' \ stuck' \subseteq Served(counter)'
    BY <1>2
  <2> QED
    BY <1>2, <2>1, <2>2
<1> QED
  BY <1>1, <1>2 DEF Timer_A

(* The servos start with none attached.                                    *)
LEMMA ServoInvInit == ServoInit => ServoInv
<1> SUFFICES ASSUME ServoInit PROVE ServoInv
  OBVIOUS
<1>1. (CHOOSE w \in Widths : TRUE) \in Widths
      /\ (CHOOSE p \in ServoPins : TRUE) \in ServoPins
  BY ServoAssumption
<1>2. nbr \in [Servos -> ServoPins] /\ ticks \in [Servos -> Widths]
  BY <1>1 DEF ServoInit
<1>3. 0 \in Servos
  BY ServoAssumption DEF Servos
<1>4. /\ isActive = {} /\ counter = 0 /\ totalWait = 0 /\ TA0CCR0 = 0
      /\ servo_ie = FALSE /\ high = {} /\ servoCall = "idle" /\ servo = 0
      /\ elapsed = 0
  BY DEF ServoInit
<1> QED
  BY <1>2, <1>3, <1>4 DEF ServoInv, AttachInv, OnePulse, CycleInv

(* Whatever statement of attach, detach or write the handler meets, it     *)
(* ends the pulse that is on before it starts another.                     *)
LEMMA ServoInvStep == ServoInv /\ [ServoNext]_servoVars => ServoInv'
<1> SUFFICES ASSUME ServoInv, [ServoNext]_servoVars PROVE ServoInv'
  OBVIOUS
<1> USE ServoAssumption DEF ServoInv, ServoStep, servos, timer
<1>1. CASE Attach
  <2>1. PICK s \in Servos, p \in ServoPins :
          /\ servo' = s /\ nbr' = [nbr EXCEPT ![s] = p]
          /\ stuck' = IF servo_ie /\ counter = s /\ nbr[s] # p
                      THEN stuck \cup {nbr[s]} ELSE stuck
    BY <1>1 DEF Attach
  <2>2. /\ servoCall = "idle" /\ servoCall' = "attach_test"
        /\ UNCHANGED << isActive, ticks, timer, high, timer_active, elapsed >>
    BY <1>1 DEF Attach
  <2>3. AttachInv' /\ CycleInv'
    BY <2>1, <2>2 DEF AttachInv, CycleInv
  <2>4. OnePulse'
    BY <2>1, <2>2 DEF AttachInv, OnePulse, Served
  <2> QED
    BY <2>3, <2>4
<1>2. CASE AttachTest
  <2>1. /\ servoCall' = "attach_set" /\ timer_active' = (isActive # {})
        /\ servoCall = "attach_test"
        /\ UNCHANGED << servos, timer, high, servo, elapsed, stuck >>
    BY <1>2 DEF AttachTest
  <2>2. timer_active' <=> isActive' # {}
    BY <2>1
  <2> QED
    BY <2>1, <2>2 DEF AttachInv, CycleInv, OnePulse, Served
<1>9. CASE AttachSet
  BY <1>9 DEF AttachSet, AttachInv, CycleInv, OnePulse, Served
<1>10. CASE DetachTest
  BY <1>10 DEF DetachTest, AttachInv, CycleInv, OnePulse, Served
<1>3. CASE EnableTimer
  <2>1. /\ servoCall = "enable" /\ servoCall' = "idle" /\ Timer_A(-1, 0)
        /\ servo_ie' = TRUE /\ elapsed' = 0
        /\ UNCHANGED << servos, servo, timer_active >>
    BY <1>3 DEF EnableTimer
  <2>2. high \ stuck \subseteq Served(-1)
    BY <2>1 DEF AttachInv, OnePulse, Served
  <2>3. /\ counter' \in Servos \cup {-1} /\ totalWait' \in Nat
        /\ TA0CCR0' \in Nat
        /\ high' \ stuck' \subseteq Served(counter)'
        /\ counter' = -1 => totalWait' = 0
        /\ counter' # -1 => totalWait' = 0 + TA0CCR0'
    BY <2>1, <2>2, Timer_AIs
  <2>4. isActive # {}
    BY <2>1 DEF AttachInv
  <2> QED
    BY <2>1, <2>3 DEF AttachInv, CycleInv, OnePulse
<1>4. CASE Detach
  BY <1>4 DEF Detach, AttachInv, CycleInv, OnePulse, Served
<1>5. CASE DisableTimer
  BY <1>5 DEF DisableTimer, AttachInv, CycleInv, OnePulse
<1>6. CASE WriteMicroseconds
  BY <1>6 DEF WriteMicroseconds, AttachInv, CycleInv, OnePulse, Served
<1>7. CASE ServoIsr
  <2>1. /\ servo_ie /\ Timer_A(counter, totalWait)
        /\ elapsed' = (IF counter = -1 THEN 0 ELSE elapsed + TA0CCR0)
        /\ UNCHANGED << servos, servo_ie, servoCall, servo, timer_active >>
    BY <1>7 DEF ServoIsr
  <2>2. /\ counter' \in Servos \cup {-1} /\ totalWait' \in Nat
        /\ TA0CCR0' \in Nat
        /\ high' \ stuck' \subseteq Served(counter)'
        /\ counter' = -1 => totalWait' = 0
        /\ counter' # -1 => totalWait' = totalWait + TA0CCR0'
    BY <2>1, Timer_AIs DEF AttachInv, CycleInv, OnePulse
  <2>3. elapsed' = totalWait
    BY <2>1 DEF CycleInv
  <2> QED
    BY <2>1, <2>2, <2>3 DEF AttachInv, CycleInv, OnePulse
<1>8. CASE UNCHANGED servoVars
  BY <1>8 DEF servoVars, AttachInv, CycleInv, OnePulse, Served
<1> QED
  BY <1>1, <1>2, <1>3, <1>4, <1>5, <1>6, <1>7, <1>8, <1>9, <1>10
  DEF ServoNext, ServoRun

(* The servos' invariant holds throughout.                                 *)
LEMMA ServoAlways == Spec => []ServoInv
<1>1. Init => ServoInv
  BY ServoInvInit DEF Init
<1> QED
  BY <1>1, ServoInvStep, OneUserSteps, PTL DEF Spec

(* Servo pulses follow one another and never overlap.                      *)
THEOREM PulsesApart == Spec => []OnePulse
  BY ServoAlways, PTL DEF ServoInv

(* The wait that ends a cycle fills the refresh interval, also where write *)
(* changed a width in the middle of its pulse.                             *)
THEOREM CyclesEven == Spec => CycleLength
<1>1. ServoInv => [ServoIsr /\ counter' = -1 =>
         elapsed' + TA0CCR0' =
           IF elapsed' + MIN_WAIT > REFRESH THEN elapsed' + MIN_WAIT
           ELSE REFRESH]_servoVars
  <2> SUFFICES ASSUME ServoInv, ServoIsr, counter' = -1
               PROVE  elapsed' + TA0CCR0' =
                        IF elapsed' + MIN_WAIT > REFRESH
                        THEN elapsed' + MIN_WAIT ELSE REFRESH
    OBVIOUS
  <2>1. TA0CCR0' = Waited(totalWait) /\ UNCHANGED nbr
    BY Timer_AIs DEF ServoInv, AttachInv, CycleInv, ServoIsr, servos
  <2>2. elapsed' = totalWait /\ totalWait \in Nat
    BY DEF ServoInv, CycleInv, ServoIsr
  <2> QED
    BY <2>1, <2>2, ServoAssumption DEF Waited
<1> QED
  BY <1>1, ServoAlways, PTL DEF CycleLength
-----------------------------------------------------------------------------
(* Both directions of the serial port are always in one of their phases.   *)
LEMMA SerialAlways == Spec => []SerialInv
<1>1. Init => SerialInv
  BY SerialInvInit DEF Init
<1> QED
  BY <1>1, SerialInvStep, OneUserSteps, PTL DEF Spec

(* Every byte that write accepted reaches the peer bit for bit, in order,  *)
(* however the calls of the sketch fall between the matches of the timer,  *)
(* but for a byte that end cut short.                                      *)
THEOREM BytesHeardAsWritten == Spec => []HeardAsWritten
<1>1. SerialInv => HeardAsWritten
  BY DEF SerialInv, TransmitterInv
<1> QED
  BY <1>1, SerialAlways, PTL

(* The receive handler stores the byte the peer sent, whatever it finds in *)
(* the ring and wherever in a bit the transmitter's handler runs.          *)
THEOREM BytesStoredAsSent == Spec => StoredAsSent
  BY StoredStep, SerialAlways, OneUserSteps, PTL DEF Spec, StoredAsSent
-----------------------------------------------------------------------------
(* setTimer's count fits int16_t, whatever the product and quotient are.   *)
LEMMA PeriodsFit ==
  ASSUME NEW t \in Tones \cup {<< 0, 0 >>}
  PROVE  Periods(t) \in Int /\ Periods(t) < INT16 \div 2
<1> DEFINE half == INT16 \div 2
<1>1. INT16 \in Nat /\ INT16 > 0 /\ half \in Nat /\ half > 0
      /\ INT16 = 2 * half
  BY ToneAssumption
<1>2. t[1] \in Nat /\ t[2] \in Nat
  <2>1. t \in Nat \X Nat
    BY ToneAssumption
  <2> QED
    BY <2>1
<1>3. ASSUME NEW n \in Int PROVE Int16(n) \in Int /\ Int16(n) < half
  <2>1. n % INT16 \in 0 .. INT16 - 1
    BY <1>1
  <2> HIDE DEF half
  <2>2. Int16(n) = IF n % INT16 < half THEN n % INT16 ELSE (n % INT16) - INT16
    BY DEF Int16, half
  <2> QED
    BY ONLY <1>1, <2>1, <2>2
<1>4. CASE t[1] # 0 /\ t[2] # 0
  <2> DEFINE product == t[2] * (F_TIMER \div 2)
             divisor == MS_PER_S * t[1]
  <2>1. product \in Nat
    <3>1. F_TIMER \div 2 \in Nat
      BY ToneAssumption
    <3> QED
      BY <1>2, <3>1
  <2>2. divisor \in Nat /\ divisor > 0
    <3>1. MS_PER_S \in Nat /\ MS_PER_S > 0
      BY ToneAssumption
    <3> QED
      BY <1>2, <1>4, <3>1
  <2>3. product % ULONG \in Nat
    <3>1. ULONG \in Nat /\ ULONG > 0
      BY ToneAssumption
    <3> HIDE DEF product
    <3> QED
      BY <2>1, <3>1
  <2>4. Quotient(t) = (product % ULONG) \div divisor
    BY DEF Quotient
  <2> HIDE DEF product, divisor
  <2>5. Quotient(t) \in Int
    BY <2>2, <2>3, <2>4
  <2> QED
    BY <1>3, <1>4, <2>5 DEF Periods
<1>5. CASE t[1] = 0 \/ t[2] = 0
  BY <1>1, <1>5 DEF Periods
<1> QED
  BY <1>4, <1>5

(* The tones start in their types.                                         *)
LEMMA ToneTypedInit == ToneInit => ToneTypeOK
<1> SUFFICES ASSUME ToneInit PROVE ToneTypeOK
  OBVIOUS
<1>1. 0 \in Channels
  BY ToneAssumption DEF Channels
<1>2. 0 < INT16 \div 2
  BY ToneAssumption
<1> QED
  BY <1>1, <1>2 DEF ToneInit, ToneTypeOK

(* They keep them: the count is setTimer's, or what a handler left of it.  *)
LEMMA ToneTypedStep ==
  ToneInv /\ ToneTypeOK /\ [ToneNext]_toneVars => ToneTypeOK'
<1> SUFFICES ASSUME ToneInv, ToneTypeOK, [ToneNext]_toneVars PROVE ToneTypeOK'
  OBVIOUS
<1>1. ToneInv'
  BY ToneInvStep
<1>2. /\ tone_pins' \in [Channels -> TonePins \cup {NoPin}]
      /\ tone_out' \in [Channels -> TonePins \cup {NoPin}]
      /\ tone_ie' \in SUBSET Channels /\ level' \in [TonePins -> {0, 1}]
      /\ chan' \in Channels
  BY <1>1 DEF ToneInv, ChannelInv
<1>3. /\ asked \in Tones \cup {<< 0, 0 >>} /\ chan \in Channels
      /\ tone_periods \in [Channels -> Int]
      /\ \A c \in Channels : tone_periods[c] < INT16 \div 2
      /\ toneCall \in {"idle", "periods", "enable", "stop", "clear"}
  BY DEF ToneTypeOK
<1>4. /\ asked' \in Tones \cup {<< 0, 0 >>}
      /\ toneCall' \in {"idle", "periods", "enable", "stop", "clear"}
  BY <1>3 DEF ToneNext, ToneRun, ToneIsrs, ToneAgain, ToneNew, NoTone,
     SetPeriods, SetEnable, NoToneStop, NoToneClear, ToneIsr, ToneStep,
     toneVars
<1>5. /\ tone_periods' \in [Channels -> Int]
      /\ \A c \in Channels : tone_periods'[c] < INT16 \div 2
  <2>1. CASE SetPeriods
    <3>1. Periods(asked) \in Int /\ Periods(asked) < INT16 \div 2
      BY <1>3, PeriodsFit
    <3>2. tone_periods' = [tone_periods EXCEPT ![chan] = Periods(asked)]
      BY <2>1 DEF SetPeriods
    <3> QED
      BY <1>3, <3>1, <3>2
  <2>2. CASE ToneIsrs
    <3>1. PICK c \in Channels : ToneIsr(c)
      BY <2>2 DEF ToneIsrs
    <3>2. tone_periods' =
            [tone_periods EXCEPT ![c] = IF @ > 0 THEN @ - 1 ELSE @]
      BY <3>1 DEF ToneIsr
    <3>3. INT16 \div 2 \in Int
      BY ToneAssumption
    <3> QED
      BY <1>3, <3>2, <3>3
  <2>3. CASE UNCHANGED tone_periods
    BY <1>3, <2>3
  <2> QED
    BY <2>1, <2>2, <2>3 DEF ToneNext, ToneRun, ToneAgain, ToneNew, NoTone,
       SetEnable, NoToneStop, NoToneClear, toneVars, channels
<1> QED
  BY <1>2, <1>4, <1>5 DEF ToneTypeOK
-----------------------------------------------------------------------------
(* The longest pulse with which all servos fit the refresh interval.       *)
Share == REFRESH \div ServoCount

(* That is a number that all widths fit, and that fits the interval.       *)
LEMMA Shares ==
  /\ Share \in Nat /\ Share * ServoCount <= REFRESH
  /\ \A w \in Widths : w \in Nat /\ w <= Share
<1>1. REFRESH \in Nat /\ ServoCount \in Nat /\ ServoCount > 0
  BY ServoAssumption
<1>2. Share \in Nat /\ Share * ServoCount <= REFRESH
      /\ REFRESH < (Share + 1) * ServoCount
  BY ONLY <1>1, SMTT(60) DEF Share
<1>3. ASSUME NEW w \in Widths PROVE w \in Nat /\ w <= Share
  <2>1. w \in Nat /\ w * ServoCount <= REFRESH
    BY ServoAssumption
  <2>2. SUFFICES ASSUME w >= Share + 1 PROVE FALSE
    BY <1>2, <2>1
  <2>3. (Share + 1) * ServoCount <= w * ServoCount
    BY ONLY <1>1, <1>2, <2>1, <2>2, SMTT(60)
  <2>4. (Share + 1) * ServoCount \in Int /\ w * ServoCount \in Int
    BY <1>1, <1>2, <2>1
  <2> QED
    BY ONLY <1>1, <1>2, <2>1, <2>3, <2>4
<1> QED
  BY <1>2, <1>3

(* The pulses up to the servo being served are within their shares.        *)
SharedInv ==
  /\ totalWait \in Nat
  /\ totalWait <= Share * (counter + 1)
  /\ high \in SUBSET ServoPins /\ stuck \in SUBSET ServoPins
  /\ timer_active \in BOOLEAN
  /\ servoCall \in { "idle", "attach_test", "attach_set", "enable",
                     "detach_test", "disable" }

(* Timer_A adds a share for a servo that comes after the one it ended.     *)
LEMMA SharedTimer_A ==
  ASSUME AttachInv, SharedInv, UNCHANGED nbr,
         NEW c \in Servos \cup {-1}, NEW t \in Nat, t <= Share * (c + 1),
         Timer_A(c, t)
  PROVE  /\ totalWait' \in Nat /\ totalWait' <= Share * (counter' + 1)
         /\ high' \in SUBSET ServoPins /\ stuck' \in SUBSET ServoPins
<1>1. high' \in SUBSET ServoPins /\ stuck' \in SUBSET ServoPins
  BY DEF Timer_A, Following, AttachInv, SharedInv
<1>2. CASE counter' = -1 /\ totalWait' = 0
  <2>1. Share * (-1 + 1) = 0
    BY Shares
  <2> QED
    BY <1>1, <1>2, <2>1
<1>3. CASE \E s \in Following(c) : counter' = s /\ totalWait' = t + ticks[s]
  <2>1. PICK s \in Following(c) : counter' = s /\ totalWait' = t + ticks[s]
    BY <1>3
  <2>2. s \in Servos /\ s > c /\ ticks[s] \in Widths
    BY DEF Following, AttachInv
  <2>3. ticks[s] \in Nat /\ ticks[s] <= Share /\ Share \in Nat
    BY <2>2, Shares
  <2>4. PICK d \in Nat : s = c + 1 + d
    <3>1. s \in Int /\ c \in Int
      BY <2>2, ServoAssumption DEF Servos
    <3>2. s - (c + 1) \in Nat /\ s = c + 1 + (s - (c + 1))
      BY <2>2, <3>1
    <3> QED
      BY <3>2
  <2>5. c + 1 \in Nat
    BY ServoAssumption DEF Servos
  <2> DEFINE n == c + 1
  <2>6. Share * (n + d + 1) = Share * n + Share * d + Share
        /\ Share * n \in Nat /\ Share * d \in Nat
    <3>1. n \in Nat
      BY <2>5
    <3> HIDE DEF n
    <3> QED
      BY ONLY <2>3, <3>1, d \in Nat
  <2>7. t + ticks[s] <= Share * (n + d + 1)
    BY ONLY <2>3, <2>6, t \in Nat, t <= Share * n
  <2> QED
    BY <1>1, <2>1, <2>3, <2>4, <2>7
<1> QED
  BY <1>2, <1>3 DEF Timer_A

(* The first cycle has no pulse yet.                                       *)
LEMMA SharedInit == ServoInit => SharedInv
<1> SUFFICES ASSUME ServoInit PROVE SharedInv
  OBVIOUS
<1>1. 0 <= Share * (0 + 1)
  BY Shares
<1> QED
  BY <1>1 DEF ServoInit, SharedInv

(* write changes a width only for the pulses to come, and keeps to shares. *)
LEMMA SharedStep ==
  ServoInv /\ SharedInv /\ [ServoNext]_servoVars => SharedInv'
<1> SUFFICES ASSUME ServoInv, SharedInv, [ServoNext]_servoVars
             PROVE  SharedInv'
  OBVIOUS
<1> USE DEF ServoStep
<1>0. AttachInv
  BY DEF ServoInv
<1>1. CASE Attach
  BY <1>0, <1>1 DEF Attach, SharedInv, AttachInv, timer
<1>2. CASE AttachTest
  <2>1. timer_active' \in BOOLEAN
    BY <1>2 DEF AttachTest
  <2> QED
    BY <1>2, <2>1 DEF AttachTest, SharedInv, timer
<1>3. CASE AttachSet
  BY <1>3 DEF AttachSet, SharedInv, timer
<1>4. CASE EnableTimer
  <2>1. /\ Timer_A(-1, 0) /\ UNCHANGED << nbr, timer_active >>
        /\ servoCall' = "idle"
    BY <1>4 DEF EnableTimer, servos
  <2>2. 0 <= Share * (-1 + 1)
    BY Shares
  <2>3. /\ totalWait' \in Nat /\ totalWait' <= Share * (counter' + 1)
        /\ high' \in SUBSET ServoPins /\ stuck' \in SUBSET ServoPins
    BY <1>0, <2>1, <2>2, SharedTimer_A
  <2> QED
    BY <2>1, <2>3 DEF SharedInv
<1>5. CASE Detach
  BY <1>5 DEF Detach, SharedInv, timer
<1>6. CASE DetachTest
  BY <1>6 DEF DetachTest, SharedInv, timer
<1>7. CASE DisableTimer
  BY <1>7 DEF DisableTimer, SharedInv
<1>8. CASE WriteMicroseconds
  BY <1>8 DEF WriteMicroseconds, SharedInv, timer
<1>9. CASE ServoIsr
  <2>1. /\ Timer_A(counter, totalWait)
        /\ UNCHANGED << nbr, servoCall, timer_active >>
    BY <1>9 DEF ServoIsr, servos
  <2>2. counter \in Servos \cup {-1} /\ totalWait \in Nat
        /\ totalWait <= Share * (counter + 1)
    BY <1>0 DEF AttachInv, SharedInv
  <2>3. /\ totalWait' \in Nat /\ totalWait' <= Share * (counter' + 1)
        /\ high' \in SUBSET ServoPins /\ stuck' \in SUBSET ServoPins
    BY <1>0, <2>1, <2>2, SharedTimer_A
  <2> QED
    BY <2>1, <2>3 DEF SharedInv
<1>10. CASE UNCHANGED servoVars
  BY <1>10 DEF servoVars, SharedInv, timer
<1> QED
  BY <1>1, <1>2, <1>3, <1>4, <1>5, <1>6, <1>7, <1>8, <1>9, <1>10
  DEF ServoNext, ServoRun

(* With that the pulses of a cycle fit the refresh interval.               *)
LEMMA ServoTyped == ServoInv /\ SharedInv => ServoTypeOK
<1> SUFFICES ASSUME ServoInv, SharedInv PROVE ServoTypeOK
  OBVIOUS
<1>1. AttachInv /\ CycleInv
  BY DEF ServoInv
<1>2. counter + 1 \in Nat /\ counter + 1 <= ServoCount /\ ServoCount \in Nat
  BY <1>1, ServoAssumption DEF AttachInv, Servos
<1> DEFINE n == counter + 1
<1>3. totalWait <= REFRESH
  <2>1. PICK d \in Nat : ServoCount = n + d
    <3>1. ServoCount - n \in Nat /\ ServoCount = n + (ServoCount - n)
      BY <1>2
    <3> QED
      BY <3>1
  <2>2. n \in Nat /\ Share \in Nat /\ Share * ServoCount <= REFRESH
        /\ REFRESH \in Nat /\ totalWait \in Nat /\ totalWait <= Share * n
    BY <1>2, Shares, ServoAssumption DEF SharedInv
  <2> HIDE DEF n
  <2>3. Share * (n + d) = Share * n + Share * d
        /\ Share * n \in Nat /\ Share * d \in Nat
    BY ONLY <2>2, d \in Nat
  <2> QED
    BY ONLY <2>1, <2>2, <2>3
<1> QED
  BY <1>1, <1>3, ServoAssumption
  DEF ServoTypeOK, AttachInv, CycleInv, SharedInv

(* No user of the timer ever leaves its types: the rings and the bytes of  *)
(* the serial port, the channels and counts of the tones, the servos' pins *)
(* and the pulses of a cycle, which fit the refresh interval.              *)
THEOREM TimerA0TypeCorrect == Spec => []TypeOK
<1>1. Init => SerialInv /\ (ToneInv /\ ToneTypeOK) /\ (ServoInv /\ SharedInv)
  BY SerialInvInit, ToneInvInit, ToneTypedInit, ServoInvInit, SharedInit
  DEF Init
<1>2. /\ SerialInv /\ (ToneInv /\ ToneTypeOK) /\ (ServoInv /\ SharedInv)
      /\ [Next]_vars
      => (SerialInv /\ (ToneInv /\ ToneTypeOK) /\ (ServoInv /\ SharedInv))'
  BY OneUserSteps, SerialInvStep, ToneInvStep, ToneTypedStep, ServoInvStep,
     SharedStep
<1>3. SerialInv /\ (ToneInv /\ ToneTypeOK) /\ (ServoInv /\ SharedInv) => TypeOK
  BY SerialTyped, ServoTyped DEF TypeOK
<1> QED
  BY <1>1, <1>2, <1>3, PTL DEF Spec
=============================================================================
