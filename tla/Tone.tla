-------------------------------- MODULE Tone -------------------------------
(***************************************************************************)
(* Square waves on the channels of Timer A0: tone, noTone and the handlers *)
(* of Tone.cpp.  The sketch runs, per step, one statement that a handler   *)
(* may come before; a handler runs whole, at any match of a channel whose  *)
(* interrupt is enabled.                                                   *)
(***************************************************************************)
EXTENDS Integers

CONSTANTS
  AVAILABLE_TONE_PINS,  \* channels: 2, or 3 where Timer A0 has a third
  TonePins, NoPin,      \* the pins of the sketch; 255, which marks none
  F_TIMER, MS_PER_S,    \* timer ticks in a second, milliseconds in it
  ULONG, INT16,         \* values of unsigned long and of int16_t
  Tones                 \* the << interval, duration >> the sketch asks for

Channels == 0 .. AVAILABLE_TONE_PINS - 1

(* An interval of 0 stands for a frequency of 0, which the sketch may ask; *)
(* a frequency above F_TIMER / 2 would divide by zero.                     *)
ASSUME ToneAssumption ==
  /\ AVAILABLE_TONE_PINS \in Nat \ {0} /\ NoPin \notin TonePins
  /\ F_TIMER \in Nat /\ MS_PER_S \in Nat \ {0}
  /\ ULONG \in Nat \ {0} /\ INT16 \in Nat \ {0} /\ INT16 % 2 = 0
  /\ Tones \subseteq Nat \X Nat

VARIABLES
  tone_pins,      \* the pin of each channel
  tone_out,       \* the pin whose output bit its handler turns round
  tone_periods,   \* matches left before the last, negative for ever
  tone_ie,        \* the channels whose interrupt is enabled
  level,          \* the output bit of each pin
  toneCall, chan, asked  \* what the sketch does next, its channel and tone

channels == << tone_pins, tone_out, tone_periods, tone_ie >>

toneVars == << channels, level, toneCall, chan, asked >>

ToneInit ==
  /\ tone_pins = [c \in Channels |-> NoPin]
  /\ tone_out = [c \in Channels |-> NoPin]
  /\ tone_periods = [c \in Channels |-> 0] /\ tone_ie = {}
  /\ level = [p \in TonePins |-> 0]
  /\ toneCall = "idle" /\ chan = 0 /\ asked = << 0, 0 >>

ToneStep(from, to) == toneCall = from /\ toneCall' = to

First(S) == {c \in S : \A d \in S : c <= d}

Holding(p) == {c \in Channels : tone_pins[c] = p}

(* tone reprograms the channel that has the pin, or takes the first free   *)
(* one; if there is neither it does nothing.                               *)
ToneAgain ==
  \E p \in TonePins, t \in Tones :
    /\ ToneStep("idle", "periods")
    /\ chan' \in First(Holding(p)) /\ asked' = t
    /\ UNCHANGED << channels, level >>

BugTaken(p) == FALSE

Taken(p) == Holding(p) # {}

ToneNew ==
  \E p \in TonePins, t \in Tones :
    /\ ToneStep("idle", "periods")
    /\ ~Taken(p)
    /\ chan' \in First(Holding(NoPin)) /\ asked' = t
    /\ tone_pins' = [tone_pins EXCEPT ![chan'] = p]
    /\ tone_out' = [tone_out EXCEPT ![chan'] = p]
    /\ UNCHANGED << tone_periods, tone_ie, level >>

(* setTimer: the product wraps as an unsigned long, the quotient as an     *)
(* int16_t; no duration means for ever.                                    *)
Int16(n) == IF n % INT16 < INT16 \div 2 THEN n % INT16 ELSE (n % INT16) - INT16

Quotient(t) == ((t[2] * (F_TIMER \div 2)) % ULONG) \div (MS_PER_S * t[1])

Periods(t) ==
  IF t[1] = 0 THEN 0 ELSE IF t[2] = 0 THEN -1 ELSE Int16(Quotient(t))

SetPeriods ==
  /\ ToneStep("periods", IF asked[1] = 0 THEN "idle" ELSE "enable")
  /\ tone_periods' = [tone_periods EXCEPT ![chan] = Periods(asked)]
  /\ asked' = << 0, 0 >>
  /\ UNCHANGED << tone_pins, tone_out, tone_ie, level, chan >>

SetEnable ==
  /\ ToneStep("enable", "idle")
  /\ tone_ie' = tone_ie \cup {chan}
  /\ UNCHANGED << tone_pins, tone_out, tone_periods, level, chan, asked >>

(* noTone frees the channel, then stops it and clears the pin.             *)
NoTone ==
  \E p \in TonePins :
    /\ ToneStep("idle", "stop")
    /\ chan' \in First(Holding(p))
    /\ tone_pins' = [tone_pins EXCEPT ![chan'] = NoPin]
    /\ UNCHANGED << tone_out, tone_periods, tone_ie, level, asked >>

BugNoToneStop ==
  /\ ToneStep("stop", "clear")
  /\ UNCHANGED << channels, level, chan, asked >>

NoToneStop ==
  /\ ToneStep("stop", "clear")
  /\ tone_ie' = tone_ie \ {chan}
  /\ UNCHANGED << tone_pins, tone_out, tone_periods, level, chan, asked >>

NoToneClear ==
  /\ ToneStep("clear", "idle")
  /\ level' = [level EXCEPT ![tone_out[chan]] = 0]
  /\ UNCHANGED << channels, chan, asked >>

(* isrTimer: the output is turned round, then the count is looked at.      *)
BugToneIsr(c) ==
  /\ c \in tone_ie
  /\ tone_ie' = IF tone_periods[c] = 1 THEN tone_ie \ {c} ELSE tone_ie
  /\ tone_periods' = [tone_periods EXCEPT ![c] = IF @ > 0 THEN @ - 1 ELSE @]
  /\ level' = [level EXCEPT ![tone_out[c]] =
                 IF tone_periods[c] = 1 THEN 0 ELSE 1 - @]
  /\ UNCHANGED << tone_pins, tone_out, toneCall, chan, asked >>

ToneIsr(c) ==
  /\ c \in tone_ie
  /\ tone_ie' = IF tone_periods[c] = 0 THEN tone_ie \ {c} ELSE tone_ie
  /\ tone_periods' = [tone_periods EXCEPT ![c] = IF @ > 0 THEN @ - 1 ELSE @]
  /\ level' = [level EXCEPT ![tone_out[c]] =
                 IF tone_periods[c] = 0 THEN 0 ELSE 1 - @]
  /\ UNCHANGED << tone_pins, tone_out, toneCall, chan, asked >>

ToneRun == SetPeriods \/ SetEnable \/ NoToneStop \/ NoToneClear

ToneIsrs == \E c \in Channels : ToneIsr(c)

ToneNext == ToneAgain \/ ToneNew \/ NoTone \/ ToneRun \/ ToneIsrs

ToneSpec == ToneInit /\ [][ToneNext]_toneVars
-----------------------------------------------------------------------------
(* Type invariant of the tone channels.                                    *)
ToneTypeOK ==
  /\ tone_pins \in [Channels -> TonePins \cup {NoPin}]
  /\ tone_out \in [Channels -> TonePins \cup {NoPin}]
  /\ tone_periods \in [Channels -> Int] /\ tone_ie \in SUBSET Channels
  /\ \A c \in Channels : tone_periods[c] < INT16 \div 2
  /\ level \in [TonePins -> {0, 1}]
  /\ toneCall \in {"idle", "periods", "enable", "stop", "clear"}
  /\ chan \in Channels /\ asked \in Tones \cup {<< 0, 0 >>}

(* The channel noTone has freed but not yet stopped.                       *)
Stopping(c) == toneCall \in {"stop", "clear"} /\ chan = c

(* No pin has two channels, whose handlers would turn it round for two     *)
(* tones; a channel that runs is one of a pin's, or noTone is stopping it. *)
OneTonePerPin ==
  /\ \A c, d \in Channels :
       tone_pins[c] = tone_pins[d] /\ c # d => tone_pins[c] = NoPin
  /\ \A c \in tone_ie :
       /\ tone_out[c] \in TonePins
       /\ tone_pins[c] = tone_out[c] \/ Stopping(c)

(* A pin is high only while a channel that runs, or that noTone is about   *)
(* to clear, has it.                                                       *)
SilentPinIsLow ==
  \A p \in TonePins :
    level[p] = 1 => \E c \in Channels :
                      tone_out[c] = p /\ (c \in tone_ie \/ Stopping(c))

(* However tone, noTone and the handlers interleave, no two tones share a  *)
(* pin, and a pin is left low when its tone ends.                          *)
PinsInTune == OneTonePerPin /\ SilentPinIsLow

(* A tone with a duration falls silent, unless the sketch calls again: the *)
(* two steps of setTimer never leave a running channel without its count.  *)
(* A count that does not fit int16_t is negative, and the tone is for ever.*)
ToneEnds ==
  \A c \in Channels :
    toneCall = "idle" /\ c \in tone_ie /\ tone_periods[c] >= 0
      ~> c \notin tone_ie \/ toneCall # "idle"
=============================================================================
