------------------------------ MODULE TimerA0 ------------------------------
(***************************************************************************)
(* The users of Timer A0, one in place of the other.  Each of TimerSerial  *)
(* (line 209), Tone (206) and Servo (86) defines the handler of its vector *)
(* TIMER0_A0, so a program is linked with at most one of them: owner.      *)
(***************************************************************************)
EXTENDS TimerSerial, Tone, Servo

VARIABLE owner

vars == << owner, serialVars, toneVars, servoVars >>

Init ==
  /\ owner \in {"serial", "tone", "servo"}
  /\ SerialInit /\ ToneInit /\ ServoInit

SerialOnly(A) ==
  owner = "serial" /\ A /\ UNCHANGED << owner, toneVars, servoVars >>

ToneOnly(A) ==
  owner = "tone" /\ A /\ UNCHANGED << owner, serialVars, servoVars >>

ServoOnly(A) ==
  owner = "servo" /\ A /\ UNCHANGED << owner, serialVars, toneVars >>

Next == SerialOnly(SerialNext) \/ ToneOnly(ToneNext) \/ ServoOnly(ServoNext)

(* The CPU runs what it is in, the timer counts on, and its handlers run.  *)
Fairness ==
  /\ WF_vars(SerialOnly(SerialRun))
  /\ WF_vars(ToneOnly(ToneRun))
  /\ \A c \in Channels : WF_vars(ToneOnly(ToneIsr(c)))
  /\ WF_vars(ServoOnly(ServoRun)) /\ WF_vars(ServoOnly(ServoIsr))

Spec == Init /\ [][Next]_vars /\ Fairness
-----------------------------------------------------------------------------
(* Type invariant of the three users of the timer.                         *)
TypeOK == SerialTypeOK /\ ToneTypeOK /\ ServoTypeOK
=============================================================================
