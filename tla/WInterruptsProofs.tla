------------------------- MODULE WInterruptsProofs -------------------------
(***************************************************************************)
(* Pin interrupts, for every number of pins and of changes, where a pin is *)
(* detached before it is attached again: no function is called without a   *)
(* change in its pin's mode (NoSpuriousCall), and a pin in mode CHANGE is  *)
(* armed for its next change (ChangeArmed).                                *)
(*                                                                         *)
(* The argument has three parts, each inductive with those before it:      *)
(*  - ModeInv: the tables agree with the mode a pin was attached in, also  *)
(*    in the middle of attachInterrupt and detachInterrupt;                *)
(*  - OwedInv: a set flag stands for a change that has had no call, and for*)
(*    two where the pin is back at the level its edge starts from, so that *)
(*    a flag the handler leaves set still stands for one;                  *)
(*  - ArmedInv: where no flag is set, the edge starts from the pin's level.*)
(***************************************************************************)
EXTENDS WInterrupts, TLAPS

(* The handler is between the call of p's function and the end of its turn.*)
Processing(p) == isr \in {"called", "compare", "load", "store"} /\ i = p

(* p has a function, or attachInterrupt is about to store it.              *)
Attached(p) == p \in intFuncP1 \/ (pc = "attach_func" /\ pin = p)

ModeInv ==
  /\ \A p \in Pins : Attached(p) =>
       /\ asked[p] = CHANGE <=> p \in intChangeVectP1
       /\ asked[p] # CHANGE => P1IES[p] = asked[p]
  /\ \A p \in intChangeVectP1 :
       \/ p \in intFuncP1
       \/ pin = p /\ pc \in { "attach_load", "attach_store", "attach_func",
                               "detach_change" }
  /\ pc \in { "attach_ies", "attach_load", "attach_store", "attach_func",
              "detach_change" } => pin \notin intFuncP1
  /\ pc \in { "attach_load", "attach_store" } =>
       /\ mode = CHANGE <=> pin \in intChangeVectP1
       /\ mode # CHANGE => P1IES[pin] = mode
  /\ isr \in { "called", "compare", "load", "store" } => i \in intFuncP1
  /\ isr = "compare" => i \in intChangeVectP1
  /\ isr = "load" /\ ~clears => i \in intChangeVectP1

(* What a flag of p stands for.                                            *)
Owes(p) ==
  /\ owed[p] >= 1
  /\ p \in intChangeVectP1 /\ P1IN[p] = P1IES[p] => owed[p] >= 2

OwedInv ==
  /\ \A p \in Pins : owed[p] >= 0
  /\ \A p \in Pins : Attached(p) /\ p \in P1IFG /\ ~Processing(p) => Owes(p)
  /\ isr = "store" \/ pc = "attach_store" =>
       \A p \in Pins : Attached(p) /\ p \in flags => Owes(p)
  /\ pc = "attach_store" => pin \notin flags
  /\ isr = "called" /\ i \in intChangeVectP1 /\ P1IN[i] = P1IES[i] => owed[i] >= 1
  /\ isr = "compare" /\ P1IN[i] # P1IES[i] => owed[i] >= 1
  /\ isr = "load" /\ ~clears => Owes(i)

(* p is in mode CHANGE, and no change of it came while P1IFG was rewritten.*)
Tracked(p) == p \in intChangeVectP1 \ missed

ArmedInv ==
  /\ \A p \in Pins :
       Tracked(p) /\ p \notin P1IFG /\ ~Processing(p) => P1IES[p] = P1IN[p]
  /\ pc \in { "attach_load", "attach_store" } /\ Tracked(pin) =>
       P1IES[pin] = P1IN[pin]
  /\ isr = "store" \/ pc = "attach_store" =>
       \A p \in Pins : Tracked(p) /\ p \notin flags => P1IES[p] = P1IN[p]
  /\ isr \in { "called", "compare", "load" } => i \in P1IFG
  /\ isr = "load" /\ clears /\ Tracked(i) => P1IES[i] = P1IN[i]

-----------------------------------------------------------------------------
(* Type correctness, which needs no assumption on how pins are attached.   *)
LEMMA TypeInit == Init => TypeOK
<1> SUFFICES ASSUME Init PROVE TypeOK
  OBVIOUS
<1>1. 0 \in Pins /\ 0 \in 0 .. NumPins /\ 0 \in 0 .. MaxEdges /\ RISING = 0
  BY PortAssumption DEF Pins, RISING
<1>2. /\ P1IN \in [Pins -> {0, 1}] /\ P1IES \in [Pins -> {0, 1}]
      /\ asked \in [Pins -> {RISING} \cup Modes]
      /\ owed \in [Pins -> Int]
  BY DEF Init
<1> QED BY <1>1, <1>2 DEF Init, TypeOK, Attaching

(* Every statement and every change of a pin keeps the types.              *)
LEMMA TypeStep ==
  ASSUME TypeOK, [Next]_vars PROVE TypeOK'
<1> USE PortAssumption
      DEF registers, table, sketch, handler, history, TypeOK, Attaching, Pins,
          RISING
<1>1. CASE AttachCall
  BY <1>1 DEF AttachCall, Step
<1>2. CASE AttachIes
  <2>1. (IF mode = CHANGE THEN P1IN[pin] ELSE mode) \in {0, 1}
    BY DEF FALLING, CHANGE
  <2>2. P1IES' \in [Pins -> {0, 1}]
    BY <1>2, <2>1 DEF AttachIes
  <2> QED BY <1>2, <2>2 DEF AttachIes, Step
<1>3. CASE AttachLoadIfg
  BY <1>3 DEF AttachLoadIfg, Step
<1>4. CASE AttachStoreIfg
  BY <1>4 DEF AttachStoreIfg, Step
<1>5. CASE AttachFunc
  BY <1>5 DEF AttachFunc, Step
<1>6. CASE AttachIe
  BY <1>6 DEF AttachIe, Step
<1>7. CASE DetachCall
  BY <1>7 DEF DetachCall, Step
<1>8. CASE DetachFunc
  BY <1>8 DEF DetachFunc, Step
<1>9. CASE DetachChange
  BY <1>9 DEF DetachChange, Step
<1>10. CASE NoInterrupts
  BY <1>10 DEF NoInterrupts, Step
<1>11. CASE Interrupts
  BY <1>11 DEF Interrupts, Step
<1>12. CASE IsrEnter
  BY <1>12 DEF IsrEnter, IsrStep, Enabled
<1>13. CASE IsrSkip
  BY <1>13 DEF IsrSkip, IsrStep
<1>14. CASE IsrCall
  BY <1>14 DEF IsrCall, IsrStep
<1>15. CASE IsrToggle
  <2>1. i \in Pins
    BY <1>15 DEF IsrToggle
  <2>2. P1IES[i] \in {0, 1}
    BY <2>1
  <2>3. 1 - P1IES[i] \in {0, 1}
    BY <2>2
  <2>4. P1IES' \in [Pins -> {0, 1}]
    BY <1>15, <2>3 DEF IsrToggle
  <2> QED BY <1>15, <2>4 DEF IsrToggle, IsrStep
<1>16. CASE IsrCompare
  BY <1>16 DEF IsrCompare, IsrStep
<1>17. CASE IsrPlain
  BY <1>17 DEF IsrPlain, IsrStep
<1>18. CASE IsrLoad
  BY <1>18 DEF IsrLoad, IsrStep, Kept
<1>19. CASE IsrStore
  BY <1>19 DEF IsrStore, IsrStep
<1>20. CASE IsrReturn
  <2>1. 0 \in 0 .. NumPins /\ {} \in SUBSET Pins
    OBVIOUS
  <2> QED BY <1>20, <2>1 DEF IsrReturn, IsrStep
<1>21. ASSUME NEW p \in Pins, Edge(p) PROVE TypeOK'
  <2>1. 1 - P1IN[p] \in {0, 1}
    OBVIOUS
  <2>2. P1IN' \in [Pins -> {0, 1}]
    BY <1>21, <2>1 DEF Edge
  <2>3. owed' \in [Pins -> Int]
    BY <1>21 DEF Edge
  <2>4. P1IFG' \in SUBSET Pins /\ missed' \in SUBSET Pins
    BY <1>21 DEF Edge
  <2>5. edges' \in 0 .. MaxEdges
    BY <1>21 DEF Edge
  <2> QED BY <1>21, <2>2, <2>3, <2>4, <2>5 DEF Edge
<1>22. CASE UNCHANGED vars
  BY <1>22 DEF vars
<1> QED BY <1>1, <1>2, <1>3, <1>4, <1>5, <1>6, <1>7, <1>8, <1>9, <1>10, <1>11,
           <1>12, <1>13, <1>14, <1>15, <1>16, <1>17, <1>18, <1>19, <1>20,
           <1>21, <1>22
        DEF Next, Attach, Detach, Isr

-----------------------------------------------------------------------------
(* The tables and the mode.  Every later lemma rests on this one, and this *)
(* one on the pin's being free when attachInterrupt is called.             *)
LEMMA ModeInit == Init => ModeInv
  BY DEF Init, ModeInv, Attached

(* No step makes the tables disagree with the mode asked for, as long as   *)
(* attachInterrupt finds its pin free.                                     *)
LEMMA ModeStep ==
  ASSUME TypeOK, ModeInv, ~Reattach, [Next]_vars PROVE ModeInv'
<1> USE PortAssumption
      DEF registers, table, sketch, handler, history, TypeOK, Attaching,
          ModeInv, Attached
<1>1. CASE AttachCall
  BY <1>1 DEF AttachCall, Step
<1>2. CASE AttachIes
  BY <1>2 DEF AttachIes, Step
<1>3. CASE AttachLoadIfg
  BY <1>3 DEF AttachLoadIfg, Step
<1>4. CASE AttachStoreIfg
  BY <1>4 DEF AttachStoreIfg, Step
<1>5. CASE AttachFunc
  BY <1>5 DEF AttachFunc, Step
<1>6. CASE AttachIe
  BY <1>6 DEF AttachIe, Step
<1>7. CASE DetachCall
  BY <1>7 DEF DetachCall, Step
<1>8. CASE DetachFunc
  BY <1>8 DEF DetachFunc, Step
<1>9. CASE DetachChange
  BY <1>9 DEF DetachChange, Step
<1>10. CASE NoInterrupts
  BY <1>10 DEF NoInterrupts, Step
<1>11. CASE Interrupts
  BY <1>11 DEF Interrupts, Step
<1>12. CASE IsrEnter
  BY <1>12 DEF IsrEnter, IsrStep, Enabled
<1>13. CASE IsrSkip
  BY <1>13 DEF IsrSkip, IsrStep
<1>14. CASE IsrCall
  BY <1>14 DEF IsrCall, IsrStep
<1>15. CASE IsrToggle
  BY <1>15 DEF IsrToggle, IsrStep
<1>16. CASE IsrCompare
  BY <1>16 DEF IsrCompare, IsrStep
<1>17. CASE IsrPlain
  BY <1>17 DEF IsrPlain, IsrStep
<1>18. CASE IsrLoad
  BY <1>18 DEF IsrLoad, IsrStep, Kept
<1>19. CASE IsrStore
  BY <1>19 DEF IsrStore, IsrStep
<1>20. CASE IsrReturn
  BY <1>20 DEF IsrReturn, IsrStep
<1>21. ASSUME NEW p \in Pins, Edge(p) PROVE ModeInv'
  BY <1>21 DEF Edge, Matches, Overlooked
<1>22. CASE UNCHANGED vars
  BY <1>22 DEF vars
<1> QED BY <1>1, <1>2, <1>3, <1>4, <1>5, <1>6, <1>7, <1>8, <1>9, <1>10, <1>11,
           <1>12, <1>13, <1>14, <1>15, <1>16, <1>17, <1>18, <1>19, <1>20,
           <1>21, <1>22
        DEF Next, Attach, Detach, Isr

-----------------------------------------------------------------------------
(* What a flag stands for.  The steps that matter are Edge, which sets a   *)
(* flag and adds to what is owed, IsrCall, which takes one off, and        *)
(* IsrToggle and IsrCompare, which decide whether the flag stays.          *)
LEMMA OwedInit == Init => OwedInv
  BY DEF Init, OwedInv, Attached, Processing

(* No step leaves a flag that no change stands for.                        *)
LEMMA OwedStep ==
  ASSUME TypeOK, ModeInv, OwedInv, ~Reattach, [Next]_vars PROVE OwedInv'
<1> USE PortAssumption
      DEF registers, table, sketch, handler, history, TypeOK, Attaching,
          ModeInv, Attached, OwedInv, Owes, Processing, RISING, CHANGE, FALLING
<1>1. CASE AttachCall
  BY <1>1 DEF AttachCall, Step
<1>2. CASE AttachIes
  BY <1>2 DEF AttachIes, Step
<1>3. CASE AttachLoadIfg
  BY <1>3 DEF AttachLoadIfg, Step
<1>4. CASE AttachStoreIfg
  BY <1>4 DEF AttachStoreIfg, Step
<1>5. CASE AttachFunc
  BY <1>5 DEF AttachFunc, Step
<1>6. CASE AttachIe
  BY <1>6 DEF AttachIe, Step
<1>7. CASE DetachCall
  BY <1>7 DEF DetachCall, Step
<1>8. CASE DetachFunc
  BY <1>8 DEF DetachFunc, Step
<1>9. CASE DetachChange
  BY <1>9 DEF DetachChange, Step
<1>10. CASE NoInterrupts
  BY <1>10 DEF NoInterrupts, Step
<1>11. CASE Interrupts
  BY <1>11 DEF Interrupts, Step
<1>12. CASE IsrEnter
  BY <1>12 DEF IsrEnter, IsrStep, Enabled
<1>13. CASE IsrSkip
  BY <1>13 DEF IsrSkip, IsrStep
<1>14. CASE IsrCall
  BY <1>14 DEF IsrCall, IsrStep
<1>15. CASE IsrToggle
  BY <1>15 DEF IsrToggle, IsrStep
<1>16. CASE IsrCompare
  BY <1>16 DEF IsrCompare, IsrStep
<1>17. CASE IsrPlain
  BY <1>17 DEF IsrPlain, IsrStep
<1>18. CASE IsrLoad
  BY <1>18 DEF IsrLoad, IsrStep, Kept
<1>19. CASE IsrStore
  BY <1>19 DEF IsrStore, IsrStep
<1>20. CASE IsrReturn
  BY <1>20 DEF IsrReturn, IsrStep
<1>21. ASSUME NEW p \in Pins, Edge(p) PROVE OwedInv'
  BY <1>21 DEF Edge, Matches, Overlooked
<1>22. CASE UNCHANGED vars
  BY <1>22 DEF vars
<1> QED BY <1>1, <1>2, <1>3, <1>4, <1>5, <1>6, <1>7, <1>8, <1>9, <1>10, <1>11,
           <1>12, <1>13, <1>14, <1>15, <1>16, <1>17, <1>18, <1>19, <1>20,
           <1>21, <1>22
        DEF Next, Attach, Detach, Isr

-----------------------------------------------------------------------------
(* The edge a pin waits for.  A change either sets the pin's flag or, since*)
(* the edge starts from the other level, arms the pin by itself.           *)
LEMMA ArmedInit == Init => ArmedInv
  BY DEF Init, ArmedInv, Tracked, Processing

(* No step leaves a pin in mode CHANGE waiting for the wrong edge.         *)
LEMMA ArmedStep ==
  ASSUME TypeOK, ModeInv, ArmedInv, ~Reattach, [Next]_vars PROVE ArmedInv'
<1> USE PortAssumption
      DEF registers, table, sketch, handler, history, TypeOK, Attaching,
          ModeInv, Attached, ArmedInv, Tracked, Processing
<1>1. CASE AttachCall
  BY <1>1 DEF AttachCall, Step
<1>2. CASE AttachIes
  BY <1>2 DEF AttachIes, Step
<1>3. CASE AttachLoadIfg
  BY <1>3 DEF AttachLoadIfg, Step
<1>4. CASE AttachStoreIfg
  BY <1>4 DEF AttachStoreIfg, Step
<1>5. CASE AttachFunc
  BY <1>5 DEF AttachFunc, Step
<1>6. CASE AttachIe
  BY <1>6 DEF AttachIe, Step
<1>7. CASE DetachCall
  BY <1>7 DEF DetachCall, Step
<1>8. CASE DetachFunc
  BY <1>8 DEF DetachFunc, Step
<1>9. CASE DetachChange
  BY <1>9 DEF DetachChange, Step
<1>10. CASE NoInterrupts
  BY <1>10 DEF NoInterrupts, Step
<1>11. CASE Interrupts
  BY <1>11 DEF Interrupts, Step
<1>12. CASE IsrEnter
  BY <1>12 DEF IsrEnter, IsrStep, Enabled
<1>13. CASE IsrSkip
  BY <1>13 DEF IsrSkip, IsrStep
<1>14. CASE IsrCall
  BY <1>14 DEF IsrCall, IsrStep
<1>15. CASE IsrToggle
  BY <1>15 DEF IsrToggle, IsrStep
<1>16. CASE IsrCompare
  BY <1>16 DEF IsrCompare, IsrStep
<1>17. CASE IsrPlain
  BY <1>17 DEF IsrPlain, IsrStep
<1>18. CASE IsrLoad
  BY <1>18 DEF IsrLoad, IsrStep, Kept
<1>19. CASE IsrStore
  BY <1>19 DEF IsrStore, IsrStep
<1>20. CASE IsrReturn
  BY <1>20 DEF IsrReturn, IsrStep
<1>21. ASSUME NEW p \in Pins, Edge(p) PROVE ArmedInv'
  BY <1>21 DEF Edge, Matches, Overlooked
<1>22. CASE UNCHANGED vars
  BY <1>22 DEF vars
<1> QED BY <1>1, <1>2, <1>3, <1>4, <1>5, <1>6, <1>7, <1>8, <1>9, <1>10, <1>11,
           <1>12, <1>13, <1>14, <1>15, <1>16, <1>17, <1>18, <1>19, <1>20,
           <1>21, <1>22
        DEF Next, Attach, Detach, Isr
-----------------------------------------------------------------------------
PortInv == TypeOK /\ ModeInv /\ OwedInv /\ ArmedInv

(* The parts together are an inductive invariant.                          *)
LEMMA PortInvariant == ASSUME ~Reattach PROVE Spec => []PortInv
<1>1. Init => PortInv
  BY TypeInit, ModeInit, OwedInit, ArmedInit DEF PortInv
<1>2. PortInv /\ [Next]_vars => PortInv'
  BY TypeStep, ModeStep, OwedStep, ArmedStep DEF PortInv
<1> QED BY <1>1, <1>2, PTL DEF Spec

(* Types, that attachInterrupt is never interrupted, and that the handler  *)
(* visits no pin beyond the last, however the sketch attaches.             *)
THEOREM PortTypeCorrect == Spec => []TypeOK
<1>1. TypeOK /\ [Next]_vars => TypeOK'
  BY TypeStep
<1> QED BY <1>1, TypeInit, PTL DEF Spec

(* attachInterrupt with RISING, FALLING and CHANGE: each call of a function*)
(* answers a change of its own in the mode of its pin, if pins are detached*)
(* before they are attached again.                                         *)
THEOREM NoCallWithoutChange == ASSUME ~Reattach PROVE Spec => []NoSpuriousCall
<1>1. PortInv => NoSpuriousCall
  BY DEF PortInv, OwedInv, NoSpuriousCall
<1> QED BY <1>1, PortInvariant, PTL

(* A pin in mode CHANGE that has no flag waits for the edge that its next  *)
(* change makes, if pins are detached before they are attached again.      *)
THEOREM ChangePinsArmed == ASSUME ~Reattach PROVE Spec => []ChangeArmed
<1>1. PortInv => ChangeArmed
  BY DEF PortInv, TypeOK, ArmedInv, Tracked, Processing, ChangeArmed, Waiting
<1> QED BY <1>1, PortInvariant, PTL
=============================================================================
