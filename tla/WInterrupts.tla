----------------------------- MODULE WInterrupts ---------------------------
(***************************************************************************)
(* Pin interrupts of one port of the msp430 core: attachInterrupt,         *)
(* detachInterrupt and the handler Port_1 of WInterrupts.c.                *)
(*                                                                         *)
(* A pin may change level between any two steps of the sketch or of the    *)
(* handler; the sketch does not run while the handler does.  The flags in  *)
(* P1IFG are set by the hardware while the code rewrites the register, so  *)
(* every such rewrite is a load and a store.                               *)
(***************************************************************************)
EXTENDS Integers

CONSTANTS
  NumPins,    \* NUM_INTS_PER_PORT, 8 in the code
  Modes,      \* the modes the sketch attaches with
  Reattach,   \* whether it attaches a pin that is attached already
  MaxEdges    \* bound: level changes of all pins

RISING == 0
FALLING == 1
CHANGE == 2

ASSUME PortAssumption ==
  /\ NumPins \in Nat \ {0}
  /\ Modes \subseteq {RISING, FALLING, CHANGE}
  /\ Reattach \in BOOLEAN /\ MaxEdges \in Nat

Pins == 0 .. NumPins - 1

VARIABLES
  P1IN,             \* level of every pin, 0 or 1
  P1IES,            \* edge that sets the flag: 0 rising, 1 falling
  P1IFG, P1IE,      \* the pins whose flag is set, whose interrupt is enabled
  intFuncP1,        \* the pins that have a user function
  intChangeVectP1,  \* the pins attached in mode CHANGE
  gie,              \* the CPU's general interrupt enable
  pc, pin, mode,    \* what the sketch does next, the arguments of its call
  isr, i,           \* what the handler does next, and its loop variable
  clears,           \* whether the handler found the edge it waits for armed
  flags             \* P1IFG as it was loaded, before it is stored back

registers == << P1IN, P1IES, P1IFG, P1IE >>
table == << intFuncP1, intChangeVectP1 >>
sketch == << gie, pc, pin, mode >>
handler == << isr, i, clears >>

(* History, of which no step of the code depends.                          *)
VARIABLES
  asked,    \* mode each pin was last attached with
  owed,     \* level changes in that mode since, less the calls
  missed,   \* a change came while the code was rewriting P1IFG
  edges     \* level changes so far

history == << asked, owed, missed, edges >>

vars == << registers, table, sketch, handler, flags, history >>

Init ==
  /\ P1IN = [p \in Pins |-> 0] /\ P1IES = [p \in Pins |-> 0]
  /\ P1IFG = {} /\ P1IE = {} /\ intFuncP1 = {} /\ intChangeVectP1 = {}
  /\ gie = TRUE /\ pc = "idle" /\ pin = 0 /\ mode = RISING
  /\ isr = "out" /\ i = 0 /\ clears = FALSE /\ flags = {}
  /\ asked = [p \in Pins |-> RISING] /\ owed = [p \in Pins |-> 0]
  /\ missed = {} /\ edges = 0

-----------------------------------------------------------------------------
(* attachInterrupt, with interrupts off throughout and on afterwards,      *)
(* whatever they were before.                                              *)
Step(from, to) == isr = "out" /\ pc = from /\ pc' = to

BugAttachInterruptible ==
  \E p \in Pins, m \in Modes :
    /\ Step("idle", "attach_ies")
    /\ Reattach \/ p \notin intFuncP1
    /\ pin' = p /\ mode' = m
    /\ UNCHANGED << registers, table, gie, handler, flags, history >>

AttachCall ==
  \E p \in Pins, m \in Modes :
    /\ Step("idle", "attach_ies")
    /\ Reattach \/ p \notin intFuncP1
    /\ pin' = p /\ mode' = m
    /\ gie' = FALSE
    /\ UNCHANGED << registers, table, handler, flags, history >>

AttachIes ==
  /\ Step("attach_ies", "attach_load")
  /\ P1IES' = [P1IES EXCEPT ![pin] = IF mode = CHANGE THEN P1IN[pin] ELSE mode]
  /\ intChangeVectP1' =
       IF mode = CHANGE THEN intChangeVectP1 \cup {pin} ELSE intChangeVectP1
  /\ missed' = missed \ {pin}
  /\ UNCHANGED << P1IN, P1IFG, P1IE, intFuncP1, gie, pin, mode, handler, flags,
                  asked, owed, edges >>

AttachLoadIfg ==
  /\ Step("attach_load", "attach_store")
  /\ flags' = P1IFG \ {pin}
  /\ UNCHANGED << registers, table, gie, pin, mode, handler, history >>

AttachStoreIfg ==
  /\ Step("attach_store", "attach_func")
  /\ P1IFG' = flags
  /\ asked' = [asked EXCEPT ![pin] = mode] /\ owed' = [owed EXCEPT ![pin] = 0]
  /\ UNCHANGED << P1IN, P1IES, P1IE, table, gie, pin, mode, handler, flags,
                  missed, edges >>

BugAttachNoFunc ==
  /\ Step("attach_func", "attach_ie")
  /\ UNCHANGED << registers, table, gie, pin, mode, handler, flags, history >>

AttachFunc ==
  /\ Step("attach_func", "attach_ie")
  /\ intFuncP1' = intFuncP1 \cup {pin}
  /\ UNCHANGED << registers, intChangeVectP1, gie, pin, mode, handler, flags,
                  history >>

AttachIe ==
  /\ Step("attach_ie", "idle")
  /\ P1IE' = P1IE \cup {pin}
  /\ gie' = TRUE
  /\ UNCHANGED << P1IN, P1IES, P1IFG, table, pin, mode, handler, flags, history >>

(* detachInterrupt, which leaves interrupts as they are.                   *)
DetachCall ==
  \E p \in Pins :
    /\ Step("idle", "detach_func")
    /\ p \in intFuncP1
    /\ pin' = p
    /\ P1IE' = P1IE \ {p}
    /\ UNCHANGED << P1IN, P1IES, P1IFG, table, gie, mode, handler, flags, history >>

DetachFunc ==
  /\ Step("detach_func", "detach_change")
  /\ intFuncP1' = intFuncP1 \ {pin}
  /\ UNCHANGED << registers, intChangeVectP1, gie, pin, mode, handler, flags,
                  history >>

BugDetachForgetsMode ==
  /\ Step("detach_change", "idle")
  /\ UNCHANGED << registers, table, gie, pin, mode, handler, flags, history >>

DetachChange ==
  /\ Step("detach_change", "idle")
  /\ intChangeVectP1' = intChangeVectP1 \ {pin}
  /\ UNCHANGED << registers, intFuncP1, gie, pin, mode, handler, flags, history >>

NoInterrupts ==
  /\ Step("idle", "idle") /\ gie
  /\ gie' = FALSE
  /\ UNCHANGED << registers, table, pin, mode, handler, flags, history >>

Interrupts ==
  /\ Step("idle", "idle") /\ ~gie
  /\ gie' = TRUE
  /\ UNCHANGED << registers, table, pin, mode, handler, flags, history >>

-----------------------------------------------------------------------------
(* Port_1 visits every pin in turn.  A flag is cleared after the function  *)
(* was called.  In mode CHANGE the edge select is turned round first, and  *)
(* the flag stays set, for another visit, if the pin is not at the level   *)
(* from which the new edge starts.                                         *)
IsrStep(from, to) == isr = from /\ isr' = to

Enabled == P1IE \cap P1IFG # {}

IsrEnter ==
  /\ gie /\ Enabled
  /\ IsrStep("out", "test")
  /\ i' = 0
  /\ UNCHANGED << registers, table, sketch, clears, flags, history >>

IsrSkip ==
  /\ i \in Pins /\ i \notin P1IFG \cap intFuncP1
  /\ IsrStep("test", "test")
  /\ i' = i + 1
  /\ UNCHANGED << registers, table, sketch, clears, flags, history >>

IsrCall ==
  /\ i \in P1IFG \cap intFuncP1
  /\ IsrStep("test", "called")
  /\ owed' = [owed EXCEPT ![i] = @ - 1]
  /\ UNCHANGED << registers, table, sketch, i, clears, flags, asked, missed,
                  edges >>

IsrToggle ==
  /\ i \in intChangeVectP1
  /\ IsrStep("called", "compare")
  /\ P1IES' = [P1IES EXCEPT ![i] = 1 - @]
  /\ UNCHANGED << P1IN, P1IFG, P1IE, table, sketch, i, clears, flags, history >>

IsrCompare ==
  /\ IsrStep("compare", "load")
  /\ clears' = (P1IN[i] = P1IES[i])
  /\ UNCHANGED << registers, table, sketch, i, flags, history >>

IsrPlain ==
  /\ i \notin intChangeVectP1
  /\ IsrStep("called", "load")
  /\ clears' = TRUE
  /\ UNCHANGED << registers, table, sketch, i, flags, history >>

BugAlwaysClears == P1IFG \ {i}

Kept == IF clears THEN P1IFG \ {i} ELSE P1IFG

IsrLoad ==
  /\ IsrStep("load", "store")
  /\ flags' = Kept
  /\ UNCHANGED << registers, table, sketch, i, clears, history >>

IsrStore ==
  /\ IsrStep("store", "test")
  /\ P1IFG' = flags
  /\ i' = i + 1
  /\ UNCHANGED << P1IN, P1IES, P1IE, table, sketch, clears, flags, history >>

IsrReturn ==
  /\ i = NumPins
  /\ IsrStep("test", "out")
  /\ i' = 0 /\ clears' = FALSE /\ flags' = {}
  /\ UNCHANGED << registers, table, sketch, history >>

-----------------------------------------------------------------------------
(* A change that the code may overlook: the store overwrites its flag, or  *)
(* it comes between the comparison of the pin's level and that store.      *)
Overlooked(p) ==
  \/ isr = "store" \/ pc = "attach_store"
  \/ isr = "load" /\ i = p
  \/ pc = "attach_load" /\ pin = p

Matches(p, level) == asked[p] = CHANGE \/ level = 1 - asked[p]

Edge(p) ==
  LET level == 1 - P1IN[p]
  IN /\ edges < MaxEdges
     /\ edges' = edges + 1
     /\ P1IN' = [P1IN EXCEPT ![p] = level]
     /\ P1IFG' = IF level # P1IES[p] THEN P1IFG \cup {p} ELSE P1IFG
     /\ owed' = [owed EXCEPT ![p] = IF Matches(p, level) THEN @ + 1 ELSE @]
     /\ missed' = IF Overlooked(p) THEN missed \cup {p} ELSE missed
     /\ UNCHANGED << P1IES, P1IE, table, sketch, handler, flags, asked >>

Attach == AttachIes \/ AttachLoadIfg \/ AttachStoreIfg \/ AttachFunc \/ AttachIe

Detach == DetachFunc \/ DetachChange

Isr ==
  \/ IsrSkip \/ IsrCall \/ IsrToggle \/ IsrCompare \/ IsrPlain \/ IsrLoad
  \/ IsrStore \/ IsrReturn

Next ==
  \/ AttachCall \/ DetachCall \/ NoInterrupts \/ Interrupts
  \/ Attach \/ Detach \/ IsrEnter \/ Isr
  \/ \E p \in Pins : Edge(p)

(* The CPU runs what it is in, takes a pending interrupt whenever GIE lets *)
(* it, and the sketch's critical sections end.                             *)
Fairness ==
  /\ WF_vars(Isr) /\ WF_vars(Attach \/ Detach)
  /\ SF_vars(IsrEnter) /\ SF_vars(Interrupts)

Spec == Init /\ [][Next]_vars

FairSpec == Spec /\ Fairness
-----------------------------------------------------------------------------
Attaching == { "attach_ies", "attach_load", "attach_store", "attach_func",
               "attach_ie" }

(* Type invariant of the port; the sketch attaches with interrupts off, and*)
(* the handler's loop variable stays a pin until the loop ends.            *)
TypeOK ==
  /\ P1IN \in [Pins -> {0, 1}] /\ P1IES \in [Pins -> {0, 1}]
  /\ P1IFG \in SUBSET Pins /\ P1IE \in SUBSET Pins
  /\ intFuncP1 \in SUBSET Pins /\ intChangeVectP1 \in SUBSET Pins
  /\ gie \in BOOLEAN /\ pin \in Pins /\ mode \in {RISING} \cup Modes
  /\ pc \in { "idle", "detach_func", "detach_change" } \cup Attaching
  /\ isr \in { "out", "test", "called", "compare", "load", "store" }
  /\ i \in 0 .. NumPins /\ clears \in BOOLEAN /\ flags \in SUBSET Pins
  /\ pc \in Attaching => ~gie /\ isr = "out"
  /\ isr \notin {"out", "test"} => i \in Pins
  /\ asked \in [Pins -> {RISING} \cup Modes]
  /\ owed \in [Pins -> Int]
  /\ missed \in SUBSET Pins /\ edges \in 0 .. MaxEdges

(* The pin is attached in mode CHANGE and the handler is done with it.     *)
Waiting(p) ==
  /\ p \in P1IE \cap intChangeVectP1 /\ p \notin P1IFG \cup missed
  /\ isr = "out" \/ (i # p /\ isr # "out")

(* A pin attached in mode CHANGE that has no flag set is armed: its next   *)
(* change sets the flag, however many changes came before or while the     *)
(* handler ran, unless one came while P1IFG was being rewritten.           *)
ChangeArmed == \A p \in Pins : Waiting(p) => P1IES[p] = P1IN[p]

(* AttachInterrupt.html:60-61: RISING is "when the pin goes from low to    *)
(* high", FALLING "when the pin goes from high to low".  The function is   *)
(* called at most once for each change in its mode since it was attached,  *)
(* and for no other.                                                       *)
NoSpuriousCall == \A p \in Pins : owed[p] >= 0

(* When the pins come to rest the handler does, too: that it leaves a flag *)
(* set in mode CHANGE never keeps it running, and no enabled flag stays.   *)
ComesToRest == edges = MaxEdges ~> (P1IE \cap P1IFG = {} /\ isr = "out")
=============================================================================
