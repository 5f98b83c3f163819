------------------------- MODULE Interceptor_proofs -------------------------
(***************************************************************************)
(* Proofs about Interceptor, for any set of items, any assignment of       *)
(* directions and any set of operators.                                    *)
(*                                                                         *)
(* The safety invariants are proved together from IInv, which adds to them *)
(* how far a Hold can be while its item is in each place (Phases): an      *)
(* item that nobody knows yet is in no list and no channel, and only a     *)
(* Hold whose context ended returns with a decision still under way.       *)
(*                                                                         *)
(* That the queue implements HoldGate rests on what a decision says being  *)
(* known from the moment its item left the queue, before it is sent.       *)
(***************************************************************************)
EXTENDS Interceptor, TLAPS

\* Where a Hold can stand given where its item is.
Phases ==
  /\ \A i \in Items :
       /\ hold[i] = "idle" => i \notin queue /\ decision[i] = None
       /\ i \in queue => hold[i] \in {"notifying", "waiting", "removing"}
       /\ hold[i] \in {"removing", "removed"} => ctxDone[i]
       /\ hold[i] = "returned" <=> result[i] # None
       /\ \A o \in Operators : i \in release[o] => hold[i] # "idle"
  /\ \A o \in Operators : op[o] = "sending" <=> release[o] # {}

\* The inductive invariant.
IInv ==
  /\ TypeOK
  /\ OrderIsQueue
  /\ ClosedGateHoldsNothing
  /\ OneDecider
  /\ NobodyStranded
  /\ OverruledOnlyWhenGone
  /\ Phases

-----------------------------------------------------------------------------

\* Every step of the goroutines and of their clients keeps the types.
LEMMA TypeStep == TypeOK /\ [Next]_vars => TypeOK'
<1> USE DEF TypeOK, Action, None, HoldPC, OpPC
<1> SUFFICES ASSUME TypeOK, [Next]_vars PROVE TypeOK'
  OBVIOUS
<1>1. ASSUME NEW i \in Items, HoldPass(i) \/ HoldEnqueue(i) PROVE TypeOK'
  BY <1>1 DEF HoldPass, HoldEnqueue, opVars
<1>2. ASSUME NEW i \in Items, HoldStep(i) PROVE TypeOK'
  BY <1>2 DEF HoldStep, HoldNotify, HoldReceive, HoldCancelled, HoldRemove, HoldDrop, opVars
<1>3. ASSUME NEW i \in Items, CtxDone(i) PROVE TypeOK'
  BY <1>3 DEF CtxDone, opVars
<1>4. ASSUME NEW o \in Operators, NEW on \in BOOLEAN, SetEnabled(o, on) PROVE TypeOK'
  BY <1>4 DEF SetEnabled, TakeOut, itemVars
<1>5. ASSUME NEW o \in Operators, NEW on \in BOOLEAN, SetInterceptResponses(o, on)
      PROVE TypeOK'
  BY <1>5 DEF SetInterceptResponses, TakeOut, itemVars
<1>6. ASSUME NEW o \in Operators, NEW a \in Action, DrainAll(o, a) PROVE TypeOK'
  BY <1>6 DEF DrainAll, TakeOut, itemVars
<1>7. ASSUME NEW o \in Operators, NEW i \in Items, NEW a \in Action, Resolve(o, i, a)
      PROVE TypeOK'
  BY <1>7 DEF Resolve, TakeOut, itemVars
<1>8. ASSUME NEW o \in Operators, OpStep(o) PROVE TypeOK'
  BY <1>8 DEF OpStep, SendDecision, Notify, itemVars
<1>9. CASE UNCHANGED vars
  BY <1>9 DEF vars, itemVars, opVars
<1> QED
  BY <1>1, <1>2, <1>3, <1>4, <1>5, <1>6, <1>7, <1>8, <1>9 DEF Next

LEMMA TypeInit == Init => TypeOK
<1> SUFFICES ASSUME Init PROVE TypeOK
  OBVIOUS
<1>1. decision \in [Items -> Action \cup {None}] /\ result \in [Items -> Action \cup {None}]
  BY DEF Init
<1>2. hold \in [Items -> HoldPC] /\ op \in [Operators -> OpPC]
  BY DEF Init, HoldPC, OpPC
<1>3. ctxDone \in [Items -> BOOLEAN]
  BY DEF Init
<1>4. release \in [Operators -> SUBSET Items]
  BY DEF Init
<1>5. verdict \in [Operators -> Action]
  BY DEF Init, Action
<1> QED
  BY <1>1, <1>2, <1>3, <1>4, <1>5 DEF Init, TypeOK

\* Every variable keeps its type: in particular an operator only ever sends
\* "forward" or "drop".
THEOREM TypeCorrect == Spec => []TypeOK
BY TypeInit, TypeStep, PTL DEF Spec

-----------------------------------------------------------------------------

\* What the queue-level properties say, with nothing left to expand but the
\* variables.
LEMMA SafetyStep == IInv /\ [Next]_vars => IInv'
<1> SUFFICES ASSUME IInv, [Next]_vars PROVE IInv'
  OBVIOUS
<1> USE DirAssumption DEF Direction, Action, None
<1>t. TypeOK'
  BY TypeStep DEF IInv
<1> DEFINE Q == OrderIsQueue /\ ClosedGateHoldsNothing /\ OneDecider /\ NobodyStranded
                /\ OverruledOnlyWhenGone /\ Phases
<1> USE DEF IInv, TypeOK, OrderIsQueue, ClosedGateHoldsNothing, OneDecider, NobodyStranded,
            OverruledOnlyWhenGone, Phases, Active, Accepted, Holding, HoldPC, OpPC
<1>1. ASSUME NEW i \in Items, HoldPass(i) PROVE Q'
  BY <1>1 DEF HoldPass, opVars
<1>2. ASSUME NEW i \in Items, HoldEnqueue(i) PROVE Q'
  BY <1>2 DEF HoldEnqueue, opVars
<1>3. ASSUME NEW i \in Items, HoldNotify(i) PROVE Q'
  BY <1>3 DEF HoldNotify, opVars
<1>4. ASSUME NEW i \in Items, HoldReceive(i) PROVE Q'
  BY <1>4 DEF HoldReceive, opVars
<1>5. ASSUME NEW i \in Items, HoldCancelled(i) PROVE Q'
  BY <1>5 DEF HoldCancelled, opVars
<1>6. ASSUME NEW i \in Items, HoldRemove(i) PROVE Q'
  BY <1>6 DEF HoldRemove, opVars
<1>7. ASSUME NEW i \in Items, HoldDrop(i) PROVE Q'
  BY <1>7 DEF HoldDrop, opVars
<1>8. ASSUME NEW i \in Items, CtxDone(i) PROVE Q'
  BY <1>8 DEF CtxDone, opVars
<1>9. ASSUME NEW o \in Operators, NEW on \in BOOLEAN, SetEnabled(o, on) PROVE Q'
  BY <1>9 DEF SetEnabled, TakeOut, itemVars
<1>10. ASSUME NEW o \in Operators, NEW on \in BOOLEAN, SetInterceptResponses(o, on)
       PROVE Q'
  <2> DEFINE released == {i \in order : ~on /\ Dir[i] = "response"}
  <2>1. /\ op[o] = "idle"
        /\ release' = [release EXCEPT ![o] = released]
        /\ verdict' = [verdict EXCEPT ![o] = "forward"]
        /\ op' = [op EXCEPT ![o] = IF released = {} THEN "idle" ELSE "sending"]
        /\ interceptResponses' = on
        /\ queue' = queue \ released
        /\ order' = order \ released
        /\ UNCHANGED <<enabled, decision, hold, result, ctxDone>>
    BY <1>10 DEF SetInterceptResponses, TakeOut, itemVars
  <2>2. released \subseteq queue
    OBVIOUS
  <2>3. OrderIsQueue'
    BY <2>1
  <2>4. ClosedGateHoldsNothing'
    BY <2>1
  <2> HIDE DEF released
  <2>5. OneDecider'
    BY <2>1, <2>2
  <2>6. NobodyStranded'
    BY <2>1, <2>2
  <2>7. OverruledOnlyWhenGone'
    BY <2>1, <2>2
  <2>8. Phases'
    BY <2>1, <2>2
  <2> QED
    BY <2>3, <2>4, <2>5, <2>6, <2>7, <2>8
<1>11. ASSUME NEW o \in Operators, NEW a \in Action, DrainAll(o, a) PROVE Q'
  BY <1>11, SMTT(30) DEF DrainAll, TakeOut, itemVars
<1>12. ASSUME NEW o \in Operators, NEW i \in Items, NEW a \in Action, Resolve(o, i, a)
       PROVE Q'
  BY <1>12 DEF Resolve, TakeOut, itemVars
<1>13. ASSUME NEW o \in Operators, NEW i \in Items, SendDecision(o, i) PROVE Q'
  BY <1>13 DEF SendDecision
<1>14. ASSUME NEW o \in Operators, Notify(o) PROVE Q'
  BY <1>14 DEF Notify, itemVars
<1>15. ASSUME UNCHANGED vars PROVE Q'
  BY <1>15 DEF vars, itemVars, opVars
<1> HIDE DEF Q, IInv, TypeOK, OrderIsQueue, ClosedGateHoldsNothing, OneDecider, NobodyStranded,
             OverruledOnlyWhenGone, Phases
<1>16. ASSUME NEW i \in Items, HoldStep(i) PROVE Q'
  BY <1>16, <1>3, <1>4, <1>5, <1>6, <1>7 DEF HoldStep
<1>17. ASSUME NEW o \in Operators, OpStep(o) PROVE Q'
  BY <1>17, <1>13, <1>14 DEF OpStep
<1>18. Q'
  BY <1>1, <1>2, <1>8, <1>9, <1>10, <1>11, <1>12, <1>15, <1>16, <1>17 DEF Next
<1> QED
  BY <1>t, <1>18 DEF Q, IInv

LEMMA SafetyInit == Init => IInv
<1> SUFFICES ASSUME Init PROVE IInv
  OBVIOUS
<1>1. TypeOK
  BY TypeInit
<1>2. OrderIsQueue /\ ClosedGateHoldsNothing /\ OneDecider
  BY DEF Init, OrderIsQueue, ClosedGateHoldsNothing, OneDecider
<1>3. NobodyStranded /\ OverruledOnlyWhenGone /\ Phases
  BY DEF Init, NobodyStranded, OverruledOnlyWhenGone, Phases, Holding, None
<1> QED
  BY <1>1, <1>2, <1>3 DEF IInv

LEMMA Inductive == Spec => []IInv
BY SafetyInit, SafetyStep, PTL DEF Spec

\* Interception switched off for a class of messages has none of them in the
\* queue, whatever toggles, arrivals and decisions were interleaved before.
THEOREM ClosedGate == Spec => []ClosedGateHoldsNothing
BY Inductive, PTL DEF IInv

\* Every item has at most one party that will send it a decision, so that no
\* send on a one-slot channel ever blocks an API goroutine.
THEOREM SingleDecider == Spec => []OneDecider
BY Inductive, PTL DEF IInv

\* Every Hold that sleeps has somebody who can still wake it.
THEOREM NoneStranded == Spec => []NobodyStranded
BY Inductive, PTL DEF IInv

\* A decision is overruled only by the end of the item's own context.
THEOREM Overruled == Spec => []OverruledOnlyWhenGone
BY Inductive, PTL DEF IInv

\* The map and the slice never diverge.
THEOREM MapIsSlice == Spec => []OrderIsQueue
BY Inductive, PTL DEF IInv

-----------------------------------------------------------------------------

\* Every step leaves an accepted decision accepted, or makes Hold return it.
LEMMA FinalStep ==
  ASSUME IInv, [Next]_vars, NEW i \in Items, NEW a \in Action, Accepted(i, a)
  PROVE  Accepted(i, a)' \/ result'[i] = a
<1> USE DEF Action, None
<1>0. /\ decision[i] \in Action \cup {None} /\ i \notin queue /\ hold[i] # "idle"
      /\ \A o \in Operators : i \in release[o] => op[o] = "sending"
  BY DEF IInv, OneDecider, Phases, TypeOK, Accepted
<1>1. CASE decision[i] = a
  <2>1. CASE \E j \in Items : HoldPass(j) \/ HoldEnqueue(j) \/ HoldStep(j) \/ CtxDone(j)
    BY <1>0, <1>1, <2>1 DEF HoldPass, HoldEnqueue, HoldStep, HoldNotify, HoldReceive,
      HoldCancelled, HoldRemove, HoldDrop, CtxDone, Accepted, IInv, TypeOK
  <2>2. CASE \E o \in Operators, j \in Items : SendDecision(o, j)
    BY <1>1, <2>2 DEF SendDecision, Accepted, IInv, TypeOK
  <2>3. CASE decision' = decision
    BY <1>1, <2>3 DEF Accepted
  <2> QED
    BY <2>1, <2>2, <2>3 DEF Next, OpStep, vars, itemVars, SetEnabled, SetInterceptResponses,
      DrainAll, Resolve, Notify
<1>2. CASE \E o \in Operators : i \in release[o] /\ verdict[o] = a
  <2> PICK o \in Operators : i \in release[o] /\ verdict[o] = a
    BY <1>2
  <2>1. CASE release'[o] = release[o] /\ verdict'[o] = verdict[o]
    BY <2>1 DEF Accepted
  <2>2. CASE \E j \in Items : SendDecision(o, j)
    BY <2>2 DEF SendDecision, Accepted, IInv, TypeOK
  <2>3. ASSUME NEW p \in Operators, NEW S, NEW b, NEW pc, TakeOut(p, S, b, pc)
        PROVE  release'[o] = release[o] /\ verdict'[o] = verdict[o]
    BY <1>0, <2>3 DEF TakeOut, IInv, TypeOK
  <2>4. ASSUME NEW p \in Operators, p # o, NEW j \in Items, SendDecision(p, j)
        PROVE  release'[o] = release[o] /\ verdict'[o] = verdict[o]
    BY <2>4 DEF SendDecision, IInv, TypeOK
  <2>5. ASSUME NEW p \in Operators,
               \/ \E on \in BOOLEAN : SetEnabled(p, on) \/ SetInterceptResponses(p, on)
               \/ \E b \in Action : DrainAll(p, b)
               \/ \E j \in Items, b \in Action : Resolve(p, j, b)
        PROVE  release'[o] = release[o] /\ verdict'[o] = verdict[o]
    BY <2>3, <2>5 DEF SetEnabled, SetInterceptResponses, DrainAll, Resolve
  <2>6. CASE UNCHANGED <<release, verdict>>
    BY <2>1, <2>6
  <2> QED
    BY <2>1, <2>2, <2>4, <2>5, <2>6 DEF Next, OpStep, HoldPass, HoldEnqueue, HoldStep, HoldNotify,
      HoldReceive, HoldCancelled, HoldRemove, HoldDrop, CtxDone, Notify, vars, opVars
<1> QED
  BY <1>1, <1>2 DEF Accepted

\* A decision that an operator's call has accepted is never revised: the only
\* step that ends its journey is the one in which Hold returns it.
THEOREM Finality == Spec => DecisionsAreFinal
<1>1. IInv /\ [Next]_vars
      => [\A i \in Items, a \in Action : Accepted(i, a) => Accepted(i, a)' \/ result'[i] = a]_vars
  BY FinalStep
<1> QED
  BY <1>1, Inductive, PTL DEF Spec, DecisionsAreFinal

-----------------------------------------------------------------------------
(* The queue implements the gate.                                          *)

\* What the gate has decided about an item, told apart by where the decision is.
VerdictsKnown ==
  \A i \in Items :
    /\ \A a \in Action : Accepted(i, a) => VerdictOf(i) = a
    /\ (\A a \in Action : ~Accepted(i, a)) =>
         VerdictOf(i) = IF hold[i] = "removed" THEN "drop" ELSE result[i]

LEMMA OneVerdict == IInv => VerdictsKnown
<1> SUFFICES ASSUME IInv, NEW i \in Items
             PROVE  /\ \A a \in Action : Accepted(i, a) => VerdictOf(i) = a
                    /\ (\A a \in Action : ~Accepted(i, a)) =>
                         VerdictOf(i) = IF hold[i] = "removed" THEN "drop" ELSE result[i]
  BY DEF VerdictsKnown
<1>1. \A a, b \in Action : Accepted(i, a) /\ Accepted(i, b) => a = b
  BY DEF IInv, OneDecider, Accepted, Action, None
<1>2. ASSUME NEW a \in Action, Accepted(i, a) PROVE VerdictOf(i) = a
  <2>1. VerdictOf(i) \in Action /\ Accepted(i, VerdictOf(i))
    BY <1>2 DEF VerdictOf
  <2> QED
    BY <1>1, <1>2, <2>1
<1> QED
  BY <1>2 DEF VerdictOf

\* An item whose decision stands where it stood has the verdict it had.
LEMMA VerdictStays ==
  ASSUME VerdictsKnown, VerdictsKnown', NEW i \in Items,
         \A a \in Action : Accepted(i, a) <=> Accepted(i, a)',
         \/ \E a \in Action : Accepted(i, a)
         \/ hold'[i] = hold[i] /\ result'[i] = result[i]
         \/ /\ hold[i] # "removed" /\ hold'[i] # "removed" /\ result'[i] = result[i]
         \/ hold[i] = "removed" /\ hold'[i] # "removed" /\ result'[i] = "drop"
  PROVE  VerdictOf(i)' = VerdictOf(i)
<1>1. CASE \E a \in Action : Accepted(i, a)
  BY <1>1 DEF VerdictsKnown
<1>2. CASE \A a \in Action : ~Accepted(i, a)
  BY <1>2 DEF VerdictsKnown
<1> QED
  BY <1>1, <1>2

Came == {i \in Items : hold[i] # "idle"}
Verdicts == [i \in Items |-> VerdictOf(i)]
Results == [i \in Items |-> IF hold[i] = "removed" THEN "drop" ELSE result[i]]

\* The parts of the gate's state move together with what they are made of.
LEMMA GateStays ==
  ASSUME VerdictsKnown, VerdictsKnown', UNCHANGED <<enabled, interceptResponses, queue>>,
         \A i \in Items :
           /\ hold[i] = "idle" <=> hold'[i] = "idle"
           /\ \A a \in Action : Accepted(i, a) <=> Accepted(i, a)'
           /\ \/ (hold[i] = "removed" <=> hold'[i] = "removed") /\ result'[i] = result[i]
              \/ hold[i] = "removed" /\ hold'[i] # "removed" /\ result'[i] = "drop"
  PROVE  UNCHANGED Gate!vars
<1>1. Came' = Came
  BY DEF Came
<1>2. \A i \in Items : VerdictOf(i)' = VerdictOf(i)
  <2> SUFFICES ASSUME NEW i \in Items PROVE VerdictOf(i)' = VerdictOf(i)
    OBVIOUS
  <2>1. CASE \E a \in Action : Accepted(i, a)
    BY <2>1 DEF VerdictsKnown
  <2>2. CASE \A a \in Action : ~Accepted(i, a)
    BY <2>2 DEF VerdictsKnown
  <2> QED
    BY <2>1, <2>2
<1>3. Verdicts' = Verdicts
  BY <1>2 DEF Verdicts
<1>4. Results' = Results
  BY DEF Results
<1> QED
  BY <1>1, <1>3, <1>4 DEF Gate!vars, Came, Verdicts, Results

\* An operator takes a set of queued items out: their verdict is its action, and
\* no other verdict moves.
LEMMA TakingDecides ==
  ASSUME IInv, VerdictsKnown, VerdictsKnown', NEW o \in Operators, NEW S \in SUBSET queue,
         NEW a \in Action, NEW pc, TakeOut(o, S, a, pc),
         queue' = queue \ S, UNCHANGED itemVars
  PROVE  Gate!Decide(S, a) /\ Came' = Came /\ Results' = Results
<1>1. Came' = Came /\ Results' = Results
  BY DEF Came, Results, itemVars
<1>2. release[o] = {} /\ release' = [release EXCEPT ![o] = S] /\ verdict' = [verdict EXCEPT ![o] = a]
      /\ release \in [Operators -> SUBSET Items] /\ verdict \in [Operators -> Action]
  BY DEF IInv, Phases, TypeOK, TakeOut
<1>3. ASSUME NEW i \in Items, i \in S PROVE VerdictOf(i)' = a
  <2>1. Accepted(i, a)'
    BY <1>2, <1>3 DEF Accepted
  <2> QED
    BY <2>1 DEF VerdictsKnown
<1>4. ASSUME NEW i \in Items, i \notin S PROVE VerdictOf(i)' = VerdictOf(i)
  <2>1. \A b \in Action : Accepted(i, b) <=> Accepted(i, b)'
    BY <1>2, <1>4 DEF Accepted, itemVars
  <2> QED
    BY <2>1, VerdictStays, <1>4 DEF itemVars, VerdictsKnown
<1>5. Verdicts' = [i \in Items |-> IF i \in S THEN a ELSE Verdicts[i]]
  BY <1>3, <1>4 DEF Verdicts
<1> QED
  BY <1>1, <1>5 DEF Gate!Decide, Verdicts

LEMMA GateInit == Init => Gate!Init
<1> SUFFICES ASSUME Init PROVE Gate!Init
  OBVIOUS
<1>1. VerdictsKnown
  BY SafetyInit, OneVerdict
<1>2. ASSUME NEW i \in Items PROVE VerdictOf(i) = None /\ result[i] = None /\ hold[i] = "idle"
  <2>1. hold[i] = "idle" /\ result[i] = None /\ decision[i] = None
        /\ \A o \in Operators : release[o] = {}
    BY DEF Init
  <2>2. \A a \in Action : ~Accepted(i, a)
    BY <2>1 DEF Accepted, Action, None
  <2> QED
    BY <1>1, <2>1, <2>2 DEF VerdictsKnown
<1>3. Came = {} /\ Verdicts = [i \in Items |-> None] /\ Results = [i \in Items |-> None]
  BY <1>2 DEF Came, Verdicts, Results
<1> QED
  BY <1>3 DEF Init, Gate!Init, Gate!None, None, Came, Verdicts, Results

LEMMA GateStep == IInv /\ [Next]_vars => [Gate!Next]_(Gate!vars)
<1> SUFFICES ASSUME IInv, [Next]_vars PROVE Gate!Next \/ UNCHANGED Gate!vars
  OBVIOUS
<1>0. IInv' /\ VerdictsKnown /\ VerdictsKnown'
  <2>1. IInv'
    BY SafetyStep
  <2> QED
    BY <2>1, OneVerdict, PTL
<1>t. /\ hold \in [Items -> HoldPC] /\ result \in [Items -> Action \cup {None}]
      /\ decision \in [Items -> Action \cup {None}] /\ ctxDone \in [Items -> BOOLEAN]
      /\ release \in [Operators -> SUBSET Items] /\ verdict \in [Operators -> Action]
      /\ order = queue /\ queue \subseteq Items
  BY DEF IInv, TypeOK, OrderIsQueue
<1>p. \A i \in Items :
        /\ hold[i] = "idle" => i \notin queue /\ decision[i] = None
        /\ i \in queue => hold[i] \in {"notifying", "waiting", "removing"} /\ decision[i] = None
        /\ hold[i] = "returned" <=> result[i] # None
        /\ \A o \in Operators : i \in release[o] =>
             hold[i] # "idle" /\ i \notin queue /\ decision[i] = None
  BY DEF IInv, Phases, OneDecider
<1>1. ASSUME NEW i \in Items, HoldPass(i) PROVE Gate!Next
  <2>1. /\ hold[i] = "idle" /\ ~Active(i) /\ hold' = [hold EXCEPT ![i] = "returned"]
        /\ result' = [result EXCEPT ![i] = "forward"]
        /\ UNCHANGED <<enabled, interceptResponses, queue, decision, release, verdict>>
    BY <1>1 DEF HoldPass, opVars
  <2>2. \A j \in Items, a \in Action : Accepted(j, a) <=> Accepted(j, a)'
    BY <2>1 DEF Accepted
  <2>3. \A a \in Action : ~Accepted(i, a)
    BY <1>p, <2>1 DEF Accepted, Action, None
  <2>4. VerdictOf(i)' = "forward"
    <3>1. \A a \in Action : ~Accepted(i, a)'
      BY <2>2, <2>3
    <3>2. hold'[i] = "returned" /\ result'[i] = "forward"
      BY <1>t, <2>1
    <3> QED
      BY <1>0, <3>1, <3>2 DEF VerdictsKnown
  <2>5. \A j \in Items : j # i => VerdictOf(j)' = VerdictOf(j)
    BY <1>0, <1>t, <2>1, <2>2 DEF VerdictsKnown
  <2>6. Verdicts' = [Verdicts EXCEPT ![i] = "forward"]
    BY <2>4, <2>5 DEF Verdicts
  <2>7. Results' = [Results EXCEPT ![i] = "forward"] /\ Came' = Came \cup {i} /\ i \notin Came
    BY <1>t, <2>1 DEF Results, Came
  <2>8. Gate!Pass(i)
    BY <2>1, <2>6, <2>7 DEF Gate!Pass, Gate!Active, Active, Verdicts, Results, Came
  <2> QED
    BY <2>8 DEF Gate!Next
<1>2. ASSUME NEW i \in Items, HoldEnqueue(i) PROVE Gate!Next
  <2>1. /\ hold[i] = "idle" /\ Active(i) /\ hold' = [hold EXCEPT ![i] = "notifying"]
        /\ queue' = queue \cup {i} /\ decision' = [decision EXCEPT ![i] = None]
        /\ UNCHANGED <<enabled, interceptResponses, result, release, verdict>>
    BY <1>2 DEF HoldEnqueue, opVars
  <2>2. \A j \in Items, a \in Action : Accepted(j, a) <=> Accepted(j, a)'
    <3>1. decision' = decision
      BY <1>p, <1>t, <2>1
    <3> QED
      BY <2>1, <3>1 DEF Accepted
  <2>3. \A j \in Items : VerdictOf(j)' = VerdictOf(j)
    BY <1>0, <1>t, <2>1, <2>2 DEF VerdictsKnown
  <2>4. Verdicts' = Verdicts
    BY <2>3 DEF Verdicts
  <2>5. Results' = Results /\ Came' = Came \cup {i} /\ i \notin Came
    BY <1>t, <2>1 DEF Results, Came
  <2>6. Gate!Enter(i)
    BY <2>1, <2>4, <2>5 DEF Gate!Enter, Gate!Active, Active, Verdicts, Results, Came
  <2> QED
    BY <2>6 DEF Gate!Next
<1>3. ASSUME NEW i \in Items, HoldNotify(i) \/ HoldCancelled(i) \/ CtxDone(i)
      PROVE  UNCHANGED Gate!vars
  <2>1. /\ hold[i] # "idle" /\ hold[i] # "removed" /\ hold' = [hold EXCEPT ![i] = hold'[i]]
           /\ hold'[i] \in {"waiting", "removing"}
        \/ hold' = hold
    BY <1>3, <1>t DEF HoldNotify, HoldCancelled, CtxDone
  <2>2. UNCHANGED <<enabled, interceptResponses, queue, decision, result, release, verdict>>
    BY <1>3 DEF HoldNotify, HoldCancelled, CtxDone, opVars
  <2>3. \A j \in Items : /\ hold[j] = "idle" <=> hold'[j] = "idle"
                         /\ hold[j] = "removed" <=> hold'[j] = "removed"
    BY <1>t, <2>1
  <2>4. \A j \in Items, a \in Action : Accepted(j, a) <=> Accepted(j, a)'
    BY <2>2 DEF Accepted
  <2> QED
    BY <1>0, <2>2, <2>3, <2>4, GateStays
<1>4. ASSUME NEW i \in Items, HoldReceive(i) PROVE Gate!Next
  <2>1. /\ hold[i] = "waiting" /\ decision[i] # None
        /\ hold' = [hold EXCEPT ![i] = "returned"]
        /\ result' = [result EXCEPT ![i] = decision[i]]
        /\ decision' = [decision EXCEPT ![i] = None]
        /\ UNCHANGED <<enabled, interceptResponses, queue, release, verdict>>
    BY <1>4 DEF HoldReceive, opVars
  <2>2. decision[i] \in Action /\ Accepted(i, decision[i])
    BY <1>t, <2>1 DEF Accepted
  <2>3. VerdictOf(i) = decision[i]
    BY <1>0, <2>2 DEF VerdictsKnown
  <2>4. VerdictOf(i)' = decision[i]
    <3>1. decision'[i] = None /\ \A o \in Operators : i \notin release'[o]
      BY <1>p, <1>t, <2>1
    <3>2. \A a \in Action : ~Accepted(i, a)'
      BY <3>1 DEF Accepted, Action, None
    <3>3. hold'[i] = "returned" /\ result'[i] = decision[i]
      BY <1>t, <2>1
    <3> QED
      BY <1>0, <3>2, <3>3 DEF VerdictsKnown
  <2>5. \A j \in Items : j # i => VerdictOf(j)' = VerdictOf(j)
    <3> SUFFICES ASSUME NEW j \in Items, j # i PROVE VerdictOf(j)' = VerdictOf(j)
      OBVIOUS
    <3>1. \A a \in Action : Accepted(j, a) <=> Accepted(j, a)'
      BY <1>t, <2>1 DEF Accepted
    <3>2. hold'[j] = hold[j] /\ result'[j] = result[j]
      BY <1>t, <2>1
    <3> QED
      BY <1>0, <3>1, <3>2 DEF VerdictsKnown
  <2>6. Verdicts' = Verdicts /\ Verdicts[i] = decision[i]
    BY <2>3, <2>4, <2>5 DEF Verdicts
  <2>7. Results' = [Results EXCEPT ![i] = decision[i]] /\ Results[i] = None /\ Came' = Came
    BY <1>p, <1>t, <2>1 DEF Results, Came
  <2>8. Gate!Return(i)
    BY <2>1, <2>6, <2>7 DEF Gate!Return, Gate!None, None, Verdicts, Results, Came
  <2> QED
    BY <2>8 DEF Gate!Next
<1>5. ASSUME NEW i \in Items, HoldRemove(i) PROVE Gate!Next
  <2>1. /\ hold[i] = "removing" /\ hold' = [hold EXCEPT ![i] = "removed"] /\ queue' = queue \ {i}
        /\ UNCHANGED <<enabled, interceptResponses, result, decision, release, verdict>>
    BY <1>5 DEF HoldRemove, opVars
  <2>2. \A j \in Items, a \in Action : Accepted(j, a) <=> Accepted(j, a)'
    BY <2>1 DEF Accepted
  <2>3. \A j \in Items : j # i => VerdictOf(j)' = VerdictOf(j)
    BY <1>0, <1>t, <2>1, <2>2 DEF VerdictsKnown
  <2>4. result[i] = None
    BY <1>p, <1>t, <2>1
  <2>5. VerdictOf(i)' = IF VerdictOf(i) = None THEN "drop" ELSE VerdictOf(i)
    <3>1. CASE \E a \in Action : Accepted(i, a)
      BY <1>0, <2>2, <3>1 DEF VerdictsKnown, Action, None
    <3>2. CASE \A a \in Action : ~Accepted(i, a)
      BY <1>0, <1>t, <2>1, <2>2, <2>4, <3>2 DEF VerdictsKnown
    <3> QED
      BY <3>1, <3>2
  <2>6. Verdicts' = [Verdicts EXCEPT ![i] = IF @ = None THEN "drop" ELSE @]
    BY <2>3, <2>5 DEF Verdicts
  <2>7. /\ Results' = [Results EXCEPT ![i] = "drop"] /\ Results[i] = None
        /\ Came' = Came /\ i \in Came
    BY <1>t, <2>1, <2>4 DEF Results, Came
  <2>8. Gate!Abandon(i)
    BY <2>1, <2>6, <2>7 DEF Gate!Abandon, Gate!None, None, Verdicts, Results, Came
  <2> QED
    BY <2>8 DEF Gate!Next
<1>6. ASSUME NEW i \in Items, HoldDrop(i) PROVE UNCHANGED Gate!vars
  <2>1. /\ hold[i] = "removed" /\ hold' = [hold EXCEPT ![i] = "returned"]
        /\ result' = [result EXCEPT ![i] = "drop"]
        /\ UNCHANGED <<enabled, interceptResponses, queue, decision, release, verdict>>
    BY <1>6 DEF HoldDrop, opVars
  <2>2. \A j \in Items, a \in Action : Accepted(j, a) <=> Accepted(j, a)'
    BY <2>1 DEF Accepted
  <2>3. \A j \in Items :
          /\ hold[j] = "idle" <=> hold'[j] = "idle"
          /\ \/ (hold[j] = "removed" <=> hold'[j] = "removed") /\ result'[j] = result[j]
             \/ hold[j] = "removed" /\ hold'[j] # "removed" /\ result'[j] = "drop"
    BY <1>t, <2>1
  <2> QED
    BY <1>0, <2>1, <2>2, <2>3, GateStays
<1>7. ASSUME NEW o \in Operators, NEW i \in Items, SendDecision(o, i) PROVE UNCHANGED Gate!vars
  <2>1. /\ i \in release[o] /\ decision' = [decision EXCEPT ![i] = verdict[o]]
        /\ release' = [release EXCEPT ![o] = release[o] \ {i}]
        /\ UNCHANGED <<enabled, interceptResponses, queue, hold, result, verdict>>
    BY <1>7 DEF SendDecision
  <2>2. \A p \in Operators : i \in release[p] => p = o
    BY <2>1 DEF IInv, OneDecider
  <2>3. \A j \in Items, a \in Action : Accepted(j, a) <=> Accepted(j, a)'
    <3>1. ASSUME NEW a \in Action PROVE Accepted(i, a) <=> Accepted(i, a)'
      <4>1. decision'[i] = verdict[o] /\ \A p \in Operators : i \notin release'[p]
        BY <1>t, <2>1, <2>2
      <4>2. decision[i] = None
        BY <1>p, <2>1
      <4>3. Accepted(i, a) <=> verdict[o] = a
        BY <2>1, <2>2, <4>2 DEF Accepted, Action, None
      <4> QED
        BY <4>1, <4>3 DEF Accepted
    <3>2. ASSUME NEW j \in Items, j # i, NEW a \in Action PROVE Accepted(j, a) <=> Accepted(j, a)'
      <4>1. decision'[j] = decision[j] /\ \A p \in Operators : j \in release'[p] <=> j \in release[p]
        BY <1>t, <2>1, <3>2
      <4> QED
        BY <2>1, <4>1 DEF Accepted
    <3> QED
      BY <3>1, <3>2
  <2> QED
    BY <1>0, <2>1, <2>3, GateStays
<1>8. ASSUME NEW o \in Operators, Notify(o) PROVE UNCHANGED Gate!vars
  <2>1. UNCHANGED <<enabled, interceptResponses, queue, decision, hold, result, release, verdict>>
    BY <1>8 DEF Notify, itemVars
  <2>2. \A j \in Items, a \in Action : Accepted(j, a) <=> Accepted(j, a)'
    BY <2>1 DEF Accepted
  <2> QED
    BY <1>0, <2>1, <2>2, GateStays
<1>f. "forward" \in Action
  BY DEF Action
<1>9. ASSUME NEW o \in Operators, NEW on \in BOOLEAN, SetEnabled(o, on) PROVE Gate!Next
  <2> DEFINE S == IF on THEN {} ELSE queue
  <2>1. /\ TakeOut(o, S, "forward", "notifying") /\ queue' = queue \ S /\ enabled' = on
        /\ UNCHANGED itemVars /\ UNCHANGED interceptResponses
    BY <1>9, <1>t DEF SetEnabled
  <2>2. S \in SUBSET queue
    OBVIOUS
  <2> HIDE DEF S
  <2>3. Gate!Decide(S, "forward") /\ Came' = Came /\ Results' = Results
    BY <1>0, <1>f, <2>1, <2>2, TakingDecides
  <2>4. Gate!SetEnabled(on)
    BY <2>1, <2>3 DEF Gate!SetEnabled, Came, Results, S
  <2> QED
    BY <2>4 DEF Gate!Next
<1>10. ASSUME NEW o \in Operators, NEW on \in BOOLEAN, SetInterceptResponses(o, on)
       PROVE  Gate!Next
  <2> DEFINE S == {i \in order : ~on /\ Dir[i] = "response"}
  <2>1. /\ TakeOut(o, S, "forward", "idle") /\ queue' = queue \ S /\ interceptResponses' = on
        /\ UNCHANGED itemVars /\ UNCHANGED enabled
    BY <1>10 DEF SetInterceptResponses
  <2>2. S \in SUBSET queue
    BY <1>t
  <2>3. S = IF on THEN {} ELSE {i \in queue : Dir[i] = "response"}
    BY <1>t
  <2> HIDE DEF S
  <2>4. Gate!Decide(S, "forward") /\ Came' = Came /\ Results' = Results
    BY <1>0, <1>f, <2>1, <2>2, TakingDecides
  <2>5. Gate!SetInterceptResponses(on)
    BY <2>1, <2>3, <2>4 DEF Gate!SetInterceptResponses, Came, Results
  <2> QED
    BY <2>5 DEF Gate!Next
<1>11. ASSUME NEW o \in Operators, NEW a \in Action, DrainAll(o, a) PROVE Gate!Next
  <2>1. /\ TakeOut(o, queue, a, "notifying") /\ queue' = queue \ queue
        /\ UNCHANGED itemVars /\ UNCHANGED <<enabled, interceptResponses>>
    BY <1>11, <1>t DEF DrainAll
  <2>2. Gate!Decide(queue, a) /\ Came' = Came /\ Results' = Results
    BY <1>0, <2>1, TakingDecides
  <2>3. Gate!DrainAll(a)
    BY <2>1, <2>2 DEF Gate!DrainAll, Came, Results
  <2> QED
    BY <2>3 DEF Gate!Next, Gate!Action, Action
<1>12. ASSUME NEW o \in Operators, NEW i \in Items, NEW a \in Action, Resolve(o, i, a)
       PROVE  Gate!Next
  <2>1. /\ TakeOut(o, {i}, a, "notifying") /\ queue' = queue \ {i} /\ i \in queue
        /\ UNCHANGED itemVars /\ UNCHANGED <<enabled, interceptResponses>>
    BY <1>12 DEF Resolve
  <2>2. {i} \in SUBSET queue
    BY <2>1
  <2>3. Gate!Decide({i}, a) /\ Came' = Came /\ Results' = Results
    BY <1>0, <2>1, <2>2, TakingDecides
  <2>4. Gate!Resolve(i, a)
    BY <2>1, <2>3 DEF Gate!Resolve, Came, Results
  <2> QED
    BY <2>4 DEF Gate!Next, Gate!Action, Action
<1>13. CASE UNCHANGED vars
  <2>1. UNCHANGED <<enabled, interceptResponses, queue, decision, hold, result, release, verdict>>
    BY <1>13 DEF vars, itemVars, opVars
  <2>2. \A j \in Items, a \in Action : Accepted(j, a) <=> Accepted(j, a)'
    BY <2>1 DEF Accepted
  <2> QED
    BY <1>0, <2>1, <2>2, GateStays
<1> QED
  BY <1>1, <1>2, <1>3, <1>4, <1>5, <1>6, <1>7, <1>8, <1>9, <1>10, <1>11, <1>12, <1>13
     DEF Next, HoldStep, OpStep

\* Every step of the goroutines is a step of the gate of HoldGate, or changes nothing
\* of it: a decision that is sent in several steps after the mutex is released looks
\* as if it were taken at once (Hold, Resolve, DrainAll, SetEnabled).
THEOREM QueueIsGate == Spec => Gate!Init /\ [][Gate!Next]_(Gate!vars)
BY GateInit, GateStep, Inductive, PTL DEF Spec
=============================================================================
