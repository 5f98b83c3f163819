---------------------------- MODULE Interceptor ----------------------------
(***************************************************************************)
(* The hold queue of manual interception                                   *)
(* (internal/proxy/intercept/interceptor.go), at the grain of its mutex:   *)
(* a critical section is one step, and so is each send on a decision       *)
(* channel, each arm of the select in Hold and each notification, because  *)
(* all of these happen after the mutex has been released.                  *)
(*                                                                         *)
(* An item is one call of Hold made by a proxy goroutine; idFn gives every *)
(* call an ID of its own, so the item is its ID.  An operator is an API    *)
(* goroutine that runs one interceptor method at a time.  The queue map    *)
(* and the order slice are two variables, as in the code; the position of  *)
(* an ID within the slice is left out.                                     *)
(***************************************************************************)

CONSTANTS
  Items,      \* the calls of Hold
  Dir,        \* the direction of each held message
  Operators   \* API goroutines that change or drain the queue

Direction == {"request", "response"}
Action    == {"forward", "drop"}
None      == "none"

ASSUME DirAssumption == Dir \in [Items -> Direction]

VARIABLES
  enabled,             \* Interceptor.enabled
  interceptResponses,  \* Interceptor.interceptResponses
  queue,               \* the IDs in Interceptor.queue
  order,               \* the IDs in Interceptor.order
  decision,            \* the buffered(1) decision channel of each item
  hold,                \* where the call of Hold stands
  result,              \* what Hold returned
  ctxDone,             \* the context given to Hold has ended
  op,                  \* where the operator's call stands
  release,             \* items the operator took out and has yet to send to
  verdict              \* the action it sends to them

itemVars == <<decision, hold, result, ctxDone>>
opVars   == <<op, release, verdict>>
vars     == <<enabled, interceptResponses, queue, order, itemVars, opVars>>

HoldPC == {"idle", "notifying", "waiting", "removing", "removed", "returned"}
OpPC   == {"idle", "sending", "notifying"}

TypeOK ==
  /\ enabled \in BOOLEAN
  /\ interceptResponses \in BOOLEAN
  /\ queue \in SUBSET Items
  /\ order \in SUBSET Items
  /\ decision \in [Items -> Action \cup {None}]
  /\ hold \in [Items -> HoldPC]
  /\ result \in [Items -> Action \cup {None}]
  /\ ctxDone \in [Items -> BOOLEAN]
  /\ op \in [Operators -> OpPC]
  /\ release \in [Operators -> SUBSET Items]
  /\ verdict \in [Operators -> Action]

Init ==
  /\ enabled = FALSE
  /\ interceptResponses = FALSE
  /\ queue = {}
  /\ order = {}
  /\ decision = [i \in Items |-> None]
  /\ hold = [i \in Items |-> "idle"]
  /\ result = [i \in Items |-> None]
  /\ ctxDone = [i \in Items |-> FALSE]
  /\ op = [o \in Operators |-> "idle"]
  /\ release = [o \in Operators |-> {}]
  /\ verdict = [o \in Operators |-> "forward"]

-----------------------------------------------------------------------------
(* What several methods share.                                             *)

\* What Hold tests under the mutex.
Active(i) == enabled /\ (Dir[i] = "request" \/ interceptResponses)

\* Operator o has taken the items in S out of the queue, to send them a.
TakeOut(o, S, a, pcIfNone) ==
  /\ op[o] = "idle"
  /\ release' = [release EXCEPT ![o] = S]
  /\ verdict' = [verdict EXCEPT ![o] = a]
  /\ op' = [op EXCEPT ![o] = IF S = {} THEN pcIfNone ELSE "sending"]

-----------------------------------------------------------------------------
(* Seeded faults: each is an action below with one plausible mistake, and   *)
(* breaks the property that guards against it.  Next uses none of them.     *)

\* Hold looks at its context only once a decision is there.
HoldCancelledLate(i) ==
  /\ hold[i] = "waiting"
  /\ ctxDone[i] /\ decision[i] # None
  /\ hold' = [hold EXCEPT ![i] = "removing"]
  /\ UNCHANGED <<enabled, interceptResponses, queue, order, decision, result, ctxDone, opVars>>

\* Disabling clears the queue without releasing what was in it.
SetEnabledStranding(o, on) ==
  /\ enabled' = on
  /\ TakeOut(o, {}, "forward", "notifying")
  /\ queue' = IF on THEN queue ELSE {}
  /\ order' = IF on THEN order ELSE {}
  /\ UNCHANGED <<interceptResponses, itemVars>>

\* The toggle flips and the queued responses stay.
SetInterceptResponsesFlagOnly(o, on) ==
  /\ interceptResponses' = on
  /\ TakeOut(o, {}, "forward", "idle")
  /\ UNCHANGED <<enabled, queue, order, itemVars>>

\* The toggle for responses lets the requests go too.
SetInterceptResponsesAll(o, on) ==
  LET released == {i \in order : ~on}
  IN /\ interceptResponses' = on
     /\ TakeOut(o, released, "forward", "idle")
     /\ queue' = queue \ released
     /\ order' = order \ released
     /\ UNCHANGED <<enabled, itemVars>>

\* The decision is sent without its action.
DrainAllBlank(o, a) ==
  /\ TakeOut(o, order, None, "notifying")
  /\ queue' = {}
  /\ order' = {}
  /\ UNCHANGED <<enabled, interceptResponses, itemVars>>

\* Resolve looks the item up and leaves it in the queue.
ResolveKeeping(o, i, a) ==
  /\ i \in queue
  /\ TakeOut(o, {i}, a, "notifying")
  /\ UNCHANGED <<enabled, interceptResponses, queue, order, itemVars>>

-----------------------------------------------------------------------------
(* Hold, run by the proxy.                                                 *)

\* Interception does not concern i: forward at once, without notifying.
HoldPass(i) ==
  /\ hold[i] = "idle"
  /\ ~Active(i)
  /\ hold' = [hold EXCEPT ![i] = "returned"]
  /\ result' = [result EXCEPT ![i] = "forward"]
  /\ UNCHANGED <<enabled, interceptResponses, queue, order, decision, ctxDone, opVars>>

\* Enqueue i with a fresh channel; the notification follows outside the mutex.
HoldEnqueue(i) ==
  /\ hold[i] = "idle"
  /\ Active(i)
  /\ queue' = queue \cup {i}
  /\ order' = order \cup {i}
  /\ decision' = [decision EXCEPT ![i] = None]
  /\ hold' = [hold EXCEPT ![i] = "notifying"]
  /\ UNCHANGED <<enabled, interceptResponses, result, ctxDone, opVars>>

HoldNotify(i) ==
  /\ hold[i] = "notifying"
  /\ hold' = [hold EXCEPT ![i] = "waiting"]
  /\ UNCHANGED <<enabled, interceptResponses, queue, order, decision, result, ctxDone, opVars>>

\* The select takes the decision ...
HoldReceive(i) ==
  /\ hold[i] = "waiting"
  /\ decision[i] # None
  /\ result' = [result EXCEPT ![i] = decision[i]]
  /\ decision' = [decision EXCEPT ![i] = None]
  /\ hold' = [hold EXCEPT ![i] = "returned"]
  /\ UNCHANGED <<enabled, interceptResponses, queue, order, ctxDone, opVars>>

\* ... or ctx.Done(), either one when both are ready.
HoldCancelled(i) ==
  /\ hold[i] = "waiting"
  /\ ctxDone[i]
  /\ hold' = [hold EXCEPT ![i] = "removing"]
  /\ UNCHANGED <<enabled, interceptResponses, queue, order, decision, result, ctxDone, opVars>>

\* remove(h.ID), which finds the ID gone when somebody else took it out.
HoldRemove(i) ==
  /\ hold[i] = "removing"
  /\ queue' = queue \ {i}
  /\ order' = order \ {i}
  /\ hold' = [hold EXCEPT ![i] = "removed"]
  /\ UNCHANGED <<enabled, interceptResponses, decision, result, ctxDone, opVars>>

\* The notification of remove, and the return.
HoldDrop(i) ==
  /\ hold[i] = "removed"
  /\ result' = [result EXCEPT ![i] = "drop"]
  /\ hold' = [hold EXCEPT ![i] = "returned"]
  /\ UNCHANGED <<enabled, interceptResponses, queue, order, decision, ctxDone, opVars>>

\* The client disconnects, or the request's context ends for another reason.
CtxDone(i) ==
  /\ ~ctxDone[i]
  /\ ctxDone' = [ctxDone EXCEPT ![i] = TRUE]
  /\ UNCHANGED <<enabled, interceptResponses, queue, order, decision, hold, result, opVars>>

-----------------------------------------------------------------------------
(* The methods the API handlers call.                                      *)

SetEnabled(o, on) ==
  /\ enabled' = on
  /\ TakeOut(o, IF on THEN {} ELSE order, "forward", "notifying")
  /\ queue' = IF on THEN queue ELSE {}
  /\ order' = IF on THEN order ELSE {}
  /\ UNCHANGED <<interceptResponses, itemVars>>

\* Turning response interception off lets the held responses go, and notifies
\* only if there were any.
SetInterceptResponses(o, on) ==
  LET released == {i \in order : ~on /\ Dir[i] = "response"}
  IN /\ interceptResponses' = on
     /\ TakeOut(o, released, "forward", "idle")
     /\ queue' = queue \ released
     /\ order' = order \ released
     /\ UNCHANGED <<enabled, itemVars>>

DrainAll(o, a) ==
  /\ TakeOut(o, order, a, "notifying")
  /\ queue' = {}
  /\ order' = {}
  /\ UNCHANGED <<enabled, interceptResponses, itemVars>>

\* Resolve of a queued ID.  For any other ID it returns ErrUnknownItem and
\* changes nothing.
Resolve(o, i, a) ==
  /\ i \in queue
  /\ TakeOut(o, {i}, a, "notifying")
  /\ queue' = queue \ {i}
  /\ order' = order \ {i}
  /\ UNCHANGED <<enabled, interceptResponses, itemVars>>

\* One send of the loop after the critical section.  It blocks while the
\* channel's only slot is taken.
SendDecision(o, i) ==
  /\ op[o] = "sending"
  /\ i \in release[o]
  /\ decision[i] = None
  /\ decision' = [decision EXCEPT ![i] = verdict[o]]
  /\ release' = [release EXCEPT ![o] = @ \ {i}]
  /\ op' = [op EXCEPT ![o] = IF release[o] = {i} THEN "notifying" ELSE "sending"]
  /\ UNCHANGED <<enabled, interceptResponses, queue, order, hold, result, ctxDone, verdict>>

Notify(o) ==
  /\ op[o] = "notifying"
  /\ op' = [op EXCEPT ![o] = "idle"]
  /\ UNCHANGED <<enabled, interceptResponses, queue, order, itemVars, release, verdict>>

-----------------------------------------------------------------------------

HoldStep(i) ==
  HoldNotify(i) \/ HoldReceive(i) \/ HoldCancelled(i) \/ HoldRemove(i) \/ HoldDrop(i)

OpStep(o) == (\E i \in Items : SendDecision(o, i)) \/ Notify(o)

Next ==
  \/ \E i \in Items : HoldPass(i) \/ HoldEnqueue(i) \/ HoldStep(i) \/ CtxDone(i)
  \/ \E o \in Operators, on \in BOOLEAN : SetEnabled(o, on) \/ SetInterceptResponses(o, on)
  \/ \E o \in Operators, a \in Action : DrainAll(o, a)
  \/ \E o \in Operators, i \in Items, a \in Action : Resolve(o, i, a)
  \/ \E o \in Operators : OpStep(o)

\* The Go scheduler runs every goroutine that can run.  No operator has to
\* decide anything and no client has to disconnect.
Fairness ==
  /\ \A i \in Items : WF_vars(HoldStep(i))
  /\ \A o \in Operators : WF_vars(OpStep(o))

Spec == Init /\ [][Next]_vars /\ Fairness
-----------------------------------------------------------------------------
(* Properties.                                                             *)

\* Somebody has decided a for i, and Hold has not consumed it yet.
Accepted(i, a) == decision[i] = a \/ \E o \in Operators : i \in release[o] /\ verdict[o] = a

\* Hold has enqueued i and sleeps until somebody decides.
Holding(i) == hold[i] \in {"notifying", "waiting"}

\* The map and the slice list the same items, so that the methods that walk
\* the slice and look each ID up in the map (SetEnabled, DrainAll, Queue) never
\* meet a missing entry.
OrderIsQueue == order = queue

\* A class of messages whose interception is off has nothing in the queue:
\* disabling forwards everything currently held, and a Hold that comes later
\* does not enqueue.
ClosedGateHoldsNothing == \A i \in queue : Active(i)

\* At most one party will ever send to a channel that holds one decision: the
\* queue (whoever takes the item out next), one operator, or nobody once the
\* decision is in the channel.  No send blocks and no item is decided twice.
OneDecider ==
  \A i \in Items :
    /\ \A o, p \in Operators : i \in release[o] /\ i \in release[p] => o = p
    /\ i \in queue => decision[i] = None
    /\ \A o \in Operators : i \in release[o] => i \notin queue /\ decision[i] = None

\* And at least one will: a sleeping Hold can still be found in the queue, is
\* on an operator's list, or has its decision waiting.
NobodyStranded ==
  \A i \in Items : Holding(i) => i \in queue \/ \E a \in Action : Accepted(i, a)

\* When a Hold returned something else than what an operator had decided for
\* it, its client was gone and it returned "drop".
OverruledOnlyWhenGone ==
  \A i \in Items, a \in Action :
    Accepted(i, a) /\ result[i] # None => ctxDone[i] /\ result[i] = "drop"

\* A decision once accepted is never revised or lost: it stays on its way
\* until Hold returns it.
DecisionsAreFinal ==
  [][\A i \in Items, a \in Action : Accepted(i, a) => Accepted(i, a)' \/ result'[i] = a]_vars

\* Turning interception off for a class of messages gets every held message of
\* that class out of Hold, whatever the operators do next.
TogglesRelease == \A i \in Items : Holding(i) /\ ~Active(i) ~> hold[i] = "returned"

\* A held item whose client has gone is let go, without any operator.
DisconnectReleases == \A i \in Items : Holding(i) /\ ctxDone[i] ~> hold[i] = "returned"

\* The queue behaves like the gate of HoldGate, where a decision and the change
\* of the queue it belongs to are one step.  An item is held as long as it is
\* queued; its verdict is on an operator's list, then in its channel, then in
\* what Hold returned.
VerdictOf(i) ==
  IF \E a \in Action : Accepted(i, a)
  THEN CHOOSE a \in Action : Accepted(i, a)
  ELSE IF hold[i] = "removed" THEN "drop" ELSE result[i]

Gate == INSTANCE HoldGate WITH
  arrived <- {i \in Items : hold[i] # "idle"},
  held    <- queue,
  verdict <- [i \in Items |-> VerdictOf(i)],
  result  <- [i \in Items |-> IF hold[i] = "removed" THEN "drop" ELSE result[i]]

ImplementsGate == Gate!Spec
=============================================================================
