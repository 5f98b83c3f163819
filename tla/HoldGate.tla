------------------------------ MODULE HoldGate ------------------------------
(***************************************************************************)
(* What manual interception promises, with its locks, channels and         *)
(* goroutines abstracted away (internal/proxy/intercept/interceptor.go).   *)
(*                                                                         *)
(* Proxied messages arrive at a gate.  The gate lets a message pass or     *)
(* holds it until somebody decides "forward" or "drop".  Closing the gate  *)
(* for a class of messages decides "forward" for every held message of     *)
(* that class in the same step: nothing is stranded behind a toggle.       *)
(***************************************************************************)

CONSTANTS
  Items,   \* the calls of Hold: one per request or response that reaches it
  Dir      \* the direction of each item

Direction == {"request", "response"}
Action    == {"forward", "drop"}
None      == "none"

ASSUME DirAssumption == Dir \in [Items -> Direction]

VARIABLES
  enabled,             \* interception is on
  interceptResponses,  \* responses are held too
  arrived,             \* items whose Hold has been called
  held,                \* items waiting for a decision
  verdict,             \* what was decided about an item
  result               \* what Hold returned for an item

vars == <<enabled, interceptResponses, arrived, held, verdict, result>>

TypeOK ==
  /\ enabled \in BOOLEAN
  /\ interceptResponses \in BOOLEAN
  /\ arrived \in SUBSET Items
  /\ held \in SUBSET Items
  /\ verdict \in [Items -> Action \cup {None}]
  /\ result \in [Items -> Action \cup {None}]

-----------------------------------------------------------------------------

\* A message of i's class is held by the gate as it stands.
Active(i) == enabled /\ (Dir[i] = "request" \/ interceptResponses)

\* Everything in S gets the decision a, in one step.
Decide(S, a) ==
  /\ held' = held \ S
  /\ verdict' = [i \in Items |-> IF i \in S THEN a ELSE verdict[i]]

Init ==
  /\ enabled = FALSE
  /\ interceptResponses = FALSE
  /\ arrived = {}
  /\ held = {}
  /\ verdict = [i \in Items |-> None]
  /\ result = [i \in Items |-> None]

\* The gate is open for i: Hold returns at once.
Pass(i) ==
  /\ i \notin arrived
  /\ ~Active(i)
  /\ arrived' = arrived \cup {i}
  /\ verdict' = [verdict EXCEPT ![i] = "forward"]
  /\ result' = [result EXCEPT ![i] = "forward"]
  /\ UNCHANGED <<enabled, interceptResponses, held>>

Enter(i) ==
  /\ i \notin arrived
  /\ Active(i)
  /\ arrived' = arrived \cup {i}
  /\ held' = held \cup {i}
  /\ UNCHANGED <<enabled, interceptResponses, verdict, result>>

SetEnabled(on) ==
  /\ enabled' = on
  /\ Decide(IF on THEN {} ELSE held, "forward")
  /\ UNCHANGED <<interceptResponses, arrived, result>>

SetInterceptResponses(on) ==
  /\ interceptResponses' = on
  /\ Decide(IF on THEN {} ELSE {i \in held : Dir[i] = "response"}, "forward")
  /\ UNCHANGED <<enabled, arrived, result>>

Resolve(i, a) ==
  /\ i \in held
  /\ Decide({i}, a)
  /\ UNCHANGED <<enabled, interceptResponses, arrived, result>>

DrainAll(a) ==
  /\ Decide(held, a)
  /\ UNCHANGED <<enabled, interceptResponses, arrived, result>>

\* Hold returns what was decided.
Return(i) ==
  /\ verdict[i] # None
  /\ result[i] = None
  /\ result' = [result EXCEPT ![i] = verdict[i]]
  /\ UNCHANGED <<enabled, interceptResponses, arrived, held, verdict>>

\* The client went away while i was held, or before Hold saw the decision.
Abandon(i) ==
  /\ i \in arrived
  /\ result[i] = None
  /\ result' = [result EXCEPT ![i] = "drop"]
  /\ held' = held \ {i}
  /\ verdict' = [verdict EXCEPT ![i] = IF @ = None THEN "drop" ELSE @]
  /\ UNCHANGED <<enabled, interceptResponses, arrived>>

Next ==
  \/ \E i \in Items : Pass(i) \/ Enter(i) \/ Return(i) \/ Abandon(i)
  \/ \E on \in BOOLEAN : SetEnabled(on) \/ SetInterceptResponses(on)
  \/ \E i \in Items, a \in Action : Resolve(i, a)
  \/ \E a \in Action : DrainAll(a)

\* A decision reaches its Hold; nobody is obliged to decide anything.
Fairness == \A i \in Items : WF_vars(Return(i))

Spec == Init /\ [][Next]_vars /\ Fairness
=============================================================================
