--------------------------- MODULE EngineContract ---------------------------
(***************************************************************************)
(* What Runner expects of Engine.Run (internal/intruder/engine.go): it     *)
(* hands over the result of each request at most once, and returns when it *)
(* has handed over all of them or, if its context was cancelled, some.     *)
(* The executing phase of IntruderRunner takes these steps.                *)
(***************************************************************************)
EXTENDS Naturals

VARIABLES
  total,      \* requests the attack generates
  sent,       \* indices of the results handed over
  cancelled,  \* the run's context has been cancelled
  returned    \* Run has returned

vars == <<total, sent, cancelled, returned>>

Init == total \in Nat /\ sent = {} /\ cancelled = FALSE /\ returned = FALSE

Cancel == cancelled' = TRUE /\ UNCHANGED <<total, sent, returned>>

Result ==
  /\ ~returned
  /\ \E k \in (1..total) \ sent : sent' = sent \cup {k}
  /\ UNCHANGED <<total, cancelled, returned>>

Return ==
  /\ cancelled \/ sent = 1..total
  /\ returned' = TRUE
  /\ UNCHANGED <<total, sent, cancelled>>

Next == Cancel \/ Result \/ Return

Spec == Init /\ [][Next]_vars /\ WF_vars(Result \/ Return)
=============================================================================
