---------------------------- MODULE MCIntruder -----------------------------
(* The draft of an attack and the life of its runs, for TLC.  The runner    *)
(* sees of the draft only what Validate and Count made of it (Total), so    *)
(* the two are checked side by side: the first state decides which moves.   *)
EXTENDS MCIntruderRunner, PayloadDraft

VARIABLE stage

intruderVars == <<stage, vars, draftVars>>

\* What CreateIntruderAttack makes of an empty request.
NewDraft == [type |-> "sniper", markers |-> 0, sets |-> <<>>]

IntruderInit ==
  /\ stage \in {"draft", "run"}
  /\ Init /\ DraftInit
  /\ stage = "draft" \/ draft = NewDraft

DraftTurn == stage = "draft" /\ UNCHANGED <<stage, vars>>
RunTurn   == stage = "run" /\ UNCHANGED <<stage, draftVars>>

IntruderNext == (DraftTurn /\ DraftNext) \/ (RunTurn /\ Next)

IntruderSpec == IntruderInit /\ [][IntruderNext]_intruderVars

\* Up to three positions, one of them unbalanced, and up to three sets.
MCDrafts ==
  [type : AttackType \cup {"unknown"},
   markers : 0..6,
   sets : UNION {[1..n -> 0..3] : n \in 0..3}]
=============================================================================
