-------------------------- MODULE MCIntruderRunner --------------------------
(* Instances of IntruderRunner for TLC.                                    *)
EXTENDS IntruderRunner, TLC

CONSTANTS a1, r1, r2, h1, h2

OneAttack  == {a1}
TwoRuns    == {r1, r2}
TwoHandlers == {h1, h2}

Everything == {"crash", "timeout", "store"}
StoreWorks == {"crash", "timeout"}
Nothing    == {}

\* Runs and handlers are interchangeable.
Symmetry == Permutations(TwoRuns) \cup Permutations(TwoHandlers)
=============================================================================
