-------------------------- MODULE MCIntruderEngine --------------------------
(* Instances of IntruderEngine for TLC.                                    *)
EXTENDS IntruderEngine

\* Up to three positions and three sets, any concurrency there can be.
MCConfigs ==
  [type : AttackType, markers : {2, 4, 5}, concurrency : (-1)..3,
   sets : UNION {[1..n -> 1..2] : n \in 1..3}]
=============================================================================
