---------------------------- MODULE PayloadJobs ----------------------------
(***************************************************************************)
(* The requests an Intruder attack generates (internal/intruder/           *)
(* intruder.go): how many Count announces, which ones forEachJob produces  *)
(* and in what order, and what Validate lets through.                      *)
(*                                                                         *)
(* A configuration is the attack type, the number of markers in the        *)
(* template and the length of each payload set.  The k-th payload of set s *)
(* is <<s, k>>, after its processors; the text marked at position i is     *)
(* <<0, i>>.  A payload vector has one of these for each position.         *)
(***************************************************************************)
EXTENDS Naturals, Sequences

CONSTANT MaxJobs   \* the most requests one attack may generate

ASSUME JobsAssumption == MaxJobs \in Nat \ {0}

\* The numbers a configuration is made of.
IsConfig(cfg) == cfg.markers \in Nat /\ cfg.sets \in Seq(Nat)

AttackType == {"sniper", "battering_ram", "pitchfork", "cluster_bomb"}

\* Text between an odd and an even marker is a position.  A last marker without
\* its pair opens one more.
Positions(cfg) == (cfg.markers + 1) \div 2

\* The positions that have a payload set of their own.
Slots(cfg) == IF Positions(cfg) <= Len(cfg.sets) THEN Positions(cfg) ELSE Len(cfg.sets)

\* The vector with nothing replaced.
Base(cfg) == [i \in 1..Positions(cfg) |-> <<0, i>>]

\* The shortest of the sets in use, 0 if there is none.
lockstepLen(cfg) ==
  IF Slots(cfg) = 0 THEN 0
  ELSE CHOOSE n \in {cfg.sets[i] : i \in 1..Slots(cfg)} :
         \A i \in 1..Slots(cfg) : n <= cfg.sets[i]

-----------------------------------------------------------------------------
(* Seeded faults.  Each changes one of the definitions that follow the way *)
(* a slip in the code would; none is part of the specification.            *)

\* The product is taken over all the sets, in use or not.
productOfAll(cfg) ==
  LET total[i \in 0..Len(cfg.sets)] == IF i = 0 THEN 1 ELSE total[i - 1] * cfg.sets[i]
  IN IF Slots(cfg) = 0 THEN 0 ELSE total[Len(cfg.sets)]

\* The odometer wraps its last digit and stops.
NextCursorStuck(bounds, cur) ==
  IF cur[Len(cur)] < bounds[Len(cur)] THEN {[cur EXCEPT ![Len(cur)] = @ + 1]} ELSE {}

-----------------------------------------------------------------------------
(* How many: Count and Validate.                                           *)

\* The number of combinations.  An empty set or a total over MaxJobs returns at
\* once, whatever the sets that follow.
product(cfg) ==
  LET total[i \in 0..Slots(cfg)] ==
        IF i = 0 THEN 1
        ELSE LET t == total[i - 1]
                 n == cfg.sets[i]
             IN IF t = 0 \/ t > MaxJobs THEN t
                ELSE IF n = 0 THEN 0
                ELSE IF t > MaxJobs \div n THEN MaxJobs + 1
                ELSE t * n
  IN IF Slots(cfg) = 0 THEN 0 ELSE total[Slots(cfg)]

Count(cfg) ==
  IF Positions(cfg) = 0 \/ cfg.sets = <<>> THEN 0
  ELSE CASE cfg.type = "sniper"        -> Positions(cfg) * cfg.sets[1]
         [] cfg.type = "battering_ram" -> cfg.sets[1]
         [] cfg.type = "pitchfork"     -> lockstepLen(cfg)
         [] cfg.type = "cluster_bomb"  -> product(cfg)
         [] OTHER                      -> 0

\* The first problem found, or "ok".
Validate(cfg) ==
  IF cfg.type \notin AttackType THEN "unknown type"
  ELSE IF Positions(cfg) = 0 THEN "no positions"
  ELSE IF cfg.sets = <<>> THEN "no sets"
  ELSE IF \A i \in 1..Len(cfg.sets) : cfg.sets[i] = 0 THEN "empty sets"
  ELSE IF Count(cfg) = 0 THEN "no requests"
  ELSE IF Count(cfg) > MaxJobs THEN "too many"
  ELSE "ok"

-----------------------------------------------------------------------------
(* Which: forEachJob.                                                      *)

\* Its loops nest, the last one innermost; these are their bounds.  Those of the
\* cluster bomb are unrolled into an odometer.
Bounds(cfg) ==
  CASE cfg.type = "sniper"        -> <<Positions(cfg), cfg.sets[1]>>
    [] cfg.type = "battering_ram" -> <<cfg.sets[1]>>
    [] cfg.type = "pitchfork"     -> <<lockstepLen(cfg)>>
    [] cfg.type = "cluster_bomb"  -> [i \in 1..Slots(cfg) |-> cfg.sets[i]]

\* Seeded fault: the counters start one too low.
FirstCursorLow(cfg) ==
  IF Count(cfg) = 0 THEN {} ELSE {[i \in 1..Len(Bounds(cfg)) |-> 0]}

\* The loop counters before the first job, if there is one, as a set.
FirstCursor(cfg) ==
  IF Count(cfg) = 0 THEN {} ELSE {[i \in 1..Len(Bounds(cfg)) |-> 1]}

\* The loop counters after one more job: the last counter that can goes up, and
\* those inside it start again.
NextCursor(bounds, cur) ==
  {[i \in 1..Len(cur) |-> IF i < p THEN cur[i] ELSE IF i = p THEN cur[i] + 1 ELSE 1] :
     p \in {q \in 1..Len(cur) :
              cur[q] < bounds[q] /\ \A i \in (q + 1)..Len(cur) : cur[i] = bounds[i]}}

\* The payload vector of a job.
Vector(cfg, cur) ==
  CASE cfg.type = "sniper"        -> [Base(cfg) EXCEPT ![cur[1]] = <<1, cur[2]>>]
    [] cfg.type = "battering_ram" -> [i \in 1..Positions(cfg) |-> <<1, cur[1]>>]
    [] cfg.type = "pitchfork"     ->
         [i \in 1..Positions(cfg) |-> IF i <= Slots(cfg) THEN <<i, cur[1]>> ELSE <<0, i>>]
    [] cfg.type = "cluster_bomb"  ->
         [i \in 1..Positions(cfg) |-> IF i <= Slots(cfg) THEN <<i, cur[i]>> ELSE <<0, i>>]

-----------------------------------------------------------------------------
(* What the four attack types mean, as sets of vectors.                    *)

\* The payloads of the s-th set.
PayloadsOf(cfg, s) == {<<s, k>> : k \in 1..cfg.sets[s]}

\* What an attack tries: every payload of the first set in each position by
\* itself (sniper) or in all of them at once (battering ram); the sets side by
\* side (pitchfork) or in every combination (cluster bomb).
Tried(cfg) ==
  LET n == Positions(cfg)
      used == 1..Slots(cfg)
      Extend(f) == [i \in 1..n |-> IF i \in used THEN f[i] ELSE <<0, i>>]
  IN CASE cfg.type = "sniper" ->
            {[Base(cfg) EXCEPT ![i] = x] : i \in 1..n, x \in PayloadsOf(cfg, 1)}
       [] cfg.type = "battering_ram" ->
            {[i \in 1..n |-> x] : x \in PayloadsOf(cfg, 1)}
       [] cfg.type = "pitchfork" ->
            {Extend([i \in used |-> <<i, k>>]) :
               k \in {j \in 1..cfg.sets[1] : \A s \in used : j <= cfg.sets[s]}}
       [] cfg.type = "cluster_bomb" ->
            {Extend(f) : f \in {g \in [used -> UNION {PayloadsOf(cfg, s) : s \in used}] :
                                  \A s \in used : g[s] \in PayloadsOf(cfg, s)}}
=============================================================================
