---------------------------- MODULE PayloadDraft ----------------------------
(***************************************************************************)
(* An attack before it runs: its configuration is edited at will, and a    *)
(* start is answered by Validate and Count (internal/api/handlers/         *)
(* intruder.go, internal/intruder/intruder.go).                            *)
(***************************************************************************)
EXTENDS PayloadJobs, FiniteSets

CONSTANT Drafts   \* configurations an operator may write

ASSUME DraftAssumption == \A c \in Drafts : IsConfig(c)

VARIABLES
  draft,     \* the configuration in the row
  answer,    \* Validate's answer to the last start, "" after an edit
  announced  \* what Count announced to the runner, 0 if it did not start

draftVars == <<draft, answer, announced>>

DraftInit == draft \in Drafts /\ answer = "" /\ announced = 0

\* PUT .../attacks/{id}
UpdateIntruderAttack ==
  /\ draft' \in Drafts \ {draft}
  /\ answer' = "" /\ announced' = 0

\* POST .../start, up to Runner.Start.
StartIntruderAttack ==
  /\ answer' = Validate(draft)
  /\ announced' = IF answer' = "ok" THEN Count(draft) ELSE 0
  /\ UNCHANGED draft

DraftNext == UpdateIntruderAttack \/ StartIntruderAttack

DraftSpec == DraftInit /\ [][DraftNext]_draftVars

-----------------------------------------------------------------------------

\* An attack that starts tries something, and exactly as much as was announced,
\* although Count computes the number without generating the requests and the
\* cluster bomb's saturates.
AnnouncedIsTried == answer = "ok" => announced > 0 /\ Cardinality(Tried(draft)) = announced

\* A start is refused for its size only when that is what is wrong with it: what
\* generates no requests tries nothing, and what is too large has more than
\* MaxJobs combinations, unless one of its sets is empty (product returns as soon
\* as the sets before that one are too many).
RefusalsAreDue ==
  /\ answer = "no requests" => Tried(draft) = {}
  /\ answer = "too many" /\ (\A i \in 1..Slots(draft) : draft.sets[i] > 0)
       => Cardinality(Tried(draft)) > MaxJobs

\* What Validate and Count answer agrees with what the attack type stands for.
CountsAreRight == AnnouncedIsTried /\ RefusalsAreDue
=============================================================================
