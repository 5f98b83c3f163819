-------------------------- MODULE SequencerCapture --------------------------
(***************************************************************************)
(* Token captures of one task (internal/sequencer/runner.go), its row      *)
(* (internal/storage/sequencer.go) and the calls of the API on it          *)
(* (internal/api/handlers/sequencer.go).                                   *)
(*                                                                         *)
(* Workers send the same request until there are enough tokens or too many *)
(* failures.  Tokens are numbered in the order they were appended, so a    *)
(* sample is the number of its tokens.                                     *)
(***************************************************************************)
EXTENDS TaskRun, FiniteSets

CONSTANTS
  Target,      \* tokens wanted
  Patience,    \* failures allowed beyond the target
  MaxStored,   \* tokens kept in the row (maxStoredTokens)
  SeqWorkers,  \* the pool
  SeqEvery     \* how often progress is written (progressEvery)

ASSUME SeqAssumption ==
  /\ Target \in Nat \ {0} /\ Patience \in Nat \ {0} /\ MaxStored \in Nat
  /\ SeqEvery \in Nat \ {0} /\ IsFiniteSet(SeqWorkers) /\ SeqWorkers # {}

VARIABLES
  seqRow,     \* collected, the tokens stored and the sample the report is about
  seqPc,      \* where the goroutine of the capture stands
  collected,  \* tokens
  fails,      \* failures
  sampler,    \* the workers
  sent        \* requests sent

seqBody == <<seqRow, seqPc, collected, fails, sampler, sent>>
seqVars == <<taskVars, seqBody>>

MaxFails == Target + Patience
NoReport == Target + 1
Least(a, b) == IF a < b THEN a ELSE b

At(l) == [at |-> l]
SamplerStates ==
  [at : {"loop", "send", "persist", "gone"}] \cup [at : {"write"}, n : 0..Target]

SeqTypeOK ==
  /\ TaskTypeOK
  /\ seqRow \in [collected : 0..Target, tokens : 0..MaxStored, report : 0..NoReport]
  /\ seqPc \in {"none", "run", "result"}
  /\ collected \in 0..Target /\ fails \in Nat /\ sent \in Nat
  /\ sampler \in [SeqWorkers -> SamplerStates]

SeqInit ==
  /\ TaskInit
  /\ seqRow = [collected |-> 0, tokens |-> 0, report |-> NoReport]
  /\ seqPc = "none"
  /\ collected = 0 /\ fails = 0 /\ sent = 0
  /\ sampler = [w \in SeqWorkers |-> At("gone")]

\* persist: the count and the first tokens of the sample, on the row if there is one.
Persisted(n) ==
  seqRow' = IF status = "deleted" THEN seqRow
            ELSE [seqRow EXCEPT !.collected = n, !.tokens = Least(n, MaxStored)]

Move(w, l) == sampler' = [sampler EXCEPT ![w] = At(l)]

-----------------------------------------------------------------------------
(* Seeded faults.  None is part of the specification.                      *)

\* The cap is not checked again where the token is appended.
RoomAlways == TRUE

\* The capture ends without a last write.
SamplesDoneUnwritten ==
  /\ seqPc = "run" /\ \A w \in SeqWorkers : sampler[w] = At("gone")
  /\ seqPc' = "result"
  /\ UNCHANGED <<taskVars, seqRow, collected, fails, sampler, sent>>

-----------------------------------------------------------------------------
(* Calls of the API.                                                       *)

\* A stop that finds the task running only in its row writes back the report it read.
SeqTaskCall ==
  /\ TaskCall \/ DeleteRow
  /\ UNCHANGED <<seqPc, collected, fails, sampler, sent>>
  /\ IF stopCall = "write" /\ stopCall' = "none" /\ status # "deleted"
     THEN seqRow' = [seqRow EXCEPT !.report = NoReport]
     ELSE UNCHANGED seqRow

-----------------------------------------------------------------------------
(* The goroutine of the capture.                                           *)

PrepareSeq ==
  /\ PrepareRow
  /\ seqRow' = [collected |-> 0, tokens |-> 0, report |-> NoReport]
  /\ seqPc' = "run"
  /\ sampler' = [w \in SeqWorkers |-> At("loop")]
  /\ UNCHANGED <<collected, fails, sent>>

Enough == collected >= Target \/ fails >= MaxFails

\* The head of a worker's loop, under the mutex: it ends, or it sends once more.
Loop(w) ==
  /\ sampler[w].at = "loop"
  /\ IF cancel \/ Enough
     THEN Move(w, "gone") /\ UNCHANGED sent
     ELSE Move(w, "send") /\ sent' = sent + 1
  /\ UNCHANGED <<taskVars, seqRow, seqPc, collected, fails>>

\* No answer, or none with a token in it.
NoToken(w) ==
  /\ sampler[w].at = "send"
  /\ fails' = fails + 1
  /\ Move(w, "loop")
  /\ UNCHANGED <<taskVars, seqRow, seqPc, collected, sent>>

Room == collected < Target

\* A token is appended if there is still room for it ("so collected never overshoots
\* target"); otherwise the worker ends.
Token(w) ==
  /\ sampler[w].at = "send" /\ ~cancel
  /\ IF Room
     THEN /\ collected' = collected + 1
          /\ Move(w, IF collected' % SeqEvery = 0 THEN "persist" ELSE "loop")
     ELSE Move(w, "gone") /\ UNCHANGED collected
  /\ UNCHANGED <<taskVars, seqRow, seqPc, fails, sent>>

\* persist reads under the mutex and writes after it, so two writes may swap.
ReadSample(w) ==
  /\ sampler[w].at = "persist"
  /\ sampler' = [sampler EXCEPT ![w] = [at |-> "write", n |-> collected]]
  /\ UNCHANGED <<taskVars, seqRow, seqPc, collected, fails, sent>>

WriteSample(w) ==
  /\ sampler[w].at = "write"
  /\ Persisted(sampler[w].n)
  /\ Move(w, "loop")
  /\ UNCHANGED <<taskVars, seqPc, collected, fails, sent>>

\* All workers have ended: the last write.
SamplesDone ==
  /\ seqPc = "run" /\ \A w \in SeqWorkers : sampler[w] = At("gone")
  /\ Persisted(collected)
  /\ seqPc' = "result"
  /\ UNCHANGED <<taskVars, collected, fails, sampler, sent>>

\* SetSequencerResult: the status and the report on what was collected.
FinishSeq ==
  /\ seqPc = "result"
  /\ Finish(IF cancel THEN "stopped" ELSE IF collected = 0 THEN "error" ELSE "completed")
  /\ seqRow' = IF status = "deleted" THEN seqRow ELSE [seqRow EXCEPT !.report = collected]
  /\ seqPc' = "none"
  /\ UNCHANGED <<collected, fails, sampler, sent>>

NoCapture ==
  /\ seqPc' = "none" /\ collected' = 0 /\ fails' = 0 /\ sent' = 0
  /\ sampler' = [w \in SeqWorkers |-> At("gone")]
  /\ UNCHANGED seqRow

ReleaseSeq == Release /\ NoCapture
SeqCrash == CrashAndOpen /\ NoCapture

-----------------------------------------------------------------------------

SeqRunStep ==
  \/ PrepareSeq \/ SamplesDone \/ FinishSeq \/ ReleaseSeq
  \/ PrepareFails /\ UNCHANGED seqBody

SamplerStep(w) == Loop(w) \/ NoToken(w) \/ Token(w) \/ ReadSample(w) \/ WriteSample(w)

SeqNext ==
  \/ SeqTaskCall \/ SeqRunStep \/ SeqCrash
  \/ \E w \in SeqWorkers : SamplerStep(w)

SeqFairness ==
  /\ WF_seqVars(SeqRunStep)
  /\ \A w \in SeqWorkers : WF_seqVars(SamplerStep(w))

SeqSpec == SeqInit /\ [][SeqNext]_seqVars /\ SeqFairness

-----------------------------------------------------------------------------
(* Properties.                                                             *)

\* However many workers there are, a capture collects no more than its target and
\* gives up on a dead one: it sends no more requests than tokens, failures and
\* workers account for.
SendsAreBounded ==
  /\ collected <= Target
  /\ sent <= Target + MaxFails + Cardinality(SeqWorkers)

\* When a capture has ended, its row holds the whole sample, and the report is about
\* exactly that sample, although progress may have been written out of order.
ReportIsOnSample ==
  status \in {"completed", "error"} =>
    /\ seqRow.report = seqRow.collected
    /\ seqRow.tokens = Least(seqRow.collected, MaxStored)
    /\ status = "error" <=> seqRow.collected = 0

\* A capture ends, whatever the target answers.
CaptureEnds == phase = "prepare" ~> phase = "none"
=============================================================================
