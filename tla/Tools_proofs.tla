---------------------------- MODULE Tools_proofs ----------------------------
(***************************************************************************)
(* That the scanner, the crawler and the sequencer keep to the life of a   *)
(* task, that none is left marked as running, that a capture sends no more *)
(* than it was given and reports on all it has, and that a scan counts     *)
(* what it found, for any number of workers, runs, crashes and tokens.     *)
(***************************************************************************)
EXTENDS MCTools, Induction

\* A step of a scan is one of its task, or leaves the task alone.
LEMMA ScanIsTask == ScanNext => [TaskNext]_taskVars
<1> SUFFICES ASSUME ScanNext PROVE [TaskNext]_taskVars
  OBVIOUS
<1>1. CASE ScanTaskCall \/ ClearScanIssues \/ \E f \in Passive : ScanPassive(f)
  BY <1>1 DEF ScanTaskCall, ClearScanIssues, ScanPassive, TaskNext
<1>2. CASE ScanRunStep
  <2>1. (IF cancel THEN "stopped" ELSE "completed") \in Outcome
    BY DEF Outcome
  <2> QED
    BY <1>2, <2>1 DEF ScanRunStep, PrepareScan, Baseline, LastProgress, FinishScan, Collect, TaskNext
<1>3. CASE StopFeeding \/ ScanCrash \/ \E w \in ScanWorkers : ProberStep(w)
  BY <1>3 DEF StopFeeding, ScanCrash, ProberStep, Feed, Probe, ProberEnds, TaskNext
<1> QED
  BY <1>1, <1>2, <1>3 DEF ScanNext

\* So is a step of a crawl, ...
LEMMA CrawlIsTask == CrawlNext => [TaskNext]_taskVars
<1> SUFFICES ASSUME CrawlNext PROVE [TaskNext]_taskVars
  OBVIOUS
<1>1. CASE CrawlTaskCall \/ CrawlCrash
  BY <1>1 DEF CrawlTaskCall, CrawlCrash, TaskNext
<1>2. CASE CrawlRunStep
  <2>1. (IF cancel THEN "stopped" ELSE IF pages = 0 THEN "error" ELSE "completed") \in Outcome
    BY DEF Outcome
  <2> QED
    BY <1>2, <2>1 DEF CrawlRunStep, PrepareCrawl, SeedAccepted, SeedRefused, Level, CloseJobs,
         NextLevel, LastCounts, FinishCrawl, ReleaseCrawl, TaskNext
<1>3. CASE \E w \in Spiders : SpiderStep(w)
  BY <1>3 DEF SpiderStep, FeedSpider, FetchFails, Fetched, AddPage, ReadCounts, WriteCounts, SpiderEnds
<1> QED
  BY <1>1, <1>2, <1>3 DEF CrawlNext

\* ... and one of a capture.
LEMMA SeqIsTask == SeqNext => [TaskNext]_taskVars
<1> SUFFICES ASSUME SeqNext PROVE [TaskNext]_taskVars
  OBVIOUS
<1>1. CASE SeqTaskCall \/ SeqCrash
  BY <1>1 DEF SeqTaskCall, SeqCrash, TaskNext
<1>2. CASE SeqRunStep
  <2>1. (IF cancel THEN "stopped" ELSE IF collected = 0 THEN "error" ELSE "completed") \in Outcome
    BY DEF Outcome
  <2> QED
    BY <1>2, <2>1 DEF SeqRunStep, PrepareSeq, SamplesDone, FinishSeq, ReleaseSeq, TaskNext
<1>3. CASE \E w \in SeqWorkers : SamplerStep(w)
  BY <1>3 DEF SamplerStep, Loop, NoToken, Token, ReadSample, WriteSample
<1> QED
  BY <1>1, <1>2, <1>3 DEF SeqNext

LEMMA ToolsStep == [ToolsNext]_toolVars => [TaskNext]_taskVars
  BY ScanIsTask, CrawlIsTask, SeqIsTask DEF ToolsNext, ScanTurn, CrawlTurn, SeqTurn, toolVars

\* The three tools implement one and the same life of a task: the map of running
\* tasks, the status column, and what the API may do in between.
THEOREM ToolsAreTasks == ToolsSpec => TaskInit /\ [][TaskNext]_taskVars
<1>1. ToolsInit => TaskInit
  BY DEF ToolsInit, ScanInit
<1> QED
  BY <1>1, ToolsStep, PTL DEF ToolsSpec

\* A row is written "running" only by a run that is going to write another status, and
\* that status is written before the run leaves the map.
LEMMA TaskKeepsRunning == NotLeftRunning /\ [TaskNext]_taskVars => NotLeftRunning'
<1> SUFFICES ASSUME NotLeftRunning, [TaskNext]_taskVars PROVE NotLeftRunning'
  OBVIOUS
<1> USE DEF NotLeftRunning, SetStatus
<1>1. CASE TaskCall \/ DeleteRow
  BY <1>1 DEF TaskCall, Start, Stop, StopMissed, StopRead, StopWrite, DeleteStop, DeleteRow
<1>2. CASE PrepareRow \/ PrepareFails \/ Release \/ CrashAndOpen
  BY <1>2 DEF PrepareRow, PrepareFails, Release, CrashAndOpen
<1>3. ASSUME NEW s \in Outcome, Finish(s) PROVE NotLeftRunning'
  BY <1>3 DEF Finish, Outcome
<1>4. CASE UNCHANGED taskVars
  BY <1>4 DEF taskVars
<1> QED
  BY <1>1, <1>2, <1>3, <1>4 DEF TaskNext

\* No scan, crawl or capture is left at running: neither by a run that ends, nor by a
\* crash, nor by a start, stop or delete that races with it (reconcileRunningScans).
THEOREM NoneLeftRunning == ToolsSpec => []NotLeftRunning
<1>1. TaskInit => NotLeftRunning
  BY DEF TaskInit, NotLeftRunning
<1> QED
  BY <1>1, TaskKeepsRunning, ToolsAreTasks, PTL

LEMMA TaskTypes == TaskTypeOK /\ [TaskNext]_taskVars => TaskTypeOK'
<1> SUFFICES ASSUME TaskTypeOK, [TaskNext]_taskVars PROVE TaskTypeOK'
  OBVIOUS
<1> USE TaskAssumption DEF TaskTypeOK, SetStatus, Outcome, callVars
<1>1. CASE Start
  <2>1. runs' \in 0..MaxRuns
    BY <1>1 DEF Start
  <2>2. cancel' \in BOOLEAN
    BY <1>1 DEF Start
  <2> QED
    BY <1>1, <2>1, <2>2 DEF Start
<1>2. CASE Stop \/ StopMissed
  BY <1>2 DEF Stop, StopMissed
<1>3. CASE StopRead
  BY <1>3 DEF StopRead
<1>4. CASE StopWrite \/ DeleteStop \/ DeleteRow
  BY <1>4 DEF StopWrite, DeleteStop, DeleteRow
<1>5. CASE PrepareRow \/ PrepareFails \/ Release
  BY <1>5 DEF PrepareRow, PrepareFails, Release
<1>6. ASSUME NEW s \in Outcome, Finish(s) PROVE TaskTypeOK'
  BY <1>6 DEF Finish
<1>7. CASE CrashAndOpen
  <2>1. crashes' \in 0..MaxCrashes /\ runs' \in 0..MaxRuns
    BY <1>7 DEF CrashAndOpen
  <2>2. cancel' \in BOOLEAN /\ deleting' \in BOOLEAN
    BY <1>7 DEF CrashAndOpen
  <2> QED
    BY <1>7, <2>1, <2>2 DEF CrashAndOpen
<1>8. CASE UNCHANGED taskVars
  BY <1>8 DEF taskVars
<1> QED
  BY <1>1, <1>2, <1>3, <1>4, <1>5, <1>6, <1>7, <1>8 DEF TaskNext, TaskCall

\* While a run has not ended, its row says so, or that it was stopped or deleted.
RunIsOpen == phase = "run" => status \in {"running", "stopped", "deleted"}

LEMMA TaskKeepsOpen == RunIsOpen /\ [TaskNext]_taskVars => RunIsOpen'
<1> SUFFICES ASSUME RunIsOpen, [TaskNext]_taskVars PROVE RunIsOpen'
  OBVIOUS
<1> USE DEF RunIsOpen, SetStatus
<1>1. CASE TaskCall \/ DeleteRow
  BY <1>1 DEF TaskCall, Start, Stop, StopMissed, StopRead, StopWrite, DeleteStop, DeleteRow
<1>2. CASE PrepareRow \/ PrepareFails \/ Release \/ CrashAndOpen
  BY <1>2 DEF PrepareRow, PrepareFails, Release, CrashAndOpen
<1>3. ASSUME NEW s \in Outcome, Finish(s) PROVE RunIsOpen'
  BY <1>3 DEF Finish
<1>4. CASE UNCHANGED taskVars
  BY <1>4 DEF taskVars
<1> QED
  BY <1>1, <1>2, <1>3, <1>4 DEF TaskNext

-----------------------------------------------------------------------------
(* How much a capture sends.                                               *)

seqCounts == <<collected, fails, sent, sampler>>

STypes ==
  /\ collected \in 0..Target /\ fails \in Nat /\ sent \in Nat
  /\ sampler \in [SeqWorkers -> SamplerStates]

\* Nothing of a capture is left, or there yet.
Calm ==
  /\ collected = 0 /\ fails = 0 /\ sent = 0
  /\ \A w \in SeqWorkers : sampler[w].at = "gone"

Calms == tool # "sequence" \/ phase \in {"none", "prepare"} => Calm

\* U are the workers whose last request is neither a token nor a failure: those that
\* wait for its answer, and those that ended because there was no room for it.
Owing(U) ==
  /\ \A w \in SeqWorkers : sampler[w].at = "send" => w \in U
  /\ \A w \in U : sampler[w].at \in {"send", "gone"}
  /\ sent <= collected + fails + Cardinality(U)
  /\ fails + Cardinality(U) < MaxFails + Cardinality(SeqWorkers)

SInv == STypes /\ Calms /\ \E U \in SUBSET SeqWorkers : Owing(U)

\* The sizes the argument uses.
LEMMA Sizes ==
  /\ Target \in Nat /\ MaxFails \in Nat \ {0} /\ Cardinality(SeqWorkers) \in Nat
  /\ \A U \in SUBSET SeqWorkers :
       /\ Cardinality(U) \in Nat /\ Cardinality(U) <= Cardinality(SeqWorkers)
       /\ \A w \in SeqWorkers :
            /\ w \notin U => Cardinality(U \cup {w}) = Cardinality(U) + 1
            /\ w \in U => Cardinality(U \ {w}) = Cardinality(U) - 1
<1>1. IsFiniteSet(SeqWorkers) /\ Target \in Nat /\ MaxFails \in Nat \ {0}
  BY SeqAssumption DEF MaxFails
<1> QED
  BY <1>1, FS_CardinalityType, FS_Subset, FS_AddElement, FS_RemoveElement

LEMMA CalmOwes == ASSUME STypes, Calm PROVE Owing({})
  BY Sizes, FS_EmptySet DEF STypes, Calm, Owing

\* What a worker does to its own place it does to no other.
LEMMA OneMoves ==
  ASSUME STypes, NEW w \in SeqWorkers, NEW r \in SamplerStates,
         sampler' = [sampler EXCEPT ![w] = r]
  PROVE  /\ sampler' \in [SeqWorkers -> SamplerStates]
         /\ sampler'[w].at = r.at
         /\ \A v \in SeqWorkers \ {w} : sampler'[v].at = sampler[v].at
  BY DEF STypes

LEMMA Places == \A l \in {"loop", "send", "persist", "gone"} : At(l) \in SamplerStates /\ At(l).at = l
  BY DEF At, SamplerStates

\* A worker's step keeps the account.
LEMMA WorkerKeeps ==
  ASSUME SInv, tool = "sequence", NEW w \in SeqWorkers, SamplerStep(w), UNCHANGED tool
  PROVE  SInv'
<1> USE Sizes
<1>1. PICK U \in SUBSET SeqWorkers : Owing(U)
  BY DEF SInv
<1>2. UNCHANGED phase /\ sampler[w].at # "gone"
  BY DEF SamplerStep, Loop, NoToken, Token, ReadSample, WriteSample, taskVars
<1>3. Calms'
  BY <1>2 DEF SInv, Calms, Calm
<1>4. CASE Loop(w)
  <2>1. CASE cancel \/ Enough
    <3>1. sampler' = [sampler EXCEPT ![w] = At("gone")] /\ UNCHANGED <<collected, fails, sent>>
      BY <1>4, <2>1 DEF Loop, Move
    <3>2. STypes' /\ Owing(U)'
      BY <1>1, <1>4, <3>1, OneMoves, Places DEF SInv, STypes, Owing, Loop
    <3> QED
      BY <1>3, <3>2 DEF SInv
  <2>2. CASE ~(cancel \/ Enough)
    <3>1. /\ sampler' = [sampler EXCEPT ![w] = At("send")]
          /\ sent' = sent + 1 /\ UNCHANGED <<collected, fails>>
      BY <1>4, <2>2 DEF Loop, Move
    <3>2. fails < MaxFails /\ w \notin U
      BY <1>1, <1>4, <2>2 DEF Enough, SInv, STypes, Owing, Loop
    <3>3. STypes' /\ Owing(U \cup {w})'
      BY <1>1, <3>1, <3>2, OneMoves, Places DEF SInv, STypes, Owing
    <3> QED
      BY <1>3, <3>3 DEF SInv
  <2> QED
    BY <2>1, <2>2
<1>5. CASE NoToken(w)
  <2>1. /\ sampler' = [sampler EXCEPT ![w] = At("loop")]
        /\ fails' = fails + 1 /\ UNCHANGED <<collected, sent>>
    BY <1>5 DEF NoToken, Move
  <2>2. w \in U
    BY <1>1, <1>5 DEF NoToken, Owing
  <2>3. STypes' /\ Owing(U \ {w})'
    BY <1>1, <2>1, <2>2, OneMoves, Places DEF SInv, STypes, Owing
  <2> QED
    BY <1>3, <2>3 DEF SInv
<1>6. CASE Token(w)
  <2>1. w \in U
    BY <1>1, <1>6 DEF Token, Owing
  <2>2. CASE Room
    <3>1. PICK l \in {"persist", "loop"} :
            /\ sampler' = [sampler EXCEPT ![w] = At(l)]
            /\ collected' = collected + 1 /\ UNCHANGED <<fails, sent>>
      BY <1>6, <2>2 DEF Token, Move
    <3>2. STypes' /\ Owing(U \ {w})'
      BY <1>1, <2>1, <2>2, <3>1, OneMoves, Places DEF SInv, STypes, Owing, Room
    <3> QED
      BY <1>3, <3>2 DEF SInv
  <2>3. CASE ~Room
    <3>1. /\ sampler' = [sampler EXCEPT ![w] = At("gone")]
          /\ UNCHANGED <<collected, fails, sent>>
      BY <1>6, <2>3 DEF Token, Move
    <3>2. STypes' /\ Owing(U)'
      BY <1>1, <2>1, <3>1, OneMoves, Places DEF SInv, STypes, Owing
    <3> QED
      BY <1>3, <3>2 DEF SInv
  <2> QED
    BY <2>2, <2>3
<1>7. CASE ReadSample(w) \/ WriteSample(w)
  <2>1. PICK r \in SamplerStates :
          /\ sampler' = [sampler EXCEPT ![w] = r] /\ r.at \in {"write", "loop"}
          /\ UNCHANGED <<collected, fails, sent>>
    BY <1>7, Places DEF ReadSample, WriteSample, Move, SamplerStates, SInv, STypes
  <2>2. sampler[w].at \in {"persist", "write"}
    BY <1>7 DEF ReadSample, WriteSample
  <2>3. STypes' /\ Owing(U)'
    BY <1>1, <2>1, <2>2, OneMoves DEF SInv, STypes, Owing
  <2> QED
    BY <1>3, <2>3 DEF SInv
<1> QED
  BY <1>4, <1>5, <1>6, <1>7 DEF SamplerStep

\* So does every other step: it starts the account afresh or leaves it alone.
LEMMA NextSends == SInv /\ [ToolsNext]_toolVars => SInv'
<1> SUFFICES ASSUME SInv, [ToolsNext]_toolVars PROVE SInv'
  OBVIOUS
<1>1. ASSUME STypes', Calm' PROVE SInv'
  BY <1>1, Sizes, FS_EmptySet DEF SInv, STypes, Calm, Calms, Owing
<1>2. ASSUME UNCHANGED seqCounts, Calms' PROVE SInv'
  BY <1>2 DEF SInv, STypes, Owing, seqCounts
<1>3. CASE ScanTurn \/ CrawlTurn \/ UNCHANGED toolVars
  BY <1>2, <1>3 DEF ScanTurn, CrawlTurn, toolVars, seqBody, seqCounts, SInv, Calms, Calm, taskVars
<1>4. ASSUME SeqTurn, SeqNext PROVE SInv'
  <2>1. tool = "sequence" /\ tool' = tool
    BY <1>4 DEF SeqTurn
  <2>2. CASE \E w \in SeqWorkers : SamplerStep(w)
    BY <2>1, <2>2, WorkerKeeps
  <2>3. CASE SeqTaskCall
    <3>1. phase' = phase \/ (phase = "none" /\ phase' = "prepare")
      BY <2>3 DEF SeqTaskCall, TaskCall, Start, Stop, StopMissed, StopRead, StopWrite, DeleteStop, DeleteRow
    <3> QED
      BY <1>2, <2>1, <2>3, <3>1 DEF SeqTaskCall, seqCounts, SInv, Calms, Calm
  <2>4. CASE SamplesDone \/ FinishSeq \/ (PrepareFails /\ UNCHANGED seqBody)
    <3>1. UNCHANGED seqCounts /\ (phase' = phase \/ phase' = "release")
      BY <2>4 DEF SamplesDone, FinishSeq, Finish, PrepareFails, seqBody, seqCounts, taskVars
    <3> QED
      BY <1>2, <2>1, <3>1 DEF seqCounts, SInv, Calms, Calm
  <2>5. CASE PrepareSeq
    <3>1. /\ UNCHANGED <<collected, fails, sent>> /\ Calm /\ phase' = "run"
          /\ sampler' = [w \in SeqWorkers |-> At("loop")]
      BY <2>5 DEF PrepareSeq, PrepareRow, SInv, Calms
    <3>2. STypes' /\ Owing({})'
      BY <3>1, Sizes, Places, FS_EmptySet DEF SInv, STypes, Calm, Owing
    <3> QED
      BY <2>1, <3>1, <3>2 DEF SInv, Calms
  <2>6. CASE ReleaseSeq \/ SeqCrash
    <3>1. /\ collected' = 0 /\ fails' = 0 /\ sent' = 0
          /\ sampler' = [w \in SeqWorkers |-> At("gone")]
      BY <2>6 DEF ReleaseSeq, SeqCrash, NoCapture
    <3>2. STypes' /\ Calm'
      BY <3>1, Sizes, Places DEF STypes, Calm
    <3> QED
      BY <1>1, <3>2
  <2> QED
    BY <1>4, <2>2, <2>3, <2>4, <2>5, <2>6 DEF SeqNext, SeqRunStep
<1> QED
  BY <1>3, <1>4 DEF ToolsNext

LEMMA InitSends == ToolsInit => SInv
<1> SUFFICES ASSUME ToolsInit PROVE SInv
  OBVIOUS
<1>1. STypes /\ Calm
  BY Sizes, Places DEF ToolsInit, SeqInit, STypes, Calm
<1> QED
  BY <1>1, CalmOwes DEF SInv, Calms

\* A capture never has more tokens than its target, and its workers together send no
\* more than the tokens, the failures and one request each account for, even against a
\* target that never gives a token.
THEOREM SendsBounded == ToolsSpec => []SendsAreBounded
<1>1. SInv => SendsAreBounded
  BY Sizes DEF SInv, STypes, Owing, SendsAreBounded
<1> QED
  BY <1>1, InitSends, NextSends, PTL DEF ToolsSpec

-----------------------------------------------------------------------------
(* What the row of a capture says.                                         *)

SeqTypes ==
  /\ seqRow \in [collected : 0..Target, tokens : 0..MaxStored, report : 0..NoReport]
  /\ seqPc \in {"none", "run", "result"}

\* The row holds the sample n.
RowHolds(n) == seqRow.collected = n /\ seqRow.tokens = Least(n, MaxStored)

\* Nobody writes the row but the workers of a capture that runs, and its last write
\* comes after theirs.
QInv ==
  /\ seqPc # "run" => \A w \in SeqWorkers : sampler[w].at = "gone"
  /\ seqPc # "none" => phase = "run"
  /\ seqPc = "result" /\ status # "deleted" => RowHolds(collected)
  /\ ReportIsOnSample

CaptureInv == SInv /\ SeqTypes /\ RunIsOpen /\ (tool = "sequence" => QInv)

LEMMA PersistedTypes ==
  ASSUME SeqTypes, NEW n \in 0..Target, Persisted(n)
  PROVE  /\ seqRow' \in [collected : 0..Target, tokens : 0..MaxStored, report : 0..NoReport]
         /\ status # "deleted" => seqRow'.collected = n /\ seqRow'.tokens = Least(n, MaxStored)
<1>1. Least(n, MaxStored) \in 0..MaxStored
  BY SeqAssumption DEF Least
<1> QED
  BY <1>1 DEF SeqTypes, Persisted

LEMMA NextSeqTypes == SInv /\ SeqTypes /\ [ToolsNext]_toolVars => SeqTypes'
<1> SUFFICES ASSUME SInv, SeqTypes, [ToolsNext]_toolVars PROVE SeqTypes'
  OBVIOUS
<1>0. 0 \in 0..Target /\ 0 \in 0..MaxStored /\ NoReport \in 0..NoReport /\ collected \in 0..NoReport
  BY SeqAssumption DEF NoReport, SInv, STypes
<1>1. CASE UNCHANGED <<seqRow, seqPc>>
  BY <1>1 DEF SeqTypes
<1>2. CASE SeqTaskCall
  BY <1>0, <1>2 DEF SeqTaskCall, SeqTypes
<1>3. CASE PrepareSeq
  BY <1>0, <1>3 DEF PrepareSeq, SeqTypes
<1>4. CASE SamplesDone
  BY <1>4, PersistedTypes DEF SamplesDone, SeqTypes, SInv, STypes
<1>5. CASE FinishSeq
  BY <1>0, <1>5 DEF FinishSeq, SeqTypes
<1>6. CASE NoCapture
  BY <1>6 DEF NoCapture, SeqTypes
<1>7. ASSUME NEW w \in SeqWorkers, WriteSample(w) PROVE SeqTypes'
  <2>1. sampler[w].n \in 0..Target
    BY <1>7 DEF WriteSample, SInv, STypes, SamplerStates
  <2> QED
    BY <1>7, <2>1, PersistedTypes DEF WriteSample, SeqTypes
<1>8. ASSUME NEW w \in SeqWorkers, Loop(w) \/ NoToken(w) \/ Token(w) \/ ReadSample(w)
      PROVE  UNCHANGED <<seqRow, seqPc>>
  BY <1>8 DEF Loop, NoToken, Token, ReadSample
<1> QED
  BY <1>1, <1>2, <1>3, <1>4, <1>5, <1>6, <1>7, <1>8
     DEF ToolsNext, ScanTurn, CrawlTurn, SeqNext, SeqRunStep, SamplerStep, ReleaseSeq, SeqCrash,
         toolVars, seqBody

LEMMA SampleKept ==
  ASSUME CaptureInv, tool = "sequence", NEW w \in SeqWorkers, SamplerStep(w)
  PROVE  QInv'
<1>1. sampler[w].at # "gone" /\ UNCHANGED <<seqPc, taskVars>>
  BY DEF SamplerStep, Loop, NoToken, Token, ReadSample, WriteSample
<1>2. seqPc = "run" /\ phase = "run" /\ status \notin {"completed", "error"}
  BY <1>1 DEF CaptureInv, QInv, RunIsOpen
<1> QED
  BY <1>1, <1>2 DEF QInv, ReportIsOnSample, taskVars

LEMMA CaptureKept ==
  ASSUME CaptureInv, tool = "sequence", SeqNext
  PROVE  QInv'
<1> USE DEF CaptureInv
<1>1. CASE SeqTaskCall
  <2>1. UNCHANGED <<seqPc, collected, sampler>> /\ UNCHANGED <<seqRow.collected, seqRow.tokens>>
    BY <1>1 DEF SeqTaskCall, SeqTypes
  <2>2. /\ phase = "run" => phase' = "run"
        /\ status' \in {"deleted", "stopped", status}
        /\ status = "deleted" => status' = "deleted"
        /\ status' \in {"completed", "error"} => ~(stopCall = "write" /\ stopCall' = "none")
    <3>1. CASE StopWrite
      BY <3>1 DEF StopWrite, SetStatus
    <3>2. CASE DeleteRow
      BY <3>2 DEF DeleteRow
    <3>3. CASE Start \/ Stop \/ StopMissed \/ StopRead \/ DeleteStop
      <4>1. UNCHANGED status /\ (phase = "run" => phase' = "run")
        BY <3>3 DEF Start, Stop, StopMissed, StopRead, DeleteStop
      <4>2. ~(stopCall = "write" /\ stopCall' = "none") \/ status \notin {"completed", "error"}
        BY <3>3, <1>1 DEF Start, Stop, StopMissed, StopRead, DeleteStop, callVars
      <4> QED
        BY <4>1, <4>2
    <3> QED
      BY <1>1, <3>1, <3>2, <3>3 DEF SeqTaskCall, TaskCall
  <2>3. status' \in {"completed", "error"} => UNCHANGED <<status, seqRow>>
    BY <1>1, <2>2 DEF SeqTaskCall
  <2> QED
    BY <2>1, <2>2, <2>3 DEF QInv, ReportIsOnSample, RowHolds
<1>2. CASE PrepareSeq
  BY <1>2 DEF PrepareSeq, PrepareRow, QInv, ReportIsOnSample
<1>3. CASE PrepareFails /\ UNCHANGED seqBody
  BY <1>3 DEF PrepareFails, seqBody, QInv, ReportIsOnSample
<1>4. CASE SamplesDone
  <2>1. phase = "run" /\ status \notin {"completed", "error"} /\ UNCHANGED <<taskVars, sampler, collected>>
    BY <1>4 DEF SamplesDone, QInv, RunIsOpen
  <2>2. \A w \in SeqWorkers : sampler[w].at = "gone"
    BY <1>4 DEF SamplesDone, At
  <2>3. status # "deleted" => RowHolds(collected)'
    BY <1>4, <2>1, PersistedTypes DEF SamplesDone, SInv, STypes, RowHolds
  <2> QED
    BY <1>4, <2>1, <2>2, <2>3 DEF SamplesDone, QInv, ReportIsOnSample, taskVars
<1>5. CASE FinishSeq
  <2>1. /\ seqPc = "result" /\ seqPc' = "none" /\ phase' = "release" /\ UNCHANGED <<collected, sampler>>
        /\ SetStatus(IF cancel THEN "stopped" ELSE IF collected = 0 THEN "error" ELSE "completed")
        /\ seqRow' = IF status = "deleted" THEN seqRow ELSE [seqRow EXCEPT !.report = collected]
    BY <1>5 DEF FinishSeq, Finish
  <2>2. ASSUME status' \in {"completed", "error"}
        PROVE  /\ seqRow'.report = seqRow'.collected
               /\ seqRow'.tokens = Least(seqRow'.collected, MaxStored)
               /\ status' = "error" <=> seqRow'.collected = 0
    <3>1. status # "deleted" /\ ~cancel
      BY <2>1, <2>2 DEF SetStatus
    <3>2. RowHolds(collected)
      BY <2>1, <3>1 DEF QInv
    <3>3. seqRow'.report = collected /\ seqRow'.collected = seqRow.collected /\ seqRow'.tokens = seqRow.tokens
      BY <2>1, <3>1 DEF SeqTypes
    <3> QED
      BY <2>1, <3>1, <3>2, <3>3 DEF SetStatus, RowHolds
  <2> QED
    BY <2>1, <2>2 DEF QInv, ReportIsOnSample
<1>6. CASE ReleaseSeq \/ SeqCrash
  <2>1. NoCapture /\ (status' = status \/ status' = "stopped")
    BY <1>6 DEF ReleaseSeq, SeqCrash, Release, CrashAndOpen
  <2> QED
    BY <2>1 DEF NoCapture, At, QInv, ReportIsOnSample
<1>7. CASE \E w \in SeqWorkers : SamplerStep(w)
  BY <1>7, SampleKept
<1> QED
  BY <1>1, <1>2, <1>3, <1>4, <1>5, <1>6, <1>7 DEF SeqNext, SeqRunStep

LEMMA NextCapture == CaptureInv /\ [ToolsNext]_toolVars => CaptureInv'
<1> SUFFICES ASSUME CaptureInv, [ToolsNext]_toolVars PROVE CaptureInv'
  OBVIOUS
<1>1. SInv' /\ SeqTypes' /\ RunIsOpen'
  BY NextSends, NextSeqTypes, ToolsStep, TaskKeepsOpen DEF CaptureInv
<1>2. CASE ScanTurn \/ CrawlTurn
  BY <1>1, <1>2 DEF ScanTurn, CrawlTurn, CaptureInv
<1>3. CASE SeqTurn /\ SeqNext
  BY <1>1, <1>3, CaptureKept DEF SeqTurn, CaptureInv
<1>4. CASE UNCHANGED toolVars
  BY <1>1, <1>4 DEF CaptureInv, QInv, RowHolds, ReportIsOnSample, toolVars, taskVars, seqBody
<1> QED
  BY <1>2, <1>3, <1>4 DEF ToolsNext

LEMMA InitCapture == ToolsInit => CaptureInv
<1> SUFFICES ASSUME ToolsInit PROVE CaptureInv
  OBVIOUS
<1>1. SInv
  BY InitSends
<1>2. SeqTypes
  BY SeqAssumption DEF ToolsInit, SeqInit, SeqTypes, NoReport
<1> QED
  BY <1>1, <1>2 DEF ToolsInit, SeqInit, TaskInit, CaptureInv, QInv, RunIsOpen, ReportIsOnSample, At

\* The report of a capture that has ended is about the sample its row holds, and that is
\* the whole sample, although workers read the counts under the mutex and write them after it.
THEOREM CaptureIsReported == ToolsSpec => []CaptureReported
<1>1. CaptureInv => CaptureReported
  BY DEF CaptureInv, QInv, CaptureReported
<1> QED
  BY <1>1, InitCapture, NextCapture, PTL DEF ToolsSpec

-----------------------------------------------------------------------------
(* How many jobs a scan has, and the types of its variables.               *)

\* The jobs of the checks in C, for one insertion point and payload after the other.
JobsOf(C) == UNION {{<<i, c, p>> : p \in 1..Payloads[c]} : i \in Insertions, c \in C}

LEMMA JobsIn ==
  \A C, j : j \in JobsOf(C) <=> \E i \in Insertions, c \in C : \E p \in 1..Payloads[c] : j = <<i, c, p>>
<1> SUFFICES ASSUME NEW C, NEW j
             PROVE  j \in JobsOf(C) <=>
                      \E i \in Insertions, c \in C : \E p \in 1..Payloads[c] : j = <<i, c, p>>
  OBVIOUS
<1> DEFINE J(i, c) == {<<i, c, p>> : p \in 1..Payloads[c]}
<1>1. JobsOf(C) = UNION {J(i, c) : i \in Insertions, c \in C}
  BY DEF JobsOf
<1>2. \A i, c : j \in J(i, c) <=> \E p \in 1..Payloads[c] : j = <<i, c, p>>
  OBVIOUS
<1> HIDE DEF J
<1> QED
  BY <1>1, <1>2

LEMMA JobsOfOne ==
  ASSUME NEW c \in Checks
  PROVE  /\ IsFiniteSet(JobsOf({c}))
         /\ Cardinality(JobsOf({c})) = Cardinality(Insertions) * Payloads[c]
<1> DEFINE P == Insertions \X (1..Payloads[c])
           f == [q \in P |-> <<q[1], c, q[2]>>]
<1>1. Payloads[c] \in Nat /\ IsFiniteSet(Insertions)
  BY ScanAssumption
<1>2. IsFiniteSet(1..Payloads[c]) /\ Cardinality(1..Payloads[c]) = Payloads[c]
  BY <1>1, UpTo
<1>3. IsFiniteSet(P) /\ Cardinality(P) = Cardinality(Insertions) * Payloads[c]
  BY <1>1, <1>2, FS_Product
<1>4. \A j : j \in JobsOf({c}) <=> \E i \in Insertions : \E p \in 1..Payloads[c] : j = <<i, c, p>>
  BY JobsIn
<1>5. \A q \in P : q = <<q[1], q[2]>> /\ q[1] \in Insertions /\ q[2] \in 1..Payloads[c]
  OBVIOUS
<1>6. \A q \in P : f[q] = <<q[1], c, q[2]>> /\ f[q] \in JobsOf({c})
  BY <1>4, <1>5
<1>7. f \in [P -> JobsOf({c})]
  BY <1>6
<1>8. \A q, r \in P : f[q] = f[r] => q = r
  BY <1>5
<1>9. \A j \in JobsOf({c}) : \E q \in P : f[q] = j
  <2> SUFFICES ASSUME NEW j \in JobsOf({c}) PROVE \E q \in P : f[q] = j
    OBVIOUS
  <2>1. PICK i \in Insertions, p \in 1..Payloads[c] : j = <<i, c, p>>
    BY <1>4
  <2>2. <<i, p>> \in P /\ f[<<i, p>>] = j
    BY <2>1
  <2> QED
    BY <2>2
<1>10. f \in Bijection(P, JobsOf({c}))
  <2> HIDE DEF f, P
  <2> QED
    BY <1>7, <1>8, <1>9 DEF Bijection, Injection, Surjection, IsInjective
<1> QED
  BY <1>3, <1>10, FS_Bijection DEF ExistsBijection

\* PlanCount, which the code computes with a product and a sum, counts the baseline and
\* the jobs the feeder makes one by one.
LEMMA PlanIsJobs ==
  /\ IsFiniteSet(Jobs) /\ Cardinality(Jobs) \in Nat
  /\ PlanCount = 1 + Cardinality(Jobs)
<1>1. IsFiniteSet(Checks) /\ Payloads \in [Checks -> Nat] /\ Cardinality(Insertions) \in Nat
  BY ScanAssumption, FS_CardinalityType
<1>2. PICK g : Sums(g, Checks, Payloads) /\ SumFunction(Payloads) = g[Checks]
  BY <1>1, SumOfFunction
<1> DEFINE Right(s) == /\ IsFiniteSet(JobsOf(s))
                       /\ Cardinality(JobsOf(s)) = Cardinality(Insertions) * g[s]
           T == {n \in Nat : \A s \in SUBSET Checks : Cardinality(s) = n => Right(s)}
<1>3. \A s \in SUBSET Checks : IsFiniteSet(s) /\ Cardinality(s) \in Nat
  BY <1>1, FS_Subset, FS_CardinalityType
<1>4. 0 \in T
  <2>1. JobsOf({}) = {}
    BY DEF JobsOf
  <2>2. IsFiniteSet(JobsOf({})) /\ Cardinality(JobsOf({})) = 0
    BY <2>1, FS_EmptySet
  <2>3. Cardinality(Insertions) * g[{}] = 0
    BY <1>1, <1>2 DEF Sums
  <2> QED
    BY <1>3, <2>2, <2>3, FS_EmptySet
<1>5. ASSUME NEW n \in Nat, n \in T PROVE n + 1 \in T
  <2> SUFFICES ASSUME NEW s \in SUBSET Checks, Cardinality(s) = n + 1 PROVE Right(s)
    OBVIOUS
  <2>1. s # {}
    BY FS_EmptySet
  <2>2. PICK x \in s : g[s] = Payloads[x] + g[s \ {x}]
    BY <1>2, <2>1 DEF Sums
  <2>3. s \ {x} \in SUBSET Checks /\ Right(s \ {x})
    <3>1. s \ {x} \in SUBSET Checks /\ Cardinality(s \ {x}) = n
      BY <1>3, FS_RemoveElement
    <3> QED
      BY <1>5, <3>1
  <2>4. /\ JobsOf(s) = JobsOf(s \ {x}) \cup JobsOf({x})
        /\ JobsOf(s \ {x}) \cap JobsOf({x}) = {}
    BY DEF JobsOf
  <2>5. /\ IsFiniteSet(JobsOf(s))
        /\ Cardinality(JobsOf(s)) = Cardinality(JobsOf(s \ {x})) + Cardinality(JobsOf({x}))
    <3>1. IsFiniteSet(JobsOf(s \ {x})) /\ IsFiniteSet(JobsOf({x}))
      BY <2>3, JobsOfOne
    <3> QED
      BY <2>4, <3>1, TwoParts
  <2>6. g[s \ {x}] \in Nat /\ Payloads[x] \in Nat /\ x \in Checks
    BY <1>1, <1>2, <2>3 DEF Sums
  <2>7. Cardinality(Insertions) * g[s]
          = Cardinality(Insertions) * g[s \ {x}] + Cardinality(Insertions) * Payloads[x]
    BY <1>1, <2>2, <2>6
  <2> QED
    BY <2>3, <2>5, <2>6, <2>7, JobsOfOne
<1>6. Cardinality(Checks) \in T
  <2> HIDE DEF T
  <2> QED
    BY <1>3, <1>4, <1>5, Induct
<1>7. Right(Checks)
  BY <1>6
<1>8. Jobs = JobsOf(Checks)
  BY DEF Jobs, JobsOf
<1> QED
  BY <1>2, <1>7, <1>8, FS_CardinalityType DEF PlanCount

\* The types of a scan's own variables.
ScanTypes ==
  /\ scanRow \in [total : Nat, completed : Nat, issues : Nat]
  /\ issues \subseteq Active \cup Passive
  /\ cleared \in BOOLEAN
  /\ scanPc \in {"none", "baseline", "collect", "status"}
  /\ baseline \subseteq NeedsBaseline /\ baselineOK \in BOOLEAN
  /\ toFeed \subseteq Jobs /\ jobsOpen \in BOOLEAN
  /\ prober \in [ScanWorkers -> ProberStates]
  /\ scanCount \in [completed : Nat, issues : Nat]

LEMMA JobShape ==
  /\ \A j \in Jobs : Fingerprint(j) \in Active
  /\ Idle \in ProberStates /\ Gone \in ProberStates
  /\ \A j \in Jobs : [at |-> "probe", job |-> j] \in ProberStates
  /\ \A j \in Jobs, h \in BOOLEAN : [at |-> "send", job |-> j, hit |-> h] \in ProberStates
  /\ \A s \in ProberStates :
       /\ s.at \in {"idle", "gone", "probe", "send"}
       /\ s.at = "idle" <=> s = Idle
       /\ s.at = "gone" <=> s = Gone
       /\ s.at \in {"probe", "send"} => s.job \in Jobs
       /\ s.at = "send" => s.hit \in BOOLEAN
<1>1. \A j \in Jobs : Fingerprint(j) \in Active
  BY JobsIn DEF Jobs, JobsOf, Fingerprint, Active
<1> QED
  BY <1>1 DEF Idle, Gone, ProberStates

\* What a step of the scan does to one worker's place.
LEMMA ProberMoves ==
  ASSUME ScanTypes, NEW w \in ScanWorkers, NEW r \in ProberStates,
         prober' = [prober EXCEPT ![w] = r]
  PROVE  /\ prober' \in [ScanWorkers -> ProberStates]
         /\ prober'[w] = r
         /\ \A v \in ScanWorkers \ {w} : prober'[v] = prober[v]
  BY DEF ScanTypes

LEMMA CountTypes ==
  ASSUME ScanTypes, NEW n \in [completed : Nat, issues : Nat], SetProgress(n)
  PROVE  scanRow' \in [total : Nat, completed : Nat, issues : Nat]
  BY DEF ScanTypes, SetProgress

LEMMA NextScanTypes == ScanTypes /\ [ToolsNext]_toolVars => ScanTypes'
<1> SUFFICES ASSUME ScanTypes, [ToolsNext]_toolVars PROVE ScanTypes'
  OBVIOUS
<1>1. CASE UNCHANGED scanBody
  BY <1>1 DEF ScanTypes, scanBody, scanRows, poolVars
<1>2. CASE ClearScanIssues
  <2>1. scanRow' \in [total : Nat, completed : Nat, issues : Nat]
    BY <1>2 DEF ClearScanIssues, ScanTypes
  <2>2. cleared' \in BOOLEAN
    BY <1>2 DEF ClearScanIssues
  <2> QED
    BY <1>2, <2>1, <2>2 DEF ClearScanIssues, poolVars, ScanTypes
<1>9. ASSUME NEW f \in Passive, ScanPassive(f) PROVE ScanTypes'
  BY <1>9 DEF ScanPassive, poolVars, ScanTypes
<1>3. CASE PrepareScan
  <2>1. scanRow' \in [total : Nat, completed : Nat, issues : Nat]
    BY <1>3, PlanIsJobs DEF PrepareScan
  <2>2. cleared' \in BOOLEAN
    BY <1>3 DEF PrepareScan
  <2> QED
    BY <1>3, <2>1, <2>2 DEF PrepareScan, poolVars, ScanTypes
<1>4. CASE Baseline
  <2>1. scanCount' \in [completed : Nat, issues : Nat]
    BY <1>4 DEF Baseline
  <2>2. scanRow' \in [total : Nat, completed : Nat, issues : Nat]
    BY <1>4, <2>1, CountTypes DEF Baseline, ScanTypes
  <2> QED
    BY <1>4, <2>1, <2>2, JobShape DEF Baseline, ScanTypes
<1>5. CASE StopFeeding \/ FinishScan
  BY <1>5 DEF StopFeeding, FinishScan, scanRows, poolVars, ScanTypes
<1>10. CASE ScanCrash
  <2>1. scanCount' \in [completed : Nat, issues : Nat] /\ prober' \in [ScanWorkers -> ProberStates]
    BY <1>10, JobShape DEF ScanCrash, NoCount
  <2>2. baselineOK' \in BOOLEAN /\ jobsOpen' \in BOOLEAN
    BY <1>10 DEF ScanCrash
  <2> QED
    BY <1>10, <2>1, <2>2 DEF ScanCrash, scanRows, ScanTypes
<1>6. CASE LastProgress
  <2>1. scanRow' \in [total : Nat, completed : Nat, issues : Nat]
    BY <1>6, CountTypes DEF LastProgress, ScanTypes
  <2> QED
    BY <1>6, <2>1 DEF LastProgress, NoCount, ScanTypes
<1>7. ASSUME NEW w \in ScanWorkers, ProberStep(w) PROVE ScanTypes'
  <2>1. PICK r \in ProberStates : prober' = [prober EXCEPT ![w] = r]
    BY <1>7, JobShape DEF ProberStep, Feed, Probe, ProberEnds, ScanTypes
  <2>2. prober' \in [ScanWorkers -> ProberStates]
    BY <2>1, ProberMoves
  <2> QED
    BY <1>7, <2>2 DEF ProberStep, Feed, Probe, ProberEnds, scanRows, ScanTypes
<1>8. ASSUME NEW w \in ScanWorkers, Collect(w) PROVE ScanTypes'
  <2>1. prober' \in [ScanWorkers -> ProberStates]
    BY <1>8, ProberMoves, JobShape DEF Collect
  <2>2. prober[w].job \in Jobs /\ prober[w].hit \in BOOLEAN
    BY <1>8, JobShape DEF Collect, ScanTypes
  <2>3. issues' \subseteq Active \cup Passive
    BY <1>8, <2>2, JobShape DEF Collect, ScanTypes
  <2>4. scanCount' \in [completed : Nat, issues : Nat]
    BY <1>8 DEF Collect, ScanTypes
  <2>5. scanRow' \in [total : Nat, completed : Nat, issues : Nat]
    BY <1>8, <2>4, CountTypes DEF Collect, ScanTypes
  <2> QED
    BY <1>8, <2>1, <2>3, <2>4, <2>5 DEF Collect, ScanTypes
<1> QED
  BY <1>1, <1>2, <1>3, <1>4, <1>5, <1>6, <1>7, <1>8, <1>9, <1>10
     DEF ToolsNext, ScanTurn, CrawlTurn, SeqTurn, ScanNext, ScanTaskCall, ScanRunStep, toolVars

-----------------------------------------------------------------------------
(* What a scan that is completed says of itself.                           *)

\* The jobs that are not counted yet: with a worker, or still to be fed.
Working(w) == prober[w].at \in {"probe", "send"}
Out == toFeed \cup {prober[w].job : w \in {v \in ScanWorkers : Working(v)}}

Found == Cardinality(issues \cap Active)

\* No job is with two workers, or with one and still to be fed; what is not out has
\* been counted.
Counted ==
  /\ \A w \in ScanWorkers : Working(w) =>
       /\ prober[w].job \notin toFeed
       /\ \A v \in ScanWorkers : v # w /\ Working(v) => prober[v].job # prober[w].job
  /\ scanCount.completed = 1 + Cardinality(Jobs \ Out)
  /\ ~cleared => scanCount.issues = Found

\* The feeder gives up only when it is told to, and no worker ends before it does.
Fed ==
  /\ jobsOpen => \A w \in ScanWorkers : prober[w] # Gone
  /\ ~jobsOpen /\ ~cancel => toFeed = {}

\* A check that compares with the baseline has one that does not show its signature.
Clear(c) == c \in NeedsBaseline => baselineOK /\ c \notin baseline

Compared ==
  /\ \A w \in ScanWorkers : prober[w].at = "send" /\ prober[w].hit => Clear(prober[w].job[2])
  /\ \A f \in issues \cap Active : Clear(f[2])

\* The row announces the plan, and at the end that it was carried out.
RowTotal == status # "deleted" => scanRow.total = PlanCount
RowDone ==
  ~cancel /\ status # "deleted" =>
    scanRow.completed = PlanCount /\ (~cleared => scanRow.issues = Found)

WInv ==
  /\ scanPc # "collect" => \A w \in ScanWorkers : prober[w] = Gone
  /\ scanPc # "none" => phase = "run" /\ RowTotal
  /\ scanPc = "baseline" => issues \cap Active = {}
  /\ scanPc = "collect" => Counted /\ Fed /\ Compared
  /\ scanPc = "status" => RowDone
  /\ ScanIsWhole

ScanInv == ScanTypes /\ RunIsOpen /\ (tool = "scan" => WInv)

LEMMA FoundSize == \A S : IsFiniteSet(S \cap Active) /\ Cardinality(S \cap Active) \in Nat
<1>1. IsFiniteSet(Active)
  BY ScanAssumption, FS_Product DEF Active
<1> QED
  BY <1>1, FS_Subset, FS_CardinalityType

\* The size of what is counted grows with what no worker has any more.
LEMMA JobsGone ==
  /\ \A S : Cardinality(Jobs \ S) \in Nat
  /\ \A S : \A j \in Jobs : j \in S => Cardinality(Jobs \ (S \ {j})) = Cardinality(Jobs \ S) + 1
<1>1. IsFiniteSet(Jobs)
  BY PlanIsJobs
<1>2. \A S : IsFiniteSet(Jobs \ S) /\ Cardinality(Jobs \ S) \in Nat
  BY <1>1, FS_Subset, FS_CardinalityType
<1>3. ASSUME NEW S, NEW j \in Jobs, j \in S
      PROVE  Cardinality(Jobs \ (S \ {j})) = Cardinality(Jobs \ S) + 1
  <2>1. Jobs \ (S \ {j}) = (Jobs \ S) \cup {j} /\ j \notin Jobs \ S
    BY <1>3
  <2> QED
    BY <1>2, <2>1, FS_AddElement
<1> QED
  BY <1>2, <1>3

\* A finding of an active check is new, or was counted.
LEMMA FoundGrows ==
  ASSUME NEW S, NEW f \in Active
  PROVE  Cardinality((S \cup {f}) \cap Active) = Cardinality(S \cap Active) + (IF f \notin S THEN 1 ELSE 0)
<1>1. CASE f \in S
  <2>1. (S \cup {f}) \cap Active = S \cap Active
    BY <1>1
  <2> QED
    BY <1>1, <2>1, FoundSize
<1>2. CASE f \notin S
  <2>1. (S \cup {f}) \cap Active = (S \cap Active) \cup {f} /\ f \notin S \cap Active
    BY <1>2
  <2> QED
    BY <1>2, <2>1, FoundSize, FS_AddElement
<1> QED
  BY <1>1, <1>2

LEMMA WorkerTakes ==
  ASSUME ScanInv, tool = "scan", NEW w \in ScanWorkers, ProberStep(w)
  PROVE  WInv'
<1> USE DEF ScanInv
<1>1. /\ scanPc = "collect" /\ UNCHANGED <<taskVars, scanRows, scanPc, baseline, baselineOK, scanCount>>
  BY DEF ProberStep, Feed, Probe, ProberEnds, WInv, Fed, Idle, Gone
<1>2. UNCHANGED jobsOpen /\ Counted /\ Fed /\ Compared
  BY <1>1 DEF ProberStep, Feed, Probe, ProberEnds, WInv
<1>3. PICK r \in ProberStates : prober' = [prober EXCEPT ![w] = r]
  BY JobShape DEF ProberStep, Feed, Probe, ProberEnds, ScanTypes
<1>4. prober'[w] = r /\ \A v \in ScanWorkers \ {w} : prober'[v] = prober[v]
  BY <1>3, ProberMoves
<1>5. Out' = Out /\ Counted' /\ Fed' /\ Compared'
  <2>1. CASE Feed(w)
    <3>1. PICK j \in toFeed :
            /\ toFeed' = toFeed \ {j}
            /\ prober' = [prober EXCEPT ![w] = [at |-> "probe", job |-> j]]
            /\ jobsOpen /\ prober[w] = Idle
      BY <2>1 DEF Feed
    <3>2. prober'[w] = [at |-> "probe", job |-> j] /\ ~Working(w) /\ Working(w)'
      BY <3>1 DEF ScanTypes, Working, Idle
    <3>3. \A v \in ScanWorkers \ {w} : Working(v)' <=> Working(v)
      BY <1>4 DEF Working
    <3>4. Out' = Out
      <4>1. ASSUME NEW x
            PROVE  x \in Out' <=> x \in Out
        BY <1>4, <3>1, <3>2, <3>3 DEF Out
      <4> QED
        BY <4>1
    <3>5. Counted'
      BY <1>1, <1>2, <1>4, <3>1, <3>2, <3>3, <3>4 DEF Counted, scanRows, Found
    <3>6. Fed' /\ Compared'
      BY <1>1, <1>2, <1>4, <3>1, <3>2 DEF Fed, Compared, scanRows, taskVars, Clear, Gone
    <3> QED
      BY <3>4, <3>5, <3>6
  <2>2. CASE Probe(w)
    <3>1. PICK hit \in BOOLEAN :
            /\ hit => ~cancel /\ Clear(prober[w].job[2])
            /\ prober' = [prober EXCEPT ![w] = [at |-> "send", job |-> @.job, hit |-> hit]]
            /\ prober[w].at = "probe" /\ UNCHANGED toFeed
      BY <2>2 DEF Probe, Clear
    <3>2. /\ prober'[w].at = "send" /\ prober'[w].job = prober[w].job /\ prober'[w].hit = hit
      BY <3>1 DEF ScanTypes
    <3>3. \A v \in ScanWorkers : (Working(v)' <=> Working(v)) /\ (Working(v) => prober'[v].job = prober[v].job)
      BY <1>4, <3>1, <3>2 DEF Working
    <3>4. Out' = Out
      BY <3>1, <3>3 DEF Out
    <3>5. Counted'
      BY <1>1, <1>2, <3>1, <3>3, <3>4 DEF Counted, scanRows, Found
    <3>6. Compared'
      BY <1>1, <1>2, <1>4, <3>1, <3>2 DEF Compared, scanRows, Clear
    <3>7. Fed'
      BY <1>1, <1>2, <1>4, <3>1, <3>2 DEF Fed, taskVars, Gone
    <3> QED
      BY <3>4, <3>5, <3>6, <3>7
  <2>3. CASE ProberEnds(w)
    <3>1. ~jobsOpen /\ prober[w] = Idle /\ prober'[w] = Gone /\ UNCHANGED toFeed
      BY <2>3 DEF ProberEnds, ScanTypes
    <3>2. \A v \in ScanWorkers : (Working(v)' <=> Working(v)) /\ (Working(v) => prober'[v].job = prober[v].job)
      BY <1>4, <3>1 DEF Working, Idle, Gone
    <3>3. Out' = Out
      BY <3>1, <3>2 DEF Out
    <3>4. Counted'
      BY <1>1, <1>2, <3>1, <3>2, <3>3 DEF Counted, scanRows, Found
    <3>5. Compared' /\ Fed'
      BY <1>1, <1>2, <1>4, <3>1 DEF Compared, Fed, scanRows, taskVars, Clear, Gone
    <3> QED
      BY <3>3, <3>4, <3>5
  <2> QED
    BY <2>1, <2>2, <2>3 DEF ProberStep
<1> QED
  BY <1>1, <1>5 DEF WInv, RowTotal, RowDone, ScanIsWhole, Found, scanRows, taskVars

LEMMA ResultCounted ==
  ASSUME ScanInv, ScanTypes', tool = "scan", NEW w \in ScanWorkers, Collect(w)
  PROVE  WInv'
<1> USE DEF ScanInv
<1> DEFINE j == prober[w].job
           f == Fingerprint(j)
           hit == prober[w].hit
<1>1. /\ scanPc = "collect" /\ prober[w].at = "send"
      /\ issues' = IF hit THEN issues \cup {f} ELSE issues
      /\ scanCount' = [completed |-> scanCount.completed + 1,
                       issues |-> scanCount.issues + (IF hit /\ New(f) THEN 1 ELSE 0)]
      /\ prober' = [prober EXCEPT ![w] = Idle]
      /\ UNCHANGED <<taskVars, cleared, scanPc, baseline, baselineOK, toFeed, jobsOpen>>
  BY DEF Collect
<1>2. Counted /\ Fed /\ Compared /\ phase = "run" /\ RowTotal
  BY <1>1 DEF WInv
<1>3. prober'[w] = Idle /\ \A v \in ScanWorkers \ {w} : prober'[v] = prober[v]
  BY <1>1 DEF ScanTypes
<1>4. j \in Jobs /\ f \in Active /\ hit \in BOOLEAN
  BY <1>1, JobShape DEF ScanTypes
<1>5. Working(w) /\ ~Working(w)' /\ \A v \in ScanWorkers \ {w} : Working(v)' <=> Working(v)
  BY <1>1, <1>3 DEF Working, Idle
<1>6. Out' = Out \ {j} /\ j \in Out
  <2>1. j \in Out
    BY <1>5 DEF Out
  <2>2. ASSUME NEW x PROVE x \in Out' <=> x \in Out /\ x # j
    <3>1. x \in Out' <=> \/ x \in toFeed
                         \/ \E v \in ScanWorkers \ {w} : Working(v) /\ x = prober[v].job
      BY <1>1, <1>3, <1>5 DEF Out
    <3>2. x \in Out <=> \/ x \in toFeed
                        \/ \E v \in ScanWorkers : Working(v) /\ x = prober[v].job
      BY DEF Out
    <3>3. j \notin toFeed /\ \A v \in ScanWorkers \ {w} : Working(v) => prober[v].job # j
      BY <1>2, <1>5 DEF Counted
    <3> QED
      BY <3>1, <3>2, <3>3
  <2> QED
    BY <2>1, <2>2
<1> HIDE DEF j
<1>7. Counted'
  <2>1. scanCount'.completed = 1 + Cardinality(Jobs \ Out')
    <3>1. /\ Cardinality(Jobs \ Out) \in Nat
          /\ Cardinality(Jobs \ (Out \ {j})) = Cardinality(Jobs \ Out) + 1
      BY <1>4, <1>6, JobsGone
    <3>2. scanCount.completed = 1 + Cardinality(Jobs \ Out) /\ scanCount'.completed = scanCount.completed + 1
      BY <1>1, <1>2 DEF Counted
    <3> QED
      BY <1>6, <3>1, <3>2
  <2>2. ~cleared => scanCount'.issues = Cardinality(issues' \cap Active)
    <3>1. CASE hit
      BY <1>1, <1>2, <1>4, <3>1, FoundGrows DEF Counted, Found, New
    <3>2. CASE ~hit
      BY <1>1, <1>2, <1>4, <3>2, FoundSize DEF Counted, Found, ScanTypes
    <3> QED
      BY <3>1, <3>2
  <2>3. \A v \in ScanWorkers : Working(v)' =>
          /\ prober'[v].job \notin toFeed'
          /\ \A u \in ScanWorkers : u # v /\ Working(u)' => prober'[u].job # prober'[v].job
    BY <1>1, <1>2, <1>3, <1>5 DEF Counted
  <2> QED
    BY <1>1, <2>1, <2>2, <2>3 DEF Counted, Found
<1>8. Fed'
  BY <1>1, <1>2, <1>3 DEF Fed, taskVars, Idle, Gone
<1>9. Compared'
  <2>1. hit => Clear(f[2])
    BY <1>1, <1>2 DEF Compared, Fingerprint, j
  <2>2. \A c : Clear(c)' <=> Clear(c)
    BY <1>1 DEF Clear
  <2>3. \A g \in issues' \cap Active : Clear(g[2])
    BY <1>1, <1>2, <2>1 DEF Compared
  <2>4. \A v \in ScanWorkers : prober'[v].at = "send" /\ prober'[v].hit => Clear(prober'[v].job[2])
    BY <1>2, <1>3 DEF Compared, Idle
  <2> QED
    BY <2>2, <2>3, <2>4 DEF Compared
<1>10. RowTotal'
  BY <1>1, <1>2 DEF Collect, SetProgress, RowTotal, taskVars, ScanTypes
<1>11. ScanIsWhole'
  BY <1>1, <1>2 DEF RunIsOpen, ScanIsWhole, taskVars
<1> QED
  BY <1>1, <1>2, <1>7, <1>8, <1>9, <1>10, <1>11 DEF WInv, taskVars

LEMMA ScanKept ==
  ASSUME ScanInv, ScanTypes', tool = "scan", ScanNext
  PROVE  WInv'
<1> USE DEF ScanInv
<1>1. CASE ScanTaskCall
  <2>1. UNCHANGED scanBody
    BY <1>1 DEF ScanTaskCall
  <2>2. /\ phase = "run" => phase' = "run"
        /\ status = "deleted" => status' = "deleted"
        /\ status' = "completed" => status = "completed"
    BY <1>1 DEF ScanTaskCall, TaskCall, DeleteRow, Start, Stop, StopMissed, StopRead, StopWrite, DeleteStop, SetStatus
  <2>3. ASSUME phase = "run", cancel PROVE cancel'
    BY <1>1, <2>3, Zenon DEF ScanTaskCall, TaskCall, DeleteRow, Start, Stop, StopMissed, StopRead, StopWrite, DeleteStop
  <2> QED
    BY <2>1, <2>2, <2>3 DEF WInv, RowTotal, RowDone, ScanIsWhole, Counted, Fed, Compared, Clear, Found,
         Out, Working, scanBody, scanRows, poolVars
<1>2. CASE ClearScanIssues
  <2>1. /\ cleared' /\ issues' = {} /\ scanRow'.total = scanRow.total /\ scanRow'.completed = scanRow.completed
        /\ UNCHANGED <<taskVars, scanPc, poolVars, scanCount>>
    BY <1>2 DEF ClearScanIssues, ScanTypes
  <2> QED
    BY <2>1 DEF WInv, RowTotal, RowDone, ScanIsWhole, Counted, Fed, Compared, Clear, Found,
         Out, Working, taskVars, poolVars
<1>3. ASSUME NEW f \in Passive, ScanPassive(f) PROVE WInv'
  <2>1. /\ issues' \cap Active = issues \cap Active
        /\ UNCHANGED <<taskVars, scanRow, cleared, scanPc, poolVars, scanCount>>
    BY <1>3, ScanAssumption DEF ScanPassive, Active
  <2> QED
    BY <2>1 DEF WInv, RowTotal, RowDone, ScanIsWhole, Counted, Fed, Compared, Clear, Found,
         Out, Working, taskVars, poolVars
<1>4. CASE PrepareScan
  <2>1. /\ phase = "prepare" /\ phase' = "run" /\ status' = "running" /\ scanPc' = "baseline"
        /\ scanRow'.total = PlanCount /\ issues' \cap Active = {} /\ UNCHANGED prober
    BY <1>4 DEF PrepareScan, PrepareRow, poolVars
  <2> QED
    BY <2>1 DEF WInv, RowTotal, ScanIsWhole
<1>5. CASE Baseline
  <2>1. /\ scanPc = "baseline" /\ scanPc' = "collect" /\ toFeed' = Jobs /\ jobsOpen' = TRUE
        /\ prober' = [w \in ScanWorkers |-> Idle]
        /\ scanCount' = [completed |-> 1, issues |-> 0]
        /\ UNCHANGED <<taskVars, issues, cleared>>
    BY <1>5 DEF Baseline
  <2>2. phase = "run" /\ issues \cap Active = {} /\ RowTotal
    BY <2>1 DEF WInv
  <2>3. \A w \in ScanWorkers : prober'[w].at = "idle" /\ prober'[w] # Gone
    BY <2>1 DEF Idle, Gone
  <2>4. Counted'
    <3>1. Jobs \ Out' = {}
      BY <2>1 DEF Out
    <3>2. Cardinality({}) = 0
      BY FS_EmptySet
    <3>3. scanCount'.completed = 1 + Cardinality(Jobs \ Out') /\ scanCount'.issues = Cardinality(issues' \cap Active)
      BY <2>1, <2>2, <3>1, <3>2
    <3> QED
      BY <2>3, <3>3 DEF Counted, Working, Found
  <2>5. Fed' /\ Compared'
    BY <2>1, <2>2, <2>3 DEF Fed, Compared
  <2>6. RowTotal'
    BY <1>5, <2>1, <2>2 DEF Baseline, SetProgress, RowTotal, ScanTypes, taskVars
  <2>7. ScanIsWhole'
    BY <2>1, <2>2 DEF RunIsOpen, ScanIsWhole, taskVars
  <2> QED
    BY <2>1, <2>2, <2>4, <2>5, <2>6, <2>7 DEF WInv, taskVars
<1>6. CASE LastProgress
  <2>1. /\ scanPc = "collect" /\ scanPc' = "status" /\ SetProgress(scanCount)
        /\ \A w \in ScanWorkers : prober[w] = Gone
        /\ UNCHANGED <<taskVars, issues, cleared, prober>>
    BY <1>6 DEF LastProgress
  <2>2. Counted /\ Fed /\ phase = "run" /\ RowTotal
    BY <2>1 DEF WInv
  <2>3. RowTotal' /\ RowDone'
    <3> SUFFICES ASSUME status # "deleted"
                 PROVE  /\ scanRow'.total = PlanCount
                        /\ ~cancel => /\ scanRow'.completed = PlanCount
                                      /\ ~cleared => scanRow'.issues = Found
      BY <2>1 DEF RowTotal, RowDone, taskVars, Found
    <3>1. /\ scanRow'.total = scanRow.total
          /\ scanRow'.completed = scanCount.completed /\ scanRow'.issues = scanCount.issues
      BY <2>1 DEF SetProgress, ScanTypes
    <3>2. ~jobsOpen
      BY <2>1, <2>2, ScanAssumption DEF Fed
    <3>3. ~cancel => Jobs \ Out = Jobs
      BY <2>1, <2>2, <3>2 DEF Fed, Out, Working, Gone
    <3> QED
      BY <2>2, <3>1, <3>3, PlanIsJobs DEF Counted, RowTotal
  <2>4. ScanIsWhole'
    BY <2>1, <2>2 DEF RunIsOpen, ScanIsWhole, taskVars
  <2> QED
    BY <2>1, <2>2, <2>3, <2>4 DEF WInv, taskVars
<1>7. CASE FinishScan
  <2>1. /\ scanPc = "status" /\ scanPc' = "none" /\ UNCHANGED <<scanRow, issues, cleared, prober>>
        /\ SetStatus(IF cancel THEN "stopped" ELSE "completed")
    BY <1>7 DEF FinishScan, Finish, scanRows, poolVars
  <2>2. RowTotal /\ RowDone /\ status # "completed"
    BY <2>1 DEF WInv, RunIsOpen
  <2>3. status' = "completed" => ~cancel /\ status # "deleted"
    BY <2>1, <2>2 DEF SetStatus
  <2>4. ScanIsWhole'
    BY <2>1, <2>2, <2>3 DEF RowTotal, RowDone, Found, ScanIsWhole
  <2> QED
    BY <2>1, <2>4 DEF WInv
<1>8. CASE (PrepareFails \/ Release) /\ UNCHANGED scanBody
  <2>1. phase # "run" /\ UNCHANGED <<status, scanBody>>
    BY <1>8 DEF PrepareFails, Release
  <2>2. scanPc = "none"
    BY <2>1 DEF WInv
  <2> QED
    BY <2>1, <2>2 DEF WInv, ScanIsWhole, scanBody, scanRows, poolVars
<1>9. CASE StopFeeding
  <2>1. /\ scanPc = "collect" /\ (toFeed = {} \/ cancel) /\ jobsOpen' = FALSE
        /\ UNCHANGED <<taskVars, scanRows, scanPc, baseline, baselineOK, toFeed, prober, scanCount>>
    BY <1>9 DEF StopFeeding
  <2>2. Counted /\ Compared
    BY <2>1 DEF WInv
  <2>3. Counted' /\ Compared'
    BY <2>1, <2>2 DEF Counted, Compared, Clear, Found, Out, Working, scanRows
  <2> QED
    BY <2>1, <2>3 DEF WInv, Fed, RowTotal, RowDone, ScanIsWhole, Found, taskVars, scanRows
<1>10. CASE ScanCrash
  <2>1. /\ scanPc' = "none" /\ prober' = [w \in ScanWorkers |-> Gone] /\ UNCHANGED scanRows
        /\ status' = "completed" => status = "completed"
    BY <1>10 DEF ScanCrash, CrashAndOpen
  <2> QED
    BY <2>1 DEF WInv, ScanIsWhole, scanRows
<1> QED
  BY <1>1, <1>2, <1>3, <1>4, <1>5, <1>6, <1>7, <1>8, <1>9, <1>10, WorkerTakes, ResultCounted
     DEF ScanNext, ScanRunStep

LEMMA NextScan == ScanInv /\ [ToolsNext]_toolVars => ScanInv'
<1> SUFFICES ASSUME ScanInv, [ToolsNext]_toolVars PROVE ScanInv'
  OBVIOUS
<1>1. ScanTypes' /\ RunIsOpen'
  BY NextScanTypes, ToolsStep, TaskKeepsOpen DEF ScanInv
<1>2. CASE SeqTurn \/ CrawlTurn
  BY <1>1, <1>2 DEF SeqTurn, CrawlTurn, ScanInv
<1>3. CASE ScanTurn /\ ScanNext
  BY <1>1, <1>3, ScanKept DEF ScanTurn, ScanInv
<1>4. CASE UNCHANGED toolVars
  BY <1>1, <1>4 DEF ScanInv, WInv, RowTotal, RowDone, ScanIsWhole, Counted, Fed, Compared, Clear, Found,
       Out, Working, toolVars, taskVars, scanBody, scanRows, poolVars
<1> QED
  BY <1>2, <1>3, <1>4 DEF ToolsNext

LEMMA InitScan == ToolsInit => ScanInv
<1> SUFFICES ASSUME ToolsInit PROVE ScanInv
  OBVIOUS
<1> USE DEF ToolsInit, ScanInit
<1>1. baselineOK \in BOOLEAN /\ jobsOpen \in BOOLEAN /\ cleared \in BOOLEAN
  OBVIOUS
<1>2. ScanTypes
  BY <1>1, JobShape DEF ScanTypes, NoCount
<1> QED
  BY <1>2 DEF TaskInit, ScanInv, WInv, RunIsOpen, ScanIsWhole

\* A scan that says it is completed has sent all it announced and counts exactly the
\* findings there are, and no check that compares with the baseline has reported
\* anything the baseline showed.
THEOREM ScanIsReported == ToolsSpec => []ScanReported
<1>1. ScanInv => ScanReported
  BY DEF ScanInv, WInv, Compared, Clear, ScanReported, NothingFromBaseline
<1> QED
  BY <1>1, InitScan, NextScan, PTL DEF ToolsSpec
=============================================================================
