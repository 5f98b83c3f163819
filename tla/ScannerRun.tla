----------------------------- MODULE ScannerRun -----------------------------
(***************************************************************************)
(* Active scans of one task (internal/scanner/runner.go), its row and the  *)
(* findings (internal/storage/scanner.go), and the calls of the API on     *)
(* them (internal/api/handlers/scanner.go).                                *)
(*                                                                         *)
(* A scan sends the request of the task once as it is (the baseline) and   *)
(* once for every insertion point and payload, with a pool of workers; one *)
(* goroutine collects what they find.  A response is reduced to the checks *)
(* whose signature it shows.                                               *)
(***************************************************************************)
EXTENDS TaskRun, FiniteSets, Functions

CONSTANTS
  Insertions,    \* insertion points of the request of the task
  Checks,        \* the registry activeChecks
  Payloads,      \* how many payloads each check tries
  NeedsBaseline, \* the checks that compare with the baseline
  Passive,       \* findings the passive checks may make
  ScanWorkers,   \* the pool
  ScanEvery      \* how often progress is written (progressEvery)

ASSUME ScanAssumption ==
  /\ IsFiniteSet(Insertions) /\ IsFiniteSet(Checks)
  /\ Payloads \in [Checks -> Nat]
  /\ NeedsBaseline \subseteq Checks
  /\ Passive \cap (Insertions \X Checks) = {}
  /\ ScanWorkers # {} /\ ScanEvery \in Nat \ {0}

VARIABLES
  scanRow,     \* the counters in the row of the task
  issues,      \* the rows of findings
  cleared,     \* findings were cleared after the last scan was prepared
  scanPc,      \* where the goroutine of the scan stands
  baseline,    \* the signatures in the baseline response that a check compares with
  baselineOK,  \* it was obtained
  toFeed,      \* jobs not yet handed to a worker
  jobsOpen,    \* jobCh is open
  prober,      \* the workers
  scanCount    \* the local variables completed and issues

scanRows == <<scanRow, issues, cleared>>
poolVars == <<baseline, baselineOK, toFeed, jobsOpen, prober>>
scanBody == <<scanRows, scanPc, poolVars, scanCount>>
scanVars == <<taskVars, scanBody>>

Jobs == UNION {{<<i, c, p>> : p \in 1..Payloads[c]} : i \in Insertions, c \in Checks}

\* Two payloads of a check at a point find the same thing.
Fingerprint(j) == <<j[1], j[2]>>
Active == Insertions \X Checks

\* What the page is told a scan will send.
PlanCount == 1 + Cardinality(Insertions) * SumFunction(Payloads)

Idle == [at |-> "idle"]
Gone == [at |-> "gone"]
ProberStates ==
  {Idle, Gone} \cup [at : {"probe"}, job : Jobs] \cup [at : {"send"}, job : Jobs, hit : BOOLEAN]

NoCount == [completed |-> 0, issues |-> 0]

ScanTypeOK ==
  /\ TaskTypeOK
  /\ scanRow \in [total : Nat, completed : Nat, issues : Nat]
  /\ issues \subseteq Active \cup Passive
  /\ cleared \in BOOLEAN
  /\ scanPc \in {"none", "baseline", "collect", "status"}
  /\ baseline \subseteq NeedsBaseline /\ baselineOK \in BOOLEAN
  /\ toFeed \subseteq Jobs /\ jobsOpen \in BOOLEAN
  /\ prober \in [ScanWorkers -> ProberStates]
  /\ scanCount \in [completed : Nat, issues : Nat]

ScanInit ==
  /\ TaskInit
  /\ scanRow = [total |-> 0, completed |-> 0, issues |-> 0]
  /\ issues = {} /\ cleared = FALSE
  /\ scanPc = "none"
  /\ baseline = {} /\ baselineOK = FALSE
  /\ toFeed = {} /\ jobsOpen = FALSE
  /\ prober = [w \in ScanWorkers |-> Gone]
  /\ scanCount = NoCount

\* UpdateScanProgress, on the row if there is one.
SetProgress(n) ==
  scanRow' = IF status = "deleted" THEN scanRow
             ELSE [scanRow EXCEPT !.completed = n.completed, !.issues = n.issues]

-----------------------------------------------------------------------------
(* Seeded faults.  None is part of the specification.                      *)

\* A finding that was there already is counted again.
NewAlways(f) == TRUE

\* The feeder closes the channel only when everything has been fed.
StopFeedingNever ==
  /\ scanPc = "collect" /\ jobsOpen /\ toFeed = {} /\ ~cancel
  /\ jobsOpen' = FALSE
  /\ UNCHANGED <<taskVars, scanRows, scanPc, baseline, baselineOK, toFeed, prober, scanCount>>

-----------------------------------------------------------------------------
(* Calls of the API.                                                       *)

\* A task without insertion points is not started.  A deleted task leaves its
\* findings.
ScanTaskCall ==
  /\ TaskCall \/ DeleteRow
  /\ phase' = "prepare" => PlanCount > 1
  /\ UNCHANGED scanBody

ClearScanIssues ==
  /\ issues # {} \/ scanRow.issues # 0
  /\ issues' = {} /\ cleared' = TRUE
  /\ scanRow' = [scanRow EXCEPT !.issues = 0]
  /\ UNCHANGED <<taskVars, scanPc, poolVars, scanCount>>

\* ScanExchange and ScanPassive: an exchange in scope, from the proxy's goroutines.
ScanPassive(f) ==
  /\ f \notin issues
  /\ issues' = issues \cup {f}
  /\ UNCHANGED <<taskVars, scanRow, cleared, scanPc, poolVars, scanCount>>

-----------------------------------------------------------------------------
(* The goroutine of the scan.                                              *)

\* PrepareScanRun: one transaction.
PrepareScan ==
  /\ PrepareRow
  /\ scanRow' = [total |-> PlanCount, completed |-> 0, issues |-> 0]
  /\ issues' = issues \ Active /\ cleared' = FALSE
  /\ scanPc' = "baseline"
  /\ UNCHANGED <<poolVars, scanCount>>

\* The baseline is answered or it is not; then the pool starts.
Baseline ==
  /\ scanPc = "baseline"
  /\ \/ ~cancel /\ baselineOK' = TRUE /\ baseline' \in SUBSET NeedsBaseline
     \/ baselineOK' = FALSE /\ baseline' = {}
  /\ scanCount' = [completed |-> 1, issues |-> 0]
  /\ IF ScanEvery = 1 THEN SetProgress(scanCount') ELSE UNCHANGED scanRow
  /\ toFeed' = Jobs /\ jobsOpen' = TRUE
  /\ prober' = [w \in ScanWorkers |-> Idle]
  /\ scanPc' = "collect"
  /\ UNCHANGED <<taskVars, issues, cleared>>

\* The feeder hands a job to a worker that is waiting for one, ...
Feed(w) ==
  /\ jobsOpen /\ prober[w] = Idle
  /\ \E j \in toFeed :
       /\ toFeed' = toFeed \ {j}
       /\ prober' = [prober EXCEPT ![w] = [at |-> "probe", job |-> j]]
  /\ UNCHANGED <<taskVars, scanRows, scanPc, baseline, baselineOK, jobsOpen, scanCount>>

\* ... until there is none left or the scan is stopped.
StopFeeding ==
  /\ scanPc = "collect" /\ jobsOpen /\ (toFeed = {} \/ cancel)
  /\ jobsOpen' = FALSE
  /\ UNCHANGED <<taskVars, scanRows, scanPc, baseline, baselineOK, toFeed, prober, scanCount>>

\* The probe is skipped without its baseline, fails, or shows the signature or not.
Probe(w) ==
  /\ prober[w].at = "probe"
  /\ LET c == prober[w].job[2] IN
     \E hit \in BOOLEAN :
       /\ hit => ~cancel /\ (c \in NeedsBaseline => baselineOK /\ c \notin baseline)
       /\ prober' = [prober EXCEPT ![w] = [at |-> "send", job |-> @.job, hit |-> hit]]
  /\ UNCHANGED <<taskVars, scanRows, scanPc, baseline, baselineOK, toFeed, jobsOpen, scanCount>>

ProberEnds(w) ==
  /\ scanPc = "collect" /\ ~jobsOpen /\ prober[w] = Idle
  /\ prober' = [prober EXCEPT ![w] = Gone]
  /\ UNCHANGED <<taskVars, scanRows, scanPc, baseline, baselineOK, toFeed, jobsOpen, scanCount>>

\* AddScanIssue ignores a finding whose fingerprint is there, and says so.
New(f) == f \notin issues

Collect(w) ==
  /\ scanPc = "collect" /\ prober[w].at = "send"
  /\ LET f   == Fingerprint(prober[w].job)
         hit == prober[w].hit
     IN  /\ issues' = IF hit THEN issues \cup {f} ELSE issues
         /\ scanCount' = [completed |-> scanCount.completed + 1,
                          issues |-> scanCount.issues + (IF hit /\ New(f) THEN 1 ELSE 0)]
  /\ IF scanCount'.completed % ScanEvery = 0 THEN SetProgress(scanCount') ELSE UNCHANGED scanRow
  /\ prober' = [prober EXCEPT ![w] = Idle]
  /\ UNCHANGED <<taskVars, cleared, scanPc, baseline, baselineOK, toFeed, jobsOpen>>

\* resCh is closed when the last worker has gone.
LastProgress ==
  /\ scanPc = "collect" /\ \A w \in ScanWorkers : prober[w] = Gone
  /\ SetProgress(scanCount)
  /\ scanPc' = "status" /\ scanCount' = NoCount
  /\ baseline' = {} /\ baselineOK' = FALSE /\ toFeed' = {}
  /\ UNCHANGED <<taskVars, issues, cleared, jobsOpen, prober>>

FinishScan ==
  /\ scanPc = "status"
  /\ Finish(IF cancel THEN "stopped" ELSE "completed")
  /\ scanPc' = "none"
  /\ UNCHANGED <<scanRows, poolVars, scanCount>>

ScanCrash ==
  /\ CrashAndOpen
  /\ scanPc' = "none" /\ scanCount' = NoCount
  /\ baseline' = {} /\ baselineOK' = FALSE /\ toFeed' = {} /\ jobsOpen' = FALSE
  /\ prober' = [w \in ScanWorkers |-> Gone]
  /\ UNCHANGED scanRows

-----------------------------------------------------------------------------

ScanRunStep ==
  \/ PrepareScan \/ Baseline \/ LastProgress \/ FinishScan
  \/ (PrepareFails \/ Release) /\ UNCHANGED scanBody
  \/ \E w \in ScanWorkers : Collect(w)

ProberStep(w) == Feed(w) \/ Probe(w) \/ ProberEnds(w)

ScanNext ==
  \/ ScanTaskCall \/ ClearScanIssues \/ (\E f \in Passive : ScanPassive(f))
  \/ ScanRunStep \/ StopFeeding \/ ScanCrash
  \/ \E w \in ScanWorkers : ProberStep(w)

\* Goroutines run, and a probe is answered or times out.
ScanFairness ==
  /\ WF_scanVars(ScanRunStep) /\ WF_scanVars(StopFeeding)
  /\ \A w \in ScanWorkers : WF_scanVars(ProberStep(w))

ScanSpec == ScanInit /\ [][ScanNext]_scanVars /\ ScanFairness

-----------------------------------------------------------------------------
(* Properties.                                                             *)

\* A scan is completed only when everything PlanCount announced is accounted for: sent,
\* skipped for want of a baseline, or failed.  Then the row counts exactly the findings
\* there are, unless they have been cleared since the scan was prepared.
ScanIsWhole ==
  status = "completed" =>
    /\ scanRow.total = PlanCount /\ scanRow.completed = PlanCount
    /\ ~cleared => scanRow.issues = Cardinality(issues \cap Active)

\* A check that compares with the baseline reports nothing the baseline of this run
\* showed, and nothing at all without one ("skip those checks rather than emit false
\* positives").  Probe skips them; what is added here is that no finding of an earlier
\* run, with another baseline, is left or comes late.
NothingFromBaseline ==
  scanPc = "collect" =>
    \A f \in issues \cap Active :
      f[2] \in NeedsBaseline => baselineOK /\ f[2] \notin baseline

\* A scan ends, however it goes: no worker stays blocked on its result, no feeder on
\* its job.
ScanEnds == phase = "prepare" ~> phase = "none"
=============================================================================
