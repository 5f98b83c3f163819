------------------------------ MODULE MCTools ------------------------------
(* The scanner, the crawler and the sequencer for TLC.  They share nothing  *)
(* but the shape of a task, so one run checks them side by side: the first  *)
(* state decides which of them the task belongs to.                         *)
EXTENDS ScannerRun, Crawl, SequencerCapture, TLC

VARIABLE tool

toolVars == <<tool, taskVars, scanBody, crawlBody, seqBody>>

\* Only a crawl has a budget to choose.
ToolsInit ==
  /\ tool \in {"scan", "crawl", "sequence"}
  /\ ScanInit /\ CrawlInit /\ SeqInit
  /\ tool = "crawl" \/ maxPages = 2

ScanTurn  == tool = "scan" /\ UNCHANGED <<tool, crawlBody, seqBody>>
CrawlTurn == tool = "crawl" /\ UNCHANGED <<tool, scanBody, seqBody>>
SeqTurn   == tool = "sequence" /\ UNCHANGED <<tool, scanBody, crawlBody>>

ToolsNext ==
  \/ ScanTurn /\ ScanNext
  \/ CrawlTurn /\ CrawlNext
  \/ SeqTurn /\ SeqNext

\* The fairness of each of the three, of the one whose turn it is.
ToolsFairness ==
  /\ WF_toolVars(ScanTurn /\ ScanRunStep) /\ WF_toolVars(ScanTurn /\ StopFeeding)
  /\ \A w \in ScanWorkers : WF_toolVars(ScanTurn /\ ProberStep(w))
  /\ WF_toolVars(CrawlTurn /\ CrawlRunStep)
  /\ \A w \in Spiders : WF_toolVars(CrawlTurn /\ SpiderStep(w))
  /\ WF_toolVars(SeqTurn /\ SeqRunStep)
  /\ \A w \in SeqWorkers : WF_toolVars(SeqTurn /\ SamplerStep(w))

ToolsSpec == ToolsInit /\ [][ToolsNext]_toolVars /\ ToolsFairness

\* The types of all three.
ToolsTypeOK == ScanTypeOK /\ CrawlTypeOK /\ SeqTypeOK

\* A task that is started ends, whichever it is (ScanEnds, CrawlEnds, CaptureEnds).
ToolsEnd == phase = "prepare" ~> phase = "none"

\* None does more than it was given to do: pages and depth of a crawl, requests of
\* a capture.
WithinLimits == WithinBudget /\ DepthIsDistance /\ SendsAreBounded

\* What a task that is completed says of itself is true, whichever it is.
ScanReported    == tool = "scan" => ScanIsWhole /\ NothingFromBaseline
CrawlReported   == tool = "crawl" => CompletedIsAll
CaptureReported == tool = "sequence" => ReportIsOnSample

\* Two payloads that find the same thing.
MCPayloads == "sql" :> 2
MCPassive  == {<<"response", "header">>}

\* d is two links away, x is on another host, and there are cycles.
MCLinks ==
  ("a" :> {"b", "c", "x"}) @@ ("b" :> {"a", "c", "d"}) @@ ("c" :> {"b", "d"})
  @@ ("d" :> {"a", "x"}) @@ ("x" :> {})
=============================================================================
