------------------------------- MODULE Crawl -------------------------------
(***************************************************************************)
(* Crawls of one task (internal/crawler/runner.go), its rows               *)
(* (internal/storage/crawler.go) and the calls of the API on them          *)
(* (internal/api/handlers/crawler.go).                                     *)
(*                                                                         *)
(* A crawl fetches level after level of a graph of links, with a pool of   *)
(* workers for each level.  An address is the node of the graph it stands  *)
(* for, as extractLinks and ResolveReference make it out.                  *)
(***************************************************************************)
EXTENDS TaskRun, FiniteSets

CONSTANTS
  Urls,         \* addresses
  Seed,         \* the one the crawl starts from
  Links,        \* the links of the page at each
  Allowed,      \* those on the seed's host and in scope
  MaxDepth,     \* how deep the task goes
  Budgets,      \* how many pages it may be given
  Spiders,      \* the workers of a level
  CrawlEvery    \* how often progress is written (progressEvery)

ASSUME CrawlAssumption ==
  /\ IsFiniteSet(Urls)
  /\ Seed \in Allowed /\ Allowed \subseteq Urls
  /\ Links \in [Urls -> SUBSET Urls]
  /\ MaxDepth \in Nat /\ Budgets \subseteq Nat \ {0}
  /\ IsFiniteSet(Spiders) /\ Spiders # {} /\ CrawlEvery \in Nat \ {0}

VARIABLES
  maxPages,    \* the budget of this task
  crawlRow,    \* the columns pages and found of the task
  urlRows,     \* the rows of crawl_urls: [url, depth]
  crawlPc,     \* where the goroutine of the crawl stands
  depth,       \* the level it is at
  frontier,    \* addresses of that level not yet handed to a worker
  nextSet,     \* addresses of the next
  discovered,  \* all addresses found so far
  pages,       \* pages fetched
  inFlight,    \* fetches that hold a slot of the budget
  spider,      \* the workers
  asked,       \* requests sent for each address
  missed       \* some fetch has failed

crawlRows == <<maxPages, crawlRow, urlRows>>
frontVars == <<depth, frontier, nextSet, discovered>>
pageVars  == <<pages, inFlight, asked, missed>>
crawlBody == <<crawlRows, crawlPc, frontVars, pageVars, spider>>
crawlVars == <<taskVars, crawlBody>>

Waiting == [at |-> "idle"]
Ended == [at |-> "gone"]
SpiderStates == {Waiting, Ended} \cup [at : {"fetch"}, url : Urls]
                \cup [at : {"store"}, url : Urls, due : BOOLEAN] \cup [at : {"progress"}]
                \cup [at : {"write"}, pages : Nat, found : Nat]

CrawlTypeOK ==
  /\ TaskTypeOK
  /\ maxPages \in Budgets
  /\ crawlRow \in [pages : Nat, found : Nat]
  /\ urlRows \subseteq [url : Urls, depth : 0..MaxDepth]
  /\ crawlPc \in {"none", "start", "level", "feed", "barrier", "last", "status"}
  /\ depth \in 0..(MaxDepth + 1)
  /\ frontier \subseteq Urls /\ nextSet \subseteq Urls /\ discovered \subseteq Urls
  /\ pages \in Nat /\ inFlight \in Nat
  /\ spider \in [Spiders -> SpiderStates]
  /\ asked \in [Urls -> Nat] /\ missed \in BOOLEAN

NoCrawl ==
  /\ crawlPc' = "none"
  /\ depth' = 0 /\ frontier' = {} /\ nextSet' = {} /\ discovered' = {}
  /\ pages' = 0 /\ inFlight' = 0
  /\ asked' = [u \in Urls |-> 0] /\ missed' = FALSE
  /\ spider' = [w \in Spiders |-> Ended]

CrawlInit ==
  /\ TaskInit
  /\ maxPages \in Budgets
  /\ crawlRow = [pages |-> 0, found |-> 0] /\ urlRows = {}
  /\ crawlPc = "none"
  /\ depth = 0 /\ frontier = {} /\ nextSet = {} /\ discovered = {}
  /\ pages = 0 /\ inFlight = 0
  /\ asked = [u \in Urls |-> 0] /\ missed = FALSE
  /\ spider = [w \in Spiders |-> Ended]

\* UpdateCrawlProgress, on the row if there is one.
SetCounts(p, f) ==
  crawlRow' = IF status = "deleted" THEN crawlRow ELSE [pages |-> p, found |-> f]

-----------------------------------------------------------------------------
(* Seeded faults.  None is part of the specification.                      *)

\* The slot is taken when the page is there, not before the fetch.
BudgetLeftLate == pages < maxPages

\* The last counts are written before the last level has ended.
LastCountsEarly ==
  /\ crawlPc = "last"
  /\ crawlPc' = "status"
  /\ UNCHANGED <<taskVars, crawlRows, frontVars, pageVars, spider>>

-----------------------------------------------------------------------------
(* Calls of the API.  Deleting a task deletes its addresses.               *)

CrawlTaskCall ==
  \/ TaskCall /\ UNCHANGED crawlBody
  \/ DeleteRow /\ urlRows' = {}
     /\ UNCHANGED <<maxPages, crawlRow, crawlPc, frontVars, pageVars, spider>>

-----------------------------------------------------------------------------
(* The goroutine of the crawl.                                             *)

PrepareCrawl ==
  /\ PrepareRow
  /\ crawlRow' = [pages |-> 0, found |-> 0] /\ urlRows' = {}
  /\ crawlPc' = "start"
  /\ UNCHANGED <<maxPages, frontVars, pageVars, spider>>

\* The scope may have changed after the handler asked whether the seed is in it.
SeedRefused ==
  /\ crawlPc = "start"
  /\ crawlPc' = "status"
  /\ UNCHANGED <<taskVars, crawlRows, frontVars, pageVars, spider>>

SeedAccepted ==
  /\ crawlPc = "start"
  /\ discovered' = {Seed} /\ frontier' = {Seed}
  /\ crawlPc' = "level"
  /\ UNCHANGED <<taskVars, crawlRows, depth, nextSet, pageVars, spider>>

\* A level begins with new workers, or the crawl is over.
Level ==
  /\ crawlPc = "level"
  /\ IF depth > MaxDepth \/ frontier = {} \/ pages >= maxPages \/ cancel
     THEN crawlPc' = "last" /\ UNCHANGED spider
     ELSE crawlPc' = "feed" /\ spider' = [w \in Spiders |-> Waiting]
  /\ UNCHANGED <<taskVars, crawlRows, frontVars, pageVars>>

BudgetLeft == pages + inFlight < maxPages

\* A waiting worker gets the next address.  It passes it over if the crawl has been
\* stopped or no slot of the budget is left; otherwise it takes a slot and asks.
FeedSpider(w) ==
  /\ crawlPc = "feed" /\ spider[w] = Waiting
  /\ \E u \in frontier :
       /\ frontier' = frontier \ {u}
       /\ IF cancel \/ ~BudgetLeft THEN UNCHANGED <<spider, inFlight, asked>>
          ELSE /\ spider' = [spider EXCEPT ![w] = [at |-> "fetch", url |-> u]]
               /\ inFlight' = inFlight + 1
               /\ asked' = [asked EXCEPT ![u] = @ + 1]
  /\ UNCHANGED <<taskVars, crawlRows, crawlPc, depth, nextSet, discovered, pages, missed>>

\* jobs is closed: the level has been handed out, or the crawl is stopped.
CloseJobs ==
  /\ crawlPc = "feed" /\ (frontier = {} \/ cancel)
  /\ frontier' = {}
  /\ crawlPc' = "barrier"
  /\ UNCHANGED <<taskVars, crawlRows, depth, nextSet, discovered, pageVars, spider>>

FetchFails(w) ==
  /\ spider[w].at = "fetch"
  /\ inFlight' = inFlight - 1 /\ missed' = TRUE
  /\ spider' = [spider EXCEPT ![w] = Waiting]
  /\ UNCHANGED <<taskVars, crawlRows, crawlPc, frontVars, pages, asked>>

\* What a page at this depth adds to the next level.
Follow(u) == {l \in Links[u] : l \in Allowed /\ l \notin discovered}

\* A page is there: its slot, its links, ...
Fetched(w) ==
  /\ spider[w].at = "fetch" /\ ~cancel
  /\ inFlight' = inFlight - 1 /\ pages' = pages + 1
  /\ LET new == IF depth < MaxDepth THEN Follow(spider[w].url) ELSE {} IN
     discovered' = discovered \cup new /\ nextSet' = nextSet \cup new
  /\ spider' = [spider EXCEPT ![w] =
       [at |-> "store", url |-> @.url, due |-> pages' % CrawlEvery = 0]]
  /\ UNCHANGED <<taskVars, crawlRows, crawlPc, depth, frontier, asked, missed>>

\* ... its row (and its exchange), whether or not the task still has one, ...
AddPage(w) ==
  /\ spider[w].at = "store"
  /\ LET u == spider[w].url IN
     urlRows' = IF \E r \in urlRows : r.url = u THEN urlRows
                ELSE urlRows \cup {[url |-> u, depth |-> depth]}
  /\ spider' = [spider EXCEPT ![w] = IF @.due THEN [at |-> "progress"] ELSE Waiting]
  /\ UNCHANGED <<taskVars, maxPages, crawlRow, crawlPc, frontVars, pageVars>>

\* ... and now and then the counts.  progress reads under the mutex and writes after it, so two writes may swap.
ReadCounts(w) ==
  /\ spider[w].at = "progress"
  /\ spider' = [spider EXCEPT ![w] =
       [at |-> "write", pages |-> pages, found |-> Cardinality(discovered)]]
  /\ UNCHANGED <<taskVars, crawlRows, crawlPc, frontVars, pageVars>>

WriteCounts(w) ==
  /\ spider[w].at = "write"
  /\ SetCounts(spider[w].pages, spider[w].found)
  /\ spider' = [spider EXCEPT ![w] = Waiting]
  /\ UNCHANGED <<taskVars, maxPages, urlRows, crawlPc, frontVars, pageVars>>

SpiderEnds(w) ==
  /\ crawlPc = "barrier" /\ spider[w] = Waiting
  /\ spider' = [spider EXCEPT ![w] = Ended]
  /\ UNCHANGED <<taskVars, crawlRows, crawlPc, frontVars, pageVars>>

\* The level is over when its workers have ended.
NextLevel ==
  /\ crawlPc = "barrier" /\ \A w \in Spiders : spider[w] = Ended
  /\ depth' = depth + 1
  /\ frontier' = nextSet /\ nextSet' = {}
  /\ crawlPc' = "level"
  /\ UNCHANGED <<taskVars, crawlRows, discovered, pageVars, spider>>

LastCounts ==
  /\ crawlPc = "last"
  /\ SetCounts(pages, Cardinality(discovered))
  /\ crawlPc' = "status"
  /\ UNCHANGED <<taskVars, maxPages, urlRows, frontVars, pageVars, spider>>

FinishCrawl ==
  /\ crawlPc = "status"
  /\ Finish(IF cancel THEN "stopped" ELSE IF pages = 0 THEN "error" ELSE "completed")
  /\ crawlPc' = "none"
  /\ UNCHANGED <<crawlRows, frontVars, pageVars, spider>>

\* What a crawl has found goes with its goroutine.
ReleaseCrawl ==
  /\ Release
  /\ NoCrawl /\ UNCHANGED crawlRows

CrawlCrash ==
  /\ CrashAndOpen
  /\ NoCrawl /\ UNCHANGED crawlRows

-----------------------------------------------------------------------------

CrawlRunStep ==
  \/ PrepareCrawl \/ SeedAccepted \/ SeedRefused \/ Level \/ CloseJobs \/ NextLevel
  \/ LastCounts \/ FinishCrawl \/ ReleaseCrawl
  \/ PrepareFails /\ UNCHANGED crawlBody

SpiderStep(w) ==
  \/ FeedSpider(w) \/ FetchFails(w) \/ Fetched(w) \/ AddPage(w) \/ ReadCounts(w)
  \/ WriteCounts(w) \/ SpiderEnds(w)

CrawlNext ==
  \/ CrawlTaskCall \/ CrawlRunStep \/ CrawlCrash
  \/ \E w \in Spiders : SpiderStep(w)

CrawlFairness ==
  /\ WF_crawlVars(CrawlRunStep)
  /\ \A w \in Spiders : WF_crawlVars(SpiderStep(w))

CrawlSpec == CrawlInit /\ [][CrawlNext]_crawlVars /\ CrawlFairness

-----------------------------------------------------------------------------
(* Properties.                                                             *)

\* A crawl asks for no address twice, for none outside the scope, and never has more
\* pages and requests on their way than the budget allows ("reserve a budget slot
\* BEFORE fetching").
WithinBudget ==
  /\ \A u \in Urls : asked[u] <= 1 /\ (asked[u] > 0 => u \in Allowed)
  /\ pages + inFlight <= maxPages

\* Breadth first: the level a page is recorded at is its distance from the seed among
\* the pages that were fetched, whatever the workers of a level find in which order.
DepthIsDistance ==
  crawlPc # "none" /\ status # "deleted" =>
    \A r \in urlRows :
      /\ r.depth = 0 <=> r.url = Seed
      /\ r.depth > 0 => \E q \in urlRows : q.depth = r.depth - 1 /\ r.url \in Links[q.url]
      /\ \A q \in urlRows : r.url \in Links[q.url] => r.depth <= q.depth + 1

\* A crawl that says it is completed has found everything it was asked to find: if
\* no fetch failed and the budget was not used up, every address discovered was
\* fetched, every allowed link of a page above the last level was discovered, and the
\* row and the rows of addresses count the same.
CompletedIsAll ==
  status = "completed" /\ phase = "release" =>
    /\ crawlRow = [pages |-> pages, found |-> Cardinality(discovered)]
    /\ pages = Cardinality(urlRows)
    /\ ~missed /\ pages < maxPages =>
         /\ discovered = {r.url : r \in urlRows}
         /\ \A r \in urlRows : r.depth < MaxDepth => Links[r.url] \cap Allowed \subseteq discovered

\* A crawl ends, although workers may add to the work as long as they run.
CrawlEnds == phase = "prepare" ~> phase = "none"
=============================================================================
