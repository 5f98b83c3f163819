---------------------------- MODULE Crawl_proofs ----------------------------
(***************************************************************************)
(* That a crawl keeps to its budget, asks for no address twice and records *)
(* each page at its distance from the seed, and that one which completed   *)
(* has found what it was asked to find, for any graph of links, any scope, *)
(* depth, budget and number of workers.  With it go the types of all tools.*)
(***************************************************************************)
EXTENDS Tools_proofs

crawlCore == <<maxPages, urlRows, crawlPc, frontVars, pages, inFlight, asked, spider>>

KTypes ==
  /\ maxPages \in Nat /\ maxPages > 0 /\ pages \in Nat /\ inFlight \in Int /\ depth \in Nat
  /\ frontier \subseteq Urls /\ nextSet \subseteq Urls /\ discovered \subseteq Allowed
  /\ urlRows \subseteq [url : Urls, depth : 0..MaxDepth]
  /\ asked \in [Urls -> Nat]
  /\ spider = [w \in Spiders |-> spider[w]]

\* A crawl has not begun.
Fresh ==
  /\ depth = 0 /\ frontier = {} /\ nextSet = {} /\ discovered = {}
  /\ pages = 0 /\ inFlight = 0
  /\ \A u \in Urls : asked[u] = 0
  /\ \A w \in Spiders : spider[w] = Ended

Begins ==
  /\ tool # "crawl" \/ phase \in {"none", "prepare"} => Fresh /\ crawlPc = "none"
  /\ crawlPc = "start" => Fresh /\ urlRows = {}

\* Worker w is at a page that is not recorded yet.
Busy(w) == spider[w].at \in {"fetch", "store"}

\* What has been found, what is still to be asked for, and who is asking.
Queued ==
  /\ pages + inFlight <= maxPages
  /\ frontier \subseteq discovered /\ nextSet \subseteq discovered /\ frontier \cap nextSet = {}
  /\ \A u \in Urls : asked[u] <= 1 /\ (asked[u] > 0 => u \in discovered)
  /\ \A u \in frontier \cup nextSet : asked[u] = 0
  /\ \A w \in Spiders : Busy(w) => spider[w].url \in discovered /\ crawlPc \in {"feed", "barrier"}
  /\ crawlPc \in {"feed", "barrier"} => depth <= MaxDepth

\* The pages whose links have been followed: those recorded and those about to be.
Read == {r.url : r \in urlRows} \cup {spider[w].url : w \in {v \in Spiders : spider[v].at = "store"}}

\* L gives every address found its distance from the seed.
Levels(L) ==
  /\ L \in [Urls -> Nat]
  /\ discovered # {} => Seed \in discovered
  /\ \A u \in frontier : L[u] = depth
  /\ \A u \in nextSet : L[u] = depth + 1
  /\ \A w \in Spiders : Busy(w) => L[spider[w].url] = depth
  /\ \A u \in discovered :
       /\ L[u] = 0 <=> u = Seed
       /\ L[u] <= depth + 1
       /\ L[u] > 0 => \E p \in Read : L[u] = L[p] + 1 /\ u \in Links[p]
  /\ \A p \in Read : L[p] < MaxDepth =>
       \A l \in Links[p] \cap Allowed : l \in discovered /\ L[l] <= L[p] + 1
  /\ \A r \in urlRows : r.url \in discovered /\ r.depth = L[r.url] /\ r.depth <= depth

Levelled == status # "deleted" /\ crawlPc \notin {"none", "start"} => \E L : Levels(L)

KInv == KTypes /\ Begins /\ Queued /\ Levelled

LEMMA Graph ==
  /\ Seed \in Allowed /\ Allowed \subseteq Urls /\ Links \in [Urls -> SUBSET Urls]
  /\ MaxDepth \in Nat /\ \A b \in Budgets : b \in Nat /\ b > 0
  BY CrawlAssumption

LEMMA InitCrawl == ToolsInit => KInv
<1> SUFFICES ASSUME ToolsInit PROVE KInv
  OBVIOUS
<1>1. KTypes
  BY Graph DEF ToolsInit, CrawlInit, KTypes
<1>2. Begins /\ Queued /\ Levelled
  BY Graph, <1>1 DEF ToolsInit, CrawlInit, KTypes, Begins, Fresh, Queued, Busy, Ended, Levelled
<1> QED
  BY <1>1, <1>2 DEF KInv

\* The levels give each page its distance.
LEMMA LevelsAreDistances == KInv => WithinBudget /\ DepthIsDistance
<1> SUFFICES ASSUME KInv PROVE WithinBudget /\ DepthIsDistance
  OBVIOUS
<1> USE Graph
<1>1. WithinBudget
  BY DEF KInv, KTypes, Queued, WithinBudget
<1>2. ASSUME crawlPc # "none", status # "deleted", NEW r \in urlRows
      PROVE  /\ r.depth = 0 <=> r.url = Seed
             /\ r.depth > 0 => \E q \in urlRows : q.depth = r.depth - 1 /\ r.url \in Links[q.url]
             /\ \A q \in urlRows : r.url \in Links[q.url] => r.depth <= q.depth + 1
  <2>1. crawlPc # "start"
    BY <1>2 DEF KInv, Begins
  <2>2. PICK L : Levels(L)
    BY <1>2, <2>1 DEF KInv, Levelled
  <2>3. r.url \in Urls /\ r.depth \in 0..MaxDepth /\ r.url \in discovered
        /\ r.depth = L[r.url] /\ r.depth <= depth
    BY <1>2, <2>2 DEF KInv, KTypes, Levels
  <2>4. ASSUME r.depth > 0
        PROVE  \E q \in urlRows : q.depth = r.depth - 1 /\ r.url \in Links[q.url]
    <3>1. PICK p \in Read : L[r.url] = L[p] + 1 /\ r.url \in Links[p]
      BY <2>2, <2>3, <2>4 DEF Levels
    <3>2. p \in Urls /\ L[p] \in Nat
      BY <2>2, <3>1 DEF Read, KInv, KTypes, Queued, Busy, Levels
    <3>3. L[p] < depth
      BY <2>3, <3>1, <3>2 DEF KInv, KTypes
    <3>4. \A w \in Spiders : spider[w].at = "store" => spider[w].url # p
      BY <2>2, <3>3 DEF Levels, Busy, KInv, KTypes
    <3>5. PICK q \in urlRows : q.url = p
      BY <3>1, <3>4 DEF Read
    <3> QED
      BY <2>2, <2>3, <3>1, <3>2, <3>5 DEF Levels
  <2>5. ASSUME NEW q \in urlRows, r.url \in Links[q.url] PROVE r.depth <= q.depth + 1
    <3>1. q.url \in Read /\ q.depth = L[q.url] /\ q.depth \in 0..MaxDepth
      BY <2>2 DEF Read, Levels, KInv, KTypes
    <3>2. r.url \in Allowed
      BY <2>3 DEF KInv, KTypes
    <3>3. CASE q.depth < MaxDepth
      BY <2>2, <2>3, <2>5, <3>1, <3>2, <3>3 DEF Levels
    <3>4. CASE q.depth >= MaxDepth
      BY <2>3, <3>1, <3>4
    <3> QED
      BY <3>1, <3>3, <3>4
  <2>6. r.depth = 0 <=> r.url = Seed
    BY <2>2, <2>3 DEF Levels
  <2> QED
    BY <2>4, <2>5, <2>6
<1> QED
  BY <1>1, <1>2 DEF DepthIsDistance

-----------------------------------------------------------------------------
(* The steps of a worker.                                                  *)

\* What a worker does to its own place it does to no other.
LEMMA SpiderMoves ==
  ASSUME KTypes, NEW w \in Spiders, NEW r, spider' = [spider EXCEPT ![w] = r]
  PROVE  /\ spider' = [v \in Spiders |-> spider'[v]]
         /\ spider'[w] = r
         /\ \A v \in Spiders \ {w} : spider'[v] = spider[v]
<1> DEFINE f == [v \in Spiders |-> spider[v]]
<1>1. spider = f
  BY DEF KTypes
<1>2. spider' = [f EXCEPT ![w] = r]
  BY <1>1
<1> HIDE DEF f
<1>3. f = [v \in Spiders |-> f[v]]
  BY DEF f
<1> QED
  BY <1>1, <1>2, <1>3

\* Only a crawl that has begun has workers.
LEMMA WorkersRun ==
  ASSUME KInv, tool = "crawl", NEW w \in Spiders, spider[w].at # "gone"
  PROVE  phase \notin {"none", "prepare"} /\ crawlPc # "start"
  BY DEF KInv, Begins, Fresh, Ended

\* Levels stay when nothing is found, read or asked for.
LEMMA LevelsStay ==
  ASSUME KInv, NEW L, Levels(L), frontier' \subseteq frontier,
         UNCHANGED <<depth, nextSet, discovered>>, Read' = Read,
         \A w \in Spiders : Busy(w)' => L[spider'[w].url] = depth,
         \A r \in urlRows' \ urlRows : r.url \in discovered /\ L[r.url] = depth /\ r.depth = depth
  PROVE  Levels(L)'
  BY DEF Levels, KInv, KTypes

LEMMA FeedKeeps ==
  ASSUME KInv, tool = "crawl", NEW w \in Spiders, FeedSpider(w), UNCHANGED tool
  PROVE  KInv'
<1> USE Graph
<1>1. PICK u \in frontier :
        /\ frontier' = frontier \ {u}
        /\ IF cancel \/ ~BudgetLeft THEN UNCHANGED <<spider, inFlight, asked>>
           ELSE /\ spider' = [spider EXCEPT ![w] = [at |-> "fetch", url |-> u]]
                /\ inFlight' = inFlight + 1
                /\ asked' = [asked EXCEPT ![u] = @ + 1]
  BY DEF FeedSpider
<1>2. /\ crawlPc = "feed" /\ spider[w].at = "idle"
      /\ UNCHANGED <<phase, status, maxPages, urlRows, crawlPc, depth, nextSet, discovered, pages>>
  BY DEF FeedSpider, Waiting, taskVars, crawlRows
<1>3. u \in Urls /\ u \in discovered /\ asked[u] = 0 /\ u \notin nextSet
  BY <1>1 DEF KInv, KTypes, Queued
<1>4. Begins'
  BY <1>2, WorkersRun DEF Begins
<1>5. CASE cancel \/ ~BudgetLeft
  <2>1. KTypes' /\ Queued'
    BY <1>1, <1>2, <1>5 DEF KInv, KTypes, Queued, Busy
  <2>2. ASSUME NEW L, Levels(L) PROVE Levels(L)'
    BY <1>1, <1>2, <1>5, <2>2, LevelsStay DEF Read, Busy, Levels
  <2> QED
    BY <1>2, <1>4, <2>1, <2>2 DEF KInv, Levelled
<1>6. CASE ~(cancel \/ ~BudgetLeft)
  <2>1. /\ spider' = [v \in Spiders |-> spider'[v]]
        /\ spider'[w] = [at |-> "fetch", url |-> u]
        /\ \A v \in Spiders \ {w} : spider'[v] = spider[v]
    BY <1>1, <1>6, SpiderMoves DEF KInv
  <2>2. KTypes'
    BY <1>1, <1>2, <1>6, <2>1 DEF KInv, KTypes
  <2>3. Queued'
    BY <1>1, <1>2, <1>3, <1>6, <2>1 DEF KInv, KTypes, Queued, Busy, BudgetLeft
  <2>4. Read' = Read
    BY <1>2, <2>1 DEF Read
  <2>5. ASSUME NEW L, Levels(L) PROVE Levels(L)'
    BY <1>1, <1>2, <2>1, <2>4, <2>5, LevelsStay DEF Busy, Levels
  <2> QED
    BY <1>2, <1>4, <2>2, <2>3, <2>5 DEF KInv, Levelled
<1> QED
  BY <1>5, <1>6

LEMMA FetchedKeeps ==
  ASSUME KInv, tool = "crawl", NEW w \in Spiders, Fetched(w), UNCHANGED tool
  PROVE  KInv'
<1> USE Graph
<1> DEFINE p == spider[w].url
           new == IF depth < MaxDepth THEN Follow(p) ELSE {}
<1>1. /\ spider[w].at = "fetch"
      /\ inFlight' = inFlight - 1 /\ pages' = pages + 1
      /\ discovered' = discovered \cup new /\ nextSet' = nextSet \cup new
      /\ UNCHANGED <<phase, status, maxPages, urlRows, crawlPc, depth, frontier, asked>>
  BY DEF Fetched, taskVars, crawlRows
<1>2. /\ spider' = [v \in Spiders |-> spider'[v]]
      /\ spider'[w].at = "store" /\ spider'[w].url = p
      /\ \A v \in Spiders \ {w} : spider'[v] = spider[v]
  <2>1. spider' = [spider EXCEPT ![w] =
          [at |-> "store", url |-> spider[w].url, due |-> pages' % CrawlEvery = 0]]
    BY DEF Fetched
  <2> QED
    BY <2>1, SpiderMoves DEF KInv
<1>3. p \in discovered /\ crawlPc \in {"feed", "barrier"}
  BY <1>1 DEF KInv, Queued, Busy
<1>4. p \in Urls /\ new \subseteq Allowed /\ new \cap discovered = {}
  BY <1>3 DEF KInv, KTypes, Follow
<1>5. Begins'
  BY <1>1, WorkersRun DEF Begins
<1>6. KTypes'
  BY <1>1, <1>2, <1>4 DEF KInv, KTypes
<1>7. Queued'
  <2>1. pages' + inFlight' = pages + inFlight
    BY <1>1 DEF KInv, KTypes
  <2> QED
    BY <1>1, <1>2, <1>4, <2>1 DEF KInv, KTypes, Queued, Busy
<1>8. ASSUME NEW L, Levels(L) PROVE \E M : Levels(M)'
  <2> DEFINE M == [u \in Urls |-> IF u \in new THEN depth + 1 ELSE L[u]]
  <2>1. M \in [Urls -> Nat] /\ \A u \in discovered : M[u] = L[u]
    BY <1>4, <1>8 DEF Levels, KInv, KTypes
  <2>2. Read' = Read \cup {p} /\ L[p] = depth /\ Read \subseteq discovered
    BY <1>1, <1>2, <1>8 DEF Read, Levels, Busy, KInv, Queued
  <2>3. \A u \in new : u \in Urls /\ M[u] = depth + 1 /\ u \in Links[p]
    BY <1>4 DEF Follow
  <2> HIDE DEF M
  <2>4. \A u \in frontier' : M[u] = depth'
    BY <1>1, <1>8, <2>1 DEF Levels, KInv, Queued
  <2>5. \A u \in nextSet' : M[u] = depth' + 1
    BY <1>1, <1>8, <2>1, <2>3 DEF Levels, KInv, Queued
  <2>6. \A v \in Spiders : Busy(v)' => M[spider'[v].url] = depth'
    BY <1>1, <1>2, <1>3, <1>8, <2>1, <2>2 DEF Levels, Busy, KInv, Queued
  <2>7. ASSUME NEW u \in discovered'
        PROVE  /\ M[u] = 0 <=> u = Seed
               /\ M[u] <= depth' + 1
               /\ M[u] > 0 => \E q \in Read' : M[u] = M[q] + 1 /\ u \in Links[q]
    <3>1. CASE u \in discovered
      BY <1>1, <1>8, <2>1, <2>2, <3>1 DEF Levels
    <3>2. CASE u \in new
      <4>1. u # Seed /\ M[p] = depth /\ p \in Read'
        BY <1>3, <1>4, <1>8, <2>1, <2>2, <3>2 DEF Levels
      <4> QED
        BY <1>1, <2>3, <3>2, <4>1 DEF KInv, KTypes
    <3> QED
      BY <1>1, <3>1, <3>2
  <2>8. ASSUME NEW q \in Read', M[q] < MaxDepth, NEW l \in Links[q] \cap Allowed
        PROVE  l \in discovered' /\ M[l] <= M[q] + 1
    <3>1. CASE q \in Read
      <4>1. L[q] < MaxDepth
        BY <2>1, <2>2, <2>8, <3>1
      <4>2. l \in discovered /\ L[l] <= L[q] + 1
        BY <1>8, <2>8, <3>1, <4>1 DEF Levels
      <4> QED
        BY <1>1, <2>1, <2>2, <3>1, <4>2
    <3>2. CASE q = p
      <4>1. M[p] = depth /\ depth < MaxDepth
        BY <1>3, <2>1, <2>2, <2>8, <3>2
      <4>2. l \in discovered \/ l \in new
        BY <2>8, <3>2, <4>1 DEF Follow
      <4>3. M[l] <= depth + 1
        BY <1>8, <2>1, <2>3, <4>2 DEF Levels, KInv, KTypes
      <4> QED
        BY <1>1, <3>2, <4>1, <4>2, <4>3
    <3> QED
      BY <2>2, <3>1, <3>2
  <2>9. \A r \in urlRows' : r.url \in discovered' /\ r.depth = M[r.url] /\ r.depth <= depth'
    BY <1>1, <1>8, <2>1 DEF Levels
  <2>10. Seed \in discovered'
    BY <1>1, <1>3, <1>8 DEF Levels
  <2> QED
    BY <2>1, <2>4, <2>5, <2>6, <2>7, <2>8, <2>9, <2>10 DEF Levels
<1> QED
  BY <1>1, <1>5, <1>6, <1>7, <1>8 DEF KInv, Levelled

LEMMA AddKeeps ==
  ASSUME KInv, tool = "crawl", NEW w \in Spiders, AddPage(w), UNCHANGED tool
  PROVE  KInv'
<1> USE Graph
<1> DEFINE p == spider[w].url
<1>1. /\ spider[w].at = "store"
      /\ urlRows' = IF \E r \in urlRows : r.url = p THEN urlRows
                    ELSE urlRows \cup {[url |-> p, depth |-> depth]}
      /\ UNCHANGED <<phase, status, maxPages, crawlPc, frontVars, pages, inFlight, asked>>
  BY DEF AddPage, taskVars, pageVars
<1>2. /\ spider' = [v \in Spiders |-> spider'[v]]
      /\ spider'[w].at \in {"progress", "idle"}
      /\ \A v \in Spiders \ {w} : spider'[v] = spider[v]
  <2>1. spider' = [spider EXCEPT ![w] = IF spider[w].due THEN [at |-> "progress"] ELSE Waiting]
    BY DEF AddPage
  <2> QED
    BY <2>1, SpiderMoves DEF KInv, Waiting
<1>3. p \in discovered /\ p \in Urls /\ crawlPc \in {"feed", "barrier"} /\ depth \in 0..MaxDepth
  BY <1>1 DEF KInv, KTypes, Queued, Busy
<1>4. Begins'
  BY <1>1, WorkersRun DEF Begins
<1>5. KTypes' /\ Queued'
  BY <1>1, <1>2, <1>3 DEF KInv, KTypes, Queued, Busy, frontVars
<1>6. Read' = Read
  <2>1. {r.url : r \in urlRows'} = {r.url : r \in urlRows} \cup {p}
    <3>1. CASE \E r \in urlRows : r.url = p
      <4>1. urlRows' = urlRows /\ p \in {r.url : r \in urlRows}
        BY <1>1, <3>1
      <4> QED
        BY <4>1
    <3>2. CASE ~\E r \in urlRows : r.url = p
      <4> DEFINE row == [url |-> p, depth |-> depth]
      <4>1. urlRows' = urlRows \cup {row} /\ row.url = p
        BY <1>1, <3>2
      <4> HIDE DEF row, p
      <4> QED
        BY <4>1
    <3> QED
      BY <3>1, <3>2
  <2>2. {v \in Spiders : spider[v].at = "store"} = {v \in Spiders : spider'[v].at = "store"} \cup {w}
    BY <1>1, <1>2
  <2>3. \A v \in Spiders : spider'[v].at = "store" => spider'[v].url = spider[v].url
    BY <1>2
  <2> QED
    BY <2>1, <2>2, <2>3 DEF Read
<1>7. ASSUME NEW L, Levels(L) PROVE Levels(L)'
  <2>1. L[p] = depth
    BY <1>1, <1>7 DEF Levels, Busy
  <2> QED
    BY <1>1, <1>2, <1>3, <1>6, <1>7, <2>1, LevelsStay DEF Busy, Levels, frontVars
<1> QED
  BY <1>1, <1>4, <1>5, <1>7 DEF KInv, Levelled

\* A worker that gives a page up, or counts, or ends.
LEMMA OtherKeeps ==
  ASSUME KInv, tool = "crawl", NEW w \in Spiders, UNCHANGED tool,
         FetchFails(w) \/ ReadCounts(w) \/ WriteCounts(w) \/ SpiderEnds(w)
  PROVE  KInv'
<1> USE Graph
<1>1. PICK r :
        /\ spider' = [spider EXCEPT ![w] = r] /\ r.at \in {"idle", "write", "gone"}
        /\ spider[w].at \notin {"store", "gone"}
  BY DEF FetchFails, ReadCounts, WriteCounts, SpiderEnds, Waiting, Ended
<1>2. /\ spider' = [v \in Spiders |-> spider'[v]]
      /\ spider'[w] = r
      /\ \A v \in Spiders \ {w} : spider'[v] = spider[v]
  BY <1>1, SpiderMoves DEF KInv
<1>3. /\ UNCHANGED <<phase, status, maxPages, urlRows, crawlPc, frontVars, pages, asked>>
      /\ inFlight' = inFlight \/ inFlight' = inFlight - 1
  BY DEF FetchFails, ReadCounts, WriteCounts, SpiderEnds, taskVars, crawlRows, pageVars
<1>4. Begins'
  BY <1>1, <1>3, WorkersRun DEF Begins
<1>5. KTypes' /\ Queued'
  BY <1>1, <1>2, <1>3 DEF KInv, KTypes, Queued, Busy, frontVars
<1>6. Read' = Read
  BY <1>1, <1>2, <1>3 DEF Read
<1>7. ASSUME NEW L, Levels(L) PROVE Levels(L)'
  BY <1>1, <1>2, <1>3, <1>6, <1>7, LevelsStay DEF Busy, Levels, frontVars
<1> QED
  BY <1>3, <1>4, <1>5, <1>7 DEF KInv, Levelled

-----------------------------------------------------------------------------
(* The other steps.                                                        *)

\* A crawl that is not there yet, or no longer.
LEMMA FreshHolds ==
  ASSUME KTypes', Fresh', crawlPc' = "none"
  PROVE  KInv'
  BY DEF KInv, Begins, Queued, Levelled, Fresh, Busy, Ended, KTypes

\* A step that leaves the crawl alone, but perhaps its rows are deleted with their task.
LEMMA AsideKeeps ==
  ASSUME KInv, UNCHANGED <<maxPages, crawlPc, frontVars, pages, inFlight, asked, spider>>,
         \/ UNCHANGED urlRows /\ (status = "deleted" => status' = "deleted")
         \/ urlRows' = {} /\ status' = "deleted",
         tool' # "crawl" \/ phase' \in {"none", "prepare"} =>
           tool # "crawl" \/ phase \in {"none", "prepare"}
  PROVE  KInv'
<1>1. KTypes' /\ Queued' /\ Begins'
  BY DEF KInv, KTypes, Queued, Begins, Fresh, Busy, frontVars
<1>2. Levelled'
  BY DEF KInv, Levelled, Levels, Read, Busy, frontVars
<1> QED
  BY <1>1, <1>2 DEF KInv

\* The calls of the API.
LEMMA CallKeeps ==
  ASSUME KInv, tool = "crawl", CrawlTaskCall, UNCHANGED tool PROVE KInv'
<1>1. UNCHANGED <<maxPages, crawlPc, frontVars, pages, inFlight, asked, spider>>
  BY DEF CrawlTaskCall, crawlBody, crawlRows, pageVars
<1>2. phase' = phase \/ (phase = "none" /\ phase' = "prepare")
  BY DEF CrawlTaskCall, TaskCall, Start, Stop, StopMissed, StopRead, StopWrite, DeleteStop, DeleteRow
<1>3. \/ UNCHANGED urlRows /\ (status = "deleted" => status' = "deleted")
      \/ urlRows' = {} /\ status' = "deleted"
  BY DEF CrawlTaskCall, TaskCall, Start, Stop, StopMissed, StopRead, StopWrite, DeleteStop, DeleteRow,
     SetStatus, crawlBody, crawlRows
<1> QED
  BY <1>1, <1>2, <1>3, AsideKeeps

\* The goroutine of the crawl.
LEMMA RunKeeps ==
  ASSUME KInv, tool = "crawl", CrawlRunStep, UNCHANGED tool PROVE KInv'
<1> USE Graph
<1>1. CASE PrepareCrawl
  <2>1. Fresh /\ urlRows' = {} /\ crawlPc' = "start"
        /\ phase' = "run" /\ UNCHANGED <<maxPages, frontVars, pages, inFlight, asked, spider>>
    BY <1>1 DEF PrepareCrawl, PrepareRow, KInv, Begins, pageVars
  <2>2. KTypes'
    BY <2>1 DEF KInv, KTypes, frontVars
  <2>3. Fresh'
    BY <2>1 DEF Fresh, frontVars
  <2>4. Queued'
    BY <2>2, <2>3 DEF Queued, KTypes, Fresh, Busy, Ended, KInv
  <2> QED
    BY <2>1, <2>2, <2>3, <2>4 DEF KInv, Begins, Levelled
<1>2. CASE SeedAccepted
  <2>1. Fresh /\ urlRows = {}
    BY <1>2 DEF SeedAccepted, KInv, Begins
  <2>2. /\ discovered' = {Seed} /\ frontier' = {Seed} /\ crawlPc' = "level"
        /\ UNCHANGED <<status, phase, maxPages, urlRows, depth, nextSet, pages, inFlight, asked, spider>>
    BY <1>2 DEF SeedAccepted, taskVars, crawlRows, pageVars
  <2>3. phase \notin {"none", "prepare"}
    BY <1>2 DEF SeedAccepted, KInv, Begins
  <2>4. KTypes' /\ Queued' /\ Begins'
    BY <2>1, <2>2, <2>3 DEF KInv, KTypes, Queued, Begins, Fresh, Busy, Ended
  <2>5. Levels([u \in Urls |-> IF u = Seed THEN 0 ELSE 1])'
    BY <2>1, <2>2 DEF KInv, KTypes, Fresh, Levels, Read, Busy, Ended
  <2> QED
    BY <2>4, <2>5 DEF KInv, Levelled
<1>3. CASE SeedRefused
  <2>1. /\ Fresh /\ urlRows = {} /\ phase \notin {"none", "prepare"} /\ crawlPc' = "status"
        /\ UNCHANGED <<phase, maxPages, urlRows, frontVars, pages, inFlight, asked, spider>>
    BY <1>3 DEF SeedRefused, KInv, Begins, taskVars, crawlRows, pageVars
  <2>2. KTypes' /\ Queued' /\ Begins'
    BY <2>1 DEF KInv, KTypes, Queued, Begins, Fresh, Busy, Ended, frontVars
  <2>3. Levels([u \in Urls |-> 0])'
    BY <2>1 DEF KInv, KTypes, Fresh, Levels, Read, Busy, Ended, frontVars
  <2> QED
    BY <2>2, <2>3 DEF KInv, Levelled
<1>4. CASE Level
  <2>1. /\ crawlPc = "level" /\ phase \notin {"none", "prepare"}
        /\ crawlPc' \in {"last", "feed"} /\ (crawlPc' = "feed" => ~(depth > MaxDepth))
        /\ \/ UNCHANGED spider
           \/ spider' = [w \in Spiders |-> Waiting]
        /\ UNCHANGED <<status, phase, maxPages, urlRows, frontVars, pages, inFlight, asked>>
    BY <1>4 DEF Level, KInv, Begins, taskVars, crawlRows, pageVars
  <2>2. \A w \in Spiders : ~Busy(w) /\ ~Busy(w)'
    BY <2>1 DEF KInv, Queued, Busy, Waiting
  <2>3. KTypes' /\ Queued' /\ Begins'
    BY <2>1, <2>2 DEF KInv, KTypes, Queued, Begins, frontVars
  <2>4. Read' = Read
    BY <2>1, <2>2 DEF Read, Busy
  <2>5. ASSUME NEW L, Levels(L) PROVE Levels(L)'
    BY <2>1, <2>2, <2>4, <2>5, LevelsStay DEF frontVars
  <2> QED
    BY <2>1, <2>3, <2>5 DEF KInv, Levelled
<1>5. CASE CloseJobs
  <2>1. /\ crawlPc = "feed" /\ phase \notin {"none", "prepare"}
        /\ crawlPc' = "barrier" /\ frontier' = {}
        /\ UNCHANGED <<status, phase, maxPages, urlRows, depth, nextSet, discovered,
                       pages, inFlight, asked, spider>>
    BY <1>5 DEF CloseJobs, KInv, Begins, taskVars, crawlRows, pageVars
  <2>2. KTypes' /\ Queued' /\ Begins'
    BY <2>1 DEF KInv, KTypes, Queued, Begins, Busy
  <2>3. ASSUME NEW L, Levels(L) PROVE Levels(L)'
    BY <2>1, <2>3, LevelsStay DEF Read, Busy, Levels
  <2> QED
    BY <2>1, <2>2, <2>3 DEF KInv, Levelled
<1>6. CASE NextLevel
  <2>1. /\ crawlPc = "barrier" /\ phase \notin {"none", "prepare"}
        /\ \A w \in Spiders : spider[w].at = "gone"
        /\ depth' = depth + 1 /\ frontier' = nextSet /\ nextSet' = {}
        /\ crawlPc' = "level"
        /\ UNCHANGED <<status, phase, maxPages, urlRows, discovered, pages, inFlight, asked, spider>>
    BY <1>6 DEF NextLevel, KInv, Begins, taskVars, crawlRows, pageVars, Ended
  <2>2. KTypes' /\ Queued' /\ Begins'
    BY <2>1 DEF KInv, KTypes, Queued, Begins, Busy
  <2>3. ASSUME NEW L, Levels(L) PROVE Levels(L)'
    <3>1. Read' = Read /\ depth \in Nat
      BY <2>1 DEF Read, KInv, KTypes
    <3> QED
      BY <2>1, <2>3, <3>1 DEF KInv, KTypes, Levels, Busy
  <2> QED
    BY <2>1, <2>2, <2>3 DEF KInv, Levelled
<1>7. CASE LastCounts \/ FinishCrawl
  <2>1. /\ crawlPc \in {"last", "status"} /\ phase \notin {"none", "prepare"}
        /\ phase' \notin {"none", "prepare"} /\ crawlPc' \in {"status", "none"}
        /\ status = "deleted" => status' = "deleted"
        /\ UNCHANGED <<maxPages, urlRows, frontVars, pages, inFlight, asked, spider>>
    BY <1>7 DEF LastCounts, FinishCrawl, Finish, SetStatus, KInv, Begins, taskVars, crawlRows, pageVars
  <2>2. KTypes' /\ Queued' /\ Begins'
    BY <2>1 DEF KInv, KTypes, Queued, Begins, Busy, frontVars
  <2>3. ASSUME NEW L, Levels(L) PROVE Levels(L)'
    BY <2>1, <2>3, LevelsStay DEF Read, Busy, Levels, frontVars
  <2> QED
    BY <2>1, <2>2, <2>3 DEF KInv, Levelled
<1>8. CASE ReleaseCrawl
  <2>1. NoCrawl /\ UNCHANGED crawlRows
    BY <1>8 DEF ReleaseCrawl
  <2> QED
    BY <2>1, FreshHolds DEF NoCrawl, crawlRows, Fresh, KTypes, KInv
<1>9. CASE PrepareFails /\ UNCHANGED crawlBody
  <2>1. /\ UNCHANGED <<maxPages, crawlPc, frontVars, pages, inFlight, asked, spider, urlRows, status>>
        /\ phase' = "release"
    BY <1>9 DEF PrepareFails, crawlBody, crawlRows, pageVars
  <2> QED
    BY <2>1, AsideKeeps
<1> QED
  BY <1>1, <1>2, <1>3, <1>4, <1>5, <1>6, <1>7, <1>8, <1>9 DEF CrawlRunStep

\* KInv is inductive.
LEMMA NextCrawl == KInv /\ [ToolsNext]_toolVars => KInv'
<1> SUFFICES ASSUME KInv, [ToolsNext]_toolVars PROVE KInv'
  OBVIOUS
<1>1. CASE ScanTurn \/ SeqTurn \/ UNCHANGED toolVars
  <2>1. UNCHANGED <<maxPages, crawlPc, frontVars, pages, inFlight, asked, spider, urlRows, tool>>
    BY <1>1 DEF ScanTurn, SeqTurn, toolVars, crawlBody, crawlRows, pageVars
  <2>2. \/ (status = "deleted" => status' = "deleted") /\ (tool # "crawl" \/ UNCHANGED phase)
        \/ tool' # "crawl"
    BY <1>1 DEF ScanTurn, SeqTurn, toolVars, taskVars
  <2>3. CASE tool # "crawl"
    BY <2>1, <2>3 DEF KInv, KTypes, Begins, Queued, Levelled, Fresh, Busy, frontVars
  <2> QED
    BY <1>1, <2>1, <2>2, <2>3, AsideKeeps
<1>2. ASSUME CrawlTurn, CrawlNext PROVE KInv'
  <2>1. tool = "crawl" /\ UNCHANGED tool
    BY <1>2 DEF CrawlTurn
  <2>2. CASE CrawlCrash
    <3>1. NoCrawl /\ UNCHANGED crawlRows
      BY <2>2 DEF CrawlCrash
    <3> QED
      BY Graph, <3>1, FreshHolds DEF NoCrawl, crawlRows, Fresh, KTypes, KInv
  <2>3. ASSUME NEW w \in Spiders, SpiderStep(w) PROVE KInv'
    BY <2>1, <2>3, FeedKeeps, FetchedKeeps, AddKeeps, OtherKeeps DEF SpiderStep
  <2> QED
    BY <1>2, <2>1, <2>2, <2>3, CallKeeps, RunKeeps DEF CrawlNext
<1> QED
  BY <1>1, <1>2 DEF ToolsNext

\* A crawl asks for no address twice, for none outside its scope and for no more than
\* its budget, and records every page at its distance from the seed, however its
\* workers interleave; and a capture sends no more than it is given.
THEOREM LimitsKept == ToolsSpec => []WithinLimits
<1>1. KInv => WithinBudget /\ DepthIsDistance
  BY LevelsAreDistances
<1> QED
  BY <1>1, InitCrawl, NextCrawl, SendsBounded, PTL DEF ToolsSpec, WithinLimits

-----------------------------------------------------------------------------
(* The types of a crawl, and how many of its workers fetch.                *)

Fetching == {w \in Spiders : spider[w].at = "fetch"}

\* The types of a crawl's own variables, and how many fetches hold a slot.
CrawlTypes ==
  /\ maxPages \in Budgets
  /\ crawlRow \in [pages : Nat, found : Nat]
  /\ urlRows \subseteq [url : Urls, depth : 0..MaxDepth]
  /\ crawlPc \in {"none", "start", "level", "feed", "barrier", "last", "status"}
  /\ depth \in 0..(MaxDepth + 1)
  /\ frontier \subseteq Urls /\ nextSet \subseteq Urls /\ discovered \subseteq Urls
  /\ pages \in Nat /\ inFlight = Cardinality(Fetching)
  /\ spider \in [Spiders -> SpiderStates]
  /\ asked \in [Urls -> Nat] /\ missed \in BOOLEAN

LEMMA SpiderShape ==
  /\ Waiting \in SpiderStates /\ Ended \in SpiderStates
  /\ [at |-> "progress"] \in SpiderStates
  /\ \A u \in Urls : [at |-> "fetch", url |-> u] \in SpiderStates
  /\ \A u \in Urls, b \in BOOLEAN : [at |-> "store", url |-> u, due |-> b] \in SpiderStates
  /\ \A p \in Nat, n \in Nat : [at |-> "write", pages |-> p, found |-> n] \in SpiderStates
  /\ \A s \in SpiderStates :
       /\ s.at \in {"fetch", "store"} => s.url \in Urls
       /\ s.at = "store" => s.due \in BOOLEAN
       /\ s.at = "write" => s.pages \in Nat /\ s.found \in Nat
       /\ s.at \in {"idle", "gone", "fetch", "store", "progress", "write"}
       /\ s.at = "gone" <=> s = Ended
       /\ s.at = "idle" <=> s = Waiting
  BY DEF SpiderStates, Waiting, Ended

LEMMA FetchCount ==
  /\ Cardinality(Fetching) \in Nat
  /\ \A F \in SUBSET Spiders : \A w \in Spiders :
       /\ Cardinality(F) \in Nat
       /\ w \notin F => Cardinality(F \cup {w}) = Cardinality(F) + 1
       /\ w \in F => Cardinality(F \ {w}) = Cardinality(F) - 1
  /\ Cardinality({}) = 0
<1>1. IsFiniteSet(Spiders)
  BY CrawlAssumption
<1>2. \A F \in SUBSET Spiders : IsFiniteSet(F)
  BY <1>1, FS_Subset
<1> QED
  BY <1>2, FS_CardinalityType, FS_AddElement, FS_RemoveElement, FS_EmptySet DEF Fetching

\* What one worker's step does to the workers.
LEMMA SpiderTypes ==
  ASSUME CrawlTypes, NEW w \in Spiders, NEW r \in SpiderStates,
         spider' = [spider EXCEPT ![w] = r]
  PROVE  /\ spider' \in [Spiders -> SpiderStates]
         /\ spider'[w] = r
         /\ \A v \in Spiders \ {w} : spider'[v] = spider[v]
         /\ r.at = "fetch" => Fetching' = Fetching \cup {w}
         /\ r.at # "fetch" => Fetching' = Fetching \ {w}
         /\ r.at # "fetch" /\ spider[w].at # "fetch" => Fetching' = Fetching
<1>1. /\ spider' \in [Spiders -> SpiderStates]
      /\ spider'[w] = r
      /\ \A v \in Spiders \ {w} : spider'[v] = spider[v]
  BY DEF CrawlTypes
<1> QED
  BY <1>1 DEF Fetching

LEMMA CountsTyped ==
  ASSUME CrawlTypes, NEW p \in Nat, NEW n \in Nat, SetCounts(p, n)
  PROVE  crawlRow' \in [pages : Nat, found : Nat]
  BY DEF CrawlTypes, SetCounts

LEMMA NextCrawlTypes == KInv /\ CrawlTypes /\ [ToolsNext]_toolVars => CrawlTypes'
<1> SUFFICES ASSUME KInv, CrawlTypes, [ToolsNext]_toolVars PROVE CrawlTypes'
  OBVIOUS
<1> USE Graph
<1>0. Cardinality(discovered) \in Nat
  BY CrawlAssumption, FS_Subset, FS_CardinalityType DEF CrawlTypes
<1>1. CASE UNCHANGED crawlBody
  BY <1>1 DEF CrawlTypes, crawlBody, crawlRows, frontVars, pageVars, Fetching
<1>2. CASE DeleteRow /\ urlRows' = {}
           /\ UNCHANGED <<maxPages, crawlRow, crawlPc, frontVars, pageVars, spider>>
  BY <1>2 DEF CrawlTypes, frontVars, pageVars, Fetching
<1>3. CASE PrepareCrawl
  BY <1>3 DEF PrepareCrawl, CrawlTypes, frontVars, pageVars, Fetching
<1>4. CASE SeedAccepted \/ SeedRefused \/ CloseJobs
  BY <1>4 DEF SeedAccepted, SeedRefused, CloseJobs, CrawlTypes, crawlRows, frontVars, pageVars, Fetching
<1>5. CASE Level
  <2>1. crawlPc = "level" /\ Fetching = {}
    BY <1>5 DEF Level, KInv, Queued, Busy, Fetching
  <2>2. CASE UNCHANGED spider
    BY <1>5, <2>2 DEF Level, CrawlTypes, crawlRows, frontVars, pageVars, Fetching
  <2>3. CASE spider' = [w \in Spiders |-> Waiting]
    <3>1. spider' \in [Spiders -> SpiderStates] /\ Fetching' = {}
      BY <2>3, SpiderShape DEF Fetching, Waiting
    <3> QED
      BY <1>5, <2>1, <3>1 DEF Level, CrawlTypes, crawlRows, frontVars, pageVars
  <2> QED
    BY <1>5, <2>2, <2>3 DEF Level
<1>6. CASE NextLevel
  <2>1. depth \in Nat /\ depth <= MaxDepth
    BY <1>6 DEF NextLevel, KInv, KTypes, Queued
  <2> QED
    BY <1>6, <2>1 DEF NextLevel, CrawlTypes, crawlRows, pageVars, Fetching
<1>7. CASE LastCounts
  <2>1. crawlRow' \in [pages : Nat, found : Nat]
    BY <1>0, <1>7, CountsTyped DEF LastCounts, CrawlTypes
  <2> QED
    BY <1>7, <2>1 DEF LastCounts, CrawlTypes, frontVars, pageVars, Fetching
<1>8. CASE FinishCrawl
  BY <1>8 DEF FinishCrawl, CrawlTypes, crawlRows, frontVars, pageVars, Fetching
<1>9. CASE NoCrawl /\ UNCHANGED crawlRows
  <2>1. spider' \in [Spiders -> SpiderStates] /\ Fetching' = {}
    BY <1>9, SpiderShape DEF NoCrawl, Fetching, Ended
  <2>2. asked' \in [Urls -> Nat]
    BY <1>9 DEF NoCrawl
  <2>3. missed' \in BOOLEAN
    BY <1>9 DEF NoCrawl
  <2> QED
    BY <1>9, <2>1, <2>2, <2>3, FetchCount DEF NoCrawl, CrawlTypes, crawlRows
<1>10. ASSUME NEW w \in Spiders, FeedSpider(w) PROVE CrawlTypes'
  <2>1. PICK u \in frontier :
          /\ frontier' = frontier \ {u}
          /\ IF cancel \/ ~BudgetLeft THEN UNCHANGED <<spider, inFlight, asked>>
             ELSE /\ spider' = [spider EXCEPT ![w] = [at |-> "fetch", url |-> u]]
                  /\ inFlight' = inFlight + 1
                  /\ asked' = [asked EXCEPT ![u] = @ + 1]
    BY <1>10 DEF FeedSpider
  <2>2. CASE UNCHANGED <<spider, inFlight, asked>>
    BY <1>10, <2>1, <2>2 DEF FeedSpider, CrawlTypes, crawlRows, Fetching
  <2>3. CASE /\ spider' = [spider EXCEPT ![w] = [at |-> "fetch", url |-> u]]
             /\ inFlight' = inFlight + 1
             /\ asked' = [asked EXCEPT ![u] = @ + 1]
    <3>1. u \in Urls
      BY DEF CrawlTypes
    <3>2. spider' \in [Spiders -> SpiderStates] /\ Fetching' = Fetching \cup {w}
      <4> DEFINE r == [at |-> "fetch", url |-> u]
      <4>1. r \in SpiderStates /\ r.at = "fetch" /\ spider' = [spider EXCEPT ![w] = r]
        BY <2>3, <3>1, SpiderShape
      <4> HIDE DEF r
      <4> QED
        BY <4>1, SpiderTypes
    <3>3. w \notin Fetching
      BY <1>10 DEF FeedSpider, Fetching, Waiting
    <3>4. inFlight' = Cardinality(Fetching')
      BY <2>3, <3>2, <3>3, FetchCount DEF CrawlTypes, Fetching
    <3>5. asked' \in [Urls -> Nat]
      BY <2>3, <3>1 DEF CrawlTypes
    <3> QED
      BY <1>10, <2>1, <3>2, <3>4, <3>5 DEF FeedSpider, CrawlTypes, crawlRows
  <2> QED
    BY <2>1, <2>2, <2>3
<1>11. ASSUME NEW w \in Spiders, FetchFails(w) PROVE CrawlTypes'
  <2>1. spider' \in [Spiders -> SpiderStates] /\ Fetching' = Fetching \ {w} /\ w \in Fetching
    BY <1>11, SpiderShape, SpiderTypes DEF FetchFails, Waiting, Fetching
  <2>2. inFlight' = Cardinality(Fetching')
    BY <1>11, <2>1, FetchCount DEF FetchFails, CrawlTypes, Fetching
  <2>3. missed' \in BOOLEAN
    BY <1>11 DEF FetchFails
  <2> QED
    BY <1>11, <2>1, <2>2, <2>3 DEF FetchFails, CrawlTypes, crawlRows, frontVars
<1>12. ASSUME NEW w \in Spiders, Fetched(w) PROVE CrawlTypes'
  <2>1. spider[w].url \in Urls /\ w \in Fetching
    BY <1>12, SpiderShape DEF Fetched, CrawlTypes, Fetching
  <2>2. PICK b \in BOOLEAN :
          spider' = [spider EXCEPT ![w] = [at |-> "store", url |-> spider[w].url, due |-> b]]
    BY <1>12 DEF Fetched
  <2>3. spider' \in [Spiders -> SpiderStates] /\ Fetching' = Fetching \ {w}
    BY <2>1, <2>2, SpiderShape, SpiderTypes
  <2>4. inFlight' = Cardinality(Fetching') /\ pages' \in Nat
    BY <1>12, <2>1, <2>3, FetchCount DEF Fetched, CrawlTypes, Fetching
  <2>5. nextSet' \subseteq Urls /\ discovered' \subseteq Urls
    BY <1>12, <2>1 DEF Fetched, Follow, CrawlTypes
  <2> QED
    BY <1>12, <2>3, <2>4, <2>5 DEF Fetched, CrawlTypes, crawlRows
<1>13. ASSUME NEW w \in Spiders, AddPage(w) PROVE CrawlTypes'
  <2>1. spider[w].url \in Urls /\ spider[w].due \in BOOLEAN /\ spider[w].at # "fetch"
    BY <1>13, SpiderShape DEF AddPage, CrawlTypes
  <2>2. depth \in 0..MaxDepth
    BY <1>13 DEF AddPage, KInv, KTypes, Queued, Busy
  <2>3. urlRows' \subseteq [url : Urls, depth : 0..MaxDepth]
    BY <1>13, <2>1, <2>2 DEF AddPage, CrawlTypes
  <2>4. PICK r \in SpiderStates : spider' = [spider EXCEPT ![w] = r] /\ r.at # "fetch"
    BY <1>13, <2>1, SpiderShape DEF AddPage, Waiting
  <2>5. spider' \in [Spiders -> SpiderStates] /\ Fetching' = Fetching
    BY <2>1, <2>4, SpiderTypes
  <2> QED
    BY <1>13, <2>3, <2>5 DEF AddPage, CrawlTypes, frontVars, pageVars
<1>14. ASSUME NEW w \in Spiders, ReadCounts(w) \/ SpiderEnds(w) PROVE CrawlTypes'
  <2>1. PICK r \in SpiderStates : spider' = [spider EXCEPT ![w] = r] /\ r.at # "fetch"
    BY <1>0, <1>14, SpiderShape DEF ReadCounts, SpiderEnds, CrawlTypes, Ended
  <2>2. spider[w].at # "fetch"
    BY <1>14 DEF ReadCounts, SpiderEnds, Waiting
  <2>3. spider' \in [Spiders -> SpiderStates] /\ Fetching' = Fetching
    BY <2>1, <2>2, SpiderTypes
  <2> QED
    BY <1>14, <2>3 DEF ReadCounts, SpiderEnds, CrawlTypes, crawlRows, frontVars, pageVars
<1>15. ASSUME NEW w \in Spiders, WriteCounts(w) PROVE CrawlTypes'
  <2>1. spider[w].pages \in Nat /\ spider[w].found \in Nat /\ spider[w].at # "fetch"
    BY <1>15, SpiderShape DEF WriteCounts, CrawlTypes
  <2>2. crawlRow' \in [pages : Nat, found : Nat]
    BY <1>15, <2>1, CountsTyped DEF WriteCounts
  <2>3. spider' \in [Spiders -> SpiderStates] /\ Fetching' = Fetching
    <3>1. Waiting \in SpiderStates /\ Waiting.at # "fetch" /\ spider' = [spider EXCEPT ![w] = Waiting]
      BY <1>15, SpiderShape DEF WriteCounts, Waiting
    <3> QED
      BY <2>1, <3>1, SpiderTypes
  <2> QED
    BY <1>15, <2>2, <2>3 DEF WriteCounts, CrawlTypes, frontVars, pageVars
<1> QED
  BY <1>1, <1>2, <1>3, <1>4, <1>5, <1>6, <1>7, <1>8, <1>9, <1>10, <1>11, <1>12, <1>13, <1>14, <1>15
     DEF ToolsNext, ScanTurn, CrawlTurn, SeqTurn, CrawlNext, CrawlTaskCall, CrawlRunStep, SpiderStep,
         ReleaseCrawl, CrawlCrash, toolVars

-----------------------------------------------------------------------------
(* What a crawl that is completed says of itself.                          *)

Storing == {w \in Spiders : spider[w].at = "store"}

\* Where every address found is: still to be asked for, with a worker or recorded.
Placed ==
  discovered \subseteq frontier \cup nextSet \cup {r.url : r \in urlRows}
                       \cup {spider[w].url : w \in {v \in Spiders : Busy(v)}}

\* An address is with one worker or recorded once, and every page is recorded or about
\* to be.
Once ==
  /\ \A w \in Spiders : Busy(w) =>
       /\ asked[spider[w].url] > 0
       /\ \A r \in urlRows : r.url # spider[w].url
       /\ \A v \in Spiders : v # w /\ Busy(v) => spider[v].url # spider[w].url
  /\ \A r \in urlRows : asked[r.url] > 0 /\ r.url \in discovered
  /\ IsFiniteSet(urlRows)
  /\ pages = Cardinality(urlRows) + Cardinality(Storing)

\* Links of the pages above the last level are followed.
Followed ==
  /\ \A r \in urlRows : r.depth < MaxDepth => Links[r.url] \cap Allowed \subseteq discovered
  /\ \A w \in Storing : depth < MaxDepth => Links[spider[w].url] \cap Allowed \subseteq discovered

\* An address is given up only by a crawl that is stopped, has failed to fetch one or
\* has used up its budget, and there is no level below the last.
Whole ==
  /\ Placed \/ cancel \/ missed \/ pages + inFlight >= maxPages
  /\ depth >= MaxDepth => nextSet = {}
  /\ depth > MaxDepth => frontier = {}
  /\ crawlPc \in {"level", "last", "status"} => nextSet = {}
  /\ crawlPc = "barrier" => frontier = {}
  /\ crawlPc \in {"last", "status"} => frontier = {} \/ pages >= maxPages \/ cancel
  /\ crawlPc = "status" /\ pages # 0 => crawlRow = [pages |-> pages, found |-> Cardinality(discovered)]

Account == Once /\ Followed /\ Whole

RInv ==
  /\ crawlPc \notin {"feed", "barrier"} => \A w \in Spiders : spider[w] = Ended
  /\ phase = "release" => crawlPc = "none"
  /\ crawlPc # "none" /\ status # "deleted" => Account
  /\ tool = "crawl" => CompletedIsAll

CInv == KInv /\ CrawlTypes /\ RunIsOpen /\ RInv

\* A worker that has something to do is in a level that is under way.
LEMMA AtWork ==
  ASSUME CInv, tool = "crawl", NEW w \in Spiders, SpiderStep(w), UNCHANGED tool
  PROVE  /\ crawlPc \in {"feed", "barrier"} /\ crawlPc' = crawlPc
         /\ UNCHANGED <<status, phase, cancel>> /\ phase # "release"
         /\ status # "deleted" => Account
         /\ (status # "deleted" => Account') => RInv'
<1>1. spider[w] # Ended
  BY DEF SpiderStep, FeedSpider, FetchFails, Fetched, AddPage, ReadCounts, WriteCounts, SpiderEnds,
     Waiting, Ended
<1>2. crawlPc \in {"feed", "barrier"} /\ phase # "release"
  BY <1>1 DEF CInv, RInv
<1>3. UNCHANGED <<crawlPc, status, phase, cancel>>
  BY DEF SpiderStep, FeedSpider, FetchFails, Fetched, AddPage, ReadCounts, WriteCounts, SpiderEnds,
     taskVars
<1> QED
  BY <1>2, <1>3 DEF CInv, RInv, CompletedIsAll

LEMMA FeedAccounts ==
  ASSUME CInv, Account, NEW w \in Spiders, FeedSpider(w), UNCHANGED <<tool, cancel>>
  PROVE  Account'
<1> USE Graph
<1>1. PICK u \in frontier :
        /\ frontier' = frontier \ {u}
        /\ IF cancel \/ ~BudgetLeft THEN UNCHANGED <<spider, inFlight, asked>>
           ELSE /\ spider' = [spider EXCEPT ![w] = [at |-> "fetch", url |-> u]]
                /\ inFlight' = inFlight + 1
                /\ asked' = [asked EXCEPT ![u] = @ + 1]
  BY DEF FeedSpider
<1>2. /\ crawlPc = "feed" /\ spider[w].at = "idle" /\ crawlPc' = "feed"
      /\ UNCHANGED <<crawlRow, maxPages, urlRows, depth, nextSet, discovered, pages, missed>>
  BY DEF FeedSpider, Waiting, crawlRows
<1>3. u \in Urls /\ asked[u] = 0 /\ pages \in Nat /\ maxPages \in Nat /\ inFlight \in Nat
  BY <1>1, FetchCount DEF CInv, CrawlTypes, KInv, Queued, KTypes
<1>4. CASE cancel \/ ~BudgetLeft
  <2>1. cancel \/ pages' + inFlight' >= maxPages'
    BY <1>1, <1>2, <1>3, <1>4 DEF BudgetLeft
  <2>2. Whole'
    BY <1>1, <1>2, <2>1 DEF Account, Whole
  <2>3. UNCHANGED <<spider, inFlight, asked>>
    BY <1>1, <1>4
  <2> QED
    BY <1>2, <2>2, <2>3 DEF Account, Once, Followed, Busy, Storing
<1>5. CASE ~(cancel \/ ~BudgetLeft)
  <2>1. /\ spider'[w] = [at |-> "fetch", url |-> u]
        /\ \A v \in Spiders \ {w} : spider'[v] = spider[v]
        /\ inFlight' = inFlight + 1
        /\ asked'[u] > 0 /\ \A x \in Urls \ {u} : asked'[x] = asked[x]
    BY <1>1, <1>3, <1>5 DEF CInv, CrawlTypes
  <2>2. Storing' = Storing
    BY <1>2, <2>1 DEF Storing
  <2>3. \A v \in Spiders \ {w} : Busy(v)' <=> Busy(v)
    BY <2>1 DEF Busy
  <2>4. ~Busy(w) /\ Busy(w)' /\ spider'[w].url = u
    BY <1>2, <2>1 DEF Busy
  <2>5. \A x \in Urls : asked[x] > 0 => asked'[x] > 0 /\ x # u
    BY <1>3, <2>1
  <2>6. \A v \in Spiders : Busy(v) => spider[v].url \in Urls /\ asked[spider[v].url] > 0
    BY DEF CInv, Account, Once, KInv, KTypes, Queued
  <2>7. \A r \in urlRows : r.url \in Urls /\ asked[r.url] > 0
    BY DEF CInv, Account, Once, CrawlTypes
  <2>8. Once'
    <3>1. ASSUME NEW v \in Spiders, Busy(v)'
          PROVE  /\ asked'[spider'[v].url] > 0
                 /\ \A r \in urlRows' : r.url # spider'[v].url
                 /\ \A x \in Spiders : x # v /\ Busy(x)' => spider'[x].url # spider'[v].url
      BY <1>2, <2>1, <2>3, <2>4, <2>5, <2>6, <2>7, <3>1 DEF Account, Once
    <3> QED
      BY <1>2, <2>2, <2>5, <2>7, <3>1 DEF Account, Once
  <2>9. Placed => Placed'
    <3> SUFFICES ASSUME Placed, NEW x \in discovered'
                 PROVE  \/ x \in frontier' \cup nextSet' \cup {r.url : r \in urlRows'}
                        \/ \E v \in Spiders : Busy(v)' /\ x = spider'[v].url
      BY DEF Placed
    <3>1. \/ x \in frontier \cup nextSet \cup {r.url : r \in urlRows}
          \/ \E v \in Spiders : Busy(v) /\ x = spider[v].url
      BY <1>2 DEF Placed
    <3> QED
      BY <1>1, <1>2, <2>1, <2>3, <2>4, <3>1
  <2>10. Whole'
    BY <1>1, <1>2, <1>3, <2>1, <2>9 DEF Account, Whole
  <2>11. Followed'
    BY <1>2, <2>1, <2>2 DEF Account, Followed, Storing
  <2> QED
    BY <2>8, <2>10, <2>11 DEF Account
<1> QED
  BY <1>4, <1>5

LEMMA FetchedAccounts ==
  ASSUME CInv, Account, NEW w \in Spiders, Fetched(w), UNCHANGED <<tool, cancel>>
  PROVE  Account'
<1> USE Graph
<1> DEFINE p == spider[w].url
           new == IF depth < MaxDepth THEN Follow(p) ELSE {}
<1>1. /\ spider[w].at = "fetch"
      /\ inFlight' = inFlight - 1 /\ pages' = pages + 1
      /\ discovered' = discovered \cup new /\ nextSet' = nextSet \cup new
      /\ UNCHANGED <<crawlRow, maxPages, urlRows, crawlPc, depth, frontier, asked, missed>>
  BY DEF Fetched, crawlRows
<1>2. /\ spider'[w].at = "store" /\ spider'[w].url = p
      /\ \A v \in Spiders \ {w} : spider'[v] = spider[v]
  BY DEF Fetched, CInv, CrawlTypes
<1>3. crawlPc \in {"feed", "barrier"}
  BY <1>1 DEF CInv, KInv, Queued, Busy
<1>4. pages \in Nat /\ maxPages \in Nat /\ inFlight \in Nat
  BY FetchCount DEF CInv, CrawlTypes, KInv, KTypes
<1>5. \A v \in Spiders : (Busy(v)' <=> Busy(v)) /\ (Busy(v) => spider'[v].url = spider[v].url)
  BY <1>1, <1>2 DEF Busy
<1>6. Storing' = Storing \cup {w} /\ w \notin Storing
  BY <1>1, <1>2 DEF Storing
<1>7. Cardinality(Storing') = Cardinality(Storing) + 1
  BY <1>6, FetchCount DEF Storing
<1>8. Once'
  <2>1. pages' = Cardinality(urlRows') + Cardinality(Storing')
    <3>1. Cardinality(urlRows) \in Nat /\ Cardinality(Storing) \in Nat
      BY FS_CardinalityType, FetchCount DEF Account, Once, Storing
    <3> QED
      BY <1>1, <1>7, <3>1 DEF Account, Once
  <2> QED
    BY <1>1, <1>5, <2>1 DEF Account, Once
<1>9. Placed => Placed'
  <2> SUFFICES ASSUME Placed, NEW x \in discovered'
               PROVE  \/ x \in frontier' \cup nextSet' \cup {r.url : r \in urlRows'}
                      \/ \E v \in Spiders : Busy(v)' /\ x = spider'[v].url
    BY DEF Placed
  <2>1. \/ x \in frontier \cup nextSet \cup new \cup {r.url : r \in urlRows}
        \/ \E v \in Spiders : Busy(v) /\ x = spider[v].url
    BY <1>1 DEF Placed
  <2> HIDE DEF new
  <2> QED
    BY <1>1, <1>5, <2>1
<1>10. Whole'
  <2>1. pages' + inFlight' = pages + inFlight
    BY <1>1, <1>4
  <2>2. depth >= MaxDepth => new = {}
    BY DEF CInv, CrawlTypes
  <2> HIDE DEF new
  <2> QED
    BY <1>1, <1>3, <1>9, <2>1, <2>2 DEF Account, Whole
<1>11. Followed'
  <2>1. depth < MaxDepth => Links[p] \cap Allowed \subseteq discovered'
    BY <1>1 DEF Follow
  <2>2. ASSUME NEW v \in Storing', depth < MaxDepth
        PROVE  Links[spider'[v].url] \cap Allowed \subseteq discovered'
    <3>1. CASE v = w
      BY <1>2, <2>1, <2>2, <3>1
    <3>2. CASE v # w
      <4>1. v \in Storing /\ spider'[v] = spider[v]
        BY <1>2, <1>6, <2>2, <3>2 DEF Storing
      <4> QED
        BY <1>1, <2>2, <4>1 DEF Account, Followed
    <3> QED
      BY <3>1, <3>2
  <2> HIDE DEF new
  <2> QED
    BY <1>1, <2>2 DEF Account, Followed
<1> QED
  BY <1>8, <1>10, <1>11 DEF Account

LEMMA AddAccounts ==
  ASSUME CInv, Account, NEW w \in Spiders, AddPage(w), UNCHANGED <<tool, cancel>>
  PROVE  Account'
<1> USE Graph
<1> DEFINE p == spider[w].url
           row == [url |-> p, depth |-> depth]
<1>1. /\ spider[w].at = "store"
      /\ UNCHANGED <<crawlRow, maxPages, crawlPc, depth, frontier, nextSet, discovered,
                     pages, inFlight, asked, missed>>
  BY DEF AddPage, frontVars, pageVars
<1>2. /\ spider'[w].at \in {"progress", "idle"}
      /\ \A v \in Spiders \ {w} : spider'[v] = spider[v]
  BY DEF AddPage, Waiting, CInv, CrawlTypes
<1>3. Busy(w) /\ w \in Storing
  BY <1>1 DEF Busy, Storing
<1>4. row \notin urlRows /\ urlRows' = urlRows \cup {row}
  BY <1>3 DEF AddPage, Account, Once
<1>5. p \in discovered /\ asked[p] > 0 /\ row.url = p /\ row.depth = depth
      /\ crawlPc \in {"feed", "barrier"}
  BY <1>3 DEF Account, Once, CInv, KInv, Queued
<1>6. \A v \in Spiders : Busy(v)' => v # w /\ Busy(v) /\ spider'[v] = spider[v]
  BY <1>2 DEF Busy
<1>7. Storing' = Storing \ {w}
  BY <1>1, <1>2 DEF Storing
<1>8. /\ IsFiniteSet(urlRows') /\ Cardinality(urlRows') = Cardinality(urlRows) + 1
      /\ Cardinality(Storing') = Cardinality(Storing) - 1
      /\ Cardinality(urlRows) \in Nat /\ Cardinality(Storing) \in Nat
  <2>1. Cardinality(Storing) \in Nat /\ Cardinality(Storing') = Cardinality(Storing) - 1
    BY <1>3, <1>7, FetchCount DEF Storing
  <2> HIDE DEF row
  <2>2. /\ IsFiniteSet(urlRows \cup {row}) /\ Cardinality(urlRows) \in Nat
        /\ Cardinality(urlRows \cup {row}) = Cardinality(urlRows) + 1
    BY <1>4, FS_AddElement, FS_CardinalityType DEF Account, Once
  <2> QED
    BY <1>4, <2>1, <2>2
<1> HIDE DEF row
<1>9. Once'
  <2>1. ASSUME NEW v \in Spiders, Busy(v)'
        PROVE  /\ asked'[spider'[v].url] > 0
               /\ \A r \in urlRows' : r.url # spider'[v].url
               /\ \A x \in Spiders : x # v /\ Busy(x)' => spider'[x].url # spider'[v].url
    BY <1>1, <1>3, <1>4, <1>5, <1>6, <2>1 DEF Account, Once
  <2>2. \A r \in urlRows' : asked'[r.url] > 0 /\ r.url \in discovered'
    BY <1>1, <1>4, <1>5 DEF Account, Once
  <2>3. pages' = Cardinality(urlRows') + Cardinality(Storing')
    BY <1>1, <1>8 DEF Account, Once
  <2> QED
    BY <1>8, <2>1, <2>2, <2>3 DEF Once
<1>10. Placed => Placed'
  <2> SUFFICES ASSUME Placed, NEW x \in discovered'
               PROVE  \/ x \in frontier' \cup nextSet'
                      \/ \E r \in urlRows' : x = r.url
                      \/ \E v \in Spiders : Busy(v)' /\ x = spider'[v].url
    BY DEF Placed
  <2>1. \/ x \in frontier \cup nextSet
        \/ \E r \in urlRows : x = r.url
        \/ \E v \in Spiders : Busy(v) /\ x = spider[v].url
    BY <1>1 DEF Placed
  <2>2. \A v \in Spiders : v # w /\ Busy(v) => Busy(v)' /\ spider'[v] = spider[v]
    BY <1>2 DEF Busy
  <2> QED
    BY <1>1, <1>4, <1>5, <2>1, <2>2
<1>11. Whole'
  BY <1>1, <1>5, <1>10 DEF Account, Whole
<1>12. Followed'
  BY <1>1, <1>2, <1>3, <1>4, <1>5, <1>7 DEF Account, Followed, Storing
<1> QED
  BY <1>9, <1>11, <1>12 DEF Account

\* A worker that gives a page up, or counts, or ends.
LEMMA OtherAccounts ==
  ASSUME CInv, Account, NEW w \in Spiders, UNCHANGED <<tool, cancel>>,
         FetchFails(w) \/ ReadCounts(w) \/ WriteCounts(w) \/ SpiderEnds(w)
  PROVE  Account'
<1> USE Graph
<1>1. /\ UNCHANGED <<maxPages, urlRows, crawlPc, frontVars, pages, asked>>
      /\ \/ missed' = TRUE /\ spider[w].at = "fetch"
         \/ UNCHANGED <<inFlight, missed>> /\ ~Busy(w)
  BY DEF FetchFails, ReadCounts, WriteCounts, SpiderEnds, crawlRows, pageVars, Busy, Waiting
<1>2. /\ spider'[w].at \notin {"fetch", "store"} /\ spider[w].at # "store"
      /\ \A v \in Spiders \ {w} : spider'[v] = spider[v]
      /\ crawlPc \in {"feed", "barrier"}
  BY DEF FetchFails, ReadCounts, WriteCounts, SpiderEnds, Waiting, Ended, CInv, CrawlTypes, RInv
<1>3. \A v \in Spiders : Busy(v)' => v # w /\ Busy(v) /\ spider'[v] = spider[v]
  BY <1>2 DEF Busy
<1>4. Storing' = Storing /\ \A v \in Storing : spider'[v] = spider[v]
  BY <1>2 DEF Storing
<1>5. Once' /\ Followed'
  BY <1>1, <1>2, <1>3, <1>4 DEF Account, Once, Followed, frontVars
<1>6. ~Busy(w) => (Placed => Placed')
  BY <1>1, <1>2 DEF Placed, Busy, frontVars
<1>7. Whole'
  BY <1>1, <1>2, <1>6 DEF Account, Whole, frontVars, Busy
<1> QED
  BY <1>5, <1>7 DEF Account

LEMMA WorkersAccount ==
  ASSUME CInv, tool = "crawl", NEW w \in Spiders, SpiderStep(w), UNCHANGED tool
  PROVE  RInv'
<1>1. /\ UNCHANGED cancel
      /\ status # "deleted" => Account
      /\ (status # "deleted" => Account') => RInv'
  BY AtWork
<1> QED
  BY <1>1, FeedAccounts, FetchedAccounts, AddAccounts, OtherAccounts DEF SpiderStep

\* The calls of the API.
LEMMA CallAccounts ==
  ASSUME CInv, tool = "crawl", CrawlTaskCall, UNCHANGED tool PROVE RInv'
<1>1. UNCHANGED <<maxPages, crawlRow, crawlPc, frontVars, pageVars, spider>>
  BY DEF CrawlTaskCall, crawlBody, crawlRows
<1>2. CASE DeleteRow
  BY <1>1, <1>2 DEF DeleteRow, CInv, RInv, CompletedIsAll
<1>3. CASE TaskCall /\ UNCHANGED crawlBody
  <2>1. /\ UNCHANGED urlRows
        /\ status = "deleted" => status' = "deleted"
        /\ status' = "completed" => status = "completed"
        /\ phase' = "release" => phase = "release"
    BY <1>3 DEF TaskCall, Start, Stop, StopMissed, StopRead, StopWrite, DeleteStop, SetStatus,
         crawlBody, crawlRows
  <2>2. crawlPc # "none" => phase # "none"
    BY DEF CInv, KInv, Begins
  <2>3. ASSUME crawlPc # "none", cancel PROVE cancel'
    <3>1. ~Start
      BY <2>2, <2>3 DEF Start
    <3> QED
      BY <1>3, <2>3, <3>1, Zenon DEF TaskCall, Stop, StopMissed, StopRead, StopWrite, DeleteStop
  <2>4. CompletedIsAll'
    BY <1>1, <2>1 DEF CInv, RInv, CompletedIsAll, frontVars, pageVars
  <2>5. crawlPc' # "none" /\ status' # "deleted" => Account'
    BY <1>1, <2>1, <2>3 DEF CInv, RInv, Account, Once, Followed, Whole, Placed, Storing, Busy,
         frontVars, pageVars
  <2> QED
    BY <1>1, <2>1, <2>4, <2>5 DEF CInv, RInv
<1> QED
  BY <1>2, <1>3 DEF CrawlTaskCall

\* A crawl that has not begun has lost nothing.
LEMMA FreshAccounts ==
  ASSUME Fresh, urlRows = {}, CrawlTypes
  PROVE  Once /\ Followed /\ Placed /\ nextSet = {} /\ frontier = {} /\ pages = 0
<1>1. Storing = {} /\ \A w \in Spiders : ~Busy(w)
  BY DEF Fresh, Storing, Busy, Ended
<1>2. Once
  BY <1>1, FS_EmptySet DEF Fresh, Once
<1> QED
  BY <1>1, <1>2 DEF Fresh, Followed, Placed

\* The goroutine of the crawl.
LEMMA RunAccounts ==
  ASSUME CInv, KInv', CrawlTypes', tool = "crawl", CrawlRunStep, UNCHANGED tool PROVE RInv'
<1> USE Graph
<1>1. CASE PrepareCrawl
  <2>1. Fresh' /\ urlRows' = {} /\ crawlPc' = "start" /\ status' = "running" /\ phase' = "run"
    BY <1>1 DEF PrepareCrawl, PrepareRow, KInv, Begins
  <2>2. Account'
    <3>1. /\ Once' /\ Followed' /\ Placed' /\ nextSet' = {} /\ frontier' = {}
      <4>1. Storing' = {} /\ \A w \in Spiders : ~Busy(w)'
        BY <2>1 DEF Fresh, Storing, Busy, Ended
      <4> QED
        BY <2>1, <4>1, FS_EmptySet DEF Fresh, Once, Followed, Placed
    <3> QED
      BY <2>1, <3>1 DEF Account, Whole
  <2>3. \A w \in Spiders : spider'[w] = Ended
    BY <2>1 DEF Fresh
  <2> QED
    BY <2>1, <2>2, <2>3 DEF RInv, CompletedIsAll
<1>2. CASE SeedAccepted \/ SeedRefused
  <2>1. Fresh /\ urlRows = {} /\ crawlPc = "start"
    BY <1>2 DEF SeedAccepted, SeedRefused, CInv, KInv, Begins
  <2>2. Once /\ Followed /\ Placed /\ nextSet = {} /\ frontier = {} /\ pages = 0
    BY <2>1, FreshAccounts DEF CInv
  <2>3. UNCHANGED <<status, phase, cancel, urlRows, depth, nextSet, pages, inFlight, asked, spider>>
    BY <1>2 DEF SeedAccepted, SeedRefused, taskVars, crawlRows, frontVars, pageVars
  <2>4. \A w \in Spiders : spider'[w] = Ended /\ ~Busy(w) /\ ~Busy(w)'
    BY <2>1, <2>3 DEF Fresh, Ended, Busy
  <2>5. Storing' = {} /\ depth = 0
    BY <2>1, <2>4 DEF Storing, Ended, Fresh
  <2>6. Once' /\ Followed'
    BY <2>1, <2>2, <2>3, <2>4, <2>5, FS_EmptySet DEF Once, Followed, Fresh
  <2>7. Whole' /\ crawlPc' \in {"level", "status"}
    <3>1. CASE SeedAccepted
      BY <2>1, <2>2, <2>3, <2>5, <3>1 DEF SeedAccepted, Whole, Placed, Fresh
    <3>2. CASE SeedRefused
      BY <2>1, <2>2, <2>3, <2>5, <3>2 DEF SeedRefused, Whole, Placed, Fresh, frontVars
    <3> QED
      BY <1>2, <3>1, <3>2
  <2>8. phase # "release"
    BY <2>1 DEF CInv, RInv
  <2> QED
    BY <2>3, <2>4, <2>6, <2>7, <2>8 DEF RInv, Account, CompletedIsAll
<1>3. CASE Level
  <2>1. /\ crawlPc = "level" /\ phase # "release" /\ crawlPc' \in {"last", "feed"}
        /\ crawlPc' = "last" => UNCHANGED spider /\ (depth > MaxDepth \/ frontier = {} \/ pages >= maxPages \/ cancel)
        /\ UNCHANGED <<status, phase, cancel, crawlRows, frontVars, pageVars>>
    BY <1>3 DEF Level, CInv, RInv, taskVars
  <2>2. \A w \in Spiders : spider[w] = Ended /\ spider'[w] \in {Waiting, Ended}
    BY <1>3, <2>1 DEF Level, CInv, RInv
  <2>3. \A w \in Spiders : ~Busy(w) /\ ~Busy(w)'
    BY <2>2 DEF Busy, Waiting, Ended
  <2>4. Storing = {} /\ Storing' = {}
    BY <2>3 DEF Storing, Busy
  <2>5. status # "deleted" => Account'
    <3> SUFFICES ASSUME status # "deleted" PROVE Account'
      OBVIOUS
    <3>1. Account
      BY <2>1 DEF CInv, RInv
    <3>2. Once' /\ Followed'
      BY <2>1, <2>3, <2>4, <3>1 DEF Account, Once, Followed, crawlRows, frontVars, pageVars
    <3>3. Placed => Placed'
      BY <2>1, <2>3 DEF Placed, crawlRows, frontVars
    <3>4. Whole'
      BY <2>1, <3>1, <3>3 DEF Account, Whole, crawlRows, frontVars, pageVars
    <3> QED
      BY <3>2, <3>4 DEF Account
  <2> QED
    BY <2>1, <2>2, <2>5 DEF RInv, CompletedIsAll
<1>4. CASE CloseJobs
  <2>1. /\ crawlPc = "feed" /\ (frontier = {} \/ cancel) /\ phase # "release"
        /\ crawlPc' = "barrier" /\ frontier' = {}
        /\ UNCHANGED <<status, phase, cancel, crawlRows, depth, nextSet, discovered, pageVars, spider>>
    BY <1>4 DEF CloseJobs, CInv, RInv, taskVars
  <2>2. status # "deleted" => Account'
    BY <2>1 DEF CInv, RInv, Account, Once, Followed, Whole, Placed, Storing, Busy, crawlRows, pageVars
  <2> QED
    BY <2>1, <2>2 DEF RInv, CompletedIsAll
<1>5. CASE NextLevel
  <2>1. /\ crawlPc = "barrier" /\ phase # "release" /\ \A w \in Spiders : spider[w] = Ended
        /\ crawlPc' = "level" /\ depth' = depth + 1 /\ frontier' = nextSet /\ nextSet' = {}
        /\ UNCHANGED <<status, phase, cancel, crawlRows, discovered, pageVars, spider>>
    BY <1>5 DEF NextLevel, CInv, RInv, taskVars
  <2>2. \A w \in Spiders : ~Busy(w) /\ ~Busy(w)'
    BY <2>1 DEF Busy, Ended
  <2>3. Storing = {} /\ Storing' = {} /\ depth \in Nat
    BY <2>2 DEF Storing, Busy, CInv, KInv, KTypes
  <2>4. status # "deleted" => Account'
    <3> SUFFICES ASSUME status # "deleted" PROVE Account'
      OBVIOUS
    <3>1. Account
      BY <2>1 DEF CInv, RInv
    <3>2. Once' /\ Followed'
      BY <2>1, <2>2, <2>3, <3>1 DEF Account, Once, Followed, crawlRows, pageVars
    <3>3. Placed => Placed'
      BY <2>1, <2>2, <3>1 DEF Account, Whole, Placed, crawlRows
    <3>4. Whole'
      BY <2>1, <2>3, <3>1, <3>3 DEF Account, Whole, crawlRows, pageVars
    <3> QED
      BY <3>2, <3>4 DEF Account
  <2> QED
    BY <2>1, <2>4 DEF RInv, CompletedIsAll
<1>6. CASE LastCounts
  <2>1. /\ crawlPc = "last" /\ phase # "release" /\ crawlPc' = "status"
        /\ SetCounts(pages, Cardinality(discovered))
        /\ UNCHANGED <<status, phase, cancel, maxPages, urlRows, frontVars, pageVars, spider>>
    BY <1>6 DEF LastCounts, CInv, RInv, taskVars
  <2>2. status # "deleted" => Account'
    BY <2>1 DEF CInv, RInv, Account, Once, Followed, Whole, Placed, Storing, Busy, SetCounts,
         frontVars, pageVars
  <2>3. \A w \in Spiders : spider'[w] = Ended
    BY <2>1 DEF CInv, RInv
  <2> QED
    BY <2>1, <2>2, <2>3 DEF RInv, CompletedIsAll
<1>7. CASE FinishCrawl
  <2>1. /\ crawlPc = "status" /\ crawlPc' = "none" /\ phase' = "release"
        /\ SetStatus(IF cancel THEN "stopped" ELSE IF pages = 0 THEN "error" ELSE "completed")
        /\ UNCHANGED <<crawlRows, frontVars, pageVars, spider>>
        /\ phase = "run"
    BY <1>7 DEF FinishCrawl, Finish
  <2>2. \A w \in Spiders : spider[w] = Ended
    BY <2>1 DEF CInv, RInv
  <2>3. ASSUME status' = "completed" PROVE CompletedIsAll'
    <3>1. status # "deleted" /\ ~cancel /\ pages # 0
      BY <2>1, <2>3 DEF SetStatus, CInv, RunIsOpen
    <3>2. Account
      BY <2>1, <3>1 DEF CInv, RInv
    <3>3. Storing = {} /\ Fetching = {} /\ \A w \in Spiders : ~Busy(w)
      BY <2>2 DEF Storing, Fetching, Busy, Ended
    <3>4. Cardinality(urlRows) \in Nat /\ pages \in Nat /\ maxPages \in Nat
      BY <3>2, FS_CardinalityType DEF Account, Once, CInv, CrawlTypes, KInv, KTypes
    <3>5. pages = Cardinality(urlRows)
      BY <3>2, <3>3, <3>4, FS_EmptySet DEF Account, Once
    <3>6. inFlight = 0
      BY <3>3, FS_EmptySet DEF CInv, CrawlTypes
    <3>7. ~missed /\ pages < maxPages => discovered = {r.url : r \in urlRows}
      <4> SUFFICES ASSUME ~missed, pages < maxPages PROVE discovered = {r.url : r \in urlRows}
        OBVIOUS
      <4>1. Placed /\ frontier = {} /\ nextSet = {}
        BY <2>1, <3>1, <3>2, <3>4, <3>6 DEF Account, Whole
      <4> QED
        BY <3>2, <3>3, <4>1 DEF Account, Once, Placed
    <3>8. /\ crawlRow = [pages |-> pages, found |-> Cardinality(discovered)]
          /\ \A r \in urlRows : r.depth < MaxDepth => Links[r.url] \cap Allowed \subseteq discovered
      BY <2>1, <3>1, <3>2 DEF Account, Whole, Followed
    <3> QED
      BY <2>1, <3>5, <3>7, <3>8 DEF CompletedIsAll, crawlRows, frontVars, pageVars
  <2>4. CompletedIsAll'
    BY <2>3 DEF CompletedIsAll
  <2> QED
    BY <2>1, <2>2, <2>4 DEF RInv
<1>8. CASE ReleaseCrawl
  BY <1>8 DEF ReleaseCrawl, Release, NoCrawl, RInv, CompletedIsAll
<1>9. CASE PrepareFails /\ UNCHANGED crawlBody
  <2>1. crawlPc = "none"
    BY <1>9 DEF PrepareFails, CInv, KInv, Begins
  <2> QED
    BY <1>9, <2>1 DEF PrepareFails, crawlBody, CInv, RInv, CompletedIsAll
<1> QED
  BY <1>1, <1>2, <1>3, <1>4, <1>5, <1>6, <1>7, <1>8, <1>9 DEF CrawlRunStep

LEMMA NextAccounts == CInv /\ [ToolsNext]_toolVars => CInv'
<1> SUFFICES ASSUME CInv, [ToolsNext]_toolVars PROVE CInv'
  OBVIOUS
<1>1. KInv' /\ CrawlTypes' /\ RunIsOpen'
  BY NextCrawl, NextCrawlTypes, ToolsStep, TaskKeepsOpen DEF CInv
<1>2. CASE ScanTurn \/ SeqTurn
  <2>1. tool' # "crawl" /\ UNCHANGED crawlBody /\ crawlPc = "none"
    BY <1>2 DEF ScanTurn, SeqTurn, CInv, KInv, Begins
  <2> QED
    BY <1>1, <2>1 DEF CInv, RInv, crawlBody
<1>3. CASE UNCHANGED toolVars
  BY <1>1, <1>3 DEF CInv, RInv, Account, Once, Followed, Whole, Placed, Storing, Busy, CompletedIsAll,
       toolVars, taskVars, crawlBody, crawlRows, frontVars, pageVars
<1>4. CASE CrawlTurn /\ CrawlNext
  <2>1. tool = "crawl" /\ UNCHANGED tool
    BY <1>4 DEF CrawlTurn
  <2>2. CASE CrawlCrash
    BY <1>1, <2>2 DEF CrawlCrash, CrashAndOpen, NoCrawl, CInv, RInv, CompletedIsAll
  <2> QED
    BY <1>1, <1>4, <2>1, <2>2, CallAccounts, RunAccounts, WorkersAccount DEF CrawlNext, CInv
<1> QED
  BY <1>2, <1>3, <1>4 DEF ToolsNext

LEMMA InitAccounts == ToolsInit => CInv
<1> SUFFICES ASSUME ToolsInit PROVE CInv
  OBVIOUS
<1>1. spider \in [Spiders -> SpiderStates] /\ Fetching = {} /\ \A w \in Spiders : spider[w] = Ended
  BY SpiderShape DEF ToolsInit, CrawlInit, Fetching, Ended
<1>2. CrawlTypes
  <2>1. missed \in BOOLEAN
    BY DEF ToolsInit, CrawlInit
  <2> QED
    BY <1>1, <2>1, FS_EmptySet, Graph DEF ToolsInit, CrawlInit, CrawlTypes
<1>3. RunIsOpen /\ RInv
  BY <1>1 DEF ToolsInit, CrawlInit, TaskInit, RunIsOpen, RInv, CompletedIsAll
<1> QED
  BY <1>2, <1>3, InitCrawl DEF CInv

\* A crawl that says it is completed has found everything it was asked to find, and its
\* row and its addresses say so, unless a fetch failed or the budget was used up.
THEOREM CrawlIsReported == ToolsSpec => []CrawlReported
<1>1. CInv => CrawlReported
  BY DEF CInv, RInv, CrawlReported
<1> QED
  BY <1>1, InitAccounts, NextAccounts, PTL DEF ToolsSpec

-----------------------------------------------------------------------------
(* The types of all three tools.                                           *)

LEMMA InitTask == ToolsInit => TaskTypeOK
<1> SUFFICES ASSUME ToolsInit PROVE TaskTypeOK
  OBVIOUS
<1>1. cancel \in BOOLEAN /\ deleting \in BOOLEAN
  BY DEF ToolsInit, ScanInit, TaskInit
<1> QED
  BY <1>1, TaskAssumption DEF ToolsInit, ScanInit, TaskInit, TaskTypeOK

\* Every variable of the three tools keeps its type.
THEOREM ToolsTyped == ToolsSpec => []ToolsTypeOK
<1>1. TaskTypeOK /\ ScanInv => ScanTypeOK
  BY DEF ScanInv, ScanTypes, ScanTypeOK
<1>2. TaskTypeOK /\ CInv => CrawlTypeOK
  BY FetchCount DEF CInv, CrawlTypes, CrawlTypeOK
<1>3. TaskTypeOK /\ CaptureInv => SeqTypeOK
  BY DEF CaptureInv, SInv, STypes, SeqTypes, SeqTypeOK
<1>4. TaskTypeOK /\ [ToolsNext]_toolVars => TaskTypeOK'
  BY TaskTypes, ToolsStep
<1> QED
  BY <1>1, <1>2, <1>3, <1>4, InitTask, InitScan, NextScan, InitAccounts, NextAccounts,
     InitCapture, NextCapture, PTL DEF ToolsSpec, ToolsTypeOK
=============================================================================
