# A formal model of RedTrace

RedTrace is an intercepting HTTP proxy with a set of tools around it (Intruder,
Scanner, Crawler, Sequencer, an out-of-band server, an AI assistant), an API with
a WebSocket for live events, and a browser application. This directory holds TLA+
modules of its concurrent parts, configurations that check them with TLC on small
instances, and proofs that TLAPS checks for every value of their constants.

Every definition is translated from the Go (or TypeScript) source; `PROJECT.json`
gives the lines, lists the runs, the seeded faults that show each property can be
broken by a slip in the code, the hazards, and the components with what is
modelled of each.

## Inventory

| Component | Source | State | Operations |
|---|---|---|---|
| Hold queue | `internal/proxy/intercept/interceptor.go` | enabled, response toggle, the held map and its order, one channel of capacity 1 per held item | Hold, Resolve, DrainAll, SetEnabled, SetInterceptResponses, remove |
| Rules, scope | `internal/proxy/intercept/rules.go`, `internal/scope` | compiled rule lists under a lock | SetRules (validate, then replace), match |
| Proxy | `internal/proxy/proxy.go`, `proxy/websocket` | per connection: the tunnel, its reader, a watcher goroutine | serveTunnel, handle, watchClientClose, persist |
| Certificates | `internal/proxy/cert` | CA on disk, cache of leaf certificates | LoadOrCreateAuthority, leaf lookup |
| Intruder | `internal/intruder`, `storage/intruder.go`, `handlers/intruder.go` | map of live runs, wait group; rows and results in SQLite | Start, Stop, Delete, Shutdown, the run's goroutine |
| Scanner | `internal/scanner`, `storage/scanner.go` | map of live scans, issue rows with deduplication | Start, Stop, passive scan, ClearScanIssues |
| Crawler | `internal/crawler` | frontier, visited set, page and depth limits | Start, Stop, workers |
| Sequencer | `internal/sequencer` | samples, workers' claims | Start, Stop, Analyze |
| Repeater | `internal/repeater` | history rows | Send (one call, 60 s at most) |
| Out-of-band server | `internal/oob` | payloads, interactions | HTTP and DNS listeners, poll, clear |
| AI assistant | `internal/ai`, `handlers/ai.go` | configuration, conversations | stream a reply, cancel, change the configuration |
| Storage | `internal/storage` | SQLite in WAL mode, full-text index | Open (migrate, reconcile), one statement or transaction per operation |
| WebSocket hub | `handlers/hub.go` | set of clients, a channel of 256 frames per client | ServeWS, Broadcast, readPump, writePump, remove |
| API server | `internal/api` | none of its own | routing, token check, graceful shutdown |
| Process | `cmd/redtrace/serve.go` | none of its own | start, signals, exit |
| Browser application | `web/src` | stores fed by HTTP answers and by live frames | fetches, frame handlers |

How they interact: the proxy calls `Hold` from one goroutine per message and
stores exchanges; API handlers change the hold queue and start and stop the
runners from goroutines of their own; every runner writes to SQLite and calls the
hub; the interceptor calls `PublishIntercept` after every change; the hub feeds
the pages, which also fetch over HTTP. `runServe` ties proxy, API and out-of-band
server into one group, and shutdown runs in a goroutine beside `Serve`.

What is hard about it: decisions racing with disconnects and toggles; slots
reserved in one critical section and used in another; database writes whose
errors are ignored; a shutdown that races with requests still accepted; crashes
that leave rows behind; snapshots read without a lock and broadcast later; slow
pages; live frames merged with older answers. `PROJECT.json` lists each at its
line, under `hazards`.

What makes each component correct, in one line:

* hold queue: every held message is released by exactly one decision or by the
  end of its connection, and nothing is held behind a disabled gate;
* runners: one run per job, slots always given back, and a row that tells the
  truth about the run;
* hub: never brings the program down, never reorders, loses only what it must;
* publication and page stores: once things are quiet, the page has been shown what is,
  and shows it unless an older state came after it;
* crawl and payload enumeration: each page or request once, and exactly as many
  as announced;
* task runners (scanner, crawler, sequencer): no row is left at running, every run
  ends, and a completed one has done and counted what it was asked to;
* assistant: one reply per turn, locks that are given back, keys that stay where
  the operator put them;
* proxy: the bytes of one message are never taken for those of another, and every
  answered exchange is recorded once.

## Modules

| Module | What it is |
|---|---|
| `HoldGate` | abstract specification of the hold queue: what a caller of `Hold` and an operator may rely on, with every operation atomic |
| `Interceptor` | the queue at the grain of its mutex, refining `HoldGate` |
| `InterceptPublish` | `HoldGate` composed with the goroutines and requests that bring the queue to the page |
| `ProxyPipeline` | `HoldGate` composed with one connection of the proxy: its handler, its watcher, the recorder and the WebSocket relay |
| `PayloadJobs` | which requests an attack generates: counting, validation, enumeration, and what the four attack types mean |
| `PayloadDraft` | an attack's configuration edited and started, over `PayloadJobs` |
| `EngineContract` | abstract specification of `Engine.Run`: what `IntruderRunner` takes its executing phase to be |
| `IntruderEngine` | the goroutines of `Engine.Run`, over `PayloadJobs`, refining `EngineContract` |
| `IntruderRunner` | attacks from start to terminal status, with the database, the stop and delete handlers, shutdown, crash and restart |
| `TaskRun` | the life that a scan, a crawl and a capture have in common: the map of running tasks, the status column, the API and crashes |
| `ScannerRun` | what a scan does between its preparation and its end, over `TaskRun` |
| `Crawl` | the same of a crawl |
| `SequencerCapture` | the same of a capture |
| `Hub` | the fan-out of frames, with both pumps of every connection |
| `Conversation` | the assistant's conversations: handlers, streams and the page's store |
| `AISettings` | the assistant's configuration, live and stored, and what a start makes of flags and row |
| `Callbacks` | the out-of-band server's callbacks, from the listeners to the page's store |
| `TaskPage` | the stores of the pages for attacks, scans, crawls, captures and Repeater tabs |
| `MC*` | the constants of the runs; `MCServices`, `MCTools` and `MCIntruder` also put modules side by side |
| `*_proofs` | theorems about the module of that name; `Tools_proofs` and `Crawl_proofs` are about `MCTools`, `Services_proofs` about `MCServices`, `IntruderEngine_proofs` about `PayloadDraft` too |
| `Induction` | induction, sums and sequences of finite sets for the proofs |

Three runs check several modules at once. Their modules share nothing a property
could tell apart (a scan and a crawl never touch the same rows; a conversation and
a callback meet only in the hub, which has no part of their state), so a product
of their states would show nothing that the sum does not: the first state decides
which of them moves (`tool`, `part`, `stage`) and the others stay where they are.
In such a module a property is the conjunction of those of its parts
(`ToolsTypeOK`, `ServicesTypeOK`, `ListsAreRight`, `NothingIsUndone`,
`WithinLimits`), each with its comment in the module it comes from; `PagesAreServed`
(`Hub`) and `PageIsTold` (`InterceptPublish`) join two of one module.
`NothingLasts` is `BufferedIsDelivered`, `ClientsLeave` (`Hub`), `ViewCatchesUp`
(`InterceptPublish`), `LockIsReleased` (`Conversation`), `CallbackIsShown`
(`Callbacks`) and `SpinnersEnd` (`TaskPage`); `ToolsEnd` is `ScanEnds`, `CrawlEnds`
and `CaptureEnds`. Fairness is that of the part that moves.

Definitions under "Seeded faults" are slips the code could make. They are used to
show that each property can fail and are no part of any specification.

### Interceptor and HoldGate

`hold[i]` says where the goroutine in `Hold(i)` stands: enqueued under the mutex,
notifying, asleep in its `select`, taking itself out after its context ended. An
operator (an API goroutine) takes items out of the map under the mutex (`TakeOut`)
and sends the decisions afterwards, one at a time, each a step of its own
(`SendDecision`). `queue` is the map's key set and `order` the slice; `decision[i]`
is the item's channel. The `select` of `Hold` is two actions that may both be
enabled (`HoldReceive`, `HoldCancelled`). `HoldGate` has one step per operation;
`ImplementsGate` is the refinement, with an item that was taken out counted as
decided from that moment on.

### InterceptPublish

A publication is four steps: the queue, `enabled`, `interceptResponses`, and the
broadcast, because `interceptState` takes the mutex three times and
`BroadcastIntercept` another. A change by a proxy goroutine owes one publication.
One by a handler owes the notifier's, the handler's own call, and the answer to the
request, which reads the state once more and which the page applies like a frame;
a page that is opened or reconnects asks for the state (`FetchIntercept`). A
request that sets both toggles is taken as two changes. `view` is the last state the
page received; the hub is a register here, and its losses are in `Hub`. Two history
variables say what the code promises although publications overlap: `told`, that the
state the last change made has been on the page, and `crossed`, that publications did
overlap since none was under way. Without locks across the reads and the broadcast no
more holds than `LastChangeIsShown` and `LonePublicationIsRight`; that the last state to
arrive is the right one (`QuietViewIsCurrent`) fails, which is finding 1.

### ProxyPipeline

`pc` is where the goroutine of the connection stands, from reading a request
(`serveTunnel`, or `net/http` for plain proxy requests: `scheme`) through
`handle` (`Check`, `ApplyRules`, the gate for the request, `RoundTrip`, the gate for
the response) to writing the answer, or dialling and relaying an upgraded
connection. `watch` and `deadline` are the watcher and the read deadline that
interrupts it; `cancelled` and `base` the contexts a `Hold` waits on. A message is
reduced to the host it is for: an operator's edit or a rule may change it, while
`meta` keeps what was computed before. `capture` and `record` are the goroutine of
`persist`, which stores, then announces, or fails to store.
`Goto("leaked")` is a hijacked connection that nobody closes after a failed dial.
Connections share only the gate, so one connection is enough; operators act at
any time.

### PayloadJobs, PayloadDraft and IntruderEngine

A configuration is its type, the number of markers in the template and the length
of each payload set; a payload is its set and its place there, whatever its text
is. `forEachJob` is a set of loop counters: `FirstCursor` starts them, `NextCursor`
is the odometer (the loops of the other types are one with fewer digits), and
`Vector` reads the payloads they point at. `Tried` says independently what each type
stands for. The bytes of the rebuilt request and the processors are left out: they
do not change how many requests there are or in which order.

In `IntruderEngine` both channels are unbuffered, so a send and its receive are one
step: `Feed` passes a job to a worker, `Collect` a result to the caller.
`ProducerStops` is the branch of the producer's `select` that sees the cancelled
context; it and `Feed` may both be enabled. A worker always answers a job it has
taken, and the caller always takes the answer, so a cancelled run drains.

### IntruderRunner

A run goes through reserved, executing, recording, closing, releasing, done;
`running` is `Runner.running`. Each statement on the database is one step, so the
final count, the terminal status and the release are three. `process` is the life
of the program: up, stopping (runners are being shut down, requests are still
accepted), draining (`http.Server.Shutdown` has been called), exited or crashed.
`Vanish` removes everything in memory and keeps the rows; `Restart` is
`storage.Open` with its reconciliation. A committed statement survives a crash of
the process (WAL), so it takes no further step to persist.

The constant `Faults` says what may go wrong: `crash`, `timeout` (the 5 s of the
shutdown pass before the runs have ended) and `store` (a statement fails; the code
ignores these errors during a run). The engine inside a run is reduced to the
results it hands over, in any order, some or all of them once it is cancelled.

### TaskRun, ScannerRun, Crawl and SequencerCapture

The three runners are written after one pattern, and `TaskRun` is that pattern for
one task: `phase` is its entry in the map `running` together with what its owner
does next (prepare the row, run, write the last status, leave the map), `status` the
column, `cancel` the context. A stop that found no entry looks at the row and writes
it two steps later (`StopMissed`, `StopRead`, `StopWrite`); a delete stops first and
deletes later, while the run goes on against a row that is gone. `CrashAndOpen` is
the end of the process at any point, followed by the reconciliation of `Open`.

`ScannerRun` adds the baseline request, the pool (`Feed`, `Probe`, `Collect`,
`ProberEnds` over unbuffered channels, `StopFeeding` for the feeder's `select`),
progress every `ScanEvery` probes, findings with their deduplication (`New`, `Collect`),
passive findings and clearing. Which response shows which finding is a choice.

`Crawl` fetches level after level of a graph of links that is a constant. `spider`
says where each worker stands: idle, fetching with a slot of the budget reserved,
storing the page, reading the counts, writing them. Reading happens under the mutex
and writing after it, so writes may swap; the last write comes after all workers.

`SequencerCapture` is the same with a target of tokens and a patience for requests
without one. `sampler` is a worker, `collected`, `fails` and `sent` the counters.
The report at the end is a snapshot and is identified by how many tokens it is about.

### Hub

A frame is its number in the order of broadcasts. `ReadFails` may happen at any
time, as a missed pong does, and must happen once the page is gone or is no longer
pinged. `writePump` may fail at any write, because of its 10 s deadline, and then
leaves its client registered; what the client still costs until `readPump` gives
up is part of the model. What is written to a page that has gone is lost.

### Conversation

`stream[s]` is one `POST .../messages` from the row it reads, through the lock
(`aiStreams`), the stored turn, the history it reads, the provider's deltas and the
stored reply, to the release of the lock; every early return of `StreamAIMessage` is
an action or a disjunct. `calls` are the page's other calls (open, new, delete,
clear, list), each with what its action had captured before it awaited; answers
arrive in any order. `page` is the store of `aiStore.ts`, with the
`AbortController` of the stream it shows. A message is its role, its conversation
and, for a reply, how much of the history it answers.

### AISettings

A save is five steps: read the live configuration and merge, configure, read back,
read the stored key if the request keeps it, store. `RestartProcess` may come
between any two, and other saves too. A read of the row may fail: a save swallows that
and stores no key, a start goes on with the flags alone. So may a write, after the live
configuration was replaced. `Resolved` is `resolveAIConfig`. Model and base URL follow
the provider and are not told apart from it. `apart` is a history of why the row may no
longer be what is live ("failure", "overlap"), emptied by a start and by a save with a
key that goes through alone; `overlap` says that saves overlapped since none was under
way. What holds is stated with them (`SettingsSurviveRestart`, `LoneSaveAddsNoKey`); what
goes wrong otherwise is finding 5 and, without a run, described below it.

### Callbacks

A callback is stored (`StoreCallback`) and announced afterwards (`NotifyCallback`);
HTTP callbacks run concurrently, DNS packets one after another. `TokenOf` reads the
token out of a name, which is a sequence of labels. `oobCalls` are the page's
fetches, payload requests and clears, each in the steps in which its handler reads
or writes; `mergeInteractions` is the merge of a snapshot with what arrived live.

### TaskPage

Five stores do the same: select (move a token, empty the pane, ask for the detail),
apply the answer if the token has not moved, merge live rows in. `kind` chooses which
of the five the page is, and the operators `SavesFirst`, `SelectsNext` and the
conditions on `kind` say where they differ. `server` is what the database holds,
`frames` what is on its way, `pcalls` the calls in flight, `pg` the store.

## Runs

| Run | Shows | Bounds |
|---|---|---|
| `interceptor` | a closed gate holds nothing; exactly one decider per held message; nobody sleeps with nobody to wake it; toggles and disconnects release; the queue implements `HoldGate`, liveness included | one request, one response, two operators: any two operations race over an item |
| `publish_overlap` | an older snapshot can reach the page last (finding) | two items, two publishers |
| `proxy` | the watcher never shares the reader; what is recorded is what took place; shutting down and leaving end what a connection waits for | two exchanges, so that the second can be pipelined behind a held one; two hosts, one of them in scope |
| `proxy_stop` | ending the watcher cuts a streamed response (finding) | the same |
| `proxy_disconnect` | a disconnect does not always release a held item (finding) | the same |
| `engine_run` | each request sent once and answered once, and `EngineContract` at any cancellation | one or two workers, up to three sets of up to two, up to eight requests |
| `intruder` | one run per attack, results of one run only, under all three faults; `Count` and `Validate` are right about what would be tried | one attack, two runs, two handlers, two requests per run; all types, up to three positions (one unbalanced), three sets of up to three, a cap of 8 requests, so that products lie under, at and over it |
| `runner_row` | while the database works: running means being run, completed means complete, slots are given back, running attacks end | one request per run, crashes and missed deadlines |
| `runner_stop` | a stop racing with a start marks a working attack stopped (finding) | one request per run, no faults |
| `tools` | no task is left at running and each ends; a crawl and a capture keep to their limits; a completed one has accounted for, counted and recorded everything | two runs and a crash of one task; a scan of one check with two payloads and a passive finding, two workers; five addresses with cycles and one off the host, depth 2, budgets 2 (too small) and 5, two workers; a capture of two tokens by three workers, patience 1, one sample stored |
| `services` | the hub never sends on a closed channel and loses only from full buffers; one reply per turn; the page has been shown what the last change of the queue made, although publications overlap; what it shows belongs to what is selected, once, and is not undone; settings survive a restart and a save that is alone writes no foreign key; locks, spinners, stale items and dead connections do not last | one page, a buffer of two, five frames, of which the fourth is followed; two publishers, one response in the queue and both toggles; two conversations, two streams, two other calls; two savers, three saves, any read or write failing; two callbacks, two payload calls; two items with two rows, three calls |
| `ai_key` | two overlapping saves write the flag's key to disk (finding) | two savers, three saves |

Why these are enough: each bound lets the case happen that its property is about,
and the seeded faults in `PROJECT.json` ("mutants") are all found under them.
Attacks meet only in the wait group, in the process and in handlers that serve one
request at a time; tasks do not meet at all; `Broadcast` does to each page what it
would do to it alone. Runs are numbered once and for all, and twice is enough for a
run to meet the remains of another. A channel of the hub holds 256 frames in the
code; nothing depends on the number. With two workers of a crawl both can find the
same link and both can be late with the counts; three of a capture can overshoot
target and patience by more than one. Two runs and two handlers are interchangeable,
and symmetry is used in `intruder`, which has no temporal property.

Deadlock is not checked in `proxy` (a closed connection is the end of the model),
`engine_run` (`Run` returns) and `tools` (a deleted task whose runs and crashes are
used up). The others can always go on.

### Findings

Each is a run with `expect` `violation`.

1. `interceptState` and what carries its result to the page are not one critical
   section, so frames and answers can arrive in an order that leaves an old queue on
   display (`publish_overlap`).
2. `StopIntruderAttack` takes an attack for an orphan when its two reads straddle a
   start (`runner_stop`). The run goes on under a row that says stopped, and later
   writes its own terminal status.
3. `watchClientClose` watches only if interception was enabled when the request had
   been read, and stops watching at the first byte of a pipelined request. In both
   cases a client that leaves does not release what is held for it
   (`proxy_disconnect`). Shutting down does (`TunnelLetsGo`).
4. `stop` makes the watcher's read fail, and the watcher takes that for a disconnect
   and cancels the context of the exchange. The comment calls that moot; it is not
   for a response that is still being streamed under that context (`proxy_stop`).
5. `UpdateAIConfig` stores what is live when it reads back. If another save has
   configured a kept key in between, a key from a flag or the environment goes to the
   database, which the handler takes care to prevent (`ai_key`).

### Known to fail, without a run

These were met while modelling. The properties above are stated so that they leave
them out, at the place named.

* `SettingsSurviveRestart` leaves out saves that overlapped and reads and writes that
  failed (`apart`), until a save with a key goes through alone. `UpdateAIConfig`
  configures and stores without a lock across: when one save has configured and read
  back, another configures and stores, and then the first stores, the live configuration
  is the second's and the row the first's, and a restart brings back the first's. And it
  ignores the error of reading the stored key: a save that is to keep the key then stores
  none, and the key is lost.
* `ScanIsWhole` leaves out a scan whose findings were cleared while it ran: its next
  progress brings the count back, which `ClearScanIssues` says it prevents.
* `ThreadBelongs` leaves out the state after *New chat* or *Clear*, another open and
  a send overlapped (`raced`): the answer then replaces the thread under the stream.
* `LiveSurvives` leaves out a clear that answers late: it wipes what arrived after it
  was served. A snapshot read before a clear brings the cleared rows back, and the
  badges of payloads may count a callback twice or not at all.
* A start of an attack accepted while `Shutdown` is cancelling is not waited for and
  leaves its row at running until the next start of the program
  (`RunningRowHasRun` is about a process that is up).
* `product` says "over the cap" before it meets an empty later set. `Validate` refuses
  either way, for the wrong reason.
* An exchange is recorded under the host and port it had before the operator edited
  it; `record` has it, and no property contradicts it.
* A plain (not tunnelled) request that is held is not released by shutting down,
  because its context is not a child of the proxy's.
* A report of a capture can be lost when a stop that looked before the end writes
  after it. Addresses stored after their crawl was deleted stay as orphans. A budget
  slot freed by a failed fetch does not bring back an address that was passed over.
* In `TaskPage`: deleting the last item does not move the token, so a late answer can
  fill a blank pane; the answer to a start wipes rows that arrived before it; a list
  row may keep saying running when its last frame fell into a reconnection.

## Fairness

Weak fairness is assumed of goroutines only: a goroutine that can go on does.
Operators, clients, pages and whoever starts the process owe nothing.

* A `Hold` that sleeps is woken by its channel or its context.
* Origins answer or time out: the Repeater's client, which attacks, scans,
  crawls and captures use too, gives each request 60 s, and the proxy's transport
  waits 60 s for the headers. Hence the engine's, the workers' and the pipeline's steps happen.
* A write to a client or a page ends (the hub has a 10 s deadline). In `Hub` a read
  must fail only when the page has left or is no longer pinged.
* The origin of a relayed connection owes nothing: the downward direction must end
  only after the upward one has and `Tunnel` has closed both connections.
* The assistant's provider answers, fails or is cut off by the watchdog.
* The page applies what reaches it, and its calls are answered or fail.

No strong fairness is used.

## Proofs

Every safety invariant and every action property of the passing runs is a theorem:
TLAPS checks them for every value of the constants, that is for any number
of items, operators, attacks, runs, handlers, pages, publications, conversations,
streams, workers, payload sets, requests, addresses, callbacks and crashes, and any
capacity. The safety parts of the two refinements (`ImplementsGate`,
`ImplementsContract`) are theorems as well.

Assumptions are those named in the modules and no more:

* every item has a direction; sets of workers, addresses and callbacks are finite;
  the seed of a crawl is in scope and links are addresses; limits are natural
  numbers, target and patience positive;
* a pool has a worker (`ScanWorkers`, `Spiders`, `SeqWorkers`: `defaultConcurrency` is
  a positive constant in all three);
* the counts in a configuration are numbers (`IsConfig`), its concurrency any integer:
  `Engine.Run` takes one that is not positive for the default;
* `NoConv`, `NoStream` and `NoItem` are none of the things they stand beside.

The number of publishers and of savers is not limited and nothing keeps them from
overlapping. What the theorems say of them is weaker than what the runs of the findings
refute (`QuietViewIsCurrent`, `KeyStaysOffDisk`); those formulas are false and not
proved for a special case.

### The arguments

* `Induction` holds what the others need of numbers. The induction theorems of the
  library take an operator, which the provers cannot instantiate; `Induct` is the same
  about a set, from the well-foundedness of the natural numbers, and `LeastOf` gives a
  set its least element. `SumExists` and `SumOfFunction` say what the community modules'
  `SumFunction` is, an element at a time; `Enumerated` and `NamesAll` that a finite set of
  numbers can be put in order and that such a sequence names all of it.
* `Interceptor_proofs`. The safety properties are proved together from `IInv`, which
  adds `Phases`: how far a `Hold` can be while its item is in the queue, in an
  operator's hands or in its channel. Without it one could not exclude a decision in
  flight to a `Hold` that has already returned. Two statements are proved and not
  run: `OrderIsQueue` (map and slice agree) and `OverruledOnlyWhenGone` (a decision is
  lost only on a client that has left); so is the action property
  `DecisionsAreFinal`. `QueueIsGate` is the refinement, one step for each action of a
  goroutine: `VerdictsKnown` says that what the gate has decided about an item is the
  one decision that is with an operator, in the channel or returned, so taking items
  out of the map is `HoldGate`'s decision and every later step of sending it a stutter.
* `ProxyPipeline_proofs`. `WInv` says that there is a watcher only while the handler is
  between the rules and the end of `stop`, and a pending deadline only while `stop`
  waits. It gives `ReaderIsAlone`. `CInv` says types first, then what has not happened
  yet to later exchanges (`Future`) and what has been decided, sent and answered at
  each place for the current one (`Phases`), and gives `CapturesAreExchanges` and
  `PipeTypeOK`.
* `IntruderRunner_proofs`. `MapIsLive` and `Owners` come first: a handler between
  the reservation and the launch owns a reserved run that no other handler has.
  `SingleRun` follows, because a map has one value per key. `Stored` adds that
  nothing is stored between the reset and the launch; `Rows`, that a failed start
  of an attack that is still there is the database's doing; and `Complete`, how much
  has been stored at each of a run's last steps. Together they are inductive and
  give `ResultsOfRun`, `RunningRowHasRun` and `CompletedHasAllResults`. The identity
  check in `Runner.release` turns out never to fail: the slot of a live run cannot
  be taken over.
* `IntruderEngine_proofs`, in three parts. `Hands`, `Collections` and `Accounted` say
  where a job can be; they are inductive and give `EveryJobIsAccounted` and
  `ReturnIsClean` (proved, not run) whatever is enumerated. Then the draft: by induction
  over the payload sets the loop of `product` computes the size of the box of loop
  counters, or something over the cap as soon as it passes it (`ProductStep`), so that
  `Count` is how many requests the type stands for; with `DraftInv` this gives
  `CountsAreRight`. Last the producer: `Less` orders the turns of the loops, `NextCursor`
  is shown to be the successor in it, and `Chosen(cs)` that the turns before the cursor
  have each been sent once; at the end of the loops these are all, which gives
  `EverythingIsTried`, and the bounds in `TypeOK`. `EngineRefinesContract` is the
  refinement, one step for each action.
* `Tools_proofs`. `ToolsAreTasks`: every step of a scan, a crawl or a capture is a step
  of `TaskRun` or leaves it alone, so what is shown of a task holds for all three, and
  `NotLeftRunning` is shown once. `SendsBounded` needs an account of requests that
  are neither tokens nor failures: `Owing(U)` says that a set `U` of workers owes one
  each, a worker being in `U` while its request is out or after it ended because there
  was no room for its token. `CaptureInv` adds that nobody writes the row after the last
  worker but the goroutine of the capture (`QInv`) and gives `CaptureReported`.
  `ScanInv` counts: a probe is still to be fed, with one worker, or completed (`Counted`),
  the feeder gives up early only when it is told to (`Fed`), and what compares with the
  baseline has one that does not show the signature (`Compared`); it gives `ScanReported`.
* `Crawl_proofs`. `Levels(L)` says that `L` gives every address found its distance:
  the frontier is at `depth`, what was found for the next level at `depth + 1`, and an
  address below zero distance was reached from a page already read. `L` exists at
  every moment of a crawl (`Levelled`) and is extended when a page brings new
  addresses; with `Queued` (what is found, still to be asked for, or being fetched) it
  is inductive and gives `WithinBudget` and `DepthIsDistance` for any graph. `Account`
  is what a completed crawl needs in addition: every address found is still to be asked
  for, with one worker, or recorded once (`Placed`, `Once`), links of recorded pages are
  found (`Followed`), and only a stop, a failed fetch or the budget loses one (`Whole`).
  It gives `CrawlReported`; `ToolsTyped` collects the types of the three tools.
* `Services_proofs`, part by part.
  - Hub: `Pumps` says that a client is in the map exactly while `readPump` reads and that
    its channel is closed exactly from then on, which gives `NoSendOnClosed`; `Stream`
    that what a page got, what is being written and what is buffered, in this order, are
    rising frames, which gives `StreamIsWhole`.
  - Publication: whoever made the last change owes a publication and has read nothing
    before it, so what it reads is what the gate is (`ReadSoFar`) although it takes three
    reads, until it has shown it (`ToBeShown`, which gives `LastChangeIsShown`). If nobody
    else began meanwhile, the same holds of all who are at work (`Lone`), and the last to
    broadcast leaves the page right.
  - Settings: between the steps of a save that is alone, what it will store is what is
    live by then (`SaveIsWhole`) and a key some request carried or the row has
    (`KeyWasSent`); once none is under way the live configuration is what the row gives
    (`Kept`), unless `apart` says why not. `SettingsKept` keeps these under the condition
    that no other overlapped.
  - Conversations: `ConvBase` gives answers and frames their conversation. `OneThread`
    says that only the stream the page controls is alive and is of the open conversation
    and that none is while a create or a clear is pending; it is what `PageIsOfOne` needs,
    up to the overlap the property leaves out (`raced`). `OneStream` says that a stream
    between lock and unlock holds the lock of its conversation alone, so that the history
    it read has no later reply (`Turns1`), which gives `OneReplyPerTurn`.
  - Callbacks: `CbBase` gives what is on the wire and in every snapshot the shape the merge
    relies on, which gives `ShownOnce` and `LiveSurvives`.
  - Panes: `PageFresh`, `LoadAlone`, `AskAlone` and `Entries` say which calls may still
    carry the pane's token: one load, and no start before its answer. Hence an answer that
    is applied is about the selected item and brings no row twice, for all five stores.
  - `ServicesTyped` needs a bound on the token of a pane, which counts selections that
    cost no call (the item selected after a deletion, a pane that is closed).
    `TokenBound` pays for each with a call already counted: the deletion or the list whose
    answer selects, or the selection that is closed.

### What the proofs changed in the modules

Two definitions had a `CASE` whose guards overlapped (`product` and `Validate`; also the
answers of `TaskPage` and `Conversation`): TLC takes the first that holds, the logic any,
and the proof that `Count` is right did not go through. They are now written with `IF`, in
the order of the code's early returns. `Concurrency` covers negative numbers, as the code
does. `Joined` follows the loop of `applyUpdate` that finds the place of a row instead of
filtering the list on either side of it; the lists are chosen from `SetToSeqs`, whose
definition can be reasoned about, where `SetToSortSeq` hides a recursion.

### Only model-checked

What rests on fairness: `TogglesRelease`, `DisconnectReleases`, `TunnelLetsGo`,
`SlotIsFreed`, `RunningEnds`, `ToolsEnd`, `NothingLasts`, and the fairness that
`ImplementsGate` and `ImplementsContract` ask for beyond the steps. Liveness and
`ENABLED` are out of the prover's reach. The five findings are violations and have
nothing to prove.

## Order of work

The modules were written from the centre outwards: the hold queue and its gate, its
publication, the connection that holds; the attack lifecycle, its engine and
enumeration; the other runners over their common life; the hub, the assistant, the
callbacks and the pages' stores. The proofs followed in the same order. What would come
next, most useful first:

1. the list of exchanges in the page (`proxyStore.ts`), which merges live rows with
   pages of a query, and which shows a row twice when both bring it;
2. one module for the shutdown of proxy, API and out-of-band server together, with the
   database closing while HTTP still drains;
3. failed writes at every step of the scanner, the crawler and the sequencer, as
   `IntruderRunner` has them.

## Not modelled

* Parsing and bytes: HTTP, TLS and DNS messages, certificates, the providers' wire
  formats, decoding, diffing, payload processors, the matching of rules and scope,
  what a scanner's check looks for, and the sequencer's statistics. They are data
  processing with no interleaving.
* Rules and scope are replaced as a whole under a lock; `ProxyPipeline` lets a rule
  send a request to any host and takes the scope as a constant.
* Storage: queries, search, the site map and the migration. Statements on the database
  are assumed to succeed, except in `IntruderRunner` (`Faults`), and where an action
  has a disjunct for the failure (preparing a row, storing an exchange, a message, a
  callback, reading and storing the settings). In particular the progress, the rows and
  the last status of a scan, a crawl and a capture are written: `NotLeftRunning` rests on
  that, and the code ignores the error.
* `Serve` returns before the drain ends, so the database may close under a handler;
  such a handler fails like one whose write fails, where that is modelled.
* In the pages: creating an item and stopping a task, the combined request of both
  toggles, the settings stores, the list of exchanges, rendering. In the assistant:
  the refusal when it is disabled.
* Routing, static files, the token check and flags keep no state.
