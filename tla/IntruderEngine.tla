--------------------------- MODULE IntruderEngine ---------------------------
(***************************************************************************)
(* Engine.Run (internal/intruder/engine.go): a producer goroutine that     *)
(* enumerates the jobs, workers that send them, the goroutine that closes  *)
(* the results when the workers are done, and the caller that collects.    *)
(* Both channels are unbuffered, so a value passes from one goroutine to   *)
(* the other in one step.                                                  *)
(***************************************************************************)
EXTENDS PayloadJobs, Integers, FiniteSets

CONSTANTS
  Configs,             \* configurations an operator may start
  DefaultConcurrency,  \* workers when the configuration does not say
  MaxConcurrency       \* workers at most

ASSUME EngineAssumption ==
  /\ DefaultConcurrency \in 1..MaxConcurrency
  /\ MaxConcurrency \in Nat
  /\ \A c \in Configs : IsConfig(c) /\ c.concurrency \in Int

VARIABLES
  cfg,        \* the configuration, with the concurrency it asks for
  cursor,     \* the producer's loop counters, as a set: empty once it has finished
  producer,   \* "feeding" until jobs is closed
  emitted,    \* the payload vectors sent through jobs: a job's index is its place
  worker,     \* what each worker does
  job,        \* and the index of its job
  collected,  \* indices handed to onResult, in order
  cancelled,  \* the context has been cancelled
  returned    \* Run has returned

vars == <<cfg, cursor, producer, emitted, worker, job, collected, cancelled, returned>>

\* How many workers Run starts.
Concurrency ==
  CASE cfg.concurrency <= 0             -> DefaultConcurrency
    [] cfg.concurrency > MaxConcurrency -> MaxConcurrency
    [] OTHER                            -> cfg.concurrency

Workers == 1..MaxConcurrency

TypeOK ==
  /\ cfg \in Configs
  /\ cursor = {} \/ \E c \in cursor : cursor = {c} /\ c \in [1..Len(Bounds(cfg)) -> 1..MaxJobs]
  /\ producer \in {"feeding", "closed"}
  /\ emitted \in Seq(UNION {[1..n -> Nat \X Nat] : n \in {Positions(cfg)}})
  /\ worker \in [Workers -> {"absent", "idle", "sending", "answered", "exited"}]
  /\ job \in [Workers -> 0..MaxJobs]
  /\ collected \in Seq(1..MaxJobs)
  /\ cancelled \in BOOLEAN /\ returned \in BOOLEAN

\* The handler has validated the configuration.
Init ==
  /\ cfg \in {c \in Configs : Validate(c) = "ok"}
  /\ cursor = FirstCursor(cfg)
  /\ producer = "feeding"
  /\ emitted = <<>>
  /\ worker = [w \in Workers |-> IF w <= Concurrency THEN "idle" ELSE "absent"]
  /\ job = [w \in Workers |-> 0]
  /\ collected = <<>>
  /\ cancelled = FALSE
  /\ returned = FALSE

-----------------------------------------------------------------------------
(* Seeded faults.  Each changes one of the definitions that follow the way *)
(* a slip in the code would; none is part of the specification.            *)

\* A worker looks at the context before its request and drops the job, and the
\* producer goes on regardless.
AnswerDropping(w) ==
  /\ worker[w] = "sending"
  /\ worker' = [worker EXCEPT ![w] = IF cancelled THEN "idle" ELSE "answered"]
  /\ job' = [job EXCEPT ![w] = IF cancelled THEN 0 ELSE @]
  /\ UNCHANGED <<cfg, cursor, producer, emitted, collected, cancelled, returned>>

\* The producer's select does not wait: it stops when no worker is ready.
ProducerStopsBusy ==
  /\ producer = "feeding"
  /\ cursor # {}
  /\ cancelled \/ \A w \in Workers : worker[w] # "idle"
  /\ producer' = "closed"
  /\ UNCHANGED <<cfg, cursor, emitted, worker, job, collected, cancelled, returned>>

-----------------------------------------------------------------------------

\* The operator stops the attack, or the program shuts down.
Cancel ==
  /\ ~cancelled /\ ~returned
  /\ cancelled' = TRUE
  /\ UNCHANGED <<cfg, cursor, producer, emitted, worker, job, collected, returned>>

\* The producer's select sends the next job to a worker that waits for one.
Feed(w) ==
  /\ producer = "feeding"
  /\ worker[w] = "idle"
  /\ \E c \in cursor :
       /\ emitted' = Append(emitted, Vector(cfg, c))
       /\ cursor' = NextCursor(Bounds(cfg), c)
  /\ worker' = [worker EXCEPT ![w] = "sending"]
  /\ job' = [job EXCEPT ![w] = Len(emitted')]
  /\ UNCHANGED <<cfg, producer, collected, cancelled, returned>>

\* Its other branch: the context is done, and forEachJob stops.
ProducerStops ==
  /\ producer = "feeding"
  /\ cancelled /\ cursor # {}
  /\ producer' = "closed"
  /\ UNCHANGED <<cfg, cursor, emitted, worker, job, collected, cancelled, returned>>

\* forEachJob has no more jobs, and the deferred close runs.
ProducerEnds ==
  /\ producer = "feeding"
  /\ cursor = {}
  /\ producer' = "closed"
  /\ UNCHANGED <<cfg, cursor, emitted, worker, job, collected, cancelled, returned>>

\* send returns: a response, an error, or the context's error.
Answer(w) ==
  /\ worker[w] = "sending"
  /\ worker' = [worker EXCEPT ![w] = "answered"]
  /\ UNCHANGED <<cfg, cursor, producer, emitted, job, collected, cancelled, returned>>

\* The caller takes the result, cancelled or not, and calls onResult.
Collect(w) ==
  /\ worker[w] = "answered" /\ ~returned
  /\ worker' = [worker EXCEPT ![w] = "idle"]
  /\ job' = [job EXCEPT ![w] = 0]
  /\ collected' = Append(collected, job[w])
  /\ UNCHANGED <<cfg, cursor, producer, emitted, cancelled, returned>>

\* jobs is closed, and the worker's loop ends.
WorkerExits(w) ==
  /\ worker[w] = "idle"
  /\ producer = "closed"
  /\ worker' = [worker EXCEPT ![w] = "exited"]
  /\ UNCHANGED <<cfg, cursor, producer, emitted, job, collected, cancelled, returned>>

\* All workers are done, results is closed, and the caller's loop ends.
Return ==
  /\ \A w \in Workers : worker[w] \in {"absent", "exited"}
  /\ ~returned
  /\ returned' = TRUE
  /\ UNCHANGED <<cfg, cursor, producer, emitted, worker, job, collected, cancelled>>

WorkerStep(w) == Feed(w) \/ Answer(w) \/ Collect(w) \/ WorkerExits(w)

Next ==
  \/ Cancel \/ ProducerStops \/ ProducerEnds \/ Return
  \/ \E w \in Workers : WorkerStep(w)

\* Goroutines run, and every request is answered or times out.
Fairness ==
  /\ WF_vars(ProducerStops \/ ProducerEnds) /\ WF_vars(Return)
  /\ \A w \in Workers : WF_vars(WorkerStep(w))

Spec == Init /\ [][Next]_vars /\ Fairness

-----------------------------------------------------------------------------
(* Properties.                                                             *)

\* Unless it was cancelled, the attack has sent exactly the requests its type
\* stands for when the producer closes the channel, each once and as many as
\* Count announced.
EverythingIsTried ==
  producer = "closed" /\ cursor = {} =>
    /\ {emitted[i] : i \in 1..Len(emitted)} = Tried(cfg)
    /\ Len(emitted) = Count(cfg)

\* Every job that left the producer is with exactly one worker or has been
\* collected exactly once, also while a cancelled run drains.
EveryJobIsAccounted ==
  \A i \in 1..Len(emitted) :
    Cardinality({w \in Workers : job[w] = i})
      + Cardinality({k \in 1..Len(collected) : collected[k] = i}) = 1

\* Run returns only when no worker can call anything any more, and has then
\* collected every job that was sent.
ReturnIsClean ==
  returned => (\A w \in Workers : worker[w] \in {"absent", "exited"}) /\ Len(collected) = Len(emitted)

Contract == INSTANCE EngineContract
  WITH total <- Count(cfg), sent <- {collected[k] : k \in 1..Len(collected)}

\* Run is the executing phase of IntruderRunner: results one at a time, none
\* twice, a return that a missing result can only precede if cancelled, and no
\* run, cancelled or left alone, that does not return.
ImplementsContract == Contract!Spec
=============================================================================
