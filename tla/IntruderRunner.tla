--------------------------- MODULE IntruderRunner ---------------------------
(***************************************************************************)
(* The lifecycle of Intruder attacks: the Runner of internal/intruder/     *)
(* engine.go, the attack rows and results in SQLite (internal/storage/     *)
(* intruder.go), the start, stop and delete handlers (internal/api/        *)
(* handlers/intruder.go), and the process around them: graceful shutdown   *)
(* (internal/api/server.go, cmd/redtrace/serve.go), crash, and the         *)
(* reconciliation storage.Open does at the next start.                     *)
(*                                                                         *)
(* A critical section of the Runner's mutex is one step, and so is every   *)
(* statement or transaction on the database.  What the engine does inside  *)
(* a run is reduced to the results it hands over (see the README for the   *)
(* engine itself).                                                         *)
(***************************************************************************)
EXTENDS Naturals, FiniteSets

CONSTANTS
  Attacks,        \* attack ids
  Runs,           \* activeRun values: one per accepted Start (bounds the model)
  Handlers,       \* API goroutines
  Total,          \* requests an attack generates, Count(cfg)
  ProgressEvery,  \* results between two writes of the completed column
  Faults          \* what may go wrong: "crash", "timeout" and "store"

None == "none"

ASSUME RunnerAssumption ==
  /\ Attacks # {}
  /\ Total \in Nat \ {0}
  /\ ProgressEvery \in Nat \ {0}
  /\ None \notin Runs
  /\ Faults \subseteq {"crash", "timeout", "store"}

VARIABLES
  row,        \* intruder_attacks.status, or "absent"
  progress,   \* intruder_attacks.completed
  results,    \* intruder_results: the (run, index) pairs stored for an attack
  running,    \* Runner.running
  run,        \* where each run stands
  attackOf,   \* the attack a run was started for
  cancelled,  \* the run's context has been cancelled
  sent,       \* the results the engine has handed over
  outcome,    \* the terminal status the run has chosen
  handler,    \* where each API goroutine stands
  target,     \* the attack its request is about
  picked,     \* the run it has reserved or looked up
  process     \* the life of the process

db       == <<row, progress, results>>
runVars  == <<run, attackOf, cancelled, sent, outcome>>
apiVars  == <<handler, target, picked>>
vars     == <<db, running, runVars, apiVars, process>>

Status == {"pending", "running", "completed", "stopped"}
RunPC  == {"unused", "reserved", "executing", "recording", "closing", "releasing", "done"}
ApiPC  == {"idle", "start", "prepare", "abort", "launch", "stopCancel", "deleteCancel",
           "stopGet", "stopForce", "delete"}

TypeOK ==
  /\ row \in [Attacks -> Status \cup {"absent"}]
  /\ progress \in [Attacks -> 0..Total]
  /\ results \in [Attacks -> SUBSET (Runs \X (1..Total))]
  /\ running \in [Attacks -> Runs \cup {None}]
  /\ run \in [Runs -> RunPC]
  /\ attackOf \in [Runs -> Attacks]
  /\ cancelled \in [Runs -> BOOLEAN]
  /\ sent \in [Runs -> SUBSET (1..Total)]
  /\ outcome \in [Runs -> Status]
  /\ handler \in [Handlers -> ApiPC]
  /\ target \in [Handlers -> Attacks]
  /\ picked \in [Handlers -> Runs \cup {None}]
  /\ process \in {"up", "stopping", "draining", "exited", "crashed"}

\* The process is running with an empty Runner, and the attacks have been
\* created as drafts.  attackOf and target mean nothing before they are set.
Init ==
  /\ row = [a \in Attacks |-> "pending"]
  /\ progress = [a \in Attacks |-> 0]
  /\ results = [a \in Attacks |-> {}]
  /\ running = [a \in Attacks |-> None]
  /\ run = [r \in Runs |-> "unused"]
  /\ attackOf = [r \in Runs |-> CHOOSE a \in Attacks : TRUE]
  /\ cancelled = [r \in Runs |-> FALSE]
  /\ sent = [r \in Runs |-> {}]
  /\ outcome = [r \in Runs |-> "pending"]
  /\ handler = [h \in Handlers |-> "idle"]
  /\ target = [h \in Handlers |-> CHOOSE a \in Attacks : TRUE]
  /\ picked = [h \in Handlers |-> None]
  /\ process = "up"

-----------------------------------------------------------------------------

\* Goroutines run until the process ends.
Alive == process \in {"up", "stopping", "draining"}

\* Requests are accepted until http.Server.Shutdown is called.
Accepting == process \in {"up", "stopping"}

\* The run holds its slot of Runner.running.
Live(r) == run[r] \in {"reserved", "executing", "recording", "closing", "releasing"}

\* Its goroutine has been counted by the wait group and has not finished.
Launched(r) == Live(r) /\ run[r] # "reserved"

\* UPDATE ... WHERE id = ?, which changes nothing once the row is gone.
Update(f, a, v) == IF row[a] = "absent" THEN f ELSE [f EXCEPT ![a] = v]

\* A run whose row has been deleted stores nothing: the foreign key fails.
Insert(a, x) == IF row[a] = "absent" THEN results ELSE [results EXCEPT ![a] = @ \cup {x}]

\* The database may refuse a statement.
StoreFails == "store" \in Faults

\* Handler h goes from one place to another.
Go(h, from, to) == handler[h] = from /\ handler' = [handler EXCEPT ![h] = to]

\* A request about attack a reaches an idle handler.
Request(h, a, to) ==
  /\ Accepting
  /\ Go(h, "idle", to)
  /\ target' = [target EXCEPT ![h] = a]

-----------------------------------------------------------------------------
(* Seeded faults.  Each changes one of the definitions that follow the way *)
(* a slip in the code would; none is part of the specification.            *)

\* Start does not look for a run of this attack.
StartReserveAgain(h, r) ==
  LET a == target[h]
  IN /\ Alive
     /\ run[r] = "unused"
     /\ Go(h, "start", "prepare")
     /\ running' = [running EXCEPT ![a] = r]
     /\ run' = [run EXCEPT ![r] = "reserved"]
     /\ attackOf' = [attackOf EXCEPT ![r] = a]
     /\ picked' = [picked EXCEPT ![h] = r]
     /\ UNCHANGED <<db, cancelled, sent, outcome, target, process>>

\* PrepareIntruderRun keeps the results of the run before.
StartPrepareKeeping(h) ==
  LET a == target[h]
  IN /\ Alive
     /\ row[a] # "absent"
     /\ Go(h, "prepare", "launch")
     /\ progress' = [progress EXCEPT ![a] = 0]
     /\ row' = [row EXCEPT ![a] = "running"]
     /\ UNCHANGED <<results, running, runVars, target, picked, process>>

\* Start returns the error without giving the slot back.
StartAbortLeaking(h) ==
  LET r == picked[h]
  IN /\ Alive
     /\ Go(h, "abort", "idle")
     /\ run' = [run EXCEPT ![r] = "done"]
     /\ cancelled' = [cancelled EXCEPT ![r] = TRUE]
     /\ UNCHANGED <<db, running, attackOf, sent, outcome, target, picked, process>>

\* The final count is added to the column, which already holds a part of it.
RecordProgressAdding(r) ==
  /\ Alive
  /\ run[r] = "recording"
  /\ run' = [run EXCEPT ![r] = "closing"]
  /\ progress' = [progress EXCEPT ![attackOf[r]] = @ + Cardinality(sent[r])]
  /\ outcome' = [outcome EXCEPT ![r] = IF cancelled[r] THEN "stopped" ELSE "completed"]
  /\ UNCHANGED <<row, results, running, attackOf, cancelled, sent, apiVars, process>>

\* A run that was cancelled is recorded as completed.
RecordProgressCompleted(r) ==
  /\ Alive
  /\ run[r] = "recording"
  /\ run' = [run EXCEPT ![r] = "closing"]
  /\ progress' = Update(progress, attackOf[r], Cardinality(sent[r]))
  /\ outcome' = [outcome EXCEPT ![r] = "completed"]
  /\ UNCHANGED <<row, results, running, attackOf, cancelled, sent, apiVars, process>>

\* The terminal status is written with the run's own, cancelled, context.
SetStatusOwnContext(r) ==
  /\ Alive
  /\ run[r] = "closing"
  /\ run' = [run EXCEPT ![r] = "releasing"]
  /\ row' = IF cancelled[r] THEN row ELSE Update(row, attackOf[r], outcome[r])
  /\ UNCHANGED <<progress, results, running, attackOf, cancelled, sent, outcome, apiVars, process>>

\* Open does not reconcile.
RestartPlain ==
  /\ ~Alive
  /\ process' = "up"
  /\ UNCHANGED <<db, running, runVars, apiVars>>

-----------------------------------------------------------------------------
(* POST .../start: StartIntruderAttack and Runner.Start.                   *)

\* The handler reads the row first.  An unknown attack is a 404.
StartGet(h, a) ==
  /\ row[a] # "absent"
  /\ Request(h, a, "start")
  /\ UNCHANGED <<db, running, runVars, picked, process>>

\* Reserve the slot, unless a run of this attack holds it.
StartReserve(h, r) ==
  LET a == target[h]
  IN /\ Alive
     /\ running[a] = None
     /\ run[r] = "unused"
     /\ Go(h, "start", "prepare")
     /\ running' = [running EXCEPT ![a] = r]
     /\ run' = [run EXCEPT ![r] = "reserved"]
     /\ attackOf' = [attackOf EXCEPT ![r] = a]
     /\ picked' = [picked EXCEPT ![h] = r]
     /\ UNCHANGED <<db, cancelled, sent, outcome, target, process>>

\* 409: the attack is already running.
StartConflict(h) ==
  /\ Alive
  /\ running[target[h]] # None
  /\ Go(h, "start", "idle")
  /\ UNCHANGED <<db, running, runVars, target, picked, process>>

\* PrepareIntruderRun, one transaction.
StartPrepare(h) ==
  LET a == target[h]
  IN /\ Alive
     /\ row[a] # "absent"
     /\ Go(h, "prepare", "launch")
     /\ results' = [results EXCEPT ![a] = {}]
     /\ progress' = [progress EXCEPT ![a] = 0]
     /\ row' = [row EXCEPT ![a] = "running"]
     /\ UNCHANGED <<running, runVars, target, picked, process>>

\* The row is gone, or the transaction failed and was rolled back.
StartPrepareFails(h) ==
  /\ Alive
  /\ row[target[h]] = "absent" \/ StoreFails
  /\ Go(h, "prepare", "abort")
  /\ UNCHANGED <<db, running, runVars, target, picked, process>>

\* release of a run that never started.
StartAbort(h) ==
  LET r == picked[h]
  IN /\ Alive
     /\ Go(h, "abort", "idle")
     /\ running' = [a \in Attacks |-> IF a = target[h] /\ running[a] = r THEN None ELSE running[a]]
     /\ run' = [run EXCEPT ![r] = "done"]
     /\ cancelled' = [cancelled EXCEPT ![r] = TRUE]
     /\ UNCHANGED <<db, attackOf, sent, outcome, target, picked, process>>

\* wg.Add(1), the goroutine, and the answer.
StartLaunch(h) ==
  /\ Alive
  /\ Go(h, "launch", "idle")
  /\ run' = [run EXCEPT ![picked[h]] = "executing"]
  /\ UNCHANGED <<db, running, attackOf, cancelled, sent, outcome, target, picked, process>>

-----------------------------------------------------------------------------
(* POST .../stop and DELETE: StopIntruderAttack, DeleteIntruderAttack.     *)

\* Runner.Stop looks the run up under the mutex ...
StopLookup(h, a) ==
  /\ Request(h, a, IF running[a] = None THEN "stopGet" ELSE "stopCancel")
  /\ picked' = [picked EXCEPT ![h] = running[a]]
  /\ UNCHANGED <<db, running, runVars, process>>

DeleteLookup(h, a) ==
  /\ Request(h, a, IF running[a] = None THEN "delete" ELSE "deleteCancel")
  /\ picked' = [picked EXCEPT ![h] = running[a]]
  /\ UNCHANGED <<db, running, runVars, process>>

\* ... and cancels it outside, by which time it may have finished.
Cancel(h) ==
  /\ Alive
  /\ Go(h, "stopCancel", "idle") \/ Go(h, "deleteCancel", "delete")
  /\ cancelled' = [cancelled EXCEPT ![picked[h]] = TRUE]
  /\ UNCHANGED <<db, running, run, attackOf, sent, outcome, target, picked, process>>

\* Nothing is running in this process: is the row an orphan?
StopGet(h) ==
  /\ Alive
  /\ \/ row[target[h]] = "running" /\ Go(h, "stopGet", "stopForce")
     \/ (row[target[h]] # "running" \/ StoreFails) /\ Go(h, "stopGet", "idle")
  /\ UNCHANGED <<db, running, runVars, target, picked, process>>

StopForce(h) ==
  /\ Alive
  /\ Go(h, "stopForce", "idle")
  /\ \/ row' = Update(row, target[h], "stopped")
     \/ StoreFails /\ UNCHANGED row
  /\ UNCHANGED <<progress, results, running, runVars, target, picked, process>>

\* The row goes, and its results with it (ON DELETE CASCADE).
DeleteRow(h) ==
  LET a == target[h]
  IN /\ Alive
     /\ Go(h, "delete", "idle")
     /\ \/ /\ row' = [row EXCEPT ![a] = "absent"]
           /\ results' = [results EXCEPT ![a] = {}]
           /\ progress' = [progress EXCEPT ![a] = 0]
        \/ StoreFails /\ UNCHANGED db
     /\ UNCHANGED <<running, runVars, target, picked, process>>

-----------------------------------------------------------------------------
(* The goroutine of a run.                                                 *)

\* The engine hands over the result of request k: it is stored, and the
\* completed column is written every ProgressEvery results.
Result(r, k) ==
  LET a == attackOf[r]
      n == Cardinality(sent'[r])
  IN /\ Alive
     /\ run[r] = "executing"
     /\ k \in (1..Total) \ sent[r]
     /\ sent' = [sent EXCEPT ![r] = @ \cup {k}]
     /\ \/ results' = Insert(a, <<r, k>>)
        \/ StoreFails /\ UNCHANGED results
     /\ \/ progress' = IF n % ProgressEvery = 0 THEN Update(progress, a, n) ELSE progress
        \/ StoreFails /\ UNCHANGED progress
     /\ UNCHANGED <<row, running, run, attackOf, cancelled, outcome, apiVars, process>>

\* Run returns: every request has been answered, or the context was cancelled
\* and the workers have drained.
EngineDone(r) ==
  /\ Alive
  /\ run[r] = "executing"
  /\ cancelled[r] \/ sent[r] = 1..Total
  /\ run' = [run EXCEPT ![r] = "recording"]
  /\ UNCHANGED <<db, running, attackOf, cancelled, sent, outcome, apiVars, process>>

\* The exact final count, and the choice of the terminal status.
RecordProgress(r) ==
  /\ Alive
  /\ run[r] = "recording"
  /\ run' = [run EXCEPT ![r] = "closing"]
  /\ \/ progress' = Update(progress, attackOf[r], Cardinality(sent[r]))
     \/ StoreFails /\ UNCHANGED progress
  /\ outcome' = [outcome EXCEPT ![r] = IF cancelled[r] THEN "stopped" ELSE "completed"]
  /\ UNCHANGED <<row, results, running, attackOf, cancelled, sent, apiVars, process>>

SetStatus(r) ==
  /\ Alive
  /\ run[r] = "closing"
  /\ run' = [run EXCEPT ![r] = "releasing"]
  /\ \/ row' = Update(row, attackOf[r], outcome[r])
     \/ StoreFails /\ UNCHANGED row
  /\ UNCHANGED <<progress, results, running, attackOf, cancelled, sent, outcome, apiVars, process>>

\* The deferred release, cancel and wg.Done.
Release(r) ==
  LET a == attackOf[r]
  IN /\ Alive
     /\ run[r] = "releasing"
     /\ run' = [run EXCEPT ![r] = "done"]
     /\ running' = [running EXCEPT ![a] = IF @ = r THEN None ELSE @]
     /\ cancelled' = [cancelled EXCEPT ![r] = TRUE]
     /\ UNCHANGED <<db, attackOf, sent, outcome, apiVars, process>>

-----------------------------------------------------------------------------
(* The process.                                                            *)

\* Runner.Shutdown cancels what is in the map, under the mutex ...
ShutdownCancel ==
  /\ process = "up"
  /\ process' = "stopping"
  /\ cancelled' = [r \in Runs |-> cancelled[r] \/ \E a \in Attacks : running[a] = r]
  /\ UNCHANGED <<db, running, run, attackOf, sent, outcome, apiVars>>

\* ... and waits for the wait group or for its deadline.  Then the server stops
\* accepting requests.
ShutdownWait ==
  /\ process = "stopping"
  /\ (\A r \in Runs : ~Launched(r)) \/ "timeout" \in Faults
  /\ process' = "draining"
  /\ UNCHANGED <<db, running, runVars, apiVars>>

\* The process is gone and its memory with it; the rows stay.
Vanish(how) ==
  /\ process' = how
  /\ running' = [a \in Attacks |-> None]
  /\ run' = [r \in Runs |-> IF run[r] = "unused" THEN "unused" ELSE "done"]
  /\ handler' = [h \in Handlers |-> "idle"]
  /\ UNCHANGED <<db, attackOf, cancelled, sent, outcome, target, picked>>

Exit == process = "draining" /\ Vanish("exited")

Crash == "crash" \in Faults /\ Alive /\ Vanish("crashed")

\* The next start: storage.Open marks what was left running as stopped.
Restart ==
  /\ ~Alive
  /\ process' = "up"
  /\ row' = [a \in Attacks |-> IF row[a] = "running" THEN "stopped" ELSE row[a]]
  /\ UNCHANGED <<progress, results, running, runVars, apiVars>>

-----------------------------------------------------------------------------

RunStep(r) ==
  (\E k \in 1..Total : Result(r, k)) \/ EngineDone(r) \/ RecordProgress(r) \/ SetStatus(r) \/ Release(r)

HandlerStep(h) ==
  \/ \E r \in Runs : StartReserve(h, r)
  \/ StartConflict(h) \/ StartPrepare(h) \/ StartPrepareFails(h) \/ StartAbort(h) \/ StartLaunch(h)
  \/ Cancel(h) \/ StopGet(h) \/ StopForce(h) \/ DeleteRow(h)

Next ==
  \/ \E h \in Handlers, a \in Attacks : StartGet(h, a) \/ StopLookup(h, a) \/ DeleteLookup(h, a)
  \/ \E h \in Handlers : HandlerStep(h)
  \/ \E r \in Runs : RunStep(r)
  \/ ShutdownCancel \/ ShutdownWait \/ Exit \/ Crash \/ Restart

\* Goroutines run, and every request of a run is answered or times out (the
\* Repeater's transport bounds it), so the engine returns.  Once asked to, the
\* process goes through its shutdown.  Nobody has to ask, or to start it again.
Fairness ==
  /\ \A r \in Runs : WF_vars(RunStep(r))
  /\ \A h \in Handlers : WF_vars(HandlerStep(h))
  /\ WF_vars(ShutdownWait) /\ WF_vars(Exit)

Spec == Init /\ [][Next]_vars /\ Fairness

-----------------------------------------------------------------------------
(* Properties.                                                             *)

\* "A double start can never wipe an in-flight run's results or orphan a
\* goroutine" (Runner.Start): an attack has at most one run at any time, from
\* the reservation of its slot to its release.
SingleRun ==
  \A r, s \in Runs : Live(r) /\ Live(s) /\ attackOf[r] = attackOf[s] => r = s

\* The map is exactly the set of live runs.  A slot left behind would refuse
\* every later start of the attack; a run not in the map could not be stopped,
\* and Shutdown would not cancel it.
MapIsLive ==
  \A a \in Attacks, r \in Runs : running[a] = r <=> Live(r) /\ attackOf[r] = a

\* What is stored while a run works came from this run alone: nothing of the
\* run before is left, and no straggler of it writes any more.
ResultsOfRun ==
  \A r \in Runs : Launched(r) => results[attackOf[r]] \subseteq {r} \X sent[r]

\* Unless the database failed, an attack shown as running is being run: its slot
\* is held by a run that has yet to write its terminal status.  A run that died
\* with the process has been reconciled before the API answers again.
RunningRowHasRun ==
  Alive /\ ~StoreFails =>
    \A a \in Attacks : row[a] = "running" =>
      \E r \in Runs : running[a] = r /\ run[r] \in {"reserved", "executing", "recording", "closing"}

\* Unless the database failed, an attack shown as completed has the result of
\* every request, all from one run, and the counter says so.
CompletedHasAllResults ==
  ~StoreFails =>
    \A a \in Attacks : row[a] = "completed" =>
      progress[a] = Total /\ \E r \in Runs : results[a] = {r} \X (1..Total)

\* Whatever happens to a start or a run, its slot is given back, so the attack
\* can be started again.
SlotIsFreed == \A a \in Attacks : running[a] # None ~> running[a] = None

\* A running attack reaches a terminal status, cancelled or not, unless the
\* process ends first (and then the next one reconciles it).
RunningEnds == \A a \in Attacks : row[a] = "running" ~> row[a] # "running" \/ ~Alive

\* "Not running in this process" (StopIntruderAttack): the status is forced to
\* stopped only when no run of the attack is at work.
WorkingRunIsShown ==
  \A r \in Runs : run[r] = "executing" => row[attackOf[r]] \in {"running", "absent"}
=============================================================================
