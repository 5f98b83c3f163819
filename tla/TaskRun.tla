------------------------------ MODULE TaskRun ------------------------------
(***************************************************************************)
(* The life of a background task and of its row: what the scanner, the     *)
(* crawler and the sequencer do alike (StartActive of                      *)
(* internal/scanner/runner.go and the two Start functions made after it,   *)
(* with their handlers and their tables).  What a task does between its    *)
(* preparation and its end is left to the modules that extend this one.    *)
(***************************************************************************)
EXTENDS Naturals

CONSTANTS
  MaxRuns,     \* bound of the model: times the task is started
  MaxCrashes   \* bound of the model: ends of the process

ASSUME TaskAssumption == MaxRuns \in Nat /\ MaxCrashes \in Nat

VARIABLES
  status,    \* the column of that name; "deleted" when there is no row
  phase,     \* the entry of the task in the map running: "none" if there is none,
             \* else what its owner does next
  cancel,    \* the context of the run has ended
  stopCall,  \* a call that stops a task which is not running
  deleting,  \* a call that deletes the task has stopped it
  runs,      \* times it was started
  crashes    \* ends of the process

callVars == <<stopCall, deleting>>
taskVars == <<status, phase, cancel, callVars, runs, crashes>>

Outcome == {"completed", "stopped", "error"}

TaskTypeOK ==
  /\ status \in {"pending", "running", "deleted"} \cup Outcome
  /\ phase \in {"none", "prepare", "run", "release"}
  /\ cancel \in BOOLEAN
  /\ stopCall \in {"none", "read", "write"}
  /\ deleting \in BOOLEAN
  /\ runs \in 0..MaxRuns /\ crashes \in 0..MaxCrashes

TaskInit ==
  /\ status = "pending"
  /\ phase = "none" /\ cancel = FALSE
  /\ stopCall = "none" /\ deleting = FALSE
  /\ runs = 0 /\ crashes = 0

\* UPDATE ... WHERE id = ?
SetStatus(s) == status' = IF status = "deleted" THEN status ELSE s

-----------------------------------------------------------------------------
(* Seeded faults.  None is part of the specification.                      *)

\* A database that is opened does not look for tasks left running.
OpenOnly ==
  /\ crashes < MaxCrashes
  /\ crashes' = crashes + 1
  /\ phase' = "none" /\ cancel' = FALSE
  /\ stopCall' = "none" /\ deleting' = FALSE
  /\ UNCHANGED <<status, runs>>

-----------------------------------------------------------------------------
(* Calls of the API.  A task that a call has read may be deleted before the *)
(* call goes on, so a start does not depend on the row being there.         *)

Start ==
  /\ phase = "none" /\ runs < MaxRuns
  /\ phase' = "prepare" /\ cancel' = FALSE
  /\ runs' = runs + 1
  /\ UNCHANGED <<status, callVars, crashes>>

\* Stop and Shutdown.
Stop ==
  /\ phase # "none" /\ ~cancel
  /\ cancel' = TRUE
  /\ UNCHANGED <<status, phase, callVars, runs, crashes>>

\* The handler of a stop that found no entry in the map looks at the row, ...
StopMissed ==
  /\ stopCall = "none" /\ phase = "none"
  /\ stopCall' = "read"
  /\ UNCHANGED <<status, phase, cancel, deleting, runs, crashes>>

StopRead ==
  /\ stopCall = "read"
  /\ stopCall' = IF status = "running" THEN "write" ELSE "none"
  /\ UNCHANGED <<status, phase, cancel, deleting, runs, crashes>>

\* ... and sets it right if that says the task is running.
StopWrite ==
  /\ stopCall = "write"
  /\ SetStatus("stopped")
  /\ stopCall' = "none"
  /\ UNCHANGED <<phase, cancel, deleting, runs, crashes>>

\* Deleting: first the run is stopped, ...
DeleteStop ==
  /\ ~deleting /\ status # "deleted"
  /\ deleting' = TRUE
  /\ cancel' = (cancel \/ phase # "none")
  /\ UNCHANGED <<status, phase, stopCall, runs, crashes>>

\* ... which goes on until it notices, then the row is gone.
DeleteRow ==
  /\ deleting
  /\ deleting' = FALSE
  /\ status' = "deleted"
  /\ UNCHANGED <<phase, cancel, stopCall, runs, crashes>>

TaskCall ==
  \/ Start \/ Stop \/ StopMissed \/ StopRead \/ StopWrite \/ DeleteStop

-----------------------------------------------------------------------------
(* The run.                                                                *)

\* The row is reset, or is not there.
PrepareRow ==
  /\ phase = "prepare" /\ status # "deleted"
  /\ status' = "running"
  /\ phase' = "run"
  /\ UNCHANGED <<cancel, callVars, runs, crashes>>

PrepareFails ==
  /\ phase = "prepare" /\ status = "deleted"
  /\ phase' = "release"
  /\ UNCHANGED <<status, cancel, callVars, runs, crashes>>

Finish(s) ==
  /\ phase = "run"
  /\ SetStatus(s)
  /\ phase' = "release"
  /\ UNCHANGED <<cancel, callVars, runs, crashes>>

Release ==
  /\ phase = "release"
  /\ phase' = "none" /\ cancel' = FALSE
  /\ UNCHANGED <<status, callVars, runs, crashes>>

\* The process ends, after Shutdown or without it, and the database is opened again.
CrashAndOpen ==
  /\ crashes < MaxCrashes
  /\ crashes' = crashes + 1
  /\ status' = IF status = "running" THEN "stopped" ELSE status
  /\ phase' = "none" /\ cancel' = FALSE
  /\ stopCall' = "none" /\ deleting' = FALSE
  /\ UNCHANGED runs

TaskNext ==
  \/ TaskCall \/ DeleteRow \/ PrepareRow \/ PrepareFails
  \/ \E s \in Outcome : Finish(s)
  \/ Release \/ CrashAndOpen

-----------------------------------------------------------------------------
(* Properties.                                                             *)

\* A task whose row says "running" has a run that will write another status, even
\* after a crash: a row can never be stuck as running (reconcileRunningScans and the
\* order in which a run writes its status and leaves the map).  It takes for granted that
\* this last write succeeds: the code ignores its error.
NotLeftRunning == status = "running" => phase = "run"
=============================================================================
