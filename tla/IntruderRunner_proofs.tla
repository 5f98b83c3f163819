----------------------- MODULE IntruderRunner_proofs -----------------------
(***************************************************************************)
(* Proofs about IntruderRunner, for any set of attacks, of runs and of API *)
(* goroutines, any number of requests, and any of the faults.              *)
(***************************************************************************)
EXTENDS IntruderRunner, FiniteSetTheorems, TLAPS

\* A handler between the reservation and the launch owns a reserved run of the
\* attack it is about, and no two handlers own the same one.
Owners ==
  /\ \A h \in Handlers : handler[h] \in {"prepare", "abort", "launch"} =>
       picked[h] \in Runs /\ run[picked[h]] = "reserved" /\ attackOf[picked[h]] = target[h]
  /\ \A g, h \in Handlers :
       /\ handler[g] \in {"prepare", "abort", "launch"}
       /\ handler[h] \in {"prepare", "abort", "launch"}
       /\ picked[g] = picked[h]
       => g = h
  /\ \A h \in Handlers : handler[h] \in {"stopCancel", "deleteCancel"} => picked[h] \in Runs

\* Between PrepareIntruderRun and the launch nothing is stored.
Stored ==
  /\ ResultsOfRun
  /\ \A h \in Handlers : handler[h] = "launch" => results[target[h]] = {}

\* A failed start of an attack that is still there is the database's failure,
\* and the status a run writes is a terminal one.
Rows ==
  /\ RunningRowHasRun
  /\ \A r \in Runs : run[r] = "closing" => outcome[r] \in {"stopped", "completed"}
  /\ ~StoreFails => \A h \in Handlers : handler[h] = "abort" => row[target[h]] = "absent"

\* How much of a run has been stored while it goes through its last steps.
Complete ==
  ~StoreFails =>
    /\ \A r \in Runs :
         LET a == attackOf[r]
         IN /\ run[r] \in {"unused", "reserved"} => sent[r] = {}
            /\ Launched(r) /\ row[a] # "absent" => results[a] = {r} \X sent[r]
            /\ run[r] \in {"executing", "recording", "closing"} => row[a] # "completed"
            /\ run[r] = "recording" /\ ~cancelled[r] => sent[r] = 1..Total
            /\ run[r] = "closing" /\ outcome[r] = "completed" => sent[r] = 1..Total
            /\ run[r] \in {"closing", "releasing"} /\ row[a] # "absent" =>
                 progress[a] = Cardinality(sent[r])
    /\ \A h \in Handlers : handler[h] = "launch" => row[target[h]] # "completed"
    /\ CompletedHasAllResults

\* The results that are counted are results of the attack.
LEMMA Counting ==
  ASSUME NEW S \in SUBSET (1..Total)
  PROVE  Cardinality(S) \in 0..Total /\ (S = 1..Total => Cardinality(S) = Total)
<1>1. Total \in Nat
  BY RunnerAssumption
<1>2. IsFiniteSet(1..Total) /\ Cardinality(1..Total) = Total
  BY <1>1, FS_Interval, RunnerAssumption
<1>3. IsFiniteSet(S) /\ Cardinality(S) <= Cardinality(1..Total)
  BY <1>2, FS_Subset
<1>4. Cardinality(S) \in Nat
  BY <1>3, FS_CardinalityType
<1> QED
  BY <1>1, <1>2, <1>3, <1>4

LEMMA TypeInit == Init => TypeOK
<1> SUFFICES ASSUME Init PROVE TypeOK
  OBVIOUS
<1>1. (CHOOSE a \in Attacks : TRUE) \in Attacks
  BY RunnerAssumption
<1>2. 0 \in 0..Total
  BY RunnerAssumption
<1>3. row \in [Attacks -> Status \cup {"absent"}] /\ outcome \in [Runs -> Status]
  BY DEF Init, Status
<1>4. run \in [Runs -> RunPC] /\ handler \in [Handlers -> ApiPC]
  BY DEF Init, RunPC, ApiPC
<1>5. attackOf \in [Runs -> Attacks] /\ target \in [Handlers -> Attacks]
  BY <1>1 DEF Init
<1> QED
  BY <1>2, <1>3, <1>4, <1>5 DEF Init, TypeOK

\* Every step keeps the types.
LEMMA TypeStep == TypeOK /\ Owners /\ [Next]_vars => TypeOK'
<1> SUFFICES ASSUME TypeOK, Owners, [Next]_vars PROVE TypeOK'
  OBVIOUS
<1> USE DEF TypeOK, Status, RunPC, ApiPC, Go, db, runVars, apiVars
<1>1. ASSUME NEW h \in Handlers, NEW a \in Attacks,
             StartGet(h, a) \/ StopLookup(h, a) \/ DeleteLookup(h, a)
      PROVE TypeOK'
  <2>1. CASE StartGet(h, a)
    BY <2>1 DEF StartGet, Request
  <2>2. CASE StopLookup(h, a)
    BY <2>2 DEF StopLookup, Request
  <2>3. CASE DeleteLookup(h, a)
    BY <2>3 DEF DeleteLookup, Request
  <2> QED
    BY <1>1, <2>1, <2>2, <2>3
<1>2. ASSUME NEW h \in Handlers, NEW r \in Runs, StartReserve(h, r) PROVE TypeOK'
  BY <1>2 DEF StartReserve
<1>3. ASSUME NEW h \in Handlers, StartConflict(h) \/ StartPrepareFails(h) \/ StopGet(h)
      PROVE TypeOK'
  BY <1>3 DEF StartConflict, StartPrepareFails, StopGet
<1>4. ASSUME NEW h \in Handlers, StartPrepare(h) PROVE TypeOK'
  BY <1>4, RunnerAssumption DEF StartPrepare
<1>5. ASSUME NEW h \in Handlers, StartAbort(h) PROVE TypeOK'
  BY <1>5 DEF StartAbort
<1>6. ASSUME NEW h \in Handlers, StartLaunch(h) \/ Cancel(h) PROVE TypeOK'
  <2>1. CASE StartLaunch(h)
    BY <2>1 DEF StartLaunch
  <2>2. CASE Cancel(h)
    BY <2>2 DEF Cancel
  <2> QED
    BY <1>6, <2>1, <2>2
<1>7. ASSUME NEW h \in Handlers, StopForce(h) PROVE TypeOK'
  BY <1>7 DEF StopForce, Update
<1>8. ASSUME NEW h \in Handlers, DeleteRow(h) PROVE TypeOK'
  <2>1. handler' \in [Handlers -> ApiPC]
    BY <1>8 DEF DeleteRow
  <2>2. row' \in [Attacks -> Status \cup {"absent"}]
    BY <1>8 DEF DeleteRow
  <2>3. results' \in [Attacks -> SUBSET (Runs \X (1..Total))]
    BY <1>8 DEF DeleteRow
  <2>4. progress' \in [Attacks -> 0..Total]
    BY <1>8, RunnerAssumption DEF DeleteRow
  <2> QED
    BY <1>8, <2>1, <2>2, <2>3, <2>4 DEF DeleteRow
<1>9. ASSUME NEW r \in Runs, NEW k \in 1..Total, Result(r, k) PROVE TypeOK'
  <2> DEFINE n == Cardinality(sent'[r])
  <2>1. sent' \in [Runs -> SUBSET (1..Total)] /\ results' \in [Attacks -> SUBSET (Runs \X (1..Total))]
    BY <1>9 DEF Result, Insert
  <2>2. n \in 0..Total
    BY <2>1, Counting
  <2>3. progress' \in {progress, [progress EXCEPT ![attackOf[r]] = n]}
    BY <1>9 DEF Result, Update
  <2> HIDE DEF n
  <2> QED
    BY <1>9, <2>1, <2>2, <2>3 DEF Result
<1>10. ASSUME NEW r \in Runs, EngineDone(r) \/ SetStatus(r) \/ Release(r) PROVE TypeOK'
  <2>1. CASE EngineDone(r)
    BY <2>1 DEF EngineDone
  <2>2. CASE SetStatus(r)
    BY <2>2 DEF SetStatus, Update
  <2>3. CASE Release(r)
    BY <2>3 DEF Release
  <2> QED
    BY <1>10, <2>1, <2>2, <2>3
<1>11. ASSUME NEW r \in Runs, RecordProgress(r) PROVE TypeOK'
  <2>1. Cardinality(sent[r]) \in 0..Total
    BY Counting
  <2> QED
    BY <1>11, <2>1 DEF RecordProgress, Update
<1>12. CASE ShutdownCancel
  BY <1>12 DEF ShutdownCancel
<1>13. CASE ShutdownWait \/ Restart
  BY <1>13 DEF ShutdownWait, Restart
<1>14. CASE Exit \/ Crash
  BY <1>14 DEF Exit, Crash, Vanish, Alive
<1>15. CASE UNCHANGED vars
  BY <1>15 DEF vars
<1> QED
  BY <1>1, <1>2, <1>3, <1>4, <1>5, <1>6, <1>7, <1>8, <1>9, <1>10, <1>11, <1>12, <1>13, <1>14,
     <1>15 DEF Next, HandlerStep, RunStep

\* Every step keeps the map and the runs in agreement.
LEMMA SlotStep ==
  TypeOK /\ MapIsLive /\ Owners /\ [Next]_vars => MapIsLive' /\ Owners'
<1> SUFFICES ASSUME TypeOK, MapIsLive, Owners, [Next]_vars PROVE MapIsLive' /\ Owners'
  OBVIOUS
<1> USE RunnerAssumption DEF TypeOK, MapIsLive, Owners, Live, Go, db, runVars, apiVars
<1>1. ASSUME NEW h \in Handlers, NEW a \in Attacks, StartGet(h, a) PROVE MapIsLive' /\ Owners'
  BY <1>1 DEF StartGet, Request
<1>2. ASSUME NEW h \in Handlers, NEW a \in Attacks, StopLookup(h, a) PROVE MapIsLive' /\ Owners'
  BY <1>2 DEF StopLookup, Request
<1>3. ASSUME NEW h \in Handlers, NEW a \in Attacks, DeleteLookup(h, a) PROVE MapIsLive' /\ Owners'
  BY <1>3 DEF DeleteLookup, Request
<1>4. ASSUME NEW h \in Handlers, NEW r \in Runs, StartReserve(h, r) PROVE MapIsLive' /\ Owners'
  BY <1>4 DEF StartReserve
<1>5. ASSUME NEW h \in Handlers, StartConflict(h) PROVE MapIsLive' /\ Owners'
  BY <1>5 DEF StartConflict
<1>6. ASSUME NEW h \in Handlers, StartPrepare(h) PROVE MapIsLive' /\ Owners'
  BY <1>6 DEF StartPrepare
<1>7. ASSUME NEW h \in Handlers, StartPrepareFails(h) PROVE MapIsLive' /\ Owners'
  BY <1>7 DEF StartPrepareFails
<1>8. ASSUME NEW h \in Handlers, StartAbort(h) PROVE MapIsLive' /\ Owners'
  BY <1>8 DEF StartAbort
<1>9. ASSUME NEW h \in Handlers, StartLaunch(h) PROVE MapIsLive' /\ Owners'
  BY <1>9 DEF StartLaunch
<1>10. ASSUME NEW h \in Handlers, Cancel(h) PROVE MapIsLive' /\ Owners'
  BY <1>10, SMTT(30) DEF Cancel
<1>11. ASSUME NEW h \in Handlers, StopGet(h) PROVE MapIsLive' /\ Owners'
  BY <1>11 DEF StopGet
<1>12. ASSUME NEW h \in Handlers, StopForce(h) PROVE MapIsLive' /\ Owners'
  BY <1>12 DEF StopForce, Update
<1>13. ASSUME NEW h \in Handlers, DeleteRow(h) PROVE MapIsLive' /\ Owners'
  BY <1>13 DEF DeleteRow
<1>14. ASSUME NEW r \in Runs, NEW k \in 1..Total, Result(r, k) PROVE MapIsLive' /\ Owners'
  BY <1>14 DEF Result, Insert, Update
<1>15. ASSUME NEW r \in Runs, EngineDone(r) PROVE MapIsLive' /\ Owners'
  BY <1>15 DEF EngineDone
<1>16. ASSUME NEW r \in Runs, RecordProgress(r) PROVE MapIsLive' /\ Owners'
  BY <1>16 DEF RecordProgress, Update
<1>17. ASSUME NEW r \in Runs, SetStatus(r) PROVE MapIsLive' /\ Owners'
  BY <1>17 DEF SetStatus, Update
<1>18. ASSUME NEW r \in Runs, Release(r) PROVE MapIsLive' /\ Owners'
  BY <1>18 DEF Release
<1>19. CASE ShutdownCancel
  BY <1>19 DEF ShutdownCancel
<1>20. CASE ShutdownWait
  BY <1>20 DEF ShutdownWait
<1>21. CASE Exit \/ Crash
  <2>1. CASE Exit
    BY <2>1 DEF Exit, Vanish
  <2>2. CASE Crash
    BY <2>2 DEF Crash, Vanish
  <2> QED
    BY <1>21, <2>1, <2>2
<1>22. CASE Restart
  BY <1>22 DEF Restart
<1>23. CASE UNCHANGED vars
  BY <1>23 DEF vars
<1> QED
  BY <1>1, <1>2, <1>3, <1>4, <1>5, <1>6, <1>7, <1>8, <1>9, <1>10, <1>11, <1>12, <1>13, <1>14,
     <1>15, <1>16, <1>17, <1>18, <1>19, <1>20, <1>21, <1>22, <1>23
  DEF Next, HandlerStep, RunStep

\* Every step keeps the stored results those of the run at work.
LEMMA StoredStep ==
  TypeOK /\ MapIsLive /\ Owners /\ Stored /\ [Next]_vars => Stored'
<1> SUFFICES ASSUME TypeOK, MapIsLive, Owners, Stored, [Next]_vars
             PROVE  Stored'
  OBVIOUS
<1> USE RunnerAssumption DEF TypeOK, MapIsLive, Owners, Live, Go, db, runVars, apiVars, Stored, ResultsOfRun, Launched
<1>1. ASSUME NEW h \in Handlers, NEW a \in Attacks, StartGet(h, a) PROVE Stored'
  BY <1>1 DEF StartGet, Request
<1>2. ASSUME NEW h \in Handlers, NEW a \in Attacks, StopLookup(h, a) PROVE Stored'
  BY <1>2 DEF StopLookup, Request
<1>3. ASSUME NEW h \in Handlers, NEW a \in Attacks, DeleteLookup(h, a) PROVE Stored'
  BY <1>3 DEF DeleteLookup, Request
<1>4. ASSUME NEW h \in Handlers, NEW r \in Runs, StartReserve(h, r) PROVE Stored'
  BY <1>4 DEF StartReserve
<1>5. ASSUME NEW h \in Handlers, StartConflict(h) PROVE Stored'
  BY <1>5 DEF StartConflict
<1>6. ASSUME NEW h \in Handlers, StartPrepare(h) PROVE Stored'
  BY <1>6 DEF StartPrepare
<1>7. ASSUME NEW h \in Handlers, StartPrepareFails(h) PROVE Stored'
  BY <1>7 DEF StartPrepareFails
<1>8. ASSUME NEW h \in Handlers, StartAbort(h) PROVE Stored'
  BY <1>8 DEF StartAbort
<1>9. ASSUME NEW h \in Handlers, StartLaunch(h) PROVE Stored'
  BY <1>9 DEF StartLaunch
<1>10. ASSUME NEW h \in Handlers, Cancel(h) PROVE Stored'
  BY <1>10 DEF Cancel
<1>11. ASSUME NEW h \in Handlers, StopGet(h) PROVE Stored'
  BY <1>11 DEF StopGet
<1>12. ASSUME NEW h \in Handlers, StopForce(h) PROVE Stored'
  BY <1>12 DEF StopForce, Update
<1>13. ASSUME NEW h \in Handlers, DeleteRow(h) PROVE Stored'
  BY <1>13, SMTT(30) DEF DeleteRow
<1>14. ASSUME NEW r \in Runs, NEW k \in 1..Total, Result(r, k) PROVE Stored'
  BY <1>14 DEF Result, Insert, Update
<1>15. ASSUME NEW r \in Runs, EngineDone(r) PROVE Stored'
  BY <1>15 DEF EngineDone
<1>16. ASSUME NEW r \in Runs, RecordProgress(r) PROVE Stored'
  BY <1>16 DEF RecordProgress, Update
<1>17. ASSUME NEW r \in Runs, SetStatus(r) PROVE Stored'
  BY <1>17 DEF SetStatus, Update
<1>18. ASSUME NEW r \in Runs, Release(r) PROVE Stored'
  BY <1>18 DEF Release
<1>19. CASE ShutdownCancel
  BY <1>19 DEF ShutdownCancel
<1>20. CASE ShutdownWait
  BY <1>20 DEF ShutdownWait
<1>21. CASE Exit \/ Crash
  BY <1>21, SMTT(30) DEF Exit, Crash, Vanish
<1>22. CASE Restart
  BY <1>22 DEF Restart
<1>23. CASE UNCHANGED vars
  BY <1>23 DEF vars
<1> QED
  BY <1>1, <1>2, <1>3, <1>4, <1>5, <1>6, <1>7, <1>8, <1>9, <1>10, <1>11, <1>12, <1>13, <1>14,
     <1>15, <1>16, <1>17, <1>18, <1>19, <1>20, <1>21, <1>22, <1>23
  DEF Next, HandlerStep, RunStep

\* Every step keeps a running row with a run behind it.
LEMMA RowsStep ==
  TypeOK /\ MapIsLive /\ Owners /\ Rows /\ [Next]_vars => Rows'
<1> SUFFICES ASSUME TypeOK, MapIsLive, Owners, Rows, [Next]_vars
             PROVE  Rows'
  OBVIOUS
<1> USE RunnerAssumption DEF TypeOK, MapIsLive, Owners, Live, Go, db, runVars, apiVars,
    Rows, RunningRowHasRun, Alive, StoreFails, Status
<1>1. ASSUME NEW h \in Handlers, NEW a \in Attacks, StartGet(h, a) PROVE Rows'
  BY <1>1 DEF StartGet, Request
<1>2. ASSUME NEW h \in Handlers, NEW a \in Attacks, StopLookup(h, a) PROVE Rows'
  BY <1>2 DEF StopLookup, Request
<1>3. ASSUME NEW h \in Handlers, NEW a \in Attacks, DeleteLookup(h, a) PROVE Rows'
  BY <1>3 DEF DeleteLookup, Request
<1>4. ASSUME NEW h \in Handlers, NEW r \in Runs, StartReserve(h, r) PROVE Rows'
  BY <1>4 DEF StartReserve
<1>5. ASSUME NEW h \in Handlers, StartConflict(h) PROVE Rows'
  BY <1>5 DEF StartConflict
<1>6. ASSUME NEW h \in Handlers, StartPrepare(h) PROVE Rows'
  BY <1>6 DEF StartPrepare
<1>7. ASSUME NEW h \in Handlers, StartPrepareFails(h) PROVE Rows'
  BY <1>7 DEF StartPrepareFails
<1>8. ASSUME NEW h \in Handlers, StartAbort(h) PROVE Rows'
  BY <1>8 DEF StartAbort
<1>9. ASSUME NEW h \in Handlers, StartLaunch(h) PROVE Rows'
  BY <1>9 DEF StartLaunch
<1>10. ASSUME NEW h \in Handlers, Cancel(h) PROVE Rows'
  BY <1>10 DEF Cancel
<1>11. ASSUME NEW h \in Handlers, StopGet(h) PROVE Rows'
  BY <1>11 DEF StopGet
<1>12. ASSUME NEW h \in Handlers, StopForce(h) PROVE Rows'
  BY <1>12 DEF StopForce, Update
<1>13. ASSUME NEW h \in Handlers, DeleteRow(h) PROVE Rows'
  BY <1>13 DEF DeleteRow
<1>14. ASSUME NEW r \in Runs, NEW k \in 1..Total, Result(r, k) PROVE Rows'
  BY <1>14 DEF Result, Insert, Update
<1>15. ASSUME NEW r \in Runs, EngineDone(r) PROVE Rows'
  BY <1>15 DEF EngineDone
<1>16. ASSUME NEW r \in Runs, RecordProgress(r) PROVE Rows'
  BY <1>16 DEF RecordProgress, Update
<1>17. ASSUME NEW r \in Runs, SetStatus(r) PROVE Rows'
  BY <1>17 DEF SetStatus, Update
<1>18. ASSUME NEW r \in Runs, Release(r) PROVE Rows'
  BY <1>18, SMTT(30) DEF Release
<1>19. CASE ShutdownCancel
  BY <1>19 DEF ShutdownCancel
<1>20. CASE ShutdownWait
  BY <1>20 DEF ShutdownWait
<1>21. CASE Exit \/ Crash
  <2>1. CASE Exit
    BY <2>1 DEF Exit, Vanish
  <2>2. CASE Crash
    BY <2>2 DEF Crash, Vanish
  <2> QED
    BY <1>21, <2>1, <2>2
<1>22. CASE Restart
  BY <1>22 DEF Restart
<1>23. CASE UNCHANGED vars
  BY <1>23 DEF vars
<1> QED
  BY <1>1, <1>2, <1>3, <1>4, <1>5, <1>6, <1>7, <1>8, <1>9, <1>10, <1>11, <1>12, <1>13, <1>14,
     <1>15, <1>16, <1>17, <1>18, <1>19, <1>20, <1>21, <1>22, <1>23
  DEF Next, HandlerStep, RunStep

\* Every step keeps a completed attack complete.
LEMMA CompleteStep ==
  TypeOK /\ MapIsLive /\ Owners /\ Stored /\ Complete /\ [Next]_vars => Complete'
<1> SUFFICES ASSUME TypeOK, MapIsLive, Owners, Stored, Complete, [Next]_vars
             PROVE  Complete'
  OBVIOUS
<1> USE RunnerAssumption DEF TypeOK, MapIsLive, Owners, Live, Go, db, runVars, apiVars,
    Stored, Complete, CompletedHasAllResults, Launched, StoreFails, Status
<1>1. ASSUME NEW h \in Handlers, NEW a \in Attacks, StartGet(h, a) PROVE Complete'
  BY <1>1 DEF StartGet, Request
<1>2. ASSUME NEW h \in Handlers, NEW a \in Attacks, StopLookup(h, a) PROVE Complete'
  BY <1>2 DEF StopLookup, Request
<1>3. ASSUME NEW h \in Handlers, NEW a \in Attacks, DeleteLookup(h, a) PROVE Complete'
  BY <1>3 DEF DeleteLookup, Request
<1>4. ASSUME NEW h \in Handlers, NEW r \in Runs, StartReserve(h, r) PROVE Complete'
  BY <1>4 DEF StartReserve
<1>5. ASSUME NEW h \in Handlers, StartConflict(h) PROVE Complete'
  BY <1>5 DEF StartConflict
<1>6. ASSUME NEW h \in Handlers, StartPrepare(h) PROVE Complete'
  BY <1>6 DEF StartPrepare
<1>7. ASSUME NEW h \in Handlers, StartPrepareFails(h) PROVE Complete'
  BY <1>7 DEF StartPrepareFails
<1>8. ASSUME NEW h \in Handlers, StartAbort(h) PROVE Complete'
  BY <1>8 DEF StartAbort
<1>9. ASSUME NEW h \in Handlers, StartLaunch(h) PROVE Complete'
  BY <1>9 DEF StartLaunch
<1>10. ASSUME NEW h \in Handlers, Cancel(h) PROVE Complete'
  BY <1>10 DEF Cancel
<1>11. ASSUME NEW h \in Handlers, StopGet(h) PROVE Complete'
  BY <1>11 DEF StopGet
<1>12. ASSUME NEW h \in Handlers, StopForce(h) PROVE Complete'
  BY <1>12 DEF StopForce, Update
<1>13. ASSUME NEW h \in Handlers, DeleteRow(h) PROVE Complete'
  <2>1. CASE UNCHANGED db
    BY <1>13, <2>1 DEF DeleteRow
  <2>2. CASE row' = [row EXCEPT ![target[h]] = "absent"]
    <3>1. /\ handler[h] = "delete" /\ handler' = [handler EXCEPT ![h] = "idle"]
          /\ \A a \in Attacks \ {target[h]} :
               row'[a] = row[a] /\ results'[a] = results[a] /\ progress'[a] = progress[a]
          /\ row'[target[h]] = "absent"
          /\ UNCHANGED <<running, run, attackOf, cancelled, sent, outcome, target, picked>>
      BY <1>13, <2>2 DEF DeleteRow
    <3>2. CompletedHasAllResults'
      <4> SUFFICES ASSUME ~StoreFails, NEW a \in Attacks, row'[a] = "completed"
                   PROVE  progress'[a] = Total /\ \E s \in Runs : results'[a] = {s} \X (1..Total)
        BY DEF CompletedHasAllResults
      <4>1. a # target[h] /\ row[a] = "completed"
        BY <3>1
      <4>2. progress[a] = Total /\ \E s \in Runs : results[a] = {s} \X (1..Total)
        BY <4>1
      <4>3. progress'[a] = progress[a] /\ results'[a] = results[a]
        BY <3>1, <4>1
      <4> QED
        BY <4>2, <4>3 DEF Complete
    <3>3. ~StoreFails => \A g \in Handlers : handler'[g] = "launch" => row'[target'[g]] # "completed"
      BY <3>1
    <3>4. \A r \in Runs : row'[attackOf[r]] # "absent" => attackOf[r] # target[h]
      BY <3>1
    <3> QED
      BY <3>1, <3>2, <3>3, <3>4
  <2> QED
    BY <1>13, <2>1, <2>2 DEF DeleteRow
<1>14. ASSUME NEW r \in Runs, NEW k \in 1..Total, Result(r, k) PROVE Complete'
  BY <1>14, SMTT(30) DEF Result, Insert, Update
<1>15. ASSUME NEW r \in Runs, EngineDone(r) PROVE Complete'
  BY <1>15 DEF EngineDone
<1>16. ASSUME NEW r \in Runs, RecordProgress(r) PROVE Complete'
  BY <1>16 DEF RecordProgress, Update
<1>17. ASSUME NEW r \in Runs, SetStatus(r) PROVE Complete'
  <2> SUFFICES ASSUME ~StoreFails PROVE Complete'
    BY DEF Complete, StoreFails
  <2> DEFINE b == attackOf[r]
  <2>1. /\ run[r] = "closing" /\ run' = [run EXCEPT ![r] = "releasing"]
        /\ row'[b] = IF row[b] = "absent" THEN "absent" ELSE outcome[r]
        /\ \A a \in Attacks \ {b} : row'[a] = row[a]
        /\ UNCHANGED <<progress, results, running, attackOf, cancelled, sent, outcome, handler, target, picked>>
    BY <1>17 DEF SetStatus, Update
  <2>2. row'[b] = "completed" => progress[b] = Total /\ results[b] = {r} \X (1..Total)
    <3> SUFFICES ASSUME row'[b] = "completed"
                 PROVE  progress[b] = Total /\ results[b] = {r} \X (1..Total)
      OBVIOUS
    <3>1. row[b] # "absent" /\ outcome[r] = "completed"
      BY <2>1
    <3>2. sent[r] = 1..Total
      BY <2>1, <3>1
    <3>3. Cardinality(sent[r]) = Total
      BY <3>2, Counting
    <3>4. b \in Attacks /\ results[b] = {r} \X sent[r] /\ progress[b] = Cardinality(sent[r])
      <4>1. b \in Attacks /\ run[r] = "closing" /\ row[b] # "absent" /\ Launched(r)
        BY <2>1, <3>1
      <4> QED
        BY <4>1
    <3> QED
      BY <3>2, <3>3, <3>4
  <2>3. CompletedHasAllResults'
    <3> SUFFICES ASSUME NEW a \in Attacks, row'[a] = "completed"
                 PROVE  progress'[a] = Total /\ \E s \in Runs : results'[a] = {s} \X (1..Total)
      BY DEF CompletedHasAllResults
    <3>1. CASE a = b
      BY <2>1, <2>2, <3>1
    <3>2. CASE a # b
      BY <2>1, <3>2
    <3> QED
      BY <3>1, <3>2
  <2>4. \A s \in Runs \ {r} : Live(s) => attackOf[s] # b
    BY <2>1
  <2>5. \A h \in Handlers : handler[h] = "launch" => target[h] # b
    BY <2>1
  <2> QED
    BY <2>1, <2>3, <2>4, <2>5
<1>18. ASSUME NEW r \in Runs, Release(r) PROVE Complete'
  BY <1>18 DEF Release
<1>19. CASE ShutdownCancel
  BY <1>19 DEF ShutdownCancel
<1>20. CASE ShutdownWait
  BY <1>20 DEF ShutdownWait
<1>21. CASE Exit \/ Crash
  <2>1. /\ \A r \in Runs : run'[r] \in {"unused", "done"} /\ (run'[r] = "unused" => run[r] = "unused")
        /\ \A h \in Handlers : handler'[h] = "idle"
        /\ UNCHANGED <<row, progress, results, attackOf, sent>>
    BY <1>21 DEF Exit, Crash, Vanish
  <2> QED
    BY <2>1
<1>22. CASE Restart
  BY <1>22 DEF Restart
<1>23. CASE UNCHANGED vars
  BY <1>23 DEF vars
<1> QED
  BY <1>1, <1>2, <1>3, <1>4, <1>5, <1>6, <1>7, <1>8, <1>9, <1>10, <1>11, <1>12, <1>13, <1>14,
     <1>15, <1>16, <1>17, <1>18, <1>19, <1>20, <1>21, <1>22, <1>23
  DEF Next, HandlerStep, RunStep

LEMMA SlotInit == Init => MapIsLive /\ Owners
BY RunnerAssumption DEF Init, MapIsLive, Owners, Live

LEMMA Always == Spec => [](TypeOK /\ MapIsLive /\ Owners /\ Stored /\ Rows /\ Complete)
<1> DEFINE IInv == TypeOK /\ MapIsLive /\ Owners /\ Stored /\ Rows /\ Complete
<1>1. Init => IInv
  <2> SUFFICES ASSUME Init PROVE Stored /\ Rows /\ Complete
    BY TypeInit, SlotInit
  <2> QED
    BY RunnerAssumption
    DEF Init, Stored, ResultsOfRun, Launched, Live, Rows, RunningRowHasRun, Complete,
        CompletedHasAllResults
<1>2. IInv /\ [Next]_vars => IInv'
  BY TypeStep, SlotStep, StoredStep, RowsStep, CompleteStep
<1> HIDE DEF IInv
<1>3. Spec => []IInv
  BY <1>1, <1>2, PTL DEF Spec
<1> QED
  BY <1>3 DEF IInv

\* Every variable keeps its type: the completed column never exceeds the total.
THEOREM TypeCorrect == Spec => []TypeOK
BY Always, PTL

\* Runner.running holds exactly the live runs, each under its own attack.
THEOREM MapCorrect == Spec => []MapIsLive
BY Always, PTL

\* An attack never has two runs at once.
THEOREM OneRunAtATime == Spec => []SingleRun
<1>1. MapIsLive /\ TypeOK => SingleRun
  BY DEF MapIsLive, SingleRun, TypeOK
<1> QED
  BY <1>1, Always, PTL

\* The results stored during a run are its own.
THEOREM ResultsAreOwn == Spec => []ResultsOfRun
<1>1. Stored => ResultsOfRun
  BY DEF Stored
<1> QED
  BY <1>1, Always, PTL

\* While the database works, whatever crashes and restarts there are, an attack
\* shown as running is being run.
THEOREM RunningIsTrue == Spec => []RunningRowHasRun
<1>1. Rows => RunningRowHasRun
  BY DEF Rows
<1> QED
  BY <1>1, Always, PTL

\* While the database works, an attack shown as completed has the result of
\* every request.
THEOREM CompletedIsTrue == Spec => []CompletedHasAllResults
<1>1. Complete => CompletedHasAllResults
  BY DEF Complete, CompletedHasAllResults
<1> QED
  BY <1>1, Always, PTL
=============================================================================
