------------------------- MODULE AiTaskQueueProofs -------------------------
(***************************************************************************)
(* Theorems about AiTaskQueue for any runs, slots and bounds: types, that  *)
(* success means work done, why the attempts of a job type are never used  *)
(* up, and that a final row stays as it is.                                *)
(***************************************************************************)
EXTENDS AiTaskQueue, FiniteSetTheorems, TLAPS

USE DEF rowVars, queueVars, slotVars, histVars, faultVars
USE DEF ApiPoints, Points, RunStatuses, JobStatuses, Failures
USE DEF WritesRunning, WritesRun, WritesSucceeded, WritesRetry, WritesDeadLetter, WritesRetryDate

(* Nothing is known of a job before it is queued.                          *)
Unqueued == {"new", "creating", "runCreated", "jobCreated", "following",
             "jobFirst", "runSecond"}

NotYetQueued ==
  \A r \in Runs : api[r] \in Unqueued =>
    queued[r] = "absent" /\ ~runAfter[r] /\ \A w \in Slots : work[w] # r

LEMMA InitTypes == Init => TypeOK /\ NotYetQueued
BY QueueAssumption DEF Init, TypeOK, NotYetQueued, Unqueued

(* Every step keeps the types, and what is not queued unknown.             *)
LEMMA StepTypes ==
  TypeOK /\ NotYetQueued /\ [Next]_vars => TypeOK' /\ NotYetQueued'
<1> SUFFICES ASSUME TypeOK, NotYetQueued, [Next]_vars
             PROVE  TypeOK' /\ NotYetQueued'
  OBVIOUS
<1> USE QueueAssumption
<1>1. ASSUME NEW r \in Runs, RequestRun(r) PROVE TypeOK' /\ NotYetQueued'
  BY <1>1 DEF RequestRun, ApiAt, TypeOK, NotYetQueued, Unqueued
<1>2. ASSUME NEW r \in Runs, TriggerRun(r) PROVE TypeOK' /\ NotYetQueued'
  BY <1>2 DEF TriggerRun, ApiAt, TypeOK, NotYetQueued, Unqueued
<1>3. ASSUME NEW r \in Runs, CreateRun(r) PROVE TypeOK' /\ NotYetQueued'
  BY <1>3 DEF CreateRun, ApiAt, TypeOK, NotYetQueued, Unqueued
<1>4. ASSUME NEW r \in Runs, CreateJob(r) PROVE TypeOK' /\ NotYetQueued'
  BY <1>4 DEF CreateJob, ApiAt, TypeOK, NotYetQueued, Unqueued
<1>5. ASSUME NEW r \in Runs, Enqueue(r) PROVE TypeOK' /\ NotYetQueued'
  BY <1>5 DEF Enqueue, ApiAt, TypeOK, NotYetQueued, Unqueued
<1>6. ASSUME NEW r \in Runs, MarkJobFailed(r) PROVE TypeOK' /\ NotYetQueued'
  BY <1>6 DEF MarkJobFailed, ApiAt, TypeOK, NotYetQueued, Unqueued
<1>7. ASSUME NEW r \in Runs, MarkQueued(r) PROVE TypeOK' /\ NotYetQueued'
  BY <1>7 DEF MarkQueued, ApiAt, TypeOK, NotYetQueued, Unqueued
<1>8. ASSUME NEW r \in Runs, CreateFollowUpJob(r) PROVE TypeOK' /\ NotYetQueued'
  BY <1>8 DEF CreateFollowUpJob, ApiAt, TypeOK, NotYetQueued, Unqueued
<1>9. ASSUME NEW r \in Runs, CreateFollowUpRun(r) PROVE TypeOK' /\ NotYetQueued'
  BY <1>9 DEF CreateFollowUpRun, ApiAt, TypeOK, NotYetQueued, Unqueued
<1>10. ASSUME NEW r \in Runs, EnqueueFollowUp(r) PROVE TypeOK' /\ NotYetQueued'
  BY <1>10 DEF EnqueueFollowUp, ApiAt, TypeOK, NotYetQueued, Unqueued
<1>11. ASSUME NEW r \in Runs, StalledCheck(r) PROVE TypeOK' /\ NotYetQueued'
  BY <1>11 DEF StalledCheck, TypeOK, NotYetQueued, Unqueued
<1>12. ASSUME NEW r \in Runs, EnqueueThrows(r) PROVE TypeOK' /\ NotYetQueued'
  BY <1>12 DEF EnqueueThrows, ApiAt, DbFault, TypeOK, NotYetQueued, Unqueued
<1>13. ASSUME NEW r \in Runs, RequestDies(r) PROVE TypeOK' /\ NotYetQueued'
  BY <1>13 DEF RequestDies, TypeOK, NotYetQueued, Unqueued
<1>14. ASSUME NEW r \in Runs, LockLost(r) PROVE TypeOK' /\ NotYetQueued'
  BY <1>14 DEF LockLost, TypeOK, NotYetQueued, Unqueued
<1>15. ASSUME NEW w \in Slots, ReadJob(w) PROVE TypeOK' /\ NotYetQueued'
  BY <1>15 DEF ReadJob, At, JobTerminal, TypeOK, NotYetQueued, Unqueued
<1>16. ASSUME NEW w \in Slots, BeginAttempt(w) PROVE TypeOK' /\ NotYetQueued'
  BY <1>16 DEF BeginAttempt, At, ClearRunAfter, TypeOK, NotYetQueued, Unqueued
<1>17. ASSUME NEW w \in Slots, CheckRun(w) PROVE TypeOK' /\ NotYetQueued'
  BY <1>17 DEF CheckRun, At, AlreadySucceeded, TypeOK, NotYetQueued, Unqueued
<1>18. ASSUME NEW w \in Slots, Simulate(w) PROVE TypeOK' /\ NotYetQueued'
  BY <1>18 DEF Simulate, At, TypeOK, NotYetQueued, Unqueued
<1>19. ASSUME NEW w \in Slots, StartRun(w) PROVE TypeOK' /\ NotYetQueued'
  BY <1>19 DEF StartRun, At, TypeOK, NotYetQueued, Unqueued
<1>20. ASSUME NEW w \in Slots, ExecuteSucceeds(w) PROVE TypeOK' /\ NotYetQueued'
  BY <1>20 DEF ExecuteSucceeds, At, TypeOK, NotYetQueued, Unqueued
<1>21. ASSUME NEW w \in Slots, ExecuteFails(w) PROVE TypeOK' /\ NotYetQueued'
  <2>1. CASE Fails(w, "recoverable") /\ UNCHANGED fatal
    BY <1>21, <2>1 DEF ExecuteFails, At, Fails, TypeOK, NotYetQueued, Unqueued
  <2>2. CASE Fails(w, "fatal") /\ fatal' = [fatal EXCEPT ![work[w]] = TRUE]
    <3>1. fatal' \in [Runs -> BOOLEAN]
      BY <2>2, Zenon DEF TypeOK
    <3> QED BY <1>21, <2>2, <3>1
            DEF ExecuteFails, At, Fails, TypeOK, NotYetQueued, Unqueued
  <2> QED BY <1>21, <2>1, <2>2 DEF ExecuteFails
<1>22. ASSUME NEW w \in Slots, SucceedRun(w) PROVE TypeOK' /\ NotYetQueued'
  BY <1>22 DEF SucceedRun, At, TypeOK, NotYetQueued, Unqueued
<1>23. ASSUME NEW w \in Slots, WriteRecords(w) PROVE TypeOK' /\ NotYetQueued'
  BY <1>23 DEF WriteRecords, At, TypeOK, NotYetQueued, Unqueued
<1>24. ASSUME NEW w \in Slots, FailRun(w) PROVE TypeOK' /\ NotYetQueued'
  BY <1>24 DEF FailRun, At, TypeOK, NotYetQueued, Unqueued
<1>25. ASSUME NEW w \in Slots, SucceedJob(w) PROVE TypeOK' /\ NotYetQueued'
  BY <1>25 DEF SucceedJob, At, ClearRunAfter, TypeOK, NotYetQueued, Unqueued
<1>26. ASSUME NEW w \in Slots, RecordRetry(w) PROVE TypeOK' /\ NotYetQueued'
  BY <1>26 DEF RecordRetry, At, TypeOK, NotYetQueued, Unqueued
<1>27. ASSUME NEW w \in Slots, DeadLetter(w) PROVE TypeOK' /\ NotYetQueued'
  BY <1>27 DEF DeadLetter, At, TypeOK, NotYetQueued, Unqueued
<1>28. ASSUME NEW w \in Slots, ScheduleRetry(w) PROVE TypeOK' /\ NotYetQueued'
  BY <1>28 DEF ScheduleRetry, At, TypeOK, NotYetQueued, Unqueued
<1>29. ASSUME NEW w \in Slots, Finish(w) PROVE TypeOK' /\ NotYetQueued'
  BY <1>29 DEF Finish, At, FreeSlot, AfterAttempt, TypeOK, NotYetQueued, Unqueued
<1>30. ASSUME NEW w \in Slots, StatementFails(w) PROVE TypeOK' /\ NotYetQueued'
  <2>0. work[w] \in Runs
    BY <1>30 DEF StatementFails, TypeOK
  <2>1. CASE UNCHANGED <<rowVars, executions>>
    BY <1>30, <2>0, <2>1 DEF StatementFails, Where, Fails, DbFault, TypeOK, NotYetQueued, Unqueued
  <2>2. CASE pc[w] = "begin" /\ WritesRunning(work[w]) /\ UNCHANGED executions
    BY <1>30, <2>0, <2>2 DEF StatementFails, Where, Fails, DbFault, TypeOK, NotYetQueued, Unqueued, ClearRunAfter
  <2>3. CASE pc[w] = "start" /\ WritesRun(work[w], "RUNNING") /\ UNCHANGED executions
    BY <1>30, <2>0, <2>3 DEF StatementFails, Where, Fails, DbFault, TypeOK, NotYetQueued, Unqueued
  <2>4. CASE /\ pc[w] = "executing" /\ UNCHANGED rowVars
            /\ executions' = [executions EXCEPT ![work[w]] = @ + 1]
    BY <1>30, <2>0, <2>4 DEF StatementFails, Where, Fails, DbFault, TypeOK, NotYetQueued, Unqueued
  <2>5. CASE pc[w] = "runSucceed" /\ WritesRun(work[w], "SUCCEEDED") /\ UNCHANGED executions
    BY <1>30, <2>0, <2>5 DEF StatementFails, Where, Fails, DbFault, TypeOK, NotYetQueued, Unqueued
  <2>6. CASE pc[w] = "runFail" /\ WritesRun(work[w], "FAILED") /\ UNCHANGED executions
    BY <1>30, <2>0, <2>6 DEF StatementFails, Where, Fails, DbFault, TypeOK, NotYetQueued, Unqueued
  <2>7. CASE pc[w] = "jobSucceed" /\ WritesSucceeded(work[w]) /\ UNCHANGED executions
    BY <1>30, <2>0, <2>7 DEF StatementFails, Where, Fails, DbFault, TypeOK, NotYetQueued, Unqueued, ClearRunAfter
  <2>8. CASE pc[w] = "jobFail" /\ WritesRetry(work[w]) /\ UNCHANGED executions
    BY <1>30, <2>0, <2>8 DEF StatementFails, Where, Fails, DbFault, TypeOK, NotYetQueued, Unqueued
  <2>9. CASE pc[w] = "settle" /\ WritesDeadLetter(w) /\ UNCHANGED executions
    BY <1>30, <2>0, <2>9 DEF StatementFails, Where, Fails, DbFault, TypeOK, NotYetQueued, Unqueued
  <2>10. CASE pc[w] = "settle" /\ WritesRetryDate(w) /\ UNCHANGED executions
    BY <1>30, <2>0, <2>10 DEF StatementFails, Where, Fails, DbFault, TypeOK, NotYetQueued, Unqueued
  <2> QED BY <1>30, <2>1, <2>2, <2>3, <2>4, <2>5, <2>6, <2>7, <2>8, <2>9, <2>10 DEF StatementFails, LostAnswer
<1>31. ASSUME NEW w \in Slots, WorkerDies(w) PROVE TypeOK' /\ NotYetQueued'
  BY <1>31 DEF WorkerDies, FreeSlot, TypeOK, NotYetQueued, Unqueued
<1>32. ASSUME NEW w \in Slots, NEW r \in Runs, Take(w, r) PROVE TypeOK' /\ NotYetQueued'
  BY <1>32 DEF Take, At, TypeOK, NotYetQueued, Unqueued
<1>33. CASE UNCHANGED vars
  BY <1>33 DEF vars, TypeOK, NotYetQueued, Unqueued
<1> QED
  BY <1>1, <1>2, <1>3, <1>4, <1>5, <1>6, <1>7, <1>8, <1>9, <1>10, <1>11,
     <1>12, <1>13, <1>14, <1>15, <1>16, <1>17, <1>18, <1>19, <1>20, <1>21,
     <1>22, <1>23, <1>24, <1>25, <1>26, <1>27, <1>28, <1>29, <1>30, <1>31,
     <1>32, <1>33
     DEF Next, Request, Step

(* The types of the task queue hold in every reachable state.              *)
THEOREM TypeCorrect == Spec => []TypeOK
<1>1. Spec => [](TypeOK /\ NotYetQueued)
  BY InitTypes, StepTypes, PTL DEF Spec
<1> QED BY <1>1, PTL

-----------------------------------------------------------------------------
(* A slot that is about to record success has an artifact to show for it,  *)
(* or simulates.                                                           *)
ArtifactAtHand ==
  \A w \in Slots :
    /\ pc[w] \in {"runSucceed", "records"} => executions[work[w]] > 0
    /\ pc[w] = "jobSucceed" =>
         executions[work[w]] > 0 \/ work[w] \in Simulated
    /\ pc[w] = "simulating" => work[w] \in Simulated

LEMMA StepArtifact ==
  TypeOK /\ TypeOK' /\ ArtifactAtHand /\ SuccessHasArtifact /\ [Next]_vars
    => ArtifactAtHand' /\ SuccessHasArtifact'
<1> SUFFICES ASSUME TypeOK, TypeOK', ArtifactAtHand, SuccessHasArtifact, [Next]_vars
             PROVE  ArtifactAtHand' /\ SuccessHasArtifact'
  OBVIOUS
<1> USE QueueAssumption
<1>1. ASSUME NEW r \in Runs, RequestRun(r) PROVE ArtifactAtHand' /\ SuccessHasArtifact'
  BY <1>1 DEF RequestRun, ApiAt, TypeOK, ArtifactAtHand, SuccessHasArtifact
<1>2. ASSUME NEW r \in Runs, TriggerRun(r) PROVE ArtifactAtHand' /\ SuccessHasArtifact'
  BY <1>2 DEF TriggerRun, ApiAt, TypeOK, ArtifactAtHand, SuccessHasArtifact
<1>3. ASSUME NEW r \in Runs, CreateRun(r) PROVE ArtifactAtHand' /\ SuccessHasArtifact'
  BY <1>3 DEF CreateRun, ApiAt, TypeOK, ArtifactAtHand, SuccessHasArtifact
<1>4. ASSUME NEW r \in Runs, CreateJob(r) PROVE ArtifactAtHand' /\ SuccessHasArtifact'
  BY <1>4 DEF CreateJob, ApiAt, TypeOK, ArtifactAtHand, SuccessHasArtifact
<1>5. ASSUME NEW r \in Runs, Enqueue(r) PROVE ArtifactAtHand' /\ SuccessHasArtifact'
  BY <1>5 DEF Enqueue, ApiAt, TypeOK, ArtifactAtHand, SuccessHasArtifact
<1>6. ASSUME NEW r \in Runs, MarkJobFailed(r) PROVE ArtifactAtHand' /\ SuccessHasArtifact'
  BY <1>6 DEF MarkJobFailed, ApiAt, TypeOK, ArtifactAtHand, SuccessHasArtifact
<1>7. ASSUME NEW r \in Runs, MarkQueued(r) PROVE ArtifactAtHand' /\ SuccessHasArtifact'
  BY <1>7 DEF MarkQueued, ApiAt, TypeOK, ArtifactAtHand, SuccessHasArtifact
<1>8. ASSUME NEW r \in Runs, CreateFollowUpJob(r) PROVE ArtifactAtHand' /\ SuccessHasArtifact'
  BY <1>8 DEF CreateFollowUpJob, ApiAt, TypeOK, ArtifactAtHand, SuccessHasArtifact
<1>9. ASSUME NEW r \in Runs, CreateFollowUpRun(r) PROVE ArtifactAtHand' /\ SuccessHasArtifact'
  BY <1>9 DEF CreateFollowUpRun, ApiAt, TypeOK, ArtifactAtHand, SuccessHasArtifact
<1>10. ASSUME NEW r \in Runs, EnqueueFollowUp(r) PROVE ArtifactAtHand' /\ SuccessHasArtifact'
  BY <1>10 DEF EnqueueFollowUp, ApiAt, TypeOK, ArtifactAtHand, SuccessHasArtifact
<1>11. ASSUME NEW r \in Runs, StalledCheck(r) PROVE ArtifactAtHand' /\ SuccessHasArtifact'
  BY <1>11 DEF StalledCheck, TypeOK, ArtifactAtHand, SuccessHasArtifact
<1>12. ASSUME NEW r \in Runs, EnqueueThrows(r) PROVE ArtifactAtHand' /\ SuccessHasArtifact'
  BY <1>12 DEF EnqueueThrows, ApiAt, DbFault, TypeOK, ArtifactAtHand, SuccessHasArtifact
<1>13. ASSUME NEW r \in Runs, RequestDies(r) PROVE ArtifactAtHand' /\ SuccessHasArtifact'
  BY <1>13 DEF RequestDies, TypeOK, ArtifactAtHand, SuccessHasArtifact
<1>14. ASSUME NEW r \in Runs, LockLost(r) PROVE ArtifactAtHand' /\ SuccessHasArtifact'
  BY <1>14 DEF LockLost, TypeOK, ArtifactAtHand, SuccessHasArtifact
<1>15. ASSUME NEW w \in Slots, ReadJob(w) PROVE ArtifactAtHand' /\ SuccessHasArtifact'
  BY <1>15 DEF ReadJob, At, JobTerminal, TypeOK, ArtifactAtHand, SuccessHasArtifact
<1>16. ASSUME NEW w \in Slots, BeginAttempt(w) PROVE ArtifactAtHand' /\ SuccessHasArtifact'
  BY <1>16 DEF BeginAttempt, At, ClearRunAfter, TypeOK, ArtifactAtHand, SuccessHasArtifact
<1>17. ASSUME NEW w \in Slots, CheckRun(w) PROVE ArtifactAtHand' /\ SuccessHasArtifact'
  BY <1>17 DEF CheckRun, At, AlreadySucceeded, TypeOK, ArtifactAtHand, SuccessHasArtifact
<1>18. ASSUME NEW w \in Slots, Simulate(w) PROVE ArtifactAtHand' /\ SuccessHasArtifact'
  BY <1>18 DEF Simulate, At, TypeOK, ArtifactAtHand, SuccessHasArtifact
<1>19. ASSUME NEW w \in Slots, StartRun(w) PROVE ArtifactAtHand' /\ SuccessHasArtifact'
  BY <1>19 DEF StartRun, At, TypeOK, ArtifactAtHand, SuccessHasArtifact
<1>20. ASSUME NEW w \in Slots, ExecuteSucceeds(w) PROVE ArtifactAtHand' /\ SuccessHasArtifact'
  BY <1>20 DEF ExecuteSucceeds, At, TypeOK, ArtifactAtHand, SuccessHasArtifact
<1>21. ASSUME NEW w \in Slots, ExecuteFails(w) PROVE ArtifactAtHand' /\ SuccessHasArtifact'
  BY <1>21 DEF ExecuteFails, At, Fails, TypeOK, ArtifactAtHand, SuccessHasArtifact
<1>22. ASSUME NEW w \in Slots, SucceedRun(w) PROVE ArtifactAtHand' /\ SuccessHasArtifact'
  BY <1>22 DEF SucceedRun, At, TypeOK, ArtifactAtHand, SuccessHasArtifact
<1>23. ASSUME NEW w \in Slots, WriteRecords(w) PROVE ArtifactAtHand' /\ SuccessHasArtifact'
  BY <1>23 DEF WriteRecords, At, TypeOK, ArtifactAtHand, SuccessHasArtifact
<1>24. ASSUME NEW w \in Slots, FailRun(w) PROVE ArtifactAtHand' /\ SuccessHasArtifact'
  BY <1>24 DEF FailRun, At, TypeOK, ArtifactAtHand, SuccessHasArtifact
<1>25. ASSUME NEW w \in Slots, SucceedJob(w) PROVE ArtifactAtHand' /\ SuccessHasArtifact'
  BY <1>25 DEF SucceedJob, At, ClearRunAfter, TypeOK, ArtifactAtHand, SuccessHasArtifact
<1>26. ASSUME NEW w \in Slots, RecordRetry(w) PROVE ArtifactAtHand' /\ SuccessHasArtifact'
  BY <1>26 DEF RecordRetry, At, TypeOK, ArtifactAtHand, SuccessHasArtifact
<1>27. ASSUME NEW w \in Slots, DeadLetter(w) PROVE ArtifactAtHand' /\ SuccessHasArtifact'
  BY <1>27 DEF DeadLetter, At, TypeOK, ArtifactAtHand, SuccessHasArtifact
<1>28. ASSUME NEW w \in Slots, ScheduleRetry(w) PROVE ArtifactAtHand' /\ SuccessHasArtifact'
  BY <1>28 DEF ScheduleRetry, At, TypeOK, ArtifactAtHand, SuccessHasArtifact
<1>29. ASSUME NEW w \in Slots, Finish(w) PROVE ArtifactAtHand' /\ SuccessHasArtifact'
  BY <1>29 DEF Finish, At, FreeSlot, AfterAttempt, TypeOK, ArtifactAtHand, SuccessHasArtifact
<1>30. ASSUME NEW w \in Slots, StatementFails(w) PROVE ArtifactAtHand' /\ SuccessHasArtifact'
  <2>0. work[w] \in Runs
    BY <1>30 DEF StatementFails, TypeOK
  <2>1. CASE UNCHANGED <<rowVars, executions>>
    BY <1>30, <2>0, <2>1 DEF StatementFails, Where, Fails, DbFault, TypeOK, ArtifactAtHand, SuccessHasArtifact
  <2>2. CASE pc[w] = "begin" /\ WritesRunning(work[w]) /\ UNCHANGED executions
    BY <1>30, <2>0, <2>2 DEF StatementFails, Where, Fails, DbFault, TypeOK, ArtifactAtHand, SuccessHasArtifact, ClearRunAfter
  <2>3. CASE pc[w] = "start" /\ WritesRun(work[w], "RUNNING") /\ UNCHANGED executions
    BY <1>30, <2>0, <2>3 DEF StatementFails, Where, Fails, DbFault, TypeOK, ArtifactAtHand, SuccessHasArtifact
  <2>4. CASE /\ pc[w] = "executing" /\ UNCHANGED rowVars
            /\ executions' = [executions EXCEPT ![work[w]] = @ + 1]
    BY <1>30, <2>0, <2>4 DEF StatementFails, Where, Fails, DbFault, TypeOK, ArtifactAtHand, SuccessHasArtifact
  <2>5. CASE pc[w] = "runSucceed" /\ WritesRun(work[w], "SUCCEEDED") /\ UNCHANGED executions
    BY <1>30, <2>0, <2>5 DEF StatementFails, Where, Fails, DbFault, TypeOK, ArtifactAtHand, SuccessHasArtifact
  <2>6. CASE pc[w] = "runFail" /\ WritesRun(work[w], "FAILED") /\ UNCHANGED executions
    BY <1>30, <2>0, <2>6 DEF StatementFails, Where, Fails, DbFault, TypeOK, ArtifactAtHand, SuccessHasArtifact
  <2>7. CASE pc[w] = "jobSucceed" /\ WritesSucceeded(work[w]) /\ UNCHANGED executions
    BY <1>30, <2>0, <2>7 DEF StatementFails, Where, Fails, DbFault, TypeOK, ArtifactAtHand, SuccessHasArtifact, ClearRunAfter
  <2>8. CASE pc[w] = "jobFail" /\ WritesRetry(work[w]) /\ UNCHANGED executions
    BY <1>30, <2>0, <2>8 DEF StatementFails, Where, Fails, DbFault, TypeOK, ArtifactAtHand, SuccessHasArtifact
  <2>9. CASE pc[w] = "settle" /\ WritesDeadLetter(w) /\ UNCHANGED executions
    BY <1>30, <2>0, <2>9 DEF StatementFails, Where, Fails, DbFault, TypeOK, ArtifactAtHand, SuccessHasArtifact
  <2>10. CASE pc[w] = "settle" /\ WritesRetryDate(w) /\ UNCHANGED executions
    BY <1>30, <2>0, <2>10 DEF StatementFails, Where, Fails, DbFault, TypeOK, ArtifactAtHand, SuccessHasArtifact
  <2> QED BY <1>30, <2>1, <2>2, <2>3, <2>4, <2>5, <2>6, <2>7, <2>8, <2>9, <2>10 DEF StatementFails, LostAnswer
<1>31. ASSUME NEW w \in Slots, WorkerDies(w) PROVE ArtifactAtHand' /\ SuccessHasArtifact'
  BY <1>31 DEF WorkerDies, FreeSlot, TypeOK, ArtifactAtHand, SuccessHasArtifact
<1>32. ASSUME NEW w \in Slots, NEW r \in Runs, Take(w, r) PROVE ArtifactAtHand' /\ SuccessHasArtifact'
  BY <1>32 DEF Take, At, TypeOK, ArtifactAtHand, SuccessHasArtifact
<1>33. CASE UNCHANGED vars
  BY <1>33 DEF vars, TypeOK, ArtifactAtHand, SuccessHasArtifact
<1> QED
  BY <1>1, <1>2, <1>3, <1>4, <1>5, <1>6, <1>7, <1>8, <1>9, <1>10, <1>11,
     <1>12, <1>13, <1>14, <1>15, <1>16, <1>17, <1>18, <1>19, <1>20, <1>21,
     <1>22, <1>23, <1>24, <1>25, <1>26, <1>27, <1>28, <1>29, <1>30, <1>31,
     <1>32, <1>33
     DEF Next, Request, Step

(* SUCCEEDED is never written for work nobody did, whatever is redelivered,*)
(* fails or dies.                                                          *)
THEOREM SuccessMeansWorkDone == Spec => []SuccessHasArtifact
<1>1. Init => ArtifactAtHand /\ SuccessHasArtifact
  BY DEF Init, ArtifactAtHand, SuccessHasArtifact
<1>2. Spec => [](TypeOK /\ NotYetQueued)
  BY InitTypes, StepTypes, PTL DEF Spec
<1>3. Spec => [](ArtifactAtHand /\ SuccessHasArtifact)
  BY <1>1, <1>2, StepArtifact, PTL DEF Spec
<1> QED BY <1>3, PTL

-----------------------------------------------------------------------------
(* Each delivery may begin one attempt: the slots that hold one and have   *)
(* not begun it, and what is left of the deliveries the queue can give.    *)
Pending(r) == {w \in Slots : work[w] = r /\ pc[w] \in {"read", "begin"}}

Budget(r) == (IF queued[r] = "absent" THEN 0 ELSE 1) + stalls[r]
             - (IF queued[r] = "waiting" THEN 1 ELSE 0) - attempts[r]

TokensBounded == \A r \in Runs : Cardinality(Pending(r)) <= Budget(r)

LEMMA PendingFinite ==
  ASSUME NEW q \in Runs
  PROVE  /\ IsFiniteSet(Pending(q)) /\ Cardinality(Pending(q)) \in Nat
         /\ IsFiniteSet(Pending(q)') /\ Cardinality(Pending(q)') \in Nat
<1>1. Pending(q) \subseteq Slots /\ Pending(q)' \subseteq Slots
  BY DEF Pending
<1> QED BY <1>1, QueueAssumption, FS_Subset, FS_CardinalityType

LEMMA BudgetType ==
  ASSUME TypeOK, TypeOK', NEW q \in Runs
  PROVE  Budget(q) \in Int /\ Budget(q)' \in Int
BY QueueAssumption DEF Budget, TypeOK

(* A step that begins no attempt and takes no delivery.                    *)
LEMMA KeepTokens ==
  ASSUME TypeOK, TypeOK', TokensBounded,
         \A q \in Runs : Pending(q)' \subseteq Pending(q),
         \A q \in Runs : Budget(q)' >= Budget(q)
  PROVE  TokensBounded'
<1> SUFFICES ASSUME NEW q \in Runs PROVE Cardinality(Pending(q)') <= Budget(q)'
  BY DEF TokensBounded
<1>1. Cardinality(Pending(q)') <= Cardinality(Pending(q))
  BY PendingFinite, FS_Subset
<1> QED BY <1>1, PendingFinite, BudgetType DEF TokensBounded

\* An attempt that is begun takes one delivery and one attempt, whether or
\* not the slot goes on with it.
LEMMA BeginSpends ==
  ASSUME TypeOK, TypeOK', TokensBounded, NEW w \in Slots, pc[w] = "begin",
         NEW to \in {"check", "finish"}, pc' = [pc EXCEPT ![w] = to],
         WritesRunning(work[w]), UNCHANGED <<queueVars, work>>
  PROVE  TokensBounded'
<1>0. PICK r \in Runs : r = work[w]
  BY DEF TypeOK
<1>1. r \in Runs /\ w \in Pending(r)
  BY <1>0 DEF Pending, TypeOK
<1>2. Pending(r)' = Pending(r) \ {w}
  BY <1>0 DEF Pending, TypeOK
<1>3. Cardinality(Pending(r)') = Cardinality(Pending(r)) - 1
  <2>1. IsFiniteSet(Pending(r))
    BY <1>1, PendingFinite
  <2> QED BY <1>1, <1>2, <2>1, FS_RemoveElement
<1>4. Budget(r)' = Budget(r) - 1
  <2>1. /\ attempts'[r] = attempts[r] + 1 /\ attempts[r] \in Nat
        /\ stalls[r] \in Nat /\ queued'[r] = queued[r] /\ stalls'[r] = stalls[r]
    BY <1>0, <1>1, QueueAssumption DEF TypeOK
  <2>2. (IF queued[r] = "absent" THEN 0 ELSE 1) \in Int
        /\ (IF queued[r] = "waiting" THEN 1 ELSE 0) \in Int
    OBVIOUS
  <2> QED BY <2>1, <2>2 DEF Budget
<1>5. \A q \in Runs \ {r} : Pending(q)' = Pending(q) /\ Budget(q)' = Budget(q)
  <2>1. \A q \in Runs \ {r} : attempts'[q] = attempts[q]
    BY <1>0 DEF TypeOK
  <2>2. \A q \in Runs \ {r} : Pending(q)' = Pending(q)
    BY <1>0 DEF Pending, TypeOK
  <2> QED BY <2>1, <2>2 DEF Budget
<1>6. Cardinality(Pending(r)') <= Budget(r)'
  <2>1. Cardinality(Pending(r)) <= Budget(r)
    BY <1>1 DEF TokensBounded
  <2>2. Budget(r) \in Int /\ Cardinality(Pending(r)) \in Nat
    BY <1>1, BudgetType, PendingFinite
  <2> QED BY <1>3, <1>4, <2>1, <2>2
<1> QED BY <1>5, <1>6 DEF TokensBounded

LEMMA StepTokens ==
  TypeOK /\ TypeOK' /\ NotYetQueued /\ TokensBounded /\ [Next]_vars
    => TokensBounded'
<1> SUFFICES ASSUME TypeOK, TypeOK', NotYetQueued, TokensBounded, [Next]_vars
             PROVE  TokensBounded'
  OBVIOUS
<1> USE QueueAssumption
<1>1. ASSUME NEW r \in Runs, RequestRun(r) PROVE TokensBounded'
  <2>1. \A q \in Runs : Pending(q)' \subseteq Pending(q)
    BY <1>1 DEF RequestRun, ApiAt, Pending, FreeSlot, TypeOK
  <2>2. \A q \in Runs : Budget(q)' >= Budget(q)
    BY <1>1 DEF RequestRun, ApiAt, Budget, TypeOK
  <2> QED BY <2>1, <2>2, KeepTokens
<1>2. ASSUME NEW r \in Runs, TriggerRun(r) PROVE TokensBounded'
  <2>1. \A q \in Runs : Pending(q)' \subseteq Pending(q)
    BY <1>2 DEF TriggerRun, ApiAt, Pending, FreeSlot, TypeOK
  <2>2. \A q \in Runs : Budget(q)' >= Budget(q)
    BY <1>2 DEF TriggerRun, ApiAt, Budget, TypeOK
  <2> QED BY <2>1, <2>2, KeepTokens
<1>3. ASSUME NEW r \in Runs, CreateRun(r) PROVE TokensBounded'
  <2>1. \A q \in Runs : Pending(q)' \subseteq Pending(q)
    BY <1>3 DEF CreateRun, ApiAt, Pending, FreeSlot, TypeOK
  <2>2. \A q \in Runs : Budget(q)' >= Budget(q)
    BY <1>3 DEF CreateRun, ApiAt, Budget, TypeOK
  <2> QED BY <2>1, <2>2, KeepTokens
<1>4. ASSUME NEW r \in Runs, CreateJob(r) PROVE TokensBounded'
  <2>1. \A q \in Runs : Pending(q)' \subseteq Pending(q)
    BY <1>4 DEF CreateJob, ApiAt, Pending, FreeSlot, TypeOK
  <2>2. \A q \in Runs : Budget(q)' >= Budget(q)
    BY <1>4 DEF CreateJob, ApiAt, Budget, TypeOK
  <2> QED BY <2>1, <2>2, KeepTokens
<1>5. ASSUME NEW r \in Runs, Enqueue(r) PROVE TokensBounded'
  <2>1. \A q \in Runs : Pending(q)' \subseteq Pending(q)
    BY <1>5 DEF Enqueue, ApiAt, NotYetQueued, Unqueued, Pending, FreeSlot, TypeOK
  <2>2. \A q \in Runs : Budget(q)' >= Budget(q)
    BY <1>5 DEF Enqueue, ApiAt, NotYetQueued, Unqueued, Budget, TypeOK
  <2> QED BY <2>1, <2>2, KeepTokens
<1>6. ASSUME NEW r \in Runs, MarkJobFailed(r) PROVE TokensBounded'
  <2>1. \A q \in Runs : Pending(q)' \subseteq Pending(q)
    BY <1>6 DEF MarkJobFailed, ApiAt, Pending, FreeSlot, TypeOK
  <2>2. \A q \in Runs : Budget(q)' >= Budget(q)
    BY <1>6 DEF MarkJobFailed, ApiAt, Budget, TypeOK
  <2> QED BY <2>1, <2>2, KeepTokens
<1>7. ASSUME NEW r \in Runs, MarkQueued(r) PROVE TokensBounded'
  <2>1. \A q \in Runs : Pending(q)' \subseteq Pending(q)
    BY <1>7 DEF MarkQueued, ApiAt, Pending, FreeSlot, TypeOK
  <2>2. \A q \in Runs : Budget(q)' >= Budget(q)
    BY <1>7 DEF MarkQueued, ApiAt, Budget, TypeOK
  <2> QED BY <2>1, <2>2, KeepTokens
<1>8. ASSUME NEW r \in Runs, CreateFollowUpJob(r) PROVE TokensBounded'
  <2>1. \A q \in Runs : Pending(q)' \subseteq Pending(q)
    BY <1>8 DEF CreateFollowUpJob, ApiAt, Pending, FreeSlot, TypeOK
  <2>2. \A q \in Runs : Budget(q)' >= Budget(q)
    BY <1>8 DEF CreateFollowUpJob, ApiAt, Budget, TypeOK
  <2> QED BY <2>1, <2>2, KeepTokens
<1>9. ASSUME NEW r \in Runs, CreateFollowUpRun(r) PROVE TokensBounded'
  <2>1. \A q \in Runs : Pending(q)' \subseteq Pending(q)
    BY <1>9 DEF CreateFollowUpRun, ApiAt, Pending, FreeSlot, TypeOK
  <2>2. \A q \in Runs : Budget(q)' >= Budget(q)
    BY <1>9 DEF CreateFollowUpRun, ApiAt, Budget, TypeOK
  <2> QED BY <2>1, <2>2, KeepTokens
<1>10. ASSUME NEW r \in Runs, EnqueueFollowUp(r) PROVE TokensBounded'
  <2>1. \A q \in Runs : Pending(q)' \subseteq Pending(q)
    BY <1>10 DEF EnqueueFollowUp, ApiAt, NotYetQueued, Unqueued, Pending, FreeSlot, TypeOK
  <2>2. \A q \in Runs : Budget(q)' >= Budget(q)
    BY <1>10 DEF EnqueueFollowUp, ApiAt, NotYetQueued, Unqueued, Budget, TypeOK
  <2> QED BY <2>1, <2>2, KeepTokens
<1>11. ASSUME NEW r \in Runs, StalledCheck(r) PROVE TokensBounded'
  <2>1. \A q \in Runs : Pending(q)' \subseteq Pending(q)
    BY <1>11 DEF StalledCheck, Pending, FreeSlot, TypeOK
  <2>2. \A q \in Runs : Budget(q)' >= Budget(q)
    BY <1>11 DEF StalledCheck, Budget, TypeOK
  <2> QED BY <2>1, <2>2, KeepTokens
<1>12. ASSUME NEW r \in Runs, EnqueueThrows(r) PROVE TokensBounded'
  <2>1. \A q \in Runs : Pending(q)' \subseteq Pending(q)
    BY <1>12 DEF EnqueueThrows, ApiAt, NotYetQueued, Unqueued, Pending, FreeSlot, TypeOK
  <2>2. \A q \in Runs : Budget(q)' >= Budget(q)
    BY <1>12 DEF EnqueueThrows, ApiAt, NotYetQueued, Unqueued, Budget, TypeOK
  <2> QED BY <2>1, <2>2, KeepTokens
<1>13. ASSUME NEW r \in Runs, RequestDies(r) PROVE TokensBounded'
  <2>1. \A q \in Runs : Pending(q)' \subseteq Pending(q)
    BY <1>13 DEF RequestDies, Pending, FreeSlot, TypeOK
  <2>2. \A q \in Runs : Budget(q)' >= Budget(q)
    BY <1>13 DEF RequestDies, Budget, TypeOK
  <2> QED BY <2>1, <2>2, KeepTokens
<1>14. ASSUME NEW r \in Runs, LockLost(r) PROVE TokensBounded'
  <2>1. \A q \in Runs : Pending(q)' \subseteq Pending(q)
    BY <1>14 DEF LockLost, Pending, FreeSlot, TypeOK
  <2>2. \A q \in Runs : Budget(q)' >= Budget(q)
    BY <1>14 DEF LockLost, Budget, TypeOK
  <2> QED BY <2>1, <2>2, KeepTokens
<1>15. ASSUME NEW w \in Slots, ReadJob(w) PROVE TokensBounded'
  <2>1. \A q \in Runs : Pending(q)' \subseteq Pending(q)
    BY <1>15 DEF ReadJob, At, Pending, FreeSlot, TypeOK
  <2>2. \A q \in Runs : Budget(q)' >= Budget(q)
    BY <1>15 DEF ReadJob, At, Budget, TypeOK
  <2> QED BY <2>1, <2>2, KeepTokens
<1>16. ASSUME NEW w \in Slots, BeginAttempt(w) PROVE TokensBounded'
  BY <1>16, BeginSpends DEF BeginAttempt, At
<1>17. ASSUME NEW w \in Slots, CheckRun(w) PROVE TokensBounded'
  <2>1. \A q \in Runs : Pending(q)' \subseteq Pending(q)
    BY <1>17 DEF CheckRun, At, Pending, FreeSlot, TypeOK
  <2>2. \A q \in Runs : Budget(q)' >= Budget(q)
    BY <1>17 DEF CheckRun, At, Budget, TypeOK
  <2> QED BY <2>1, <2>2, KeepTokens
<1>18. ASSUME NEW w \in Slots, Simulate(w) PROVE TokensBounded'
  <2>1. \A q \in Runs : Pending(q)' \subseteq Pending(q)
    BY <1>18 DEF Simulate, At, Pending, FreeSlot, TypeOK
  <2>2. \A q \in Runs : Budget(q)' >= Budget(q)
    BY <1>18 DEF Simulate, At, Budget, TypeOK
  <2> QED BY <2>1, <2>2, KeepTokens
<1>19. ASSUME NEW w \in Slots, StartRun(w) PROVE TokensBounded'
  <2>1. \A q \in Runs : Pending(q)' \subseteq Pending(q)
    BY <1>19 DEF StartRun, At, Pending, FreeSlot, TypeOK
  <2>2. \A q \in Runs : Budget(q)' >= Budget(q)
    BY <1>19 DEF StartRun, At, Budget, TypeOK
  <2> QED BY <2>1, <2>2, KeepTokens
<1>20. ASSUME NEW w \in Slots, ExecuteSucceeds(w) PROVE TokensBounded'
  <2>1. \A q \in Runs : Pending(q)' \subseteq Pending(q)
    BY <1>20 DEF ExecuteSucceeds, At, Pending, FreeSlot, TypeOK
  <2>2. \A q \in Runs : Budget(q)' >= Budget(q)
    BY <1>20 DEF ExecuteSucceeds, At, Budget, TypeOK
  <2> QED BY <2>1, <2>2, KeepTokens
<1>21. ASSUME NEW w \in Slots, ExecuteFails(w) PROVE TokensBounded'
  <2>1. \A q \in Runs : Pending(q)' \subseteq Pending(q)
    BY <1>21 DEF ExecuteFails, At, Pending, FreeSlot, TypeOK
  <2>2. \A q \in Runs : Budget(q)' >= Budget(q)
    BY <1>21 DEF ExecuteFails, At, Budget, TypeOK
  <2> QED BY <2>1, <2>2, KeepTokens
<1>22. ASSUME NEW w \in Slots, SucceedRun(w) PROVE TokensBounded'
  <2>1. \A q \in Runs : Pending(q)' \subseteq Pending(q)
    BY <1>22 DEF SucceedRun, At, Pending, FreeSlot, TypeOK
  <2>2. \A q \in Runs : Budget(q)' >= Budget(q)
    BY <1>22 DEF SucceedRun, At, Budget, TypeOK
  <2> QED BY <2>1, <2>2, KeepTokens
<1>23. ASSUME NEW w \in Slots, WriteRecords(w) PROVE TokensBounded'
  <2>1. \A q \in Runs : Pending(q)' \subseteq Pending(q)
    BY <1>23 DEF WriteRecords, At, Pending, FreeSlot, TypeOK
  <2>2. \A q \in Runs : Budget(q)' >= Budget(q)
    BY <1>23 DEF WriteRecords, At, Budget, TypeOK
  <2> QED BY <2>1, <2>2, KeepTokens
<1>24. ASSUME NEW w \in Slots, FailRun(w) PROVE TokensBounded'
  <2>1. \A q \in Runs : Pending(q)' \subseteq Pending(q)
    BY <1>24 DEF FailRun, At, Pending, FreeSlot, TypeOK
  <2>2. \A q \in Runs : Budget(q)' >= Budget(q)
    BY <1>24 DEF FailRun, At, Budget, TypeOK
  <2> QED BY <2>1, <2>2, KeepTokens
<1>25. ASSUME NEW w \in Slots, SucceedJob(w) PROVE TokensBounded'
  <2>1. \A q \in Runs : Pending(q)' \subseteq Pending(q)
    BY <1>25 DEF SucceedJob, At, Pending, FreeSlot, TypeOK
  <2>2. \A q \in Runs : Budget(q)' >= Budget(q)
    BY <1>25 DEF SucceedJob, At, Budget, TypeOK
  <2> QED BY <2>1, <2>2, KeepTokens
<1>26. ASSUME NEW w \in Slots, RecordRetry(w) PROVE TokensBounded'
  <2>1. \A q \in Runs : Pending(q)' \subseteq Pending(q)
    BY <1>26 DEF RecordRetry, At, Pending, FreeSlot, TypeOK
  <2>2. \A q \in Runs : Budget(q)' >= Budget(q)
    BY <1>26 DEF RecordRetry, At, Budget, TypeOK
  <2> QED BY <2>1, <2>2, KeepTokens
<1>27. ASSUME NEW w \in Slots, DeadLetter(w) PROVE TokensBounded'
  <2>1. \A q \in Runs : Pending(q)' \subseteq Pending(q)
    BY <1>27 DEF DeadLetter, At, Pending, FreeSlot, TypeOK
  <2>2. \A q \in Runs : Budget(q)' >= Budget(q)
    BY <1>27 DEF DeadLetter, At, Budget, TypeOK
  <2> QED BY <2>1, <2>2, KeepTokens
<1>28. ASSUME NEW w \in Slots, ScheduleRetry(w) PROVE TokensBounded'
  <2>1. \A q \in Runs : Pending(q)' \subseteq Pending(q)
    BY <1>28 DEF ScheduleRetry, At, Pending, FreeSlot, TypeOK
  <2>2. \A q \in Runs : Budget(q)' >= Budget(q)
    BY <1>28 DEF ScheduleRetry, At, Budget, TypeOK
  <2> QED BY <2>1, <2>2, KeepTokens
<1>29. ASSUME NEW w \in Slots, Finish(w) PROVE TokensBounded'
  <2>1. \A q \in Runs : Pending(q)' \subseteq Pending(q)
    BY <1>29 DEF Finish, At, AfterAttempt, Pending, FreeSlot, TypeOK
  <2>2. \A q \in Runs : Budget(q)' >= Budget(q)
    BY <1>29 DEF Finish, At, AfterAttempt, Budget, TypeOK
  <2> QED BY <2>1, <2>2, KeepTokens
<1>30. ASSUME NEW w \in Slots, StatementFails(w) PROVE TokensBounded'
  <2>1. CASE pc[w] = "begin" /\ WritesRunning(work[w])
    BY <1>30, <2>1, BeginSpends DEF StatementFails, Where
  <2>2. CASE UNCHANGED attempts
    <3>1. \A q \in Runs : Pending(q)' \subseteq Pending(q)
      BY <1>30 DEF StatementFails, Where, Pending, TypeOK
    <3>2. \A q \in Runs : Budget(q)' >= Budget(q)
      BY <1>30, <2>2 DEF StatementFails, Budget, TypeOK
    <3> QED BY <3>1, <3>2, KeepTokens
  <2>3. UNCHANGED attempts \/ (pc[w] = "begin" /\ WritesRunning(work[w]))
    BY <1>30 DEF StatementFails, LostAnswer
  <2> QED BY <2>1, <2>2, <2>3
<1>31. ASSUME NEW w \in Slots, WorkerDies(w) PROVE TokensBounded'
  <2>1. \A q \in Runs : Pending(q)' \subseteq Pending(q)
    BY <1>31 DEF WorkerDies, Pending, FreeSlot, TypeOK
  <2>2. \A q \in Runs : Budget(q)' >= Budget(q)
    BY <1>31 DEF WorkerDies, Budget, TypeOK
  <2> QED BY <2>1, <2>2, KeepTokens
<1>32. ASSUME NEW w \in Slots, NEW r \in Runs, Take(w, r) PROVE TokensBounded'
  <2>1. w \notin Pending(r)
    BY <1>32 DEF Take, At, Pending
  <2>2. Pending(r)' = Pending(r) \union {w}
    BY <1>32 DEF Take, At, Pending, TypeOK
  <2>3. Cardinality(Pending(r)') = Cardinality(Pending(r)) + 1
    BY <2>1, <2>2, PendingFinite, FS_AddElement
  <2>4. Budget(r)' = Budget(r) + 1
    BY <1>32 DEF Take, Budget, TypeOK
  <2>5. \A q \in Runs \ {r} : Pending(q)' = Pending(q) /\ Budget(q)' = Budget(q)
    <3> SUFFICES ASSUME NEW q \in Runs, q # r
                 PROVE  Pending(q)' = Pending(q) /\ Budget(q)' = Budget(q)
      OBVIOUS
    <3>1. \A v \in Slots : v # w => work'[v] = work[v] /\ pc'[v] = pc[v]
      BY <1>32 DEF Take, At, TypeOK
    <3>2. pc[w] = "idle" /\ work'[w] = r
      BY <1>32 DEF Take, At, TypeOK
    <3>3. Pending(q)' = Pending(q)
      BY <3>1, <3>2 DEF Pending
    <3>4. Budget(q)' = Budget(q)
      BY <1>32 DEF Take, Budget, TypeOK
    <3> QED BY <3>3, <3>4
  <2> QED BY <2>3, <2>4, <2>5, PendingFinite, BudgetType DEF TokensBounded
<1>33. CASE UNCHANGED vars
  BY <1>33 DEF vars, Pending, Budget, TokensBounded
<1> QED
  BY <1>1, <1>2, <1>3, <1>4, <1>5, <1>6, <1>7, <1>8, <1>9, <1>10, <1>11,
     <1>12, <1>13, <1>14, <1>15, <1>16, <1>17, <1>18, <1>19, <1>20, <1>21,
     <1>22, <1>23, <1>24, <1>25, <1>26, <1>27, <1>28, <1>29, <1>30, <1>31,
     <1>32, <1>33
     DEF Next, Request, Step

LEMMA InitTokens == Init => TokensBounded
<1> SUFFICES ASSUME Init, NEW q \in Runs PROVE Cardinality(Pending(q)) <= Budget(q)
  BY DEF TokensBounded
<1>1. Pending(q) = {}
  BY DEF Init, Pending
<1> QED BY <1>1, FS_EmptySet DEF Init, Budget

LEMMA TokensImplyBound == TypeOK /\ TokensBounded => AttemptsWithinDeliveries
<1> SUFFICES ASSUME TypeOK, TokensBounded, NEW r \in Runs
             PROVE  attempts[r] <= 1 + stalls[r]
  BY DEF AttemptsWithinDeliveries
<1>1. attempts[r] \in Nat /\ stalls[r] \in Nat
  BY QueueAssumption DEF TypeOK
<1>2. Cardinality(Pending(r)) <= Budget(r) /\ Cardinality(Pending(r)) \in Nat
  BY PendingFinite DEF TokensBounded
<1> QED BY <1>1, <1>2 DEF Budget

(* A WorkflowJob is attempted once and once more per stalled delivery,     *)
(* whatever its maxAttempts.                                               *)
THEOREM AttemptsBounded == Spec => []AttemptsWithinDeliveries
<1>1. Spec => [](TypeOK /\ NotYetQueued)
  BY InitTypes, StepTypes, PTL DEF Spec
<1>2. Spec => []TokensBounded
  BY <1>1, InitTokens, StepTokens, PTL DEF Spec
<1> QED BY <1>1, <1>2, TokensImplyBound, PTL

-----------------------------------------------------------------------------
(* A slot knows the attempts its attempt was counted by, and an error it   *)
(* holds for unrecoverable was raised for its run.                         *)
AttemptKnown ==
  \A w \in Slots :
    pc[w] \notin {"idle", "read", "begin", "finish"} => attempt[w] <= attempts[work[w]]

FatalKnown ==
  \A w \in Slots : failure[w] = "fatal" => pc[w] # "idle" /\ fatal[work[w]]

FatalInv == AttemptKnown /\ FatalKnown /\ DeadLettersAreFatal

\* With attempts: 1 and at most MaxStalls redeliveries, the attempts of a job
\* are never used up: what is dead-lettered had an unrecoverable error.
LEMMA NoAttemptsLeft ==
  ASSUME TypeOK, AttemptsWithinDeliveries, AttemptKnown, NEW w \in Slots,
         pc[w] = "settle", ShouldDeadLetter(w)
  PROVE  failure[w] = "fatal"
<1>1. work[w] \in Runs /\ attempt[w] <= attempts[work[w]]
  BY DEF TypeOK, AttemptKnown
<1>2. attempts[work[w]] <= 1 + stalls[work[w]] /\ stalls[work[w]] <= MaxStalls
  BY <1>1, QueueAssumption DEF AttemptsWithinDeliveries, TypeOK
<1>3. attempt[w] \in Nat /\ attempts[work[w]] \in Nat /\ stalls[work[w]] \in Nat
  BY <1>1, QueueAssumption DEF TypeOK
<1> QED BY <1>1, <1>2, <1>3, QueueAssumption DEF ShouldDeadLetter

LEMMA StepFatal ==
  TypeOK /\ TypeOK' /\ AttemptsWithinDeliveries /\ FatalInv /\ [Next]_vars
    => FatalInv'
<1> SUFFICES ASSUME TypeOK, TypeOK', AttemptsWithinDeliveries, FatalInv, [Next]_vars
             PROVE  FatalInv'
  OBVIOUS
<1> USE QueueAssumption
<1> USE DEF FatalInv
<1>1. ASSUME NEW r \in Runs, RequestRun(r) PROVE FatalInv'
  BY <1>1 DEF RequestRun, ApiAt, TypeOK, AttemptKnown, FatalKnown, DeadLettersAreFatal
<1>2. ASSUME NEW r \in Runs, TriggerRun(r) PROVE FatalInv'
  BY <1>2 DEF TriggerRun, ApiAt, TypeOK, AttemptKnown, FatalKnown, DeadLettersAreFatal
<1>3. ASSUME NEW r \in Runs, CreateRun(r) PROVE FatalInv'
  BY <1>3 DEF CreateRun, ApiAt, TypeOK, AttemptKnown, FatalKnown, DeadLettersAreFatal
<1>4. ASSUME NEW r \in Runs, CreateJob(r) PROVE FatalInv'
  BY <1>4 DEF CreateJob, ApiAt, TypeOK, AttemptKnown, FatalKnown, DeadLettersAreFatal
<1>5. ASSUME NEW r \in Runs, Enqueue(r) PROVE FatalInv'
  BY <1>5 DEF Enqueue, ApiAt, TypeOK, AttemptKnown, FatalKnown, DeadLettersAreFatal
<1>6. ASSUME NEW r \in Runs, MarkJobFailed(r) PROVE FatalInv'
  BY <1>6 DEF MarkJobFailed, ApiAt, TypeOK, AttemptKnown, FatalKnown, DeadLettersAreFatal
<1>7. ASSUME NEW r \in Runs, MarkQueued(r) PROVE FatalInv'
  BY <1>7 DEF MarkQueued, ApiAt, TypeOK, AttemptKnown, FatalKnown, DeadLettersAreFatal
<1>8. ASSUME NEW r \in Runs, CreateFollowUpJob(r) PROVE FatalInv'
  BY <1>8 DEF CreateFollowUpJob, ApiAt, TypeOK, AttemptKnown, FatalKnown, DeadLettersAreFatal
<1>9. ASSUME NEW r \in Runs, CreateFollowUpRun(r) PROVE FatalInv'
  BY <1>9 DEF CreateFollowUpRun, ApiAt, TypeOK, AttemptKnown, FatalKnown, DeadLettersAreFatal
<1>10. ASSUME NEW r \in Runs, EnqueueFollowUp(r) PROVE FatalInv'
  BY <1>10 DEF EnqueueFollowUp, ApiAt, TypeOK, AttemptKnown, FatalKnown, DeadLettersAreFatal
<1>11. ASSUME NEW r \in Runs, StalledCheck(r) PROVE FatalInv'
  BY <1>11 DEF StalledCheck, TypeOK, AttemptKnown, FatalKnown, DeadLettersAreFatal
<1>12. ASSUME NEW r \in Runs, EnqueueThrows(r) PROVE FatalInv'
  BY <1>12 DEF EnqueueThrows, ApiAt, DbFault, TypeOK, AttemptKnown, FatalKnown, DeadLettersAreFatal
<1>13. ASSUME NEW r \in Runs, RequestDies(r) PROVE FatalInv'
  BY <1>13 DEF RequestDies, TypeOK, AttemptKnown, FatalKnown, DeadLettersAreFatal
<1>14. ASSUME NEW r \in Runs, LockLost(r) PROVE FatalInv'
  BY <1>14 DEF LockLost, TypeOK, AttemptKnown, FatalKnown, DeadLettersAreFatal
<1>15. ASSUME NEW w \in Slots, ReadJob(w) PROVE FatalInv'
  BY <1>15 DEF ReadJob, At, JobTerminal, TypeOK, AttemptKnown, FatalKnown, DeadLettersAreFatal
<1>16. ASSUME NEW w \in Slots, BeginAttempt(w) PROVE FatalInv'
  BY <1>16 DEF BeginAttempt, At, ClearRunAfter, TypeOK, AttemptKnown, FatalKnown, DeadLettersAreFatal
<1>17. ASSUME NEW w \in Slots, CheckRun(w) PROVE FatalInv'
  BY <1>17 DEF CheckRun, At, AlreadySucceeded, TypeOK, AttemptKnown, FatalKnown, DeadLettersAreFatal
<1>18. ASSUME NEW w \in Slots, Simulate(w) PROVE FatalInv'
  BY <1>18 DEF Simulate, At, TypeOK, AttemptKnown, FatalKnown, DeadLettersAreFatal
<1>19. ASSUME NEW w \in Slots, StartRun(w) PROVE FatalInv'
  BY <1>19 DEF StartRun, At, TypeOK, AttemptKnown, FatalKnown, DeadLettersAreFatal
<1>20. ASSUME NEW w \in Slots, ExecuteSucceeds(w) PROVE FatalInv'
  BY <1>20 DEF ExecuteSucceeds, At, TypeOK, AttemptKnown, FatalKnown, DeadLettersAreFatal
<1>21. ASSUME NEW w \in Slots, ExecuteFails(w) PROVE FatalInv'
  BY <1>21 DEF ExecuteFails, At, Fails, TypeOK, AttemptKnown, FatalKnown, DeadLettersAreFatal
<1>22. ASSUME NEW w \in Slots, SucceedRun(w) PROVE FatalInv'
  BY <1>22 DEF SucceedRun, At, TypeOK, AttemptKnown, FatalKnown, DeadLettersAreFatal
<1>23. ASSUME NEW w \in Slots, WriteRecords(w) PROVE FatalInv'
  BY <1>23 DEF WriteRecords, At, TypeOK, AttemptKnown, FatalKnown, DeadLettersAreFatal
<1>24. ASSUME NEW w \in Slots, FailRun(w) PROVE FatalInv'
  BY <1>24 DEF FailRun, At, TypeOK, AttemptKnown, FatalKnown, DeadLettersAreFatal
<1>25. ASSUME NEW w \in Slots, SucceedJob(w) PROVE FatalInv'
  BY <1>25 DEF SucceedJob, At, ClearRunAfter, TypeOK, AttemptKnown, FatalKnown, DeadLettersAreFatal
<1>26. ASSUME NEW w \in Slots, RecordRetry(w) PROVE FatalInv'
  BY <1>26 DEF RecordRetry, At, TypeOK, AttemptKnown, FatalKnown, DeadLettersAreFatal
<1>27. ASSUME NEW w \in Slots, DeadLetter(w) PROVE FatalInv'
  <2>1. failure[w] = "fatal" /\ fatal[work[w]]
    BY <1>27, NoAttemptsLeft DEF DeadLetter, At, FatalKnown
  <2> QED BY <1>27, <2>1
          DEF DeadLetter, At, TypeOK, AttemptKnown, FatalKnown, DeadLettersAreFatal
<1>28. ASSUME NEW w \in Slots, ScheduleRetry(w) PROVE FatalInv'
  BY <1>28 DEF ScheduleRetry, At, TypeOK, AttemptKnown, FatalKnown, DeadLettersAreFatal
<1>29. ASSUME NEW w \in Slots, Finish(w) PROVE FatalInv'
  BY <1>29 DEF Finish, At, FreeSlot, AfterAttempt, TypeOK, AttemptKnown, FatalKnown, DeadLettersAreFatal
<1>30. ASSUME NEW w \in Slots, StatementFails(w) PROVE FatalInv'
  <2>0. work[w] \in Runs
    BY <1>30 DEF StatementFails, TypeOK
  <2>1. CASE UNCHANGED <<rowVars, executions>>
    BY <1>30, <2>0, <2>1 DEF StatementFails, Where, Fails, DbFault, TypeOK, AttemptKnown, FatalKnown, DeadLettersAreFatal
  <2>2. CASE pc[w] = "begin" /\ WritesRunning(work[w]) /\ UNCHANGED executions
    BY <1>30, <2>0, <2>2 DEF StatementFails, Where, Fails, DbFault, TypeOK, AttemptKnown, FatalKnown, DeadLettersAreFatal, ClearRunAfter
  <2>3. CASE pc[w] = "start" /\ WritesRun(work[w], "RUNNING") /\ UNCHANGED executions
    BY <1>30, <2>0, <2>3 DEF StatementFails, Where, Fails, DbFault, TypeOK, AttemptKnown, FatalKnown, DeadLettersAreFatal
  <2>4. CASE /\ pc[w] = "executing" /\ UNCHANGED rowVars
            /\ executions' = [executions EXCEPT ![work[w]] = @ + 1]
    BY <1>30, <2>0, <2>4 DEF StatementFails, Where, Fails, DbFault, TypeOK, AttemptKnown, FatalKnown, DeadLettersAreFatal
  <2>5. CASE pc[w] = "runSucceed" /\ WritesRun(work[w], "SUCCEEDED") /\ UNCHANGED executions
    BY <1>30, <2>0, <2>5 DEF StatementFails, Where, Fails, DbFault, TypeOK, AttemptKnown, FatalKnown, DeadLettersAreFatal
  <2>6. CASE pc[w] = "runFail" /\ WritesRun(work[w], "FAILED") /\ UNCHANGED executions
    BY <1>30, <2>0, <2>6 DEF StatementFails, Where, Fails, DbFault, TypeOK, AttemptKnown, FatalKnown, DeadLettersAreFatal
  <2>7. CASE pc[w] = "jobSucceed" /\ WritesSucceeded(work[w]) /\ UNCHANGED executions
    BY <1>30, <2>0, <2>7 DEF StatementFails, Where, Fails, DbFault, TypeOK, AttemptKnown, FatalKnown, DeadLettersAreFatal, ClearRunAfter
  <2>8. CASE pc[w] = "jobFail" /\ WritesRetry(work[w]) /\ UNCHANGED executions
    BY <1>30, <2>0, <2>8 DEF StatementFails, Where, Fails, DbFault, TypeOK, AttemptKnown, FatalKnown, DeadLettersAreFatal
  <2>9. CASE pc[w] = "settle" /\ WritesDeadLetter(w) /\ UNCHANGED executions
    <3>1. failure[w] = "fatal" /\ fatal[work[w]]
      BY <2>0, <2>9, NoAttemptsLeft DEF FatalKnown
    <3> QED BY <1>30, <2>0, <2>9, <3>1
            DEF StatementFails, Where, Fails, DbFault, TypeOK, AttemptKnown, FatalKnown, DeadLettersAreFatal
  <2>10. CASE pc[w] = "settle" /\ WritesRetryDate(w) /\ UNCHANGED executions
    BY <1>30, <2>0, <2>10 DEF StatementFails, Where, Fails, DbFault, TypeOK, AttemptKnown, FatalKnown, DeadLettersAreFatal
  <2> QED BY <1>30, <2>1, <2>2, <2>3, <2>4, <2>5, <2>6, <2>7, <2>8, <2>9, <2>10 DEF StatementFails, LostAnswer
<1>31. ASSUME NEW w \in Slots, WorkerDies(w) PROVE FatalInv'
  BY <1>31 DEF WorkerDies, FreeSlot, TypeOK, AttemptKnown, FatalKnown, DeadLettersAreFatal
<1>32. ASSUME NEW w \in Slots, NEW r \in Runs, Take(w, r) PROVE FatalInv'
  BY <1>32 DEF Take, At, TypeOK, AttemptKnown, FatalKnown, DeadLettersAreFatal
<1>33. CASE UNCHANGED vars
  BY <1>33 DEF vars, TypeOK, AttemptKnown, FatalKnown, DeadLettersAreFatal
<1> QED
  BY <1>1, <1>2, <1>3, <1>4, <1>5, <1>6, <1>7, <1>8, <1>9, <1>10, <1>11,
     <1>12, <1>13, <1>14, <1>15, <1>16, <1>17, <1>18, <1>19, <1>20, <1>21,
     <1>22, <1>23, <1>24, <1>25, <1>26, <1>27, <1>28, <1>29, <1>30, <1>31,
     <1>32, <1>33
     DEF Next, Request, Step

(* A job is only dead-lettered for an unrecoverable error: with attempts: 1*)
(* and at most MaxStalls redeliveries its attempts are never used up.      *)
THEOREM DeadLettersOnlyFatal == Spec => []DeadLettersAreFatal
<1>1. Init => FatalInv
  BY DEF Init, FatalInv, AttemptKnown, FatalKnown, DeadLettersAreFatal
<1>2. Spec => [](TypeOK /\ NotYetQueued)
  BY InitTypes, StepTypes, PTL DEF Spec
<1>3. Spec => []FatalInv
  BY <1>1, <1>2, AttemptsBounded, StepFatal, PTL DEF Spec
<1> QED BY <1>3, PTL DEF FatalInv

-----------------------------------------------------------------------------
(* Final rows.  Unless two slots work on a run, the slot that wrote the     *)
(* final status is done with it, or it wrote SUCCEEDED, lost the answer and *)
(* is about to record a failure; whoever takes the job next only reads.     *)

Unborn == {"new", "creating", "runCreated", "following"}

NotCreated(r) == api[r] \in Unborn => job[r] = "none"

OneAtWork(r) ==
  ~overlapped[r] => \A v, w \in Slots : work[v] = r /\ work[w] = r => v = w

LostSuccess(w, r) ==
  job[r] = "SUCCEEDED" /\ pc[w] \in {"jobFail", "settle"} /\ failure[w] = "recoverable"

FinalIsLeft(r) ==
  \A w \in Slots :
    work[w] = r /\ job[r] \in Final /\ ~overlapped[r] =>
      pc[w] \in {"read", "finish"} \/ LostSuccess(w, r)

\* The attempt of a slot that is alone on its run is the last one counted.
Counted(r) ==
  \A w \in Slots :
    work[w] = r /\ ~overlapped[r] /\ pc[w] \notin {"read", "begin", "finish"} =>
      attempt[w] = attempts[r]

FinalRun(r) == NotCreated(r) /\ OneAtWork(r) /\ FinalIsLeft(r) /\ Counted(r)

FinalInv == \A r \in Runs : FinalRun(r)

\* FinalInv and the property, of one run and one step.
KeptFinal(r) ==
  /\ FinalRun(r)'
  /\ job[r] \in Final /\ ~overlapped[r] /\ api[r] # "enqueueFailed"
     => job'[r] = job[r] \/ \E w \in Slots : TakesBack(w, r)

\* A slot that goes on: not past its read if the job is settled, and with the
\* failure it already has if it is about to take a success back.
GoesOn(w, r) ==
  /\ work[w] = r
  /\ attempt'[w] = attempt[w]
  /\ \/ pc'[w] = pc[w] /\ failure'[w] = failure[w]
     \/ pc'[w] = "finish"
     \/ pc[w] = "read" /\ pc'[w] = "begin" /\ job[r] \notin Final
     \/ pc[w] \notin {"read", "begin", "finish", "jobFail", "settle"}
     \/ pc[w] = "jobFail" /\ pc'[w] = "settle" /\ failure'[w] = failure[w]

\* A step that leaves the job of r and its attempts alone.
Undisturbed(r) ==
  /\ job'[r] = job[r] /\ attempts'[r] = attempts[r]
  /\ overlapped[r] => overlapped'[r]
  /\ \A w \in Slots : work'[w] = r => GoesOn(w, r)
  /\ api'[r] \in Unborn => api[r] \in Unborn

LEMMA UndisturbedKeeps ==
  ASSUME FinalInv, NEW r \in Runs, Undisturbed(r)
  PROVE  KeptFinal(r)
<1>1. NotCreated(r)'
  BY DEF Undisturbed, FinalInv, FinalRun, NotCreated
<1>2. OneAtWork(r)'
  BY DEF Undisturbed, GoesOn, FinalInv, FinalRun, OneAtWork
<1>3. ASSUME NEW w \in Slots, work'[w] = r, job'[r] \in Final, ~overlapped'[r]
      PROVE  pc'[w] \in {"read", "finish"} \/ LostSuccess(w, r)'
  <2>1. GoesOn(w, r) /\ job'[r] = job[r] /\ ~overlapped[r]
    BY <1>3 DEF Undisturbed
  <2>2. pc[w] \in {"read", "finish"} \/ LostSuccess(w, r)
    BY <1>3, <2>1 DEF GoesOn, FinalInv, FinalRun, FinalIsLeft
  <2> QED BY <1>3, <2>1, <2>2 DEF GoesOn, LostSuccess
<1>4. ASSUME NEW w \in Slots, work'[w] = r, ~overlapped'[r],
             pc'[w] \notin {"read", "begin", "finish"}
      PROVE  attempt'[w] = attempts'[r]
  <2>1. GoesOn(w, r) /\ attempts'[r] = attempts[r] /\ ~overlapped[r]
    BY <1>4 DEF Undisturbed
  <2>2. pc[w] \notin {"read", "begin", "finish"}
    BY <1>4, <2>1 DEF GoesOn
  <2> QED BY <2>1, <2>2 DEF GoesOn, FinalInv, FinalRun, Counted
<1>5. job'[r] = job[r]
  BY DEF Undisturbed
<1>6. FinalIsLeft(r)' /\ Counted(r)'
  BY <1>3, <1>4 DEF FinalIsLeft, Counted
<1> QED BY <1>1, <1>2, <1>5, <1>6 DEF KeptFinal, FinalRun

\* A step of slot w that writes the job it works on: it was not settled, or
\* the slot takes its own lost success back.
LEMMA WriteKeeps ==
  ASSUME TypeOK, NotYetQueued, FinalInv, NEW r \in Runs, NEW w \in Slots,
         pc[w] \notin {"idle", "read", "finish"}, NEW status, NEW to,
         job' = [job EXCEPT ![work[w]] = status], pc' = [pc EXCEPT ![w] = to],
         \/ pc[w] \notin {"jobFail", "settle"}
         \/ pc[w] = "settle" /\ failure[w] = "fatal"
         \/ pc[w] = "settle" /\ status = "FAILED",
         \/ status \notin Final \/ to = "finish"
         \/ status = "SUCCEEDED" /\ to = "jobFail" /\ failure'[w] = "recoverable",
         \/ to = "finish"
         \/ attempt'[w] = attempts'[work[w]]
         \/ /\ pc[w] # "begin"
            /\ attempt'[w] = attempt[w] /\ attempts'[work[w]] = attempts[work[w]],
         \A v \in Slots \ {w} : attempt'[v] = attempt[v] /\ failure'[v] = failure[v],
         \A q \in Runs : q # work[w] => attempts'[q] = attempts[q],
         UNCHANGED <<api, overlapped, work>>
  PROVE  KeptFinal(r)
<1>1. work[w] \in Runs
  BY DEF TypeOK
<1>2. CASE work[w] # r
  <2>1. job'[r] = job[r] /\ attempts'[r] = attempts[r]
    BY <1>1, <1>2 DEF TypeOK
  <2>2. ASSUME NEW v \in Slots, work'[v] = r PROVE GoesOn(v, r)
    <3>1. v # w /\ work[v] = r
      BY <1>2, <2>2
    <3>2. pc'[v] = pc[v] /\ attempt'[v] = attempt[v] /\ failure'[v] = failure[v]
      BY <3>1 DEF TypeOK
    <3> QED BY <3>1, <3>2 DEF GoesOn
  <2> QED BY <2>1, <2>2, UndisturbedKeeps DEF Undisturbed
<1>3. CASE work[w] = r
  <2>1. job'[r] = status /\ pc'[w] = to
    BY <1>1, <1>3 DEF TypeOK
  <2>2. api[r] \notin Unborn
    BY <1>3 DEF NotYetQueued, Unqueued, Unborn
  <2>3. OneAtWork(r) /\ FinalIsLeft(r) /\ Counted(r)
    BY DEF FinalInv, FinalRun
  <2>4. NotCreated(r)' /\ OneAtWork(r)'
    BY <2>2, <2>3 DEF NotCreated, OneAtWork
  <2>5. ~overlapped[r] => \A v \in Slots : work[v] = r => v = w
    BY <1>3, <2>3 DEF OneAtWork
  <2>6. FinalIsLeft(r)'
    BY <2>1, <2>5 DEF FinalIsLeft, LostSuccess
  <2>7. ~overlapped[r] /\ to \notin {"read", "begin", "finish"} => attempt'[w] = attempts'[r]
    BY <1>3, <2>3 DEF Counted
  <2>8. Counted(r)'
    BY <2>1, <2>5, <2>7 DEF Counted
  <2>9. ASSUME job[r] \in Final, ~overlapped[r]
        PROVE  TakesBack(w, r)
    <3>1. LostSuccess(w, r) /\ status = "FAILED" /\ pc[w] = "settle"
      BY <1>3, <2>3, <2>9 DEF FinalIsLeft, LostSuccess
    <3>2. attempt[w] = attempts[r]
      BY <1>3, <2>3, <2>9, <3>1 DEF Counted
    <3> QED BY <1>3, <2>1, <3>1, <3>2 DEF TakesBack, LostSuccess
  <2> QED BY <2>4, <2>6, <2>8, <2>9 DEF KeptFinal, FinalRun
<1> QED BY <1>2, <1>3

LEMMA StepFinalJob ==
  ASSUME TypeOK, NotYetQueued, AttemptsWithinDeliveries, AttemptKnown, FinalInv,
         [Next]_vars, NEW r \in Runs
  PROVE  KeptFinal(r)
<1> USE QueueAssumption
<1>1. ASSUME NEW s \in Runs,
             \/ RequestRun(s) \/ TriggerRun(s) \/ CreateRun(s) \/ Enqueue(s) \/ MarkQueued(s)
             \/ CreateFollowUpRun(s) \/ EnqueueFollowUp(s) \/ StalledCheck(s)
             \/ EnqueueThrows(s) \/ RequestDies(s) \/ LockLost(s)
      PROVE  KeptFinal(r)
  <2>1. UNCHANGED <<job, attempts, overlapped, work, pc, attempt, failure>>
    BY <1>1 DEF RequestRun, TriggerRun, CreateRun, Enqueue, MarkQueued,
       CreateFollowUpRun, EnqueueFollowUp, StalledCheck, EnqueueThrows, RequestDies, LockLost
  <2>2. api'[r] \in Unborn => api[r] \in Unborn
    <3>1. CASE RequestRun(s) \/ TriggerRun(s) \/ CreateRun(s) \/ Enqueue(s) \/ MarkQueued(s)
      BY <3>1 DEF RequestRun, TriggerRun, CreateRun, Enqueue, MarkQueued, ApiAt, TypeOK, Unborn
    <3>2. CASE CreateFollowUpRun(s) \/ EnqueueFollowUp(s) \/ StalledCheck(s)
               \/ EnqueueThrows(s) \/ RequestDies(s) \/ LockLost(s)
      BY <3>2 DEF CreateFollowUpRun, EnqueueFollowUp, StalledCheck, EnqueueThrows, RequestDies,
         LockLost, ApiAt, TypeOK, Unborn
    <3> QED BY <1>1, <3>1, <3>2
  <2> QED BY <2>1, <2>2, UndisturbedKeeps DEF Undisturbed, GoesOn
<1>2. ASSUME NEW s \in Runs,
             \/ CreateJob(s) \/ CreateFollowUpJob(s) \/ MarkJobFailed(s)
      PROVE  KeptFinal(r)
  <2>1. PICK status \in {"PENDING", "FAILED"} :
        /\ UNCHANGED <<overlapped, work, pc, attempt, attempts, failure>>
        /\ job' = [job EXCEPT ![s] = status]
        /\ api'[s] \notin Unborn
        /\ api[s] = "enqueueFailed" \/ api[s] \in Unborn
        /\ \A q \in Runs \ {s} : api'[q] = api[q]
    <3>1. CASE CreateJob(s) \/ CreateFollowUpJob(s)
      BY <3>1 DEF CreateJob, CreateFollowUpJob, ApiAt, TypeOK, Unborn
    <3>2. CASE MarkJobFailed(s)
      BY <3>2 DEF MarkJobFailed, ApiAt, TypeOK, Unborn
    <3> QED BY <1>2, <3>1, <3>2
  <2>2. CASE r # s
    BY <2>1, <2>2, UndisturbedKeeps DEF Undisturbed, GoesOn, TypeOK
  <2>3. CASE r = s
    <3>1. job'[r] = status /\ status \notin Final
      BY <2>1, <2>3 DEF Final, TypeOK
    <3>2. FinalRun(r)'
      BY <2>1, <2>3, <3>1 DEF FinalInv, FinalRun, NotCreated, OneAtWork, FinalIsLeft, Counted
    <3>3. api[r] = "enqueueFailed" \/ job[r] \notin Final
      BY <2>1, <2>3 DEF FinalInv, FinalRun, NotCreated, Final
    <3> QED BY <3>2, <3>3 DEF KeptFinal
  <2> QED BY <2>2, <2>3
<1>3. ASSUME NEW w \in Slots, NEW s \in Runs, Take(w, s) PROVE KeptFinal(r)
  <2>1. /\ pc[w] = "idle" /\ pc' = [pc EXCEPT ![w] = "read"]
        /\ UNCHANGED <<api, job, attempts, attempt, failure>>
        /\ work' = [work EXCEPT ![w] = s]
        /\ overlapped' = [overlapped EXCEPT ![s] = overlapped[s] \/ \E v \in Slots : work[v] = s]
    BY <1>3 DEF Take, At
  <2>2. CASE r # s
    <3>1. /\ overlapped'[r] = overlapped[r]
          /\ \A v \in Slots : work'[v] = r => work[v] = r /\ pc'[v] = pc[v]
      BY <2>1, <2>2 DEF TypeOK
    <3> QED BY <2>1, <3>1, UndisturbedKeeps DEF Undisturbed, GoesOn
  <2>3. CASE r = s
    <3>1. ~overlapped'[r] => ~overlapped[r] /\ \A v \in Slots : work[v] # r
      <4>1. overlapped'[r] = (overlapped[r] \/ \E v \in Slots : work[v] = r)
        BY <2>1, <2>3 DEF TypeOK
      <4> QED BY <4>1, Zenon
    <3>2. /\ pc'[w] = "read"
          /\ \A v \in Slots \ {w} : work'[v] = work[v] /\ pc'[v] = pc[v]
      BY <2>1 DEF TypeOK
    <3>3. NotCreated(r)'
      BY <2>1 DEF FinalInv, FinalRun, NotCreated
    <3>4. ~overlapped'[r] => \A v \in Slots : work'[v] = r => v = w /\ pc'[v] = "read"
      BY <3>1, <3>2
    <3>5. OneAtWork(r)' /\ FinalIsLeft(r)' /\ Counted(r)'
      BY <3>4 DEF OneAtWork, FinalIsLeft, Counted
    <3> QED BY <2>1, <3>3, <3>5 DEF KeptFinal, FinalRun
  <2> QED BY <2>2, <2>3
<1>4. ASSUME NEW w \in Slots,
             \/ ReadJob(w) \/ CheckRun(w) \/ Simulate(w) \/ StartRun(w) \/ ExecuteSucceeds(w)
             \/ ExecuteFails(w) \/ SucceedRun(w) \/ WriteRecords(w) \/ FailRun(w) \/ RecordRetry(w)
      PROVE  KeptFinal(r)
  <2>1. UNCHANGED <<api, job, attempts, work, overlapped, attempt>>
    BY <1>4 DEF ReadJob, CheckRun, Simulate, StartRun, ExecuteSucceeds, ExecuteFails, SucceedRun,
       WriteRecords, FailRun, RecordRetry
  <2>2. \A v \in Slots \ {w} : pc'[v] = pc[v] /\ failure'[v] = failure[v]
    BY <1>4 DEF ReadJob, CheckRun, Simulate, StartRun, ExecuteSucceeds, ExecuteFails, SucceedRun,
       WriteRecords, FailRun, RecordRetry, At, Fails, TypeOK
  <2>3. CASE ReadJob(w)
    <3>1. pc[w] = "read" /\ (pc'[w] = "finish" \/ (pc'[w] = "begin" /\ job[work[w]] \notin Final))
      BY <2>3 DEF ReadJob, At, JobTerminal, Final, TypeOK
    <3> QED BY <2>1, <2>2, <3>1, UndisturbedKeeps DEF Undisturbed, GoesOn
  <2>4. CASE RecordRetry(w)
    <3>1. pc[w] = "jobFail" /\ pc'[w] = "settle" /\ failure' = failure
      BY <2>4 DEF RecordRetry, At, TypeOK
    <3> QED BY <2>1, <2>2, <3>1, UndisturbedKeeps DEF Undisturbed, GoesOn
  <2>5. CASE ~ReadJob(w) /\ ~RecordRetry(w)
    <3>1. pc[w] \notin {"read", "begin", "finish", "jobFail", "settle"}
      BY <1>4, <2>5 DEF CheckRun, Simulate, StartRun, ExecuteSucceeds, ExecuteFails, SucceedRun,
         WriteRecords, FailRun, At
    <3> QED BY <2>1, <2>2, <3>1, UndisturbedKeeps DEF Undisturbed, GoesOn
  <2> QED BY <2>3, <2>4, <2>5
<1>5. ASSUME NEW w \in Slots, BeginAttempt(w) PROVE KeptFinal(r)
  <2>1. /\ job' = [job EXCEPT ![work[w]] = "RUNNING"] /\ pc' = [pc EXCEPT ![w] = "check"]
        /\ UNCHANGED <<api, overlapped, work, failure>> /\ pc[w] = "begin"
    BY <1>5 DEF BeginAttempt, At
  <2>2. /\ attempt'[w] = attempts'[work[w]]
        /\ \A v \in Slots \ {w} : attempt'[v] = attempt[v]
        /\ \A q \in Runs : q # work[w] => attempts'[q] = attempts[q]
    BY <1>5 DEF BeginAttempt, At, TypeOK
  <2> QED BY <2>1, <2>2, WriteKeeps DEF Final
<1>6. ASSUME NEW w \in Slots, SucceedJob(w) PROVE KeptFinal(r)
  <2>1. /\ job' = [job EXCEPT ![work[w]] = "SUCCEEDED"] /\ pc' = [pc EXCEPT ![w] = "finish"]
        /\ UNCHANGED <<api, overlapped, work, attempt, attempts, failure>> /\ pc[w] = "jobSucceed"
    BY <1>6 DEF SucceedJob, At
  <2> QED BY <2>1, WriteKeeps
<1>7. ASSUME NEW w \in Slots, DeadLetter(w) PROVE KeptFinal(r)
  <2>1. /\ job' = [job EXCEPT ![work[w]] = "DEAD_LETTERED"] /\ pc' = [pc EXCEPT ![w] = "finish"]
        /\ UNCHANGED <<api, overlapped, work, attempt, attempts, failure>> /\ pc[w] = "settle"
    BY <1>7 DEF DeadLetter, At
  <2>2. failure[w] = "fatal"
    BY <1>7, <2>1, NoAttemptsLeft DEF DeadLetter
  <2> QED BY <2>1, <2>2, WriteKeeps
<1>8. ASSUME NEW w \in Slots, ScheduleRetry(w) PROVE KeptFinal(r)
  <2>1. /\ job' = [job EXCEPT ![work[w]] = "FAILED"] /\ pc' = [pc EXCEPT ![w] = "finish"]
        /\ UNCHANGED <<api, overlapped, work, attempt, attempts, failure>> /\ pc[w] = "settle"
    BY <1>8 DEF ScheduleRetry, At
  <2> QED BY <2>1, WriteKeeps DEF Final
<1>9. ASSUME NEW w \in Slots, Finish(w) \/ WorkerDies(w) PROVE KeptFinal(r)
  <2>1. /\ UNCHANGED <<api, job, attempts, overlapped>> /\ work' = [work EXCEPT ![w] = Nobody]
        /\ pc' = [pc EXCEPT ![w] = "idle"] /\ attempt' = [attempt EXCEPT ![w] = 0]
        /\ failure' = [failure EXCEPT ![w] = "none"]
    BY <1>9 DEF Finish, WorkerDies, At, FreeSlot
  <2>2. \A v \in Slots : work'[v] = r =>
          work[v] = r /\ pc'[v] = pc[v] /\ attempt'[v] = attempt[v] /\ failure'[v] = failure[v]
    BY <2>1 DEF TypeOK
  <2> QED BY <2>1, <2>2, UndisturbedKeeps DEF Undisturbed, GoesOn
<1>10. ASSUME NEW w \in Slots, StatementFails(w) PROVE KeptFinal(r)
  <2>1. /\ UNCHANGED <<api, work, overlapped, attempt>>
        /\ pc' = [pc EXCEPT ![w] = Where(pc[w])] /\ pc[w] \notin {"idle", "finish"}
        /\ failure' = [failure EXCEPT ![w] =
                         IF Where(pc[w]) = "finish" THEN failure[w] ELSE "recoverable"]
    BY <1>10 DEF StatementFails, Fails
  <2>2. /\ pc[w] \in {"read", "begin", "jobFail", "settle"} => Where(pc[w]) = "finish"
        /\ pc[w] = "jobSucceed" => Where(pc[w]) = "jobFail"
    BY DEF Where
  <2>3. /\ pc'[w] = Where(pc[w])
        /\ \A v \in Slots \ {w} : pc'[v] = pc[v] /\ failure'[v] = failure[v]
    BY <2>1 DEF TypeOK
  <2>4. CASE UNCHANGED <<job, attempts>>
    BY <2>1, <2>2, <2>3, <2>4, UndisturbedKeeps DEF Undisturbed, GoesOn, TypeOK
  <2>5. CASE pc[w] = "begin" /\ WritesRunning(work[w])
    <3>1. \A q \in Runs : q # work[w] => attempts'[q] = attempts[q]
      BY <2>5 DEF TypeOK
    <3>2. pc' = [pc EXCEPT ![w] = "finish"] /\ job' = [job EXCEPT ![work[w]] = "RUNNING"]
      BY <2>1, <2>2, <2>5
    <3>3. /\ UNCHANGED <<api, work, overlapped, attempt>> /\ pc[w] = "begin"
          /\ \A v \in Slots \ {w} : failure'[v] = failure[v]
      BY <2>1, <2>3, <2>5
    <3> QED BY <3>1, <3>2, <3>3, WriteKeeps
  <2>6. CASE pc[w] = "jobSucceed" /\ WritesSucceeded(work[w])
    <3>1. pc' = [pc EXCEPT ![w] = "jobFail"] /\ job' = [job EXCEPT ![work[w]] = "SUCCEEDED"]
      BY <2>1, <2>2, <2>6
    <3>2. failure'[w] = "recoverable"
      BY <2>1, <2>2, <2>6 DEF TypeOK
    <3>3. /\ UNCHANGED <<api, work, overlapped, attempt, attempts>> /\ pc[w] = "jobSucceed"
          /\ \A v \in Slots \ {w} : failure'[v] = failure[v]
      BY <2>1, <2>3, <2>6
    <3> QED BY <3>1, <3>2, <3>3, WriteKeeps
  <2>7. CASE pc[w] = "settle" /\ WritesDeadLetter(w)
    <3>1. Where(pc[w]) = "finish" /\ job' = [job EXCEPT ![work[w]] = "DEAD_LETTERED"]
      BY <2>2, <2>7
    <3>2. failure[w] = "fatal"
      BY <2>7, NoAttemptsLeft
    <3> QED BY <2>1, <2>3, <2>7, <3>1, <3>2, WriteKeeps
  <2>8. CASE pc[w] = "settle" /\ WritesRetryDate(w)
    <3>1. Where(pc[w]) = "finish" /\ job' = [job EXCEPT ![work[w]] = "FAILED"]
      BY <2>2, <2>8
    <3> QED BY <2>1, <2>3, <2>8, <3>1, WriteKeeps
  <2> QED BY <1>10, <2>4, <2>5, <2>6, <2>7, <2>8 DEF StatementFails, LostAnswer
<1>11. CASE UNCHANGED vars
  <2>1. UNCHANGED <<api, job, attempts, work, overlapped, pc, attempt, failure>>
    BY <1>11 DEF vars
  <2> QED BY <2>1, UndisturbedKeeps DEF Undisturbed, GoesOn
<1> QED
  BY <1>1, <1>2, <1>3, <1>4, <1>5, <1>6, <1>7, <1>8, <1>9, <1>10, <1>11
     DEF Next, Request, Step

LEMMA AttemptsAreKnown == Spec => [](AttemptsWithinDeliveries /\ AttemptKnown)
<1>1. Init => FatalInv
  BY DEF Init, FatalInv, AttemptKnown, FatalKnown, DeadLettersAreFatal
<1>2. Spec => [](TypeOK /\ NotYetQueued)
  BY InitTypes, StepTypes, PTL DEF Spec
<1>3. FatalInv => AttemptKnown
  BY DEF FatalInv
<1> QED BY <1>1, <1>2, <1>3, AttemptsBounded, StepFatal, PTL DEF Spec

LEMMA FinalInvHolds == Spec => [](TypeOK /\ NotYetQueued /\ FinalInv)
<1>1. Init => FinalInv
  BY QueueAssumption
     DEF Init, FinalInv, FinalRun, NotCreated, OneAtWork, FinalIsLeft, Counted, Final
<1>2. TypeOK /\ NotYetQueued /\ AttemptsWithinDeliveries /\ AttemptKnown /\ FinalInv /\ [Next]_vars
        => FinalInv'
  BY StepFinalJob DEF KeptFinal, FinalInv
<1> QED BY <1>1, <1>2, InitTypes, StepTypes, AttemptsAreKnown, PTL DEF Spec

(* SUCCEEDED and DEAD_LETTERED are final for a WorkflowJob, however often  *)
(* it is delivered and whatever statement fails, unless two slots work on  *)
(* it at once or the request that enqueued it is about to mark it FAILED:  *)
(* only the attempt that wrote SUCCEEDED without learning it undoes it.    *)
THEOREM FinalRowsStay == Spec => FinalJobStaysFinal
<1>1. TypeOK /\ NotYetQueued /\ AttemptsWithinDeliveries /\ AttemptKnown /\ FinalInv /\ [Next]_vars =>
        [\A r \in Runs :
           job[r] \in Final /\ ~overlapped[r] /\ api[r] # "enqueueFailed"
           => job'[r] = job[r] \/ \E w \in Slots : TakesBack(w, r)]_vars
  BY StepFinalJob DEF KeptFinal
<1> QED BY <1>1, FinalInvHolds, AttemptsAreKnown, PTL DEF Spec, FinalJobStaysFinal
=============================================================================
