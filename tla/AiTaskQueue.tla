---------------------------- MODULE AiTaskQueue ----------------------------
(***************************************************************************)
(* AI task runs from the request to the dead-letter table: the API creates *)
(* an AiTaskRun row, a WorkflowJob row and a BullMQ job                    *)
(* (ai-orchestration.service.ts, async-jobs.service.ts), worker processes  *)
(* execute it (apps/worker/src/index.ts) and the orchestrator keeps the    *)
(* AiTaskRun in step (ai-task-execution-orchestrator.ts).  The two rows,   *)
(* the queue and the two processes share no transaction.                   *)
(*                                                                         *)
(* One action is one database or queue statement.  BullMQ is external: a   *)
(* job whose lock is not renewed is delivered once more, then failed.      *)
(***************************************************************************)
EXTENDS Naturals, FiniteSets

CONSTANTS
  Runs,         (* requests for a task run of one application and task type*)
  Simulated,    (* those of a type the orchestrator does not support       *)
  FollowUps,    (* those a finished CV parse asks for, in the worker       *)
  Slots,        (* worker processes, one job at a time each                *)
  MaxAttempts,  (* maxAttempts of the job type's policy                    *)
  MaxStalls,    (* BullMQ's maxStalledCount, 1 by default                  *)
  MaxDbFaults,  (* bound: statements that fail                             *)
  MaxStops,     (* bound: processes that die or stall                      *)
  Nobody        (* null for the lock holder and for an idle slot's job     *)

ASSUME QueueAssumption ==
  /\ MaxAttempts \in Nat
  /\ MaxStalls \in Nat
  /\ MaxStalls + 1 < MaxAttempts      \* every policy allows 3 attempts or more
  /\ MaxDbFaults \in Nat
  /\ MaxStops \in Nat
  /\ Simulated \subseteq Runs
  /\ FollowUps \subseteq Runs \ Simulated
  /\ IsFiniteSet(Slots)
  /\ Nobody \notin Slots
  /\ Nobody \notin Runs

VARIABLES
  api,          (* control point of the request that creates the run       *)
  run,          (* AiTaskRun.status                                        *)
  job,          (* WorkflowJob.status                                      *)
  attempts,     (* WorkflowJob.attempts                                    *)
  runAfter,     (* WorkflowJob.runAfter is set                             *)
  retries,      (* WorkflowRetry rows of the job                           *)
  dead,         (* DeadLetterJob rows of the job                           *)
  queued,       (* the BullMQ job: absent, waiting, active or gone         *)
  holder,       (* the slot whose lock on the BullMQ job is valid          *)
  stalls,       (* times the BullMQ job was found stalled                  *)
  pc, work, attempt, failure,  (* slots: control point, run, attempt, error*)
  executions,   (* history: artifacts the task services produced           *)
  fatal,        (* history: an unrecoverable error was raised for the run  *)
  overlapped,   (* history: delivered again while a slot still worked on it*)
  dbFaults, stops

rowVars == <<run, job, attempts, runAfter, retries, dead>>
queueVars == <<queued, holder, stalls>>
slotVars == <<pc, work, attempt, failure>>
histVars == <<executions, fatal, overlapped>>
faultVars == <<dbFaults, stops>>
vars == <<api, rowVars, queueVars, slotVars, histVars, faultVars>>

RunStatuses == {"none", "PENDING", "QUEUED", "RUNNING", "SUCCEEDED", "FAILED"}
JobStatuses == {"none", "PENDING", "RUNNING", "SUCCEEDED", "FAILED",
                "DEAD_LETTERED"}
ApiPoints == {"new", "creating", "runCreated", "jobCreated", "enqueueFailed",
              "enqueued", "done", "duplicate", "failed", "rejected",
              "following", "jobFirst", "runSecond"}
Points == {"idle", "read", "begin", "check", "start", "executing",
           "simulating", "runSucceed", "records", "runFail", "jobSucceed",
           "jobFail", "settle", "finish"}
Failures == {"none", "recoverable", "fatal"}

Active == {r \in Runs \ Simulated : run[r] \in {"PENDING", "QUEUED", "RUNNING"}}

-----------------------------------------------------------------------------
Init ==
  /\ api = [r \in Runs |-> "new"]
  /\ run = [r \in Runs |-> "none"]
  /\ job = [r \in Runs |-> "none"]
  /\ attempts = [r \in Runs |-> 0]
  /\ runAfter = [r \in Runs |-> FALSE]
  /\ retries = [r \in Runs |-> 0]
  /\ dead = [r \in Runs |-> 0]
  /\ queued = [r \in Runs |-> "absent"]
  /\ holder = [r \in Runs |-> Nobody]
  /\ stalls = [r \in Runs |-> 0]
  /\ pc = [w \in Slots |-> "idle"]
  /\ work = [w \in Slots |-> Nobody]
  /\ attempt = [w \in Slots |-> 0]
  /\ failure = [w \in Slots |-> "none"]
  /\ executions = [r \in Runs |-> 0]
  /\ fatal = [r \in Runs |-> FALSE]
  /\ overlapped = [r \in Runs |-> FALSE]
  /\ dbFaults = 0
  /\ stops = 0

DbFault == dbFaults < MaxDbFaults /\ dbFaults' = dbFaults + 1
ApiAt(r, from, to) == api[r] = from /\ api' = [api EXCEPT ![r] = to]

-----------------------------------------------------------------------------
(* The API request.                                                        *)

(* POST /ai/task-runs and the automation rules ask for a run at once...    *)
RequestRun(r) ==
  /\ r \notin FollowUps
  /\ ApiAt(r, "new", "creating")
  /\ UNCHANGED <<rowVars, queueVars, slotVars, histVars, faultVars>>

(* ...screening.trigger, triggerCvParsing and the worker's follow-ups leave*)
(* it at the active run, if the query finds one.                           *)
TriggerRun(r) ==
  /\ r \notin Simulated
  /\ ApiAt(r, "new", IF Active # {} THEN "duplicate"
                     ELSE IF r \in FollowUps THEN "following" ELSE "creating")
  /\ UNCHANGED <<rowVars, queueVars, slotVars, histVars, faultVars>>

CreateRun(r) ==
  /\ ApiAt(r, "creating", "runCreated")
  /\ run' = [run EXCEPT ![r] = "PENDING"]
  /\ UNCHANGED <<job, attempts, runAfter, retries, dead, queueVars, slotVars,
                 histVars, faultVars>>

CreateJob(r) ==
  /\ ApiAt(r, "runCreated", "jobCreated")
  /\ job' = [job EXCEPT ![r] = "PENDING"]
  /\ UNCHANGED <<run, attempts, runAfter, retries, dead, queueVars, slotVars,
                 histVars, faultVars>>

Enqueue(r) ==
  /\ ApiAt(r, "jobCreated", "enqueued")
  /\ queued' = [queued EXCEPT ![r] = "waiting"]
  /\ UNCHANGED <<rowVars, holder, stalls, slotVars, histVars, faultVars>>

(* queue.add throws; the job may have reached Redis all the same.          *)
EnqueueThrows(r) ==
  /\ ApiAt(r, "jobCreated", "enqueueFailed")
  /\ DbFault
  /\ queued' \in {queued, [queued EXCEPT ![r] = "waiting"]}
  /\ UNCHANGED <<rowVars, holder, stalls, slotVars, histVars, stops>>

MarkJobFailed(r) ==
  /\ ApiAt(r, "enqueueFailed", "rejected")
  /\ job' = [job EXCEPT ![r] = "FAILED"]
  /\ UNCHANGED <<run, attempts, runAfter, retries, dead, queueVars, slotVars,
                 histVars, faultVars>>

(* The status written once the job is enqueued, whatever it is by now.     *)
MarkQueued(r) ==
  /\ ApiAt(r, "enqueued", "done")
  /\ run' = [run EXCEPT ![r] = "QUEUED"]
  /\ UNCHANGED <<job, attempts, runAfter, retries, dead, queueVars, slotVars,
                 histVars, faultVars>>

(* enqueueAiTaskRunIfNeeded goes the other way round: the job row first,   *)
(* then a run that is QUEUED before it is queued, and no catch.            *)
CreateFollowUpJob(r) ==
  /\ ApiAt(r, "following", "jobFirst")
  /\ job' = [job EXCEPT ![r] = "PENDING"]
  /\ UNCHANGED <<run, attempts, runAfter, retries, dead, queueVars, slotVars,
                 histVars, faultVars>>

CreateFollowUpRun(r) ==
  /\ ApiAt(r, "jobFirst", "runSecond")
  /\ run' = [run EXCEPT ![r] = "QUEUED"]
  /\ UNCHANGED <<job, attempts, runAfter, retries, dead, queueVars, slotVars,
                 histVars, faultVars>>

EnqueueFollowUp(r) ==
  /\ ApiAt(r, "runSecond", "done")
  /\ queued' = [queued EXCEPT ![r] = "waiting"]
  /\ UNCHANGED <<rowVars, holder, stalls, slotVars, histVars, faultVars>>

(* The request ends early: a statement fails or the API process dies.      *)
RequestDies(r) ==
  /\ api[r] \in {"creating", "runCreated", "jobCreated", "enqueueFailed",
                 "enqueued", "following", "jobFirst", "runSecond"}
  /\ api' = [api EXCEPT ![r] = "failed"]
  /\ stops < MaxStops
  /\ stops' = stops + 1
  /\ UNCHANGED <<rowVars, queueVars, slotVars, histVars, dbFaults>>

-----------------------------------------------------------------------------
(* A worker slot.                                                          *)

At(w, from, to) == pc[w] = from /\ pc' = [pc EXCEPT ![w] = to]

Take(w, r) ==
  /\ At(w, "idle", "read")
  /\ queued[r] = "waiting"
  /\ queued' = [queued EXCEPT ![r] = "active"]
  /\ holder' = [holder EXCEPT ![r] = w]
  /\ work' = [work EXCEPT ![w] = r]
  /\ overlapped' = [overlapped EXCEPT ![r] = @ \/ \E v \in Slots : work[v] = r]
  /\ UNCHANGED <<api, rowVars, stalls, attempt, failure, executions, fatal,
                 faultVars>>

(* Mutants: a job delivered again is run again, or not even when its       *)
(* attempt died half way.                                                  *)
M_NeverTerminal(s) == FALSE
M_RunningIsTerminal(s) == s \in {"RUNNING", "SUCCEEDED", "DEAD_LETTERED"}

(* The statuses handleJob skips.                                           *)
JobTerminal(s) == s \in {"SUCCEEDED", "DEAD_LETTERED"}

ReadJob(w) ==
  /\ At(w, "read", IF JobTerminal(job[work[w]]) THEN "finish" ELSE "begin")
  /\ UNCHANGED <<api, rowVars, queueVars, work, attempt, failure, histVars,
                 faultVars>>

ClearRunAfter(r) == [runAfter EXCEPT ![r] = FALSE]

(* The statements of an attempt, by what they write.                       *)
WritesRunning(r) ==
  /\ job' = [job EXCEPT ![r] = "RUNNING"]
  /\ attempts' = [attempts EXCEPT ![r] = @ + 1]
  /\ runAfter' = ClearRunAfter(r)
  /\ UNCHANGED <<run, retries, dead>>

WritesRun(r, status) ==
  /\ run' = [run EXCEPT ![r] = status]
  /\ UNCHANGED <<job, attempts, runAfter, retries, dead>>

WritesSucceeded(r) ==
  /\ job' = [job EXCEPT ![r] = "SUCCEEDED"]
  /\ runAfter' = ClearRunAfter(r)
  /\ UNCHANGED <<run, attempts, retries, dead>>

WritesRetry(r) ==
  /\ retries' = [retries EXCEPT ![r] = @ + 1]
  /\ UNCHANGED <<run, job, attempts, runAfter, dead>>

BeginAttempt(w) ==
  /\ At(w, "begin", "check")
  /\ WritesRunning(work[w])
  /\ attempt' = [attempt EXCEPT ![w] = attempts[work[w]] + 1]
  /\ UNCHANGED <<api, queueVars, work, failure, histVars, faultVars>>

(* Mutant: a run that was started once is taken for done.                  *)
M_StartedIsDone(s) == s \in {"RUNNING", "SUCCEEDED"}

AlreadySucceeded(s) == s = "SUCCEEDED"

(* maybeSkipAlreadySucceededTask, then the choice of the executor.         *)
CheckRun(w) ==
  /\ At(w, "check", IF AlreadySucceeded(run[work[w]]) THEN "jobSucceed"
                    ELSE IF work[w] \in Simulated THEN "simulating" ELSE "start")
  /\ UNCHANGED <<api, rowVars, queueVars, work, attempt, failure, histVars,
                 faultVars>>

(* simulateWork: the job succeeds and no AiTaskRun is touched.             *)
Simulate(w) ==
  /\ At(w, "simulating", "jobSucceed")
  /\ UNCHANGED <<api, rowVars, queueVars, work, attempt, failure, histVars,
                 faultVars>>

StartRun(w) ==
  /\ At(w, "start", "executing")
  /\ WritesRun(work[w], "RUNNING")
  /\ UNCHANGED <<api, queueVars, work, attempt, failure, histVars, faultVars>>

Fails(w, f) == failure' = [failure EXCEPT ![w] = f]

(* The task service stores its artifact (a parsed CV, a report, a score).  *)
ExecuteSucceeds(w) ==
  /\ At(w, "executing", "runSucceed")
  /\ executions' = [executions EXCEPT ![work[w]] = @ + 1]
  /\ UNCHANGED <<api, rowVars, queueVars, work, attempt, failure, fatal,
                 overlapped, faultVars>>

(* Or raises an error, which says whether it is recoverable.               *)
ExecuteFails(w) ==
  /\ At(w, "executing", "runFail")
  /\ \/ Fails(w, "recoverable") /\ UNCHANGED fatal
     \/ Fails(w, "fatal") /\ fatal' = [fatal EXCEPT ![work[w]] = TRUE]
  /\ UNCHANGED <<api, rowVars, queueVars, work, attempt, executions, overlapped,
                 faultVars>>

SucceedRun(w) ==
  /\ At(w, "runSucceed", "records")
  /\ WritesRun(work[w], "SUCCEEDED")
  /\ UNCHANGED <<api, queueVars, work, attempt, failure, histVars, faultVars>>

(* Audit, domain events and lifecycle records of the success.              *)
WriteRecords(w) ==
  /\ At(w, "records", "jobSucceed")
  /\ UNCHANGED <<api, rowVars, queueVars, work, attempt, failure, histVars,
                 faultVars>>

FailRun(w) ==
  /\ At(w, "runFail", "jobFail")
  /\ WritesRun(work[w], "FAILED")
  /\ UNCHANGED <<api, queueVars, work, attempt, failure, histVars, faultVars>>

SucceedJob(w) ==
  /\ At(w, "jobSucceed", "finish")
  /\ WritesSucceeded(work[w])
  /\ UNCHANGED <<api, queueVars, work, attempt, failure, histVars, faultVars>>

RecordRetry(w) ==
  /\ At(w, "jobFail", "settle")
  /\ WritesRetry(work[w])
  /\ UNCHANGED <<api, queueVars, work, attempt, failure, histVars, faultVars>>

(* Mutant: every failure is dead-lettered one attempt too early.           *)
M_DeadLetterEarly(w) == attempt[w] + 1 >= MaxAttempts \/ failure[w] = "fatal"

ShouldDeadLetter(w) == attempt[w] >= MaxAttempts \/ failure[w] = "fatal"

WritesDeadLetter(w) ==
  LET r == work[w] IN
  /\ ShouldDeadLetter(w)
  /\ job' = [job EXCEPT ![r] = "DEAD_LETTERED"]
  /\ dead' = [dead EXCEPT ![r] = @ + 1]
  /\ UNCHANGED <<run, attempts, runAfter, retries>>

WritesRetryDate(w) ==
  LET r == work[w] IN
  /\ ~ShouldDeadLetter(w)
  /\ job' = [job EXCEPT ![r] = "FAILED"]
  /\ runAfter' = [runAfter EXCEPT ![r] = TRUE]
  /\ UNCHANGED <<run, attempts, retries, dead>>

DeadLetter(w) ==
  /\ At(w, "settle", "finish")
  /\ WritesDeadLetter(w)
  /\ UNCHANGED <<api, queueVars, work, attempt, failure, histVars, faultVars>>

ScheduleRetry(w) ==
  /\ At(w, "settle", "finish")
  /\ WritesRetryDate(w)
  /\ UNCHANGED <<api, queueVars, work, attempt, failure, histVars, faultVars>>

FreeSlot(w) ==
  /\ work' = [work EXCEPT ![w] = Nobody]
  /\ attempt' = [attempt EXCEPT ![w] = 0]
  /\ failure' = [failure EXCEPT ![w] = "none"]

(* Mutant: the job is queued with BullMQ's own retries.                    *)
(* attempts: 1 in queue.add: a failed job is not delivered again.          *)
AfterAttempt(w) == "gone"

(* BullMQ completes or fails the job if the slot still holds its lock.     *)
Finish(w) ==
  LET r == work[w] IN
  /\ At(w, "finish", "idle")
  /\ \/ /\ holder[r] = w
        /\ queued' = [queued EXCEPT ![r] = AfterAttempt(w)]
        /\ holder' = [holder EXCEPT ![r] = Nobody]
     \/ holder[r] # w /\ UNCHANGED <<queued, holder>>
  /\ FreeSlot(w)
  /\ UNCHANGED <<api, rowVars, stalls, histVars, faultVars>>

-----------------------------------------------------------------------------
(* Statements that fail.  Inside the try of the orchestrator they end in   *)
(* FailRun, inside that of handleJob in RecordRetry, elsewhere they end    *)
(* the delivery with the rows as they are.                                 *)
Where(p) ==
  CASE p \in {"executing", "runSucceed", "records"} -> "runFail"
    [] p \in {"check", "start", "simulating", "runFail", "jobSucceed"} -> "jobFail"
    [] p \in {"read", "begin", "jobFail", "settle"} -> "finish"

(* A statement that was committed although its answer was lost.  The task  *)
(* service's own last write is one of them, and so are the records that    *)
(* follow an update.                                                       *)
LostAnswer(w) ==
  LET r == work[w] IN
  \/ pc[w] = "begin" /\ WritesRunning(r) /\ UNCHANGED executions
  \/ pc[w] = "start" /\ WritesRun(r, "RUNNING") /\ UNCHANGED executions
  \/ /\ pc[w] = "executing"
     /\ executions' = [executions EXCEPT ![r] = @ + 1]
     /\ UNCHANGED rowVars
  \/ pc[w] = "runSucceed" /\ WritesRun(r, "SUCCEEDED") /\ UNCHANGED executions
  \/ pc[w] = "runFail" /\ WritesRun(r, "FAILED") /\ UNCHANGED executions
  \/ pc[w] = "jobSucceed" /\ WritesSucceeded(r) /\ UNCHANGED executions
  \/ pc[w] = "jobFail" /\ WritesRetry(r) /\ UNCHANGED executions
  \/ pc[w] = "settle" /\ WritesDeadLetter(w) /\ UNCHANGED executions
  \/ pc[w] = "settle" /\ WritesRetryDate(w) /\ UNCHANGED executions

StatementFails(w) ==
  /\ pc[w] \notin {"idle", "finish"}
  /\ DbFault
  /\ pc' = [pc EXCEPT ![w] = Where(pc[w])]
  /\ Fails(w, IF Where(pc[w]) = "finish" THEN failure[w] ELSE "recoverable")
  /\ UNCHANGED <<rowVars, executions>> \/ LostAnswer(w)
  /\ UNCHANGED <<api, queueVars, work, attempt, fatal, overlapped, stops>>

(* The worker process dies: its lock runs out without a holder.            *)
WorkerDies(w) ==
  LET r == work[w] IN
  /\ pc[w] # "idle"
  /\ stops < MaxStops
  /\ stops' = stops + 1
  /\ pc' = [pc EXCEPT ![w] = "idle"]
  /\ holder' = [holder EXCEPT ![r] = IF @ = w THEN Nobody ELSE @]
  /\ FreeSlot(w)
  /\ UNCHANGED <<api, rowVars, queued, stalls, histVars, dbFaults>>

(* The lock of a live worker is not renewed in time (a blocked event loop, *)
(* a Redis outage): the worker goes on, without the lock.                  *)
LockLost(r) ==
  /\ queued[r] = "active"
  /\ holder[r] # Nobody
  /\ stops < MaxStops
  /\ stops' = stops + 1
  /\ holder' = [holder EXCEPT ![r] = Nobody]
  /\ UNCHANGED <<api, rowVars, queued, stalls, slotVars, histVars, dbFaults>>

(* BullMQ's stalled check: delivered again, or failed for good.            *)
StalledCheck(r) ==
  /\ queued[r] = "active"
  /\ holder[r] = Nobody
  /\ IF stalls[r] < MaxStalls
     THEN /\ queued' = [queued EXCEPT ![r] = "waiting"]
          /\ stalls' = [stalls EXCEPT ![r] = @ + 1]
     ELSE /\ queued' = [queued EXCEPT ![r] = "gone"]
          /\ UNCHANGED stalls
  /\ UNCHANGED <<api, rowVars, holder, slotVars, histVars, faultVars>>

-----------------------------------------------------------------------------
Request(r) ==
  \/ RequestRun(r) \/ TriggerRun(r) \/ CreateRun(r) \/ CreateJob(r) \/ Enqueue(r)
  \/ MarkJobFailed(r) \/ MarkQueued(r)
  \/ CreateFollowUpJob(r) \/ CreateFollowUpRun(r) \/ EnqueueFollowUp(r)

Step(w) ==
  \/ \E r \in Runs : Take(w, r)
  \/ ReadJob(w) \/ BeginAttempt(w) \/ CheckRun(w) \/ Simulate(w) \/ StartRun(w)
  \/ ExecuteSucceeds(w) \/ ExecuteFails(w) \/ SucceedRun(w) \/ WriteRecords(w)
  \/ FailRun(w) \/ SucceedJob(w) \/ RecordRetry(w)
  \/ DeadLetter(w) \/ ScheduleRetry(w) \/ Finish(w)

Next ==
  \/ \E r \in Runs :
       \/ Request(r) \/ StalledCheck(r)
       \/ EnqueueThrows(r) \/ RequestDies(r) \/ LockLost(r)
  \/ \E w \in Slots : Step(w) \/ StatementFails(w) \/ WorkerDies(w)

Spec == Init /\ [][Next]_vars

(* Requests run to their end, workers poll and execute, BullMQ checks for  *)
(* stalled jobs.  Nothing forces a fault.                                  *)
Fairness ==
  /\ \A r \in Runs : WF_vars(Request(r)) /\ WF_vars(StalledCheck(r))
  /\ \A w \in Slots : WF_vars(Step(w))

FairSpec == Spec /\ Fairness

-----------------------------------------------------------------------------
Final == {"SUCCEEDED", "DEAD_LETTERED"}
Busy(r) == \E w \in Slots : work[w] = r

(* Types, and what ties the processes together: a slot is busy exactly     *)
(* while it works on a run, and the holder of a BullMQ lock is the slot    *)
(* that works on the job while the job is active; a date for the next      *)
(* attempt is only left on a row whose attempt failed.                     *)
TypeOK ==
  /\ api \in [Runs -> ApiPoints]
  /\ run \in [Runs -> RunStatuses]
  /\ job \in [Runs -> JobStatuses]
  /\ attempts \in [Runs -> Nat]
  /\ runAfter \in [Runs -> BOOLEAN]
  /\ retries \in [Runs -> Nat]
  /\ dead \in [Runs -> Nat]
  /\ queued \in [Runs -> {"absent", "waiting", "active", "gone"}]
  /\ holder \in [Runs -> Slots \union {Nobody}]
  /\ stalls \in [Runs -> 0..MaxStalls]
  /\ pc \in [Slots -> Points]
  /\ work \in [Slots -> Runs \union {Nobody}]
  /\ attempt \in [Slots -> Nat]
  /\ failure \in [Slots -> Failures]
  /\ executions \in [Runs -> Nat]
  /\ fatal \in [Runs -> BOOLEAN]
  /\ overlapped \in [Runs -> BOOLEAN]
  /\ dbFaults \in 0..MaxDbFaults
  /\ stops \in 0..MaxStops
  /\ \A w \in Slots : (pc[w] = "idle") <=> (work[w] = Nobody)
  /\ \A r \in Runs : holder[r] # Nobody =>
       queued[r] = "active" /\ work[holder[r]] = r
  /\ \A r \in Runs : runAfter[r] => job[r] \in {"FAILED", "DEAD_LETTERED"}

(* The maxAttempts budget of the job type is never spent: with attempts: 1 *)
(* a WorkflowJob is attempted once, and once more for each stalled         *)
(* delivery.                                                               *)
AttemptsWithinDeliveries ==
  \A r \in Runs : attempts[r] <= 1 + stalls[r]

(* So a job is only dead-lettered for an unrecoverable error, never for    *)
(* the attempts it used up.                                                *)
DeadLettersAreFatal ==
  \A r \in Runs : job[r] = "DEAD_LETTERED" \/ dead[r] > 0 => fatal[r]

(* Success is never reported for work nobody did: a succeeded run, and a   *)
(* succeeded job of a supported type, have an artifact, whichever          *)
(* deliveries were skipped because of what an earlier one left behind.     *)
SuccessHasArtifact ==
  \A r \in Runs :
    \/ run[r] = "SUCCEEDED"
    \/ job[r] = "SUCCEEDED" /\ r \notin Simulated
    => executions[r] > 0

(* The attempt that wrote SUCCEEDED and lost the answer takes it for an     *)
(* error of its own: it puts FAILED and a date in its place.               *)
TakesBack(w, r) ==
  /\ work[w] = r /\ pc[w] = "settle"
  /\ failure[w] = "recoverable" /\ attempt[w] = attempts[r]
  /\ job[r] = "SUCCEEDED" /\ job'[r] = "FAILED"

(* Nothing else rewrites a SUCCEEDED or DEAD_LETTERED WorkflowJob: a        *)
(* second delivery after a crash skips it, and no success turns into a     *)
(* dead letter.  Two slots at work at once, or the FAILED written when     *)
(* queue.add throws, are the only ways around it.                          *)
FinalJobStaysFinal ==
  [][\A r \in Runs :
       job[r] \in Final /\ ~overlapped[r] /\ api[r] # "enqueueFailed"
       => job'[r] = job[r] \/ \E w \in Slots : TakesBack(w, r)]_vars

(* A queued job comes to a final or FAILED row with nobody at work on it,  *)
(* as long as the processes do not stop more often than BullMQ redelivers  *)
(* and no statement fails.                                                 *)
QueuedJobSettles ==
  \A r \in Runs : (queued[r] = "waiting") ~>
    \/ queued[r] = "gone" /\ ~Busy(r) /\ job[r] \in Final \union {"FAILED"}
    \/ dbFaults > 0

(* A follow-up run, which no late QUEUED can hit, settles with its job.    *)
FollowUpRunSettles ==
  \A r \in FollowUps :
    (queued[r] = "waiting") ~> (run[r] \in {"SUCCEEDED", "FAILED"} \/ dbFaults > 0)

-----------------------------------------------------------------------------
(* What the documentation says and the code does not do.                   *)

(* A retry that was scheduled (worker.job.retry_scheduled, nextRunAfter)   *)
(* is eventually run: its runAfter is cleared by the next attempt.         *)
ScheduledRetryRuns ==
  \A r \in Runs : (job[r] = "FAILED" /\ runAfter[r]) ~> (job[r] = "RUNNING")

(* AI assistance can be traced by its task run: once the request and the   *)
(* delivery are over, a run that produced its artifact says so.            *)
TraceableByTaskRun ==
  \A r \in Runs :
    api[r] = "done" /\ queued[r] = "gone" /\ ~Busy(r) /\ executions[r] > 0
    => run[r] = "SUCCEEDED"
=============================================================================
