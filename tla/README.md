# Verification of the Candit recruiting platform

TLA+ models of the stateful core of this repository: a NestJS API (`apps/api`), a
BullMQ worker (`apps/worker`), a Next.js client (`apps/web`), a Postgres database behind
Prisma and a Redis queue. TLC checks the models on small instances; TLAPS proves every safety
property the runs check for every instance, the refinements of the abstract specifications included.

## The system

Several API processes and several worker processes share one database and one
Redis. No process talks to another directly: they meet in table rows and in the
queue, and hardly any operation runs in a database transaction. An operation is a
sequence of single statements (`findFirst`, `create`, `update`, `updateMany`) with
calls to other services, to the queue or to providers in between; any other
process can run between two of them, and the process can die there.

| Part | State it keeps | Operations | What makes it hard | What makes it correct |
|---|---|---|---|---|
| Domain-event outbox (`modules/domain-events`) | `DomainEvent` rows: status, attempts, availableAt, lockedAt/By | append, recover stale locks, list, claim, dispatch, mark | every API process polls; 60 s locks are not renewed; marks do not ask who holds the lock; a failing statement ends the process | at-least-once delivery to both handlers or FAILED after the attempts; settled events stay settled; one process at a time unless a lock went stale; everything settles |
| AI task queue (`modules/async-jobs`, `modules/ai-orchestration`, `apps/worker`) | `AiTaskRun`, `WorkflowJob`, `WorkflowRetry`, `DeadLetterJob` rows, the BullMQ job and its lock | request a run, enqueue, take, attempt, execute, succeed, retry, dead-letter | two rows and a queue without a transaction; redelivery after a stall; the API's last statement races the worker | success means work done; redelivery repeats no finished job; every queued job settles; the task run tells what happened |
| AI task services (`apps/worker/src/ai/tasks`) | artifacts: parsed CV, screening, scores, reports, recommendations | execute one task, ask for follow-up tasks | provider calls in the middle of an attempt | artifacts exist before success is recorded |
| Interviews (`modules/interviews`) | `InterviewSession`, turns, transcript segments, invitation state and timers | invite, schedule, reschedule, start, answer, complete, cancel, abandon, expire, remind | recruiter, candidate, provider and monitor timer act on one row with stale reads; provider calls between read and write | a session keeps to its life cycle; questions in order, each once; an expired invitation is closed |
| Scheduling (`modules/scheduling`) | `SchedulingWorkflow`: state, proposed and selected slots, session | create, constrain, propose, select, book, cancel, reschedule | booking calls the interview service in the middle; cancel and booking race | a booked workflow has its session at the selected slot; a selected slot suited both sides; no session is left behind |
| Applications (`modules/applications`) | `CandidateApplication.currentStage`, stage history, `HumanApproval`, recommendation | create, transition, decide, delete, automation on transitions | stage read before the write, several rows written one after another | history is the path the stage took; what follows a transition follows it once; approvals come with decisions |
| Billing (`modules/billing`) | `BillingAccount`, subscription, usage events, add-on grants, Stripe events | assert quota, record usage, consume grants, checkout, webhook, plan change | quota is checked first and usage recorded last; webhooks are repeated and reordered | usage stays within quota and grants but for races; a paid checkout is credited; the account catches up with Stripe |
| Notifications (`modules/notifications`) | `NotificationDelivery` rows | one or more deliveries per event | redelivered events send again; a failed e-mail does not fail the event | a recipient is told once per event |
| Integrations (`modules/integrations`) | connections, sync state, `WebhookEvent` rows | connect, OAuth callback, ingest webhook, handle event | a webhook row is created before it is processed and blocks the provider's retry | every webhook is processed or can be retried |
| Authentication (`modules/auth`), members (`modules/members`) | sessions, refresh tokens, action tokens, roles, invitations | log in, refresh, revoke, invite, accept, change role | concurrent refresh of one token by several tabs; administration by id on rows read before | refreshing tabs stay signed in, ended sessions stay ended; a tenant keeps an owner and its seats |
| Jobs, candidates, public intake, sourcing | CRUD rows, files, sourcing projects | create, update, import, apply | duplicates under concurrent creation | one application per candidate and job |
| Feature flags, tenant configuration, audit, security events, storage, speech, read models, analytics, internal administration, runtime configuration, web client | configuration and append-only records | reads, adapters | none of their own | - |

Interactions: business services append domain events; the outbox hands every event
to the integrations and the notifications service; stage transitions, interview
completion and CV uploads request AI task runs; the worker writes their artifacts and
requests follow-up runs; scheduling drives interviews; interviews and applications ask
billing for quota.

## Modules

| Module | Contents | Instance | Proofs |
|---|---|---|---|
| `EventDelivery` | abstract: what the outbox promises to the code that appends events | | |
| `Outbox` | the outbox statement by statement, implements `EventDelivery` | `MCOutbox` | `OutboxProofs` |
| `AiTaskQueue` | requests, rows, BullMQ delivery and worker slots of the AI task queue | `MCAiTaskQueue` | `AiTaskQueueProofs` |
| `SessionLifecycle` | abstract: the life of one interview session and its review pack | | |
| `InterviewSession` | the sessions of one application: recruiter, candidate's link, monitor timers; implements `SessionLifecycle` without overlaps | `MCInterviewSession` | `InterviewSessionProofs` |
| `InterviewConversation` | one session from the inside: readiness, questions, follow-ups, closing | `MCInterviewConversation` | `ConversationProofs` |
| `ApplicationPipeline` | one candidate's application: stage, history, approvals, automation, charge | `MCApplicationPipeline` | `PipelineProofs` |
| `Scheduling` | the scheduling workflow of an application and the session it books | `MCScheduling` | `SchedulingProofs` |
| `BillingUsage` | quota, usage events and the credits that pay for them | `MCBillingUsage` | `BillingProofs` |
| `AddOnCheckout` | a checkout at Stripe, its row, its completion | `MCAddOnCheckout` | `BillingProofs` |
| `SubscriptionSync` | the account's plan against the subscription at Stripe | `MCSubscriptionSync` | |
| `Members` | members, roles, seats, invitations | `MCMembers` | `AccountProofs` |
| `AuthSession` | sign-in sessions, refresh tokens, the tabs of a browser | `MCAuthSession` | `AccountProofs` |

Conventions. An action is one statement, transaction or outcome of a call of one request; a request
is a record with a control point `pc` and what it has read. Requests that are cut off (a failing
statement, a dying process) are one action, bounded by a constant. A variable marked *history* in its
declaration is not in the code: it counts or remembers what a property speaks of. Operators whose name
begins with `M_` are what a plausible mistake would make of the operator after them; no action uses one.

### Outbox

One action is one statement of `domain-events.service.ts` or one outcome of a handler.
`Append` is `append`; `Start` is `onModuleInit`; `RecoverStaleProcessing`,
`ListDispatchable`, `Claim` and `ReadClaimed` are the statements of `tick` and
`claimForDispatch`; `HandlerResolves` and `HandlerRejects` are the two ways
`Promise.all` of the dispatcher goes on; `MarkPublished` and `MarkFailedOrRetry` are
the marks. A row's clock columns are two booleans: `due` (availableAt has passed) and
`stale` (lockedAt is older than 60 s). A handler left running by a rejected
`Promise.all`, or a request already sent by a process that died, is kept in `stray`
and may take effect at any later time. `running` of the consumer is its control
point: one tick at a time per process. A failing statement outside the inner `try`
rejects a promise nobody handles, which ends a Node process; it is `Crash`, like a
signal. `handled`, `effects` and `recoveries` are history variables.

### AiTaskQueue

`RequestRun` and `TriggerRun` begin a request (with and without the query for an active run),
`CreateRun`, `CreateJob`, `Enqueue`, `MarkQueued` are the statements of
`createTaskRun` and `AsyncJobsService.create`; `EnqueueThrows` and `MarkJobFailed` its catch block;
`CreateFollowUpJob`, `CreateFollowUpRun`, `EnqueueFollowUp` those of the worker's
`enqueueAiTaskRunIfNeeded`, whose order is the reverse. A slot is one job of one worker process
(`WORKER_CONCURRENCY` of them run in each): `ReadJob` ... `ScheduleRetry` are the
statements of `handleJob` and of the orchestrator's `execute`. `StatementFails` sends a
failing statement where the surrounding `try` sends it (`Where`); it may have been committed all the same
and only its answer lost (`LostAnswer`). BullMQ is external: a job
is delivered under a lock (`Take`), released by its holder (`Finish`), and, when its lock
has run out, delivered again at most `MaxStalls` times (`StalledCheck`). `WorkerDies` and `LockLost`
are the two ways a lock runs out: with the worker gone, or with the worker going on.

### InterviewSession

`status`, `invitation`, `reminded` and `stage` are the columns `InterviewSession.status`,
`invitationStatus`, `invitationReminder1SentAt` / `2SentAt` and `CandidateApplication.currentStage`;
the clock columns are abstracted to what the code asks of them (`expiry`: far, within 24 hours, past;
`due`: two days since the invitation; `activity`: recent, or older than the stale limit). A
request is a control point (`pc`), its kind (`op`), the status it read (`seen`) and the target of a stage
change or reminder (`aim`). `CreateBegins` to `CreateSession` are `inviteOnDemandVoiceSession` and
`schedule` (the two reads of `Promise.all` run in either order); `ReadForX` and `X` are the read
with its checks and the update by id of `reschedule`, `start`, `cancel` and `complete`; `MoveRead` and
`MoveWrite` are `transitionApplicationStageIfNeeded`, `RollbackStage` and `RollbackActive`
are `rollbackStageAfterCancellation`; `AutomationRead`, `AutomationOff` and `RequestReviewPack` are the
automation behind a completion, which nobody awaits; `ReadForReviewPack` is the recruiter's own request for a pack, which looks for no earlier one.
`StageTransition` is a recruiter's move of the application to any other stage. `unbacked` remembers that the stage INTERVIEW_SCHEDULED came or stayed without a session:
a recruiter chose it, the request that scheduled a session wrote it behind the session's cancellation, or a rollback was cut short. `Resolve`, `ExpireOnVisit` and `Refresh` are
`resolvePublicSession` in front of every operation of the candidate (`Refused`, `Admitted`), and
`OpenPublic`, `ReadForPublicComplete`, `FailPublic` are those operations. `Tick` lists the rows
of a monitor's turn, `ExpireInvitation`, `RecordReminder` and `AppendReminder` deal with one of them each, in any order.

Left out: events and audit rows (but the reminders, which are e-mails); template, candidate,
consent and quota checks, which read rows no session operation writes; the turns and the transcript, which are
`InterviewConversation`; the pack that a move from the completed interview to the review asks for, which is `Automate` of `ApplicationPipeline`; a read after which an operation returns at once, which is no step. Requests to
a meeting's link differ from an invitation's in `Refused` and in that `invitation` is not written.

### InterviewConversation

`turns` are the `InterviewTurn` rows by their sequence number: the block a turn asks about, its depth (0 for the
template's question, more for a follow-up) and whether it still waits for an answer. `engine` is what
`engineStateJson` says of the candidate's readiness, `transcript` whether the `Transcript` row exists. A request reads all
of it once (`View`) and decides on that view: `BeginStart` is a visit or a press of start, `BeginSubmit` an answer (to the open
turn, or to the readiness prompt when none is open), `BeginComplete` the transcript delivered at the end of a voice call.
`EnsurePrompt` is `ensureCurrentPrompt`, `CreateTurn` the creation that fails on the unique number of
a turn, `LookAgain` the second look at the transcript, `RecordAnswer`, `FollowUp` and `Advance` the three parts of recording an answer.
Whether an answer is good enough to go on is a choice. `EndOtherwise` is any other end of the session, which `InterviewSession` has in
detail. Left out: `repeatPublicQuestion`, which writes no turn; times and texts of the segments; the `currentQuestionIndex`, which nothing decides on. The template does not change and its blocks have distinct
keys, both of which the code relies on.

### ApplicationPipeline

`app` is the row (id and stage; the id tells a new application from the deleted one), `hist` its stage history. A request begins with a read and its
checks (`BeginTransition`, `BeginDecision`, ...), then `WriteStage` is the transaction of `stageTransition`, `AnnounceTransition`
its event, `Automate` `handleStageTransition` (a review pack on the way from the completed interview to the review, taken down with its errors),
`Recommend` and `RecordApproval` the rest of `decision`. `ClearForInterview`, `Invite`, `CreateSession` are the approval action, in which the human
approval is on record before the invitation is tried. `CreateApplication`, `AnnounceCreated`, `ChargeCreated` are `create`;
`ReadStage`, `SyncWrite` and `SyncTrace` the ATS import of `integrations.service.ts`, which writes row and history in two
statements. `moved`, `announced`, `decided`, `approved`, `created`, `charged` and the like count by the application's id. `BeginInterview` stands for the stage changes of the interview service. Left out: notes, quick actions that only call these, queries.

### Scheduling

`wf` is the `SchedulingWorkflow` row, `sess` the sessions of the application. Every operation reads and checks (`BeginX`), and writes by id (`WriteWorkflow`); booking
goes through the interview service first: `CheckSession`, `UpdateSession` move the session the workflow knows, `LookForActive`, `CreateSession` make
one. `StartSession`, `CloseSession` (completed or cancelled), `MissSession` (NO_SHOW or FAILED), `MoveSession` and `ScheduleSession` are the operations on sessions alone, which do
not look at the workflow; a missed session can be moved (`Movable`), a closed one cannot. A time the recruiter chooses is none of the slots.
A calendar provider's proposals are any subset of the common slots. `overlaps` counts the writes of a row another request had written since it was read.

### BillingUsage, AddOnCheckout, SubscriptionSync

`BillingUsage`: `AssertCanPublish` is the quota check, `Publish` the job's update, `ReadUsed` the billing state the recording reads anew, `BeginCharge` the part of
the transaction before its commit (the usage event, and the oldest grant found to have a balance) and `CommitCharge` its commit with the increment; in between the event's key is locked, the grant is not. The usage event's unique key is
job and period. `usage` numbers the events as they occur and `starts` says how many there were before each period opened, so a period may count what was used before it: Flex's is the
calendar month. `NextPeriod` opens one, with any allowance; `ChangePlan` changes the allowance within a period or returns to an earlier one, up or down. A period that is over is left by the next read of
the state, before anything is counted, and so has no step of its own. `base` remembers what the plan had paid already when the period or the plan last changed. Usage of candidates and interviews is recorded by the same two functions and not modelled apart.

`AddOnCheckout`: `OpenCheckout` and `SaveCheckout` are the call to Stripe and the local row after it; `BeginCompleted`, `FindGrant`, `CreateGrant` and `SaveCompleted` the
completion, run by each delivery of the webhook and by every request that finds an OPEN row paid.

`SubscriptionSync`: `subs` are the subscriptions at Stripe (external, modelled from the calls and events in `billing.service.ts`), `checkouts` the sessions that may add one, `acct` the account.
`Begin` to `Resolved` are the reconciliation every request begins with (pending change due, period over, Stripe asked); the actions under `Act` are the plan choices. Each call to
Stripe and each local write is a step, and a request may be cut off between any two: a downgrade first clears what was scheduled (`Downgrade`), then schedules (`ScheduleAtStripe`), then
writes the account (`SchedulePlanChange`); taking a change back clears it, takes over the answer and clears the account (`CancelPending`, `UpsertAnswer`, `ClearPending`). A checkout is opened
whenever the account names no subscription, whatever there is at Stripe. `HandleSubscriptionUpdated`, `HandleInvoicePaymentFailed` are the webhooks, which are delivered late, repeatedly and in any order,
of whichever subscription of the customer; `BeginCompleted` is the completion of a checkout, by webhook or reconciliation. `diverted` remembers the two cases in which a pending Flex is not
brought about (below).

### Members

`user` and `inv` are the rows; a request keeps the rows it has read (`seen`) and writes its transaction from them by id. `Administer` are the operations
an owner has in `members.service.ts`, `Join` those of an invitee (password or Google) and the operators' owner reset. No isolation level is set, so transactions run at READ COMMITTED, and
no unique key guards a pending invitation: the statement that revokes or changes the pending invitations of a member finds those there when it starts (`Look`, `sees`), and `Commit` writes those and
no later ones. A transaction whose statement before that one writes the user's row holds the row until its commit (`UserFirst`, `Waits`), and so does an acceptance the invitation; `FindLatest` is the search of
a Google sign-in for the latest invitation, made before it. `stale` counts the commits whose rows had changed since they were read, `unchecked` the seats taken without a look at the quota (an
invitation sent again to a disabled member, an owner reset).

### AuthSession

`session` and `token` are the rows, `store` the browser's localStorage and `tab` the request of each tab. `ReadForRefresh` to `Rotate` is
`refresh` (a token used twice within the grace period is answered with a conflict, later it ends the session), `IssueSession` the sign-in,
`ChangePassword` the transaction that ends all sessions and `NotReissued` the one after it that fails. `Receive` is what `session.ts` does with an
answer: it writes or clears the store whatever that has become meanwhile. `GraceEnds` and `SessionTimeUp` are the clock. `calm` says that nothing
has happened yet that is meant to end a session. The transport modelled is that of the header, with the tokens in localStorage (`session.ts`, `refreshJwtSession`). Production
forces httpOnly cookies (`apps/web/lib/auth/runtime.ts`, `resolveAuthTokenTransport`), which only a successful answer of the server sets
(`auth.controller.ts`, `writeAuthCookies`): they too are overwritten by whichever answer comes last, and a refused refresh leaves a cookie that is refused again where the model clears
the store. The properties speak of the rows and of the token kept, and come out the same. Left out: sign-up, e-mail verification, switching companies, deleting the account.

## Runs

| Run | Instance | Shows |
|---|---|---|
| `outbox` | 1 event, 2 processes, 2 handlers, 2 attempts, 1 fault, fair | `PublishedMeansHandled`, `FailedMeansMaxAttempts`, `OneWorkerUnlessRecovered`, `WorkBounded` (effects are repeated no more than claims allow), `Promise` (implements `EventDelivery`), `EventuallySettled` |
| `ai_tasks` | a follow-up and a request of a simulated type, 2 slots, 1 failing statement, 1 stop, 1 stalled redelivery, fair | `SuccessHasArtifact`, `DeadLettersAreFatal`, `FinalJobStaysFinal` under any redelivery and any lost answer; `QueuedJobSettles`, `FollowUpRunSettles` |
| `interview_sequential` | an invitation and a meeting, 5 requests, one operation at a time, 1 cut off, ticks included, fair | `Lifecycle` (implements `SessionLifecycle`; one review pack by the completion, others only by a recruiter), `ExpiredInvitationCloses` |
| `interview_races` | an invitation and a meeting, 3 requests, 2 monitors, 3 operations at once, 1 fault | `StaleWritesOnly`: the life cycle is left only by a write whose read is out of date; `RemindedOnce`; `CancellationRollsBack` |
| `interview_conversation` | 2 blocks with 2 and 1 follow-ups, 2 requests at once, 2 overlaps, 2 cut off, fair | `QuestionsInOrder`, `ClosedWhenAnswered`, `OneQuestionAtATime` (a question is repeated only by overlapping requests), `InterviewEnds` |
| `application_pipeline` | 3 requests of any kind, 2 at once, 1 cut off, fair | `TraceIsTrue` (the history ends at the stage and starts from stages reached), `ConsequencesFollow`, `InvitedIsCleared`, `RequestsFinish` (decisions not approved and creations not charged come to be as few as the requests cut off) |
| `scheduling` | 2 slots, 7 requests, 2 at once, 2 sessions, 1 cut off | `BookedAtSelected`, `SelectedWasCommon`, `NoOrphanSession` (one session is lost per request cut off or written over another) |
| `billing_usage` | 2 jobs, 2 requests, plans with 0 and 1 job, up and down, 2 periods that may count the same usage, 1 grant of 1, 1 cut off | `CreditsArePaidUnits`, `RacesCostOneUnitEach` (what concurrent requests can overdraw) |
| `addon_checkout` | 2 checkouts, 2 completions at once, 2 cut off, fair | `GrantsFollowCheckouts`, `PaidIsCompleted` |
| `subscription_sync` | 1 request at a time, 2 periods, 2 choices and 1 fault besides, several subscriptions, 2 events under way, webhooks late, repeated and out of order, fair | `EndedIsNoticed`, `PaidIsOpened`, `FlexTakesEffect` |
| `members` | founder and 3 more users, 2 seats, 6 requests, 2 at once at READ COMMITTED | `OneOwner`, `SeatsBounded`, `InvitationsSound`, each with what overlapping writes may add |
| `auth_sessions` | 2 tabs, 2 sessions, 4 tokens, 1 password change, 1 fault | `SignedInStaysIn`, `FewLiveAfterClose`, `OlderSessionsEnd` |

Bounds. Each bound stands in a guard and is a constant of its module. Constants named `MaxFaults`, `MaxDbFaults`, `MaxStops`,
`MaxCuts` bound faults and nothing else. The code keeps no memory of earlier faults than the rows themselves, so in
the outbox one fault gives a row an old and a new holder, which is what the marks may confuse; with `MaxAttempts = 2` both outcomes of a
failed attempt occur. Batches that overlap in several events are not reached by this instance: a claim names one row,
and the proofs hold for any number of events. The task queue uses `MaxAttempts = 3`, the smallest policy, and BullMQ's default of one stalled redelivery.
`MaxRequests` bounds the requests of a behaviour and `Overlap` those at work at once: in the races, three are an invitation and two
operations that race; in the sequential run five take a session round its cycle (invited, failed, rescheduled, cancelled, created again), and the fault may be a tick that throws. The race that cancels the only session while another request schedules the next needs two sessions, which the races have.
In the pipeline three requests are a creation and two others that race; a duplicate review pack needs a fourth (two overlapping moves to the review after a move to the completed interview) and is
not reached, so there the part of `ConsequencesFollow` about packs is checked of single packs; its proof has no such bound. Seven scheduling requests are the five steps to a booking and two more (rescheduling, booking
again, cancelling). Six member requests take two invitations, two acceptances and two that race; with two seats the
quota is met by the second member. Four tokens are a session with two rotations by two tabs and a second sign-in. Two periods and two jobs let a unit be charged in one period and again in the next, or counted in both. In `SubscriptionSync` `MaxChoices` bounds what the tenant asks and `MaxFaults`, apart from it, payments that fail, subscriptions ended by Stripe, requests cut off and events repeated: two choices and a fault reach a downgrade to Flex that is taken back by a request cut off on the way. `MaxMail` bounds the events under way at once. What Flex waits for may lie behind the last period modelled, where `FlexTakesEffect` does not ask for it (`BehindBound`). `MaxOverlaps = 2` repeats a question twice, with a follow-up in between.
Requests, tabs, slots, jobs and members other than the founder are interchangeable (symmetry; none in runs with a liveness property).

Fairness. No fault, no request of a person and no failure of a provider is ever forced.
`Outbox`: the interval timer of every live process fires for ever, statements are answered, handlers settle, clocks pass, a dead process is replaced
(`Crash` keeps one process alive or startable). `AiTaskQueue`: requests run on, slots poll and execute, BullMQ's stalled check runs periodically; one
stop only, because BullMQ gives up a job that stalls more often than `maxStalledCount`, and its `WorkflowJob` row then stays RUNNING. `InterviewSession`: the monitors' timers
fire for ever, a request's statements are answered, the clock reaches an expiry. `InterviewConversation`: requests run on; the candidate returns to the link and
answers again and again (strong, since a session being busy with another request interrupts it) and confirms readiness at some
time when asked again and again. `ApplicationPipeline`: requests run on. `AddOnCheckout`: a completion runs on, and a paid
session not yet COMPLETED is completed again, because Stripe repeats an event until it is acknowledged. `SubscriptionSync`: time passes up to the bound, webhooks are delivered, a request runs
on, the tenant comes back (an overview is requested again and again) and a paid checkout is completed (strong, since a request slot is not always free).

## What the code does not keep

While modelling, some sentences of the repository turned out to say more than the code does. They are written down as definitions of the
modules, each under a comment with what it says; no run claims them.

| Definition | What happens instead |
|---|---|
| `InterviewSession!OneActiveSession` | creating a session refuses an application with an active one; rescheduling a FAILED or NO_SHOW one does not ask |
| `InterviewSession!CompletedIsNotCancelled` | `cancel` checks, awaits the provider and writes by id; a session completed meanwhile is cancelled. `StaleWritesOnly` bounds it |
| `InterviewSession!RefusedOnlyWhenOver` | `invitationStatus` stays EXPIRED behind a new expiry, and a rescheduled link is refused until a reminder overwrites the column |
| `AiTaskQueue!ScheduledRetryRuns` | the worker records `runAfter`, but jobs are added with `attempts: 1` and nothing reads it; for the same reason `DeadLettersAreFatal` holds |
| `AiTaskQueue!TraceableByTaskRun` | the request's last statement writes QUEUED over what the worker has written; the run looks active for ever |
| `ApplicationPipeline!RejectedIsApproved` | a plain stage transition to REJECTED writes no approval |
| `SubscriptionSync!FlexWaitsForPeriodEnd` | choosing Flex while the payment is overdue takes effect at once, and the subscription goes on at Stripe without the account |

Other observations, each the reason for a bound in a property: a job whose SUCCEEDED was committed but not answered is put back to FAILED by its own
attempt, since the update is inside the `try` (`FinalJobStaysFinal`); an answer sent twice is recorded twice and
followed up twice from there on (`OneQuestionAtATime`); an overlapping start may write over a confirmation of readiness, which is asked for
again (`InterviewEnds`); two completions of one checkout in flight credit it twice (`GrantsFollowCheckouts`); two requests that read the usage together
cost the plan or a grant one unit more each (`RacesCostOneUnitEach`); seats are exceeded by the requests that read the quota
together, and by members invited again after being disabled (`SeatsBounded`); a refresh that had read a session
before it was revoked leaves a live token behind (`FewLiveAfterClose`), which is refused when used, the session being closed.
A recruiter may move an application to INTERVIEW_SCHEDULED without a session, and a request that scheduled one may write that stage behind its cancellation (`unbacked` in `CancellationRollsBack`); a
recruiter may ask for further review packs of a completed session (`Lifecycle` counts them apart). An allowance that falls in the middle of a period, or a period that counts the usage of the one
before, leaves the plan with more units than it includes (`base` in `RacesCostOneUnitEach`). A request that takes a pending Flex back, having told Stripe, may be cut off before it clears
the account: the subscription then renews with Flex still pending; and so it may when the account comes to follow another subscription of the customer than the one Stripe is to end (`diverted` in `FlexTakesEffect`). Two overlapping requests
for plans can do the same, which is why that run has one at a time. Two overlapping resends, or a resend and an owner reset, leave two invitations that can be accepted (`InvitationsSound` bounds them by the
requests at once). Overlapping transfers, resets and acceptances leave two owners (`OneOwner` counts them), and a transfer to a member who is being removed leaves none, which no property bounds. A booking cut off between
session and workflow leaves a session the workflow does not know, and its retry is refused while that session is active (`NoOrphanSession` counts them).

## Proofs

Every invariant and action property of the runs, and both refinements, is a theorem for all values of the constants. The safety invariants
are not inductive: each proof strengthens them, and the strengthening was model-checked before it was proved. One idea recurs. An operation checks and
writes in two statements, so what bounds the rows is not what has been written but that together with the writes already decided on: each proof that
counts (claims, attempts, questions, approvals, credits, seats, tokens) counts both, and shows that one step turns one of the second into one of the first.
Two components that are proved in one module have their specification and types under names of their own
(`CheckoutSpec`, `CheckoutTypeOK`, `MembersSpec`, `MembersTypeOK`), so that the module can extend both.

`OutboxProofs` proves, for any finite set of events, any consumers and handlers and any
`MaxAttempts`, `BatchSize` and `MaxFaults`: type correctness, `PublishedMeansHandled`,
`FailedMeansMaxAttempts`, `OneWorkerUnlessRecovered`, `TerminalIsFinal`, `WorkBounded` and the refinement
`Promise`. The inductive invariant adds
`ClaimsCounted` (a held event has been claimed), `HandledSoFar` (of the handlers of a
dispatching consumer's event, those no longer open have handled it: this is why a consumer
that lost its lock may still publish), `SeenWithinAttempts` (the attempts a consumer read
are no more than the row's, which only grow: this is why giving up on a stale count is sound) and
`HeldIsNotPending` (while no recovery took place a held row is not PENDING: this is why the conditional claim excludes
a second holder). `WorkBounded` has one of its own, `WorkInv`: an event that may be claimed and the holders that may still put it back are counted together, one and one more for each recovery
while claims remain, fewer by each claim beyond `MaxAttempts - 1`; and the effects of a handler, with the calls awaited and the calls
left behind by a rejection or a crash, are no more than the claims. That these sets are finite is part of it.
The refinement has one lemma for each kind of step.

`AiTaskQueueProofs` proves, for any requests, any finite set of slots and any bounds on faults:
type correctness, `SuccessHasArtifact`, `AttemptsWithinDeliveries`,
`DeadLettersAreFatal` and `FinalJobStaysFinal`. Of `QueueAssumption` the dead letters need
`MaxStalls + 1 < MaxAttempts` (1 + 1 < 3 in the code). The invariant adds
`NotYetQueued` (a job whose request has not enqueued it has no delivery and no attempt), `ArtifactAtHand`
(a slot about to write SUCCEEDED has its artifact), `TokensBounded` (deliveries begun and not
yet counted as an attempt, plus attempts, plus waiting tokens are at most one plus the stalls: this is
why a job never uses up its attempts) and `AttemptKnown`, `FatalKnown` (what a
slot remembers of its attempt is still true of the row). For final rows, `OneAtWork` and `FinalIsLeft` say that unless two slots have worked on a
run at once, the slot that wrote its final status is done with it, or wrote SUCCEEDED without learning it and is about to record a recoverable failure
(`LostSuccess`, whose attempt is the last one counted, `Counted`), and whoever takes the job next only reads. A success so taken back becomes FAILED, never
DEAD_LETTERED: the error is recoverable and the attempts are not used up (`NoAttemptsLeft`).

`InterviewSessionProofs` proves, for any sessions, finite sets of requests and monitors and any
bounds: type correctness, `StaleWritesOnly` and `RemindedOnce`. `Held` says what a request knows at each point
(the status it read admits the write it is about to make; a session about to be created does
not exist and is no other request's): so a write that does not fit the row has an outdated `seen`. `Recorded`
says that a reminder's column is set before its event, by one monitor. `CancellationRollsBack` is proved for any overlap: `Awaited` says that an application whose sessions are all cancelled waits for an interview, `unbacked` apart, only while some cancellation is
still at work, and `Course` what a cancellation does behind its write. Under the further assumption `Overlap = 1` it proves `Lifecycle`, which is false without (`CompletedIsNotCancelled` is how it fails).
The invariant of sequential operations adds `Alone` (nobody else is at work), from which what a request read is
still true when it writes, and `Rows` (only an invitation is closed as not attended, and then its link is refused; a review pack is for a completed session).

`ConversationProofs` proves, for any blocks and follow-ups, any requests, overlaps and cuts: types, `QuestionsInOrder`,
`ClosedWhenAnswered` and `OneQuestionAtATime`. Its invariant is `Typed` (a request that answers names a turn that exists), `RequestsFine` (what a request's view says is
behind the turns, not against them), `HasPrimary`, `InOrder` and `ClosedAnswered`. The argument is `Grows`: turns are only
added and answered, so what a stale view saw answered still is, and the unique number of a turn tells a request whether one was
added since its view: a creation that succeeds was decided on the turns as they are, but for answers.
For `OneQuestionAtATime`, `CountInv` counts at every level (a block and a depth) the questions there and the open ones before it that no request is answering, which may lead to one there (`Leading`),
together with the requests that may (`Adders`): at most one, and one more for every overlap. An answer turns an open question into a request, a creation
a request into a question; a question of the template is created only when everything before it has been answered, so no other question leads to its level; and a request that begins while another is at work
is an overlap. Open questions are all counted at the level behind the template's last block, each as itself or as the request that is answering it.

`PipelineProofs` proves, for any finite set of requests, any targets and bounds: types, `TraceIsTrue`, `ConsequencesFollow` and
`InvitedIsCleared`. `Owes` says what kind of request is at each point. The consequences of a transition, a decision or an approval are counted with the requests
that still owe them (`EventsCounted`, `PacksCounted`, `DecisionsCounted`, `InvitesCounted`), by the id of the application, so that a request that goes on after its application was deleted
does not speak of the next one (`FreshIds`). For the history, `ReadStagesLed` keeps the stage a request read among those an entry
has led to, although the row may have moved on.

`SchedulingProofs` proves, for any slots, requests, sessions and faults: types, `SelectedWasCommon`, `BookedAtSelected`, `NoOrphanSession` and that a cancelled
workflow leaves that state only in an overlapping write. Its invariant says what a request holds at each point while nothing has overlapped (`RequestsFine`),
that proposed slots were common once (`SlotsCommon`), that a booking's session is at the selected slot (`MadeAtSelected`); with these `NoOrphanSession` is inductive, for any overlaps and faults: a write that is not late replaces no other session, and a late one or a request
cut off loses one at most.

`BillingProofs` proves types and `GrantsFollowCheckouts` of `AddOnCheckout`, for any checkouts, any finite set of completions and any faults: the
grants of a checkout are counted together with the completions about to create one, and
`SaveAfterGrant` says that a completion about to write COMPLETED has seen or made a grant. Of `BillingUsage` it proves, for any jobs, plans, periods, grants and requests,
types, `CreditsArePaidUnits` and `RacesCostOneUnitEach`. `KeysExclusive` is what the unique key gives an open transaction: no event has its key and no other
open transaction will insert it, so an increment belongs to one event. The units of the plan are counted with the requests that will have it pay, against the allowance or what it had paid when the period or plan last changed (`Bound`), those of a grant with the
transactions that have found a balance.

`AccountProofs` proves of `AuthSession`, for any finite set of tabs and any sessions, tokens, changes and faults: types, `SignedInStaysIn`,
`FewLiveAfterClose` and `OlderSessionsEnd`. `InOrder` numbers sessions and tokens by age; `Quiet` says what a calm
behaviour cannot contain; `OwnAnswer` and `Refreshable` follow the newest token from the row through the answer to the store; for a closed session the live tokens and
the refreshes that have read it open are counted together, because a rotation turns one of the second into one of the first.
Of `Members` it proves, for any users, finite requests and seats: types, `OneOwner`, `SeatsBounded` and `InvitationsSound`. A transaction writes what its
request read: `Guarded` says what that was by kind of request, and while `stale` is 0 the rows are still as it was, each member `Sound` and one of them the owner (`MembersSound`). Two arguments hold for any overlap.
The claims to the ownership, which are an owner's row or a pending invitation to come back as the owner, are counted (`ClaimsBounded`): a write over rows that have not changed moves a claim, any other adds at most one.
And `Made` maps the pending invitations of a member one to one to the requests that made them: a request that makes another has revoked those it had found, its own earlier ones among them.
`SeatsCounted` does not depend on that: the seats taken are counted with the requests that have found a seat free.

The assumptions on the constants are those named in the modules (`OutboxAssumption`, `QueueAssumption`, `InterviewAssumption`, `ConversationAssumption`, `PipelineAssumption`,
`SchedulingAssumption`, `BillingAssumption`, `CheckoutAssumption`, `MembersAssumption`, `AuthAssumption`): bounds are natural numbers, a null is not a member, the sets of workers, requests and members are finite,
requests move applications to stages. The runs evaluate them.

Only model-checked: everything that must eventually happen
(`EventuallySettled`, `QueuedJobSettles`, `FollowUpRunSettles`, `ExpiredInvitationCloses`, `InterviewEnds`, `RequestsFinish`, `PaidIsCompleted`,
`EndedIsNoticed`, `PaidIsOpened`, `FlexTakesEffect`): liveness under fairness needs ENABLED, which the prover does not reason about. `SubscriptionSync` makes only such promises; its
`TypeOK` documents the state and was model-checked on its instance during development, but is no part of a run. The `TypeOK` of the other modules are theorems.

## Not modelled, and why

* Contents of prompts, reports, scores, e-mails and provider payloads: no control depends on them.
* Sourcing: mostly scoring and text; its writes are upserts of single rows by stale reads (a prospect's stage, the suppression of an address
  during a round of outreach). The deduplication of candidates, which it shares with public intake and candidate creation,
  is a search before a creation without a unique key, so the code promises nothing there to state.
* Webhook ingestion and notification deliveries in detail: handlers of the outbox complete or fail as a whole here.
* Candidate and job CRUD, public intake, feature flags, tenant configuration: single rows written once, or
  calls of operations that are modelled. Models take a flag as a choice.
* Sign-up, e-mail verification, account deletion; invoices and prices; plan overrides of the operators.
* Audit log and security events, which nothing reads to decide; read models, analytics and reports, which write nothing; storage, speech and calendar adapters, whose calls appear as outcomes of the steps that
  make them; runtime configuration; pages of the web client.

## Plan

Done, in this order: `Outbox`, `AiTaskQueue`, `InterviewSession`, `BillingUsage`, `AddOnCheckout`, `SubscriptionSync`, `ApplicationPipeline`, `Members`,
`Scheduling`, `AuthSession`, `InterviewConversation`, with the proofs above. Left, by what they would add:

1. Webhook ingestion and notification deliveries as refinements of the outbox's handlers.
2. Sourcing: outreach rounds against suppression, and the attachment of a prospect to a job.
3. The composition of `ApplicationPipeline` with `InterviewSession`, which now each take the other's writes as choices.
4. Abstract specifications for checkout and sign-in, proved to be implemented.
