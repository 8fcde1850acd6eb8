------------------------ MODULE ApplicationPipeline ------------------------
(***************************************************************************)
(* The application of one candidate to one job, from its creation to a     *)
(* decision (applications.service.ts, application-automation.service.ts,   *)
(* and the writers of the same row in interviews.service.ts and in the ATS *)
(* import of integrations.service.ts).                                     *)
(*                                                                         *)
(* Every handler reads the row, decides, writes the row by its id whatever *)
(* it has become, and then writes the records that follow - event,         *)
(* automation, approval, charge - in statements of their own.  One action  *)
(* is one statement or transaction of one request.                         *)
(*                                                                         *)
(* A deleted application takes its stage history with it; the same         *)
(* candidate may then apply again, which makes a row of another id.        *)
(***************************************************************************)
EXTENDS Naturals, Sequences, FiniteSets

CONSTANTS
  Requests,     \* requests in flight at once
  Targets,      \* stages a recruiter or an import may ask for
  MaxRequests,  \* bound: requests served
  MaxFaults     \* bound: requests cut off

Stages == {"APPLIED", "SCREENING", "INTERVIEW_SCHEDULED", "INTERVIEW_COMPLETED",
           "RECRUITER_REVIEW", "HIRING_MANAGER_REVIEW", "REJECTED"}

ASSUME PipelineAssumption ==
  IsFiniteSet(Requests) /\ Targets \subseteq Stages /\ MaxRequests \in Nat /\ MaxFaults \in Nat

VARIABLES
  app,        \* the row of CandidateApplication; id 0 when there is none
  hist,       \* its rows of CandidateStageHistory, in the order of writing
  archived,   \* the job's status is ARCHIVED
  moved,      \* history: transitions committed by the API, by application
  announced,  \* application.stage_transitioned events appended
  packs,      \* review packs asked for by the automation
  decided,    \* history: transitions committed by a decision
  approved,   \* HumanApproval rows of a decision
  cleared,    \* HumanApproval rows of an interview
  invited,    \* interview sessions created after such an approval
  created,    \* history: applications made by create, 0 or 1 for each id
  charged,    \* BillingUsageEvent rows of candidate processing
  synced,     \* history: applications an import has written
  req,        \* what each request is doing
  served, faults

countVars == <<moved, announced, packs, decided, approved, cleared, invited,
               created, charged>>
boundVars == <<served, faults>>
vars == <<app, hist, archived, countVars, synced, req, boundVars>>

NoStage == "none"
Ids == 1..MaxRequests    \* every application is made by a request

Points == {"idle", "create", "created", "charge", "write", "announce", "automate",
           "recommend", "approve", "clear", "invite", "session", "stage", "sync",
           "trace", "delete"}
Kinds == {"none", "create", "transition", "decision", "interview", "approve", "sync",
          "delete"}

NoApp == [id |-> 0, stage |-> NoStage]
Idle == [pc |-> "idle", kind |-> "none", id |-> 0, from |-> NoStage, to |-> NoStage]
Zero == [i \in Ids |-> 0]

Init ==
  /\ app = NoApp /\ hist = <<>> /\ archived = FALSE
  /\ moved = Zero /\ announced = Zero /\ packs = Zero /\ decided = Zero
  /\ approved = Zero /\ cleared = Zero /\ invited = Zero
  /\ created = Zero /\ charged = Zero
  /\ synced = {}
  /\ req = [r \in Requests |-> Idle]
  /\ served = 0 /\ faults = 0

Exists == app.id # 0
At(r, pc) == req[r].pc = pc
Done(r) == req' = [req EXCEPT ![r] = Idle]
GoTo(r, pc) == req' = [req EXCEPT ![r].pc = pc]
Counted(f, i) == [f EXCEPT ![i] = @ + 1]

\* The row a request writes by id is still there.
Found(r) == app.id = req[r].id /\ Exists

----------------------------------------------------------------------------
(* The reads a request starts with.                                         *)

Begin(r, pc, kind, to) ==
  /\ At(r, "idle") /\ served < MaxRequests
  /\ served' = served + 1
  /\ req' = [req EXCEPT ![r] = [pc |-> pc, kind |-> kind, id |-> app.id,
                                from |-> app.stage, to |-> to]]
  /\ UNCHANGED <<app, hist, archived, countVars, synced, faults>>

\* create: it looks for archivedAt, which nothing sets, not for the status.
BeginCreate(r) == Begin(r, "create", "create", "APPLIED")

\* stageTransition, for a recruiter or within a decision.
MayTransition(to) == Exists /\ app.stage # to /\ ~archived

BeginTransition(r, to) == MayTransition(to) /\ Begin(r, "write", "transition", to)

decisionStage == [advance |-> "HIRING_MANAGER_REVIEW", hold |-> "RECRUITER_REVIEW",
                  reject |-> "REJECTED"]

BeginDecision(r, d) ==
  MayTransition(decisionStage[d]) /\ Begin(r, "write", "decision", decisionStage[d])

\* transitionApplicationStageIfNeeded, called by the interview handlers.
BeginInterview(r, to) ==
  Exists /\ app.stage # to /\ Begin(r, "write", "interview", to)

M_InvitesAtOnce(r) ==
  Exists /\ ~archived /\ Begin(r, "invite", "approve", "INTERVIEW_SCHEDULED")

\* onRecruiterApprovedForInterview.
BeginApprove(r) ==
  Exists /\ ~archived /\ Begin(r, "clear", "approve", "INTERVIEW_SCHEDULED")

\* persistAtsSyncItems, one item.
BeginSync(r, to) == Begin(r, "sync", "sync", to)

BeginDelete(r) == Exists /\ Begin(r, "delete", "delete", NoStage)

----------------------------------------------------------------------------
(* create: the row and its first history entry; the unique key refuses a    *)
(* second application.  No earlier application was made when as many        *)
(* requests had been served, so the number serves as the id.                *)

CreateApplication(r) ==
  /\ At(r, "create")
  /\ IF Exists THEN Done(r) /\ UNCHANGED <<app, hist>>
     ELSE /\ app' = [id |-> served, stage |-> "APPLIED"]
          /\ hist' = <<[from |-> NoStage, to |-> "APPLIED"]>>
          /\ req' = [req EXCEPT ![r].pc = "created", ![r].id = served]
  /\ created' = IF Exists THEN created ELSE Counted(created, served)
  /\ UNCHANGED <<archived, moved, announced, packs, decided, approved, cleared,
                 invited, charged, synced, boundVars>>

M_NotCharged(r) ==
  /\ At(r, "created") /\ Done(r)
  /\ UNCHANGED <<app, hist, archived, countVars, synced, boundVars>>

\* The event and audit, then the automation, which never throws.
AnnounceCreated(r) ==
  /\ At(r, "created") /\ GoTo(r, "charge")
  /\ UNCHANGED <<app, hist, archived, countVars, synced, boundVars>>

\* The charge is by the application's id, whatever became of the row.
ChargeCreated(r) ==
  /\ At(r, "charge") /\ Done(r)
  /\ charged' = Counted(charged, req[r].id)
  /\ UNCHANGED <<app, hist, archived, moved, announced, packs, decided, approved,
                 cleared, invited, created, synced, boundVars>>

----------------------------------------------------------------------------
(* stageTransition.                                                         *)

M_HistoryOfRow(r) == Append(hist, [from |-> req[r].from, to |-> app.stage])

\* The history entry tells the stage the request has read.
HistoryWith(r) == Append(hist, [from |-> req[r].from, to |-> req[r].to])

IsDecision(r) == req[r].kind = "decision"

\* Row and history in one transaction, which a deleted row rolls back.
WriteStage(r) ==
  /\ At(r, "write")
  /\ IF Found(r)
     THEN /\ app' = [app EXCEPT !.stage = req[r].to]
          /\ hist' = HistoryWith(r)
          /\ moved' = Counted(moved, app.id)
          /\ decided' = IF IsDecision(r) THEN Counted(decided, app.id) ELSE decided
          /\ GoTo(r, "announce")
     ELSE Done(r) /\ UNCHANGED <<app, hist, moved, decided>>
  /\ UNCHANGED <<archived, announced, packs, approved, cleared, invited, created, charged,
                 synced, boundVars>>

AfterAnnounce(r) == IF req[r].kind \in {"transition", "decision"} THEN "automate" ELSE "idle"

AnnounceTransition(r) ==
  /\ At(r, "announce")
  /\ announced' = Counted(announced, req[r].id)
  /\ IF AfterAnnounce(r) = "idle" THEN Done(r) ELSE GoTo(r, AfterAnnounce(r))
  /\ UNCHANGED <<app, hist, archived, moved, packs, decided, approved, cleared,
                 invited, created, charged, synced, boundVars>>

M_PackByTarget(r) == req[r].to = "RECRUITER_REVIEW"

NeedsReviewPack(r) ==
  req[r].from = "INTERVIEW_COMPLETED" /\ req[r].to = "RECRUITER_REVIEW"

\* onStageTransition: report and recommendation, unless a flag is off.
Automate(r) ==
  /\ At(r, "automate")
  /\ packs' \in {packs} \union (IF NeedsReviewPack(r) THEN {Counted(packs, req[r].id)} ELSE {})
  /\ IF IsDecision(r) THEN GoTo(r, "recommend") ELSE Done(r)
  /\ UNCHANGED <<app, hist, archived, moved, announced, decided, approved, cleared,
                 invited, created, charged, synced, boundVars>>

----------------------------------------------------------------------------
(* The rest of decision.                                                    *)

\* aiRecommendation, by id: it throws when the row was deleted.
Recommend(r) ==
  /\ At(r, "recommend")
  /\ IF Found(r) THEN GoTo(r, "approve") ELSE Done(r)
  /\ UNCHANGED <<app, hist, archived, countVars, synced, boundVars>>

RecordApproval(r) ==
  /\ At(r, "approve") /\ Done(r)
  /\ approved' = Counted(approved, req[r].id)
  /\ UNCHANGED <<app, hist, archived, moved, announced, packs, decided, cleared,
                 invited, created, charged, synced, boundVars>>

----------------------------------------------------------------------------
(* onRecruiterApprovedForInterview: the approval first, then an invitation  *)
(* that may be refused for the stage or for an active session.              *)

ClearForInterview(r) ==
  /\ At(r, "clear") /\ GoTo(r, "invite")
  /\ cleared' = Counted(cleared, req[r].id)
  /\ UNCHANGED <<app, hist, archived, moved, announced, packs, decided, approved,
                 invited, created, charged, synced, boundVars>>

MayInvite(r) == Found(r) /\ app.stage # "REJECTED"

Invite(r) ==
  /\ At(r, "invite")
  /\ \/ Done(r)
     \/ MayInvite(r) /\ GoTo(r, "session")
  /\ UNCHANGED <<app, hist, archived, countVars, synced, boundVars>>

CreateSession(r) ==
  /\ At(r, "session")
  /\ IF Found(r) THEN invited' = Counted(invited, app.id) /\ GoTo(r, "stage")
     ELSE Done(r) /\ UNCHANGED invited
  /\ UNCHANGED <<app, hist, archived, moved, announced, packs, decided, approved,
                 cleared, created, charged, synced, boundVars>>

\* transitionApplicationStageIfNeeded of the invitation reads the row anew.
ReadStage(r) ==
  /\ At(r, "stage")
  /\ IF Found(r) /\ app.stage # "INTERVIEW_SCHEDULED"
     THEN req' = [req EXCEPT ![r].pc = "write", ![r].from = app.stage]
     ELSE Done(r)
  /\ UNCHANGED <<app, hist, archived, countVars, synced, boundVars>>

----------------------------------------------------------------------------
(* The ATS import writes the row and its history in two statements.         *)

SyncWrite(r) ==
  /\ At(r, "sync")
  /\ \/ /\ Found(r)
        /\ app' = [app EXCEPT !.stage = req[r].to]
        /\ synced' = synced \union {app.id}
        /\ GoTo(r, "trace") /\ UNCHANGED hist
     \/ /\ req[r].id = 0 /\ ~Exists
        /\ app' = [id |-> served, stage |-> req[r].to]
        /\ synced' = synced \union {served}
        /\ hist' = <<>>
        /\ req' = [req EXCEPT ![r].pc = "trace", ![r].id = served]
     \/ /\ ~Found(r) /\ (req[r].id = 0 => Exists)
        /\ Done(r) /\ UNCHANGED <<app, hist, synced>>
  /\ UNCHANGED <<archived, countVars, boundVars>>

SyncTrace(r) ==
  /\ At(r, "trace") /\ Done(r)
  /\ hist' = IF Found(r) /\ req[r].from # req[r].to THEN HistoryWith(r) ELSE hist
  /\ UNCHANGED <<app, archived, countVars, synced, boundVars>>

----------------------------------------------------------------------------
DeleteApplication(r) ==
  /\ At(r, "delete") /\ Done(r)
  /\ IF Found(r) THEN app' = NoApp /\ hist' = <<>> ELSE UNCHANGED <<app, hist>>
  /\ UNCHANGED <<archived, countVars, synced, boundVars>>

\* jobs.update.
UpdateJob ==
  /\ served < MaxRequests
  /\ served' = served + 1
  /\ archived' = ~archived
  /\ UNCHANGED <<app, hist, countVars, synced, req, faults>>

RequestFails(r) ==
  /\ ~At(r, "idle") /\ faults < MaxFaults
  /\ faults' = faults + 1
  /\ Done(r)
  /\ UNCHANGED <<app, hist, archived, countVars, synced, served>>

----------------------------------------------------------------------------
Ask(r) ==
  \/ BeginCreate(r) \/ BeginApprove(r) \/ BeginDelete(r)
  \/ \E to \in Targets : BeginTransition(r, to) \/ BeginSync(r, to)
  \/ \E d \in DOMAIN decisionStage : BeginDecision(r, d)
  \/ \E to \in {"INTERVIEW_COMPLETED", "SCREENING"} : BeginInterview(r, to)

Step(r) ==
  \/ CreateApplication(r) \/ AnnounceCreated(r) \/ ChargeCreated(r)
  \/ WriteStage(r) \/ AnnounceTransition(r) \/ Automate(r)
  \/ Recommend(r) \/ RecordApproval(r)
  \/ ClearForInterview(r) \/ Invite(r) \/ CreateSession(r) \/ ReadStage(r)
  \/ SyncWrite(r) \/ SyncTrace(r) \/ DeleteApplication(r)

Next ==
  \/ \E r \in Requests : Ask(r) \/ Step(r) \/ RequestFails(r)
  \/ UpdateJob

Spec == Init /\ [][Next]_vars

\* A request runs to its end unless it is cut off.
FairSpec == Spec /\ \A r \in Requests : WF_vars(Step(r))

----------------------------------------------------------------------------
(* Rows, history and requests have their types; without an application     *)
(* there is no history, and a request that writes by id has an id.         *)
TypeOK ==
  /\ app \in [id : Ids, stage : Stages] \union {NoApp}
  /\ hist \in Seq([from : Stages \union {NoStage}, to : Stages])
  /\ ~Exists => hist = <<>>
  /\ archived \in BOOLEAN
  /\ \A f \in {moved, announced, packs, decided, approved, cleared, invited, created,
               charged} :
       f \in [Ids -> Nat]
  /\ synced \subseteq Ids
  /\ req \in [Requests -> [pc : Points, kind : Kinds, id : Ids \union {0},
                          from : Stages \union {NoStage}, to : Stages \union {NoStage}]]
  /\ \A r \in Requests : req[r].pc \in Points \ {"idle", "create", "sync"} => req[r].id \in Ids
  /\ served \in 0..MaxRequests /\ faults \in 0..MaxFaults

Last(h) == h[Len(h)]

(* The trace ends where the application is: however requests overlap and   *)
(* wherever they are cut off, the last history entry tells the stage, as   *)
(* long as no import, which writes the two apart, has touched it.          *)
TraceMatchesStage ==
  Exists /\ app.id \notin synced => hist # <<>> /\ Last(hist).to = app.stage

(* An entry may tell a stage the application has left meanwhile, but never *)
(* one it was not in: its from-stage is where an earlier entry led.        *)
FromWasReached ==
  app.id \notin synced =>
    \A i \in 2..Len(hist) : \E j \in 1..(i - 1) : hist[j].to = hist[i].from

(* The stage history can be relied on for where an application has been.   *)
TraceIsTrue == TraceMatchesStage /\ FromWasReached

Announcing(i) == {r \in Requests : At(r, "announce") /\ req[r].id = i}

(* Every committed transition is announced by one event, in order to be    *)
(* delivered, and only a request cut off loses it; no event tells of a     *)
(* transition that a deletion has prevented.                               *)
EventsTellTransitions ==
  \A i \in Ids : /\ announced[i] <= moved[i]
                 /\ moved[i] <= announced[i] + Cardinality(Announcing(i)) + faults

(* A review pack is asked for at most once per recorded move from the      *)
(* completed interview to the review: a duplicate pack is a duplicate move *)
(* of two overlapping requests, and shows in the history.                  *)
PacksHaveTransitions ==
  Exists => packs[app.id] <=
    Cardinality({k \in DOMAIN hist :
      hist[k] = [from |-> "INTERVIEW_COMPLETED", to |-> "RECRUITER_REVIEW"]})

(* No approval of a decision is on record without the decision, though the *)
(* row may be deleted or overwritten at any time.                          *)
ApprovalsFollowDecisions == \A i \in Ids : approved[i] <= decided[i]

(* What a transition brings about follows a transition, and at most once.  *)
ConsequencesFollow ==
  EventsTellTransitions /\ PacksHaveTransitions /\ ApprovalsFollowDecisions

(* No interview is set up through the approval action without the approval *)
(* of a person on record before it.                                        *)
InvitedIsCleared == \A i \in Ids : invited[i] <= cleared[i]

(* Decisions without an approval come to be as few as the requests cut off *)
(* and, of an application that was deleted, those in flight beside the     *)
(* deletion, which may find the row gone before they write the approval.   *)
DecisionsAreApproved ==
  \A i \in Ids :
    decided[i] <= approved[i] + faults
                    + (IF app.id = i THEN 0 ELSE Cardinality(Requests) - 1)

(* Applications created and not charged come to be as few as the requests  *)
(* cut off, the deleted ones included.                                     *)
CreatedAreCharged ==
  Cardinality({i \in Ids : created[i] > charged[i]}) <= faults

(* Requests do everything they have begun: one that is cut off leaves one  *)
(* thing undone and nothing of another request, though the row be moved or *)
(* deleted under it.                                                       *)
RequestsFinish == []<>(DecisionsAreApproved /\ CreatedAreCharged)

----------------------------------------------------------------------------
(* What the documentation says and the code does not do.                   *)

(* Critical actions have an explicit human approval on record: once no     *)
(* request is at work, a rejected application has one.                     *)
RejectedIsApproved ==
  Exists /\ app.stage = "REJECTED" /\ (\A r \in Requests : At(r, "idle")) /\ faults = 0
    /\ app.id \notin synced
    => approved[app.id] > 0
=============================================================================
