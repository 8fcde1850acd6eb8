-------------------------- MODULE InterviewSession --------------------------
(***************************************************************************)
(* The interview sessions of one application: interviews.service.ts and    *)
(* interview-invitation-monitor.service.ts.  Recruiters, the candidate's   *)
(* public link and the monitor timer of every API process change one       *)
(* InterviewSession row.  An operation reads the row, decides, awaits      *)
(* other services and then writes by id, so the row may have changed; only *)
(* the monitor's statements and the expiry of an invitation repeat their   *)
(* condition in the UPDATE.                                                *)
(*                                                                         *)
(* One action is one database statement with the code up to the next one.  *)
(* A read after which the operation returns at once changes nothing and is *)
(* no step.  Domain events and audit rows written behind an update are     *)
(* left out, but for the reminders, which are the e-mails.                 *)
(***************************************************************************)
EXTENDS Naturals, FiniteSets

CONSTANTS
  Sessions,     (* InterviewSession rows of the application                *)
  Invites,      (* those created as AI-first invitations                   *)
  Requests,     (* HTTP requests in flight                                 *)
  Monitors,     (* API processes, each with a monitor timer                *)
  Kinds,        (* the kinds of request that arrive                        *)
  Overlap,      (* bound: requests and ticks in flight at once             *)
  MaxRequests,  (* bound: requests                                         *)
  MaxFaults,    (* bound: requests and ticks cut short                     *)
  NoSession     (* null                                                    *)

AllKinds == {"invite", "schedule", "reschedule", "start", "cancel",
             "complete", "poll", "publicStart", "publicComplete", "abandon",
             "remind", "reviewPack", "stageTransition"}

ASSUME InterviewAssumption ==
  /\ Invites \subseteq Sessions
  /\ Kinds \subseteq AllKinds
  /\ IsFiniteSet(Requests)
  /\ IsFiniteSet(Monitors)
  /\ Requests \intersect Monitors = {}
  /\ Overlap \in Nat
  /\ MaxRequests \in Nat
  /\ MaxFaults \in Nat
  /\ NoSession \notin Sessions

VARIABLES
  status,       (* InterviewSession.status                                 *)
  invitation,   (* invitationStatus                                        *)
  expiry,       (* candidateAccessExpiresAt: far, within a day, past       *)
  due,          (* invitationIssuedAt is two days old                      *)
  reminded,     (* reminders whose invitationReminder<n>SentAt is set      *)
  activity,     (* last candidate activity, else the start: none, recent or*)
                (* older than the stale limit                              *)
  stage,        (* CandidateApplication.currentStage                       *)
  pc, op, sess, (* requests: control point, kind, session                  *)
  seen,         (* requests: the status they read                          *)
  aim,          (* requests: the stage or the reminder they will write     *)
  todo,         (* monitors: rows of the list not yet dealt with           *)
  sending,      (* monitors: the reminder recorded and not yet appended    *)
  reminders,    (* history: automatic reminder events by number            *)
  packs,        (* history: review packs requested by a completion         *)
  requested,    (* history: review packs a recruiter asked for             *)
  unbacked,     (* history: INTERVIEW_SCHEDULED came or stayed without a   *)
                (* session: by a recruiter's choice, written when the      *)
                (* session was cancelled already, a rollback cut short     *)
  begun, faults

rowVars == <<status, invitation, expiry, due, reminded, activity>>
requestVars == <<pc, op, sess, seen, aim>>
monitorVars == <<todo, sending>>
countVars == <<begun, faults>>
historyVars == <<reminders, packs, requested, unbacked>>
vars == <<rowVars, stage, requestVars, monitorVars, historyVars, countVars>>

Statuses == {"none", "SCHEDULED", "RUNNING", "COMPLETED", "CANCELLED",
             "FAILED", "NO_SHOW"}
Active == {"SCHEDULED", "RUNNING"}
Invitations == {"none", "SENT", "REMINDER_SENT", "IN_PROGRESS", "COMPLETED",
                "EXPIRED", "FAILED"}
Stages == {"SCREENING", "INTERVIEW_SCHEDULED", "INTERVIEW_COMPLETED",
           "REJECTED", "HIRED"}
Reminders == {1, 2}
Points == {"idle", "check", "checkStage", "checkActive", "create",
           "reschedule", "start", "cancel", "rollback", "rollbackStage",
           "rollbackActive", "completing", "complete", "expire", "refresh",
           "open", "timeout", "abandon", "remind", "move", "moveWrite",
           "automate", "pack"}

-----------------------------------------------------------------------------
Init ==
  /\ status = [s \in Sessions |-> "none"]
  /\ invitation = [s \in Sessions |-> "none"]
  /\ expiry = [s \in Sessions |-> "far"]
  /\ due = [s \in Sessions |-> FALSE]
  /\ reminded = [s \in Sessions |-> {}]
  /\ activity = [s \in Sessions |-> "none"]
  /\ stage = "SCREENING"
  /\ pc = [p \in Requests |-> "idle"]
  /\ op = [p \in Requests |-> "none"]
  /\ sess = [p \in Requests |-> NoSession]
  /\ seen = [p \in Requests |-> "none"]
  /\ aim = [p \in Requests |-> "none"]
  /\ todo = [m \in Monitors |-> {}]
  /\ sending = [m \in Monitors |-> {}]
  /\ reminders = [s \in Sessions |-> [n \in Reminders |-> 0]]
  /\ packs = [s \in Sessions |-> 0]
  /\ requested = [s \in Sessions |-> 0]
  /\ unbacked = FALSE
  /\ begun = 0
  /\ faults = 0

Busy == {p \in Requests : pc[p] # "idle"}
          \union {m \in Monitors : todo[m] # {} \/ sending[m] # {}}

Begins(p, k) ==
  /\ pc[p] = "idle"
  /\ k \in Kinds
  /\ Cardinality(Busy) < Overlap
  /\ begun < MaxRequests
  /\ begun' = begun + 1
  /\ op' = [op EXCEPT ![p] = k]
  /\ UNCHANGED faults

(* A request begins by reading the row of s and goes on at point l.        *)
Reads(p, k, s, l) ==
  /\ Begins(p, k)
  /\ pc' = [pc EXCEPT ![p] = l]
  /\ sess' = [sess EXCEPT ![p] = s]
  /\ seen' = [seen EXCEPT ![p] = status[s]]

Goes(p, l) ==
  /\ pc' = [pc EXCEPT ![p] = l]
  /\ UNCHANGED <<op, sess, seen, aim, countVars>>

Ends(p) ==
  /\ pc' = [pc EXCEPT ![p] = "idle"]
  /\ op' = [op EXCEPT ![p] = "none"]
  /\ sess' = [sess EXCEPT ![p] = NoSession]
  /\ seen' = [seen EXCEPT ![p] = "none"]
  /\ aim' = [aim EXCEPT ![p] = "none"]
  /\ UNCHANGED countVars

(* On to transitionApplicationStageIfNeeded with target stage t.           *)
Moves(p, t) ==
  /\ pc' = [pc EXCEPT ![p] = "move"]
  /\ aim' = [aim EXCEPT ![p] = t]
  /\ UNCHANGED <<op, sess, seen, countVars>>

(* invitationStatus is written for AI-first invitations only.              *)
Invitation(s, i) ==
  invitation' = [invitation EXCEPT ![s] = IF s \in Invites THEN i ELSE @]
Status(s, t) == status' = [status EXCEPT ![s] = t]

NotRows == <<monitorVars, historyVars>>

-----------------------------------------------------------------------------
(* Creating a session.                                                     *)

(* Template, candidate and quota checks read rows no session changes.      *)
CreateBegins(p, s) ==
  /\ status[s] = "none"
  /\ \A q \in Requests : sess[q] # s
  /\ Begins(p, IF s \in Invites THEN "invite" ELSE "schedule")
  /\ pc' = [pc EXCEPT ![p] = "check"]
  /\ sess' = [sess EXCEPT ![p] = s]
  /\ UNCHANGED <<rowVars, stage, seen, aim, NotRows>>

(* The two reads of Promise.all, in either order.                          *)
CheckStage(p) ==
  /\ pc[p] \in {"check", "checkStage"}
  /\ IF stage \in {"REJECTED", "HIRED"} THEN Ends(p)
     ELSE Goes(p, IF pc[p] = "check" THEN "checkActive" ELSE "create")
  /\ UNCHANGED <<rowVars, stage, NotRows>>

CheckActive(p) ==
  /\ pc[p] \in {"check", "checkActive"}
  /\ IF \E s \in Sessions : status[s] \in Active THEN Ends(p)
     ELSE Goes(p, IF pc[p] = "check" THEN "checkStage" ELSE "create")
  /\ UNCHANGED <<rowVars, stage, NotRows>>

(* The row; its meeting link follows, from the provider for a meeting.     *)
CreateSession(p) ==
  /\ pc[p] = "create"
  /\ Status(sess[p], "SCHEDULED")
  /\ Invitation(sess[p], "SENT")
  /\ Moves(p, "INTERVIEW_SCHEDULED")
  /\ UNCHANGED <<expiry, due, reminded, activity, stage, NotRows>>

-----------------------------------------------------------------------------
(* transitionApplicationStageIfNeeded, and what each caller does behind it.*)

AfterMove(p) ==
  IF op[p] \in {"complete", "publicComplete"} THEN Goes(p, "automate")
  ELSE Ends(p)

MoveRead(p) ==
  /\ pc[p] = "move"
  /\ IF stage = aim[p] THEN AfterMove(p) ELSE Goes(p, "moveWrite")
  /\ UNCHANGED <<rowVars, stage, NotRows>>

MoveWrite(p) ==
  /\ pc[p] = "moveWrite"
  /\ stage' = aim[p]
  /\ unbacked' = (/\ aim[p] = "INTERVIEW_SCHEDULED"
                  /\ \/ op[p] = "stageTransition"
                     \/ status[sess[p]] = "CANCELLED")
  /\ AfterMove(p)
  /\ UNCHANGED <<rowVars, monitorVars, reminders, packs, requested>>

(* applications.service: a recruiter moves the application, to any stage   *)
(* but the present one.                                                    *)
StageTransition(p) ==
  /\ Begins(p, "stageTransition")
  /\ pc' = [pc EXCEPT ![p] = "moveWrite"]
  /\ \E t \in Stages \ {stage} : aim' = [aim EXCEPT ![p] = t]
  /\ UNCHANGED <<rowVars, stage, sess, seen, NotRows>>

-----------------------------------------------------------------------------
(* The recruiter's operations on an existing session.                      *)

(* Mutant: a cancelled session may be rescheduled.                         *)
M_RescheduleCancelled(s) == status[s] \notin {"none", "COMPLETED", "RUNNING"}

MayReschedule(s) == status[s] \notin {"none", "COMPLETED", "CANCELLED", "RUNNING"}
MayStart(s) == status[s] = "SCHEDULED"
MayCancel(s) == status[s] \notin {"none", "COMPLETED", "CANCELLED"}
MayComplete(s) == status[s] \in Active

ReadForReschedule(p, s) ==
  /\ MayReschedule(s)
  /\ Reads(p, "reschedule", s, "reschedule")
  /\ UNCHANGED <<rowVars, stage, aim, NotRows>>

(* The new time moves the expiry; invitationStatus stays what it was.      *)
Reschedule(p) ==
  /\ pc[p] = "reschedule"
  /\ Status(sess[p], "SCHEDULED")
  /\ expiry' = [expiry EXCEPT ![sess[p]] = "far"]
  /\ Moves(p, "INTERVIEW_SCHEDULED")
  /\ UNCHANGED <<invitation, due, reminded, activity, stage, NotRows>>

ReadForStart(p, s) ==
  /\ MayStart(s)
  /\ Reads(p, "start", s, "start")
  /\ UNCHANGED <<rowVars, stage, aim, NotRows>>

(* startedAt is set once and lastCandidateActivityAt left alone.           *)
Start(p) ==
  /\ pc[p] = "start"
  /\ Status(sess[p], "RUNNING")
  /\ activity' = [activity EXCEPT ![sess[p]] = IF @ = "none" THEN "recent" ELSE @]
  /\ Ends(p)
  /\ UNCHANGED <<invitation, expiry, due, reminded, stage, NotRows>>

ReadForCancel(p, s) ==
  /\ MayCancel(s)
  /\ Reads(p, "cancel", s, "cancel")
  /\ UNCHANGED <<rowVars, stage, aim, NotRows>>

(* Mutant: a cancellation leaves the stage alone.                          *)
M_CancelWithoutRollback(p) ==
  /\ pc[p] = "cancel"
  /\ Status(sess[p], "CANCELLED")
  /\ Invitation(sess[p], "FAILED")
  /\ Ends(p)
  /\ unbacked' = FALSE
  /\ UNCHANGED <<expiry, due, reminded, activity, stage, monitorVars, reminders,
                 packs, requested>>

(* The provider has been told meanwhile.                                   *)
Cancel(p) ==
  /\ pc[p] = "cancel"
  /\ Status(sess[p], "CANCELLED")
  /\ Invitation(sess[p], "FAILED")
  /\ Goes(p, "rollback")
  /\ unbacked' = FALSE
  /\ UNCHANGED <<expiry, due, reminded, activity, stage, monitorVars, reminders,
                 packs, requested>>

(* rollbackStageAfterCancellation: two reads, in either order.             *)
RollbackStage(p) ==
  /\ pc[p] \in {"rollback", "rollbackStage"}
  /\ IF stage # "INTERVIEW_SCHEDULED" THEN Ends(p)
     ELSE IF pc[p] = "rollback" THEN Goes(p, "rollbackActive")
     ELSE Moves(p, "SCREENING")
  /\ UNCHANGED <<rowVars, stage, NotRows>>

RollbackActive(p) ==
  /\ pc[p] \in {"rollback", "rollbackActive"}
  /\ IF \E s \in Sessions : status[s] \in Active THEN Ends(p)
     ELSE IF pc[p] = "rollback" THEN Goes(p, "rollbackStage")
     ELSE Moves(p, "SCREENING")
  /\ UNCHANGED <<rowVars, stage, NotRows>>

ReadForComplete(p, s) ==
  /\ MayComplete(s)
  /\ Reads(p, "complete", s, "complete")
  /\ UNCHANGED <<rowVars, stage, aim, NotRows>>

Complete(p) ==
  /\ pc[p] = "complete"
  /\ Status(sess[p], "COMPLETED")
  /\ Invitation(sess[p], "COMPLETED")
  /\ activity' = [activity EXCEPT ![sess[p]] = IF @ = "none" THEN "recent" ELSE @]
  /\ Moves(p, "INTERVIEW_COMPLETED")
  /\ UNCHANGED <<expiry, due, reminded, stage, NotRows>>

(* runPostCompletionAutomation, which nobody awaits: behind a feature flag *)
(* unless the candidate completed; requestReviewPack asks for a COMPLETED  *)
(* session.                                                                *)
AutomationRead(p) ==
  /\ pc[p] = "automate"
  /\ IF status[sess[p]] = "COMPLETED" THEN Goes(p, "pack") ELSE Ends(p)
  /\ UNCHANGED <<rowVars, stage, NotRows>>

AutomationOff(p) ==
  /\ pc[p] = "automate"
  /\ op[p] = "complete"
  /\ Ends(p)
  /\ UNCHANGED <<rowVars, stage, NotRows>>

(* The recruiter's requestReviewPack, which looks for no earlier pack.     *)
ReadForReviewPack(p, s) ==
  /\ status[s] = "COMPLETED"
  /\ Reads(p, "reviewPack", s, "pack")
  /\ UNCHANGED <<rowVars, stage, aim, NotRows>>

(* The two task runs of a pack, here in one step.                          *)
RequestReviewPack(p) ==
  /\ pc[p] = "pack"
  /\ IF op[p] = "reviewPack"
     THEN /\ requested' = [requested EXCEPT ![sess[p]] = @ + 1]
          /\ UNCHANGED packs
     ELSE /\ packs' = [packs EXCEPT ![sess[p]] = @ + 1]
          /\ UNCHANGED requested
  /\ Ends(p)
  /\ UNCHANGED <<rowVars, stage, monitorVars, reminders, unbacked>>

-----------------------------------------------------------------------------
(* The candidate's link: resolvePublicSession, then the operation.         *)

(* deriveInterviewInvitationState: the state of the link is EXPIRED.       *)
LinkExpired(s) ==
  /\ status[s] \notin {"COMPLETED", "RUNNING", "FAILED", "CANCELLED"}
  /\ invitation[s] \notin {"COMPLETED", "IN_PROGRESS", "FAILED"}
  /\ \/ status[s] = "NO_SHOW"
     \/ invitation[s] = "EXPIRED"
     \/ expiry[s] = "past"

Refused(k, s) ==
  IF s \in Invites THEN LinkExpired(s) /\ k \notin {"poll", "publicComplete"}
  ELSE expiry[s] = "past"

TimedOut(s) == status[s] = "RUNNING" /\ activity[s] = "old"

(* Where a request of kind k goes on with the row it holds of s.           *)
Admitted(k, s) ==
  IF Refused(k, s) THEN "idle"
  ELSE CASE k = "poll" -> IF TimedOut(s) THEN "timeout" ELSE "idle"
         [] k = "abandon" -> IF status[s] \in {"CANCELLED", "COMPLETED", "FAILED"}
                             THEN "idle" ELSE "abandon"
         [] OTHER -> IF status[s] \in Active THEN "open" ELSE "idle"

Resolve(p, s) ==
  /\ status[s] # "none"
  /\ \E k \in {"poll", "publicStart", "publicComplete", "abandon"} :
       LET expiring == s \in Invites /\ LinkExpired(s) /\ status[s] = "SCHEDULED"
           next == IF expiring THEN "expire" ELSE Admitted(k, s)
       IN  next # "idle" /\ Reads(p, k, s, next)
  /\ UNCHANGED <<rowVars, stage, aim, NotRows>>

(* Mutant: expiry by id and time alone.                                    *)
M_ExpireByTime(s) == expiry[s] = "past"

(* UPDATE ... WHERE status = SCHEDULED AND candidateAccessExpiresAt <= now.*)
MayExpire(s) == status[s] = "SCHEDULED" /\ expiry[s] = "past"

Expires(s) ==
  IF MayExpire(s)
  THEN Status(s, "NO_SHOW") /\ invitation' = [invitation EXCEPT ![s] = "EXPIRED"]
  ELSE UNCHANGED <<status, invitation>>

ExpireOnVisit(p) ==
  /\ pc[p] = "expire"
  /\ Expires(sess[p])
  /\ Goes(p, "refresh")
  /\ UNCHANGED <<expiry, due, reminded, activity, stage, NotRows>>

Refresh(p) ==
  /\ pc[p] = "refresh"
  /\ LET next == Admitted(op[p], sess[p])
     IN  IF next = "idle" THEN Ends(p)
         ELSE /\ pc' = [pc EXCEPT ![p] = next]
              /\ seen' = [seen EXCEPT ![p] = status[sess[p]]]
              /\ UNCHANGED <<op, sess, aim, countVars>>
  /\ UNCHANGED <<rowVars, stage, NotRows>>

(* startPublicSession and the first half of completePublicSession: a       *)
(* session read as RUNNING keeps its status, whatever it is by now.        *)
OpenPublic(p) ==
  /\ pc[p] = "open"
  /\ status' = [status EXCEPT ![sess[p]] =
                  IF seen[p] = "SCHEDULED" THEN "RUNNING" ELSE @]
  /\ Invitation(sess[p], IF seen[p] = "SCHEDULED" \/ op[p] = "publicStart"
                         THEN "IN_PROGRESS" ELSE invitation[sess[p]])
  /\ activity' = [activity EXCEPT ![sess[p]] = "recent"]
  /\ IF op[p] = "publicStart" THEN Ends(p) ELSE Goes(p, "completing")
  /\ UNCHANGED <<expiry, due, reminded, stage, NotRows>>

(* complete() reads the row again, behind the transcript.                  *)
ReadForPublicComplete(p) ==
  /\ pc[p] = "completing"
  /\ IF MayComplete(sess[p])
     THEN /\ pc' = [pc EXCEPT ![p] = "complete"]
          /\ seen' = [seen EXCEPT ![p] = status[sess[p]]]
          /\ UNCHANGED <<op, sess, aim, countVars>>
     ELSE Ends(p)
  /\ UNCHANGED <<rowVars, stage, NotRows>>

(* autoFailStaleSessionIfNeeded and abandonPublicSession.                  *)
FailPublic(p) ==
  /\ pc[p] \in {"timeout", "abandon"}
  /\ Status(sess[p], "FAILED")
  /\ Invitation(sess[p], "FAILED")
  /\ Ends(p)
  /\ UNCHANGED <<expiry, due, reminded, activity, stage, NotRows>>

-----------------------------------------------------------------------------
(* Reminders and expiry.                                                   *)

(* sendManualReminder: the first reminder column still empty, if any.      *)
ReadForRemind(p, s) ==
  /\ s \in Invites
  /\ status[s] = "SCHEDULED"
  /\ expiry[s] # "past"
  /\ Reads(p, "remind", s, "remind")
  /\ aim' = [aim EXCEPT ![p] = IF 1 \notin reminded[s] THEN "first"
                               ELSE IF 2 \notin reminded[s] THEN "second"
                               ELSE "neither"]
  /\ UNCHANGED <<rowVars, stage, NotRows>>

Column(a) == IF a = "first" THEN {1} ELSE IF a = "second" THEN {2} ELSE {}

(* The condition on the expiry uses the time before the read.              *)
RemindManually(p) ==
  /\ pc[p] = "remind"
  /\ IF status[sess[p]] = "SCHEDULED"
     THEN /\ invitation' = [invitation EXCEPT ![sess[p]] = "REMINDER_SENT"]
          /\ reminded' = [reminded EXCEPT ![sess[p]] = @ \union Column(aim[p])]
     ELSE UNCHANGED <<invitation, reminded>>
  /\ Ends(p)
  /\ UNCHANGED <<status, expiry, due, activity, stage, NotRows>>

(* Mutant: a tick lists only rows not reminded yet.                        *)
M_TaskUnreminded(s) ==
  CASE status[s] # "SCHEDULED" \/ reminded[s] # {} -> "none"
    [] expiry[s] = "past" -> "expire"
    [] expiry[s] = "near" -> "remind2"
    [] due[s] -> "remind1"
    [] OTHER -> "none"

(* What a tick will try to do with s, decided by the row it listed.        *)
Task(s) ==
  CASE status[s] # "SCHEDULED" -> "none"
    [] expiry[s] = "past" -> "expire"
    [] expiry[s] = "near" /\ 2 \notin reminded[s] -> "remind2"
    [] due[s] /\ 1 \notin reminded[s] -> "remind1"
    [] OTHER -> "none"

Tick(m) ==
  /\ todo[m] = {} /\ sending[m] = {}
  /\ Cardinality(Busy) < Overlap
  /\ LET rows == {s \in Invites : Task(s) # "none"}
     IN  /\ rows # {}
         /\ todo' = [todo EXCEPT ![m] = {<<s, Task(s)>> : s \in rows}]
  /\ UNCHANGED <<rowVars, stage, requestVars, sending, historyVars,
                 countVars>>

Done(m, s, t) ==
  /\ sending[m] = {}
  /\ <<s, t>> \in todo[m]
  /\ todo' = [todo EXCEPT ![m] = @ \ {<<s, t>>}]

ExpireInvitation(m, s) ==
  /\ Done(m, s, "expire")
  /\ Expires(s)
  /\ UNCHANGED <<expiry, due, reminded, activity, stage, requestVars, sending,
                 historyVars, countVars>>

(* Mutant: the reminder's UPDATE repeats the status only.                  *)
M_RemindByStatus(s, n) == status[s] = "SCHEDULED"

MayRemind(s, n) == status[s] = "SCHEDULED" /\ n \notin reminded[s]

(* UPDATE ... WHERE status = SCHEDULED AND the column is empty; the expiry *)
(* is compared with the time the tick began.                               *)
RecordReminder(m, s, n) ==
  /\ Done(m, s, IF n = 1 THEN "remind1" ELSE "remind2")
  /\ IF MayRemind(s, n)
     THEN /\ invitation' = [invitation EXCEPT ![s] = "REMINDER_SENT"]
          /\ reminded' = [reminded EXCEPT ![s] = @ \union {n}]
          /\ sending' = [sending EXCEPT ![m] = {<<s, n>>}]
     ELSE UNCHANGED <<invitation, reminded, sending>>
  /\ UNCHANGED <<status, expiry, due, activity, stage, requestVars, historyVars,
                 countVars>>

AppendReminder(m, s, n) ==
  /\ <<s, n>> \in sending[m]
  /\ reminders' = [reminders EXCEPT ![s][n] = @ + 1]
  /\ sending' = [sending EXCEPT ![m] = {}]
  /\ UNCHANGED <<rowVars, stage, requestVars, todo, packs, requested, unbacked,
                 countVars>>

-----------------------------------------------------------------------------
(* The clock.  Only a session that is still to happen has use for it.      *)

ExpiryNears(s) ==
  /\ status[s] \in Active
  /\ expiry[s] # "past"
  /\ expiry' = [expiry EXCEPT ![s] = IF @ = "far" THEN "near" ELSE "past"]
  /\ UNCHANGED <<status, invitation, due, reminded, activity, stage,
                 requestVars, NotRows, countVars>>

ReminderDue(s) ==
  /\ s \in Invites /\ status[s] \in Active
  /\ ~due[s]
  /\ due' = [due EXCEPT ![s] = TRUE]
  /\ UNCHANGED <<status, invitation, expiry, reminded, activity, stage,
                 requestVars, NotRows, countVars>>

CandidateSilent(s) ==
  /\ status[s] \in Active
  /\ activity[s] = "recent"
  /\ activity' = [activity EXCEPT ![s] = "old"]
  /\ UNCHANGED <<status, invitation, expiry, due, reminded, stage,
                 requestVars, NotRows, countVars>>

(* A statement or a provider fails, or the process ends: the request goes  *)
(* no further and nothing is undone; the tick's catch only logs.           *)
Fault == faults < MaxFaults /\ faults' = faults + 1 /\ UNCHANGED begun

(* p has cancelled its session and is not done with the stage.             *)
RollingBack(p) == op[p] = "cancel" /\ pc[p] # "cancel"

RequestFails(p) ==
  /\ pc[p] # "idle"
  /\ Fault
  /\ unbacked' = (unbacked \/ RollingBack(p))
  /\ pc' = [pc EXCEPT ![p] = "idle"]
  /\ op' = [op EXCEPT ![p] = "none"]
  /\ sess' = [sess EXCEPT ![p] = NoSession]
  /\ seen' = [seen EXCEPT ![p] = "none"]
  /\ aim' = [aim EXCEPT ![p] = "none"]
  /\ UNCHANGED <<rowVars, stage, monitorVars, reminders, packs, requested>>

TickFails(m) ==
  /\ todo[m] # {} \/ sending[m] # {}
  /\ Fault
  /\ todo' = [todo EXCEPT ![m] = {}]
  /\ sending' = [sending EXCEPT ![m] = {}]
  /\ UNCHANGED <<rowVars, stage, requestVars, historyVars>>

-----------------------------------------------------------------------------
Arrive(p) ==
  \/ StageTransition(p)
  \/ \E s \in Sessions :
       \/ CreateBegins(p, s) \/ ReadForReschedule(p, s) \/ ReadForStart(p, s)
       \/ ReadForCancel(p, s) \/ ReadForComplete(p, s) \/ Resolve(p, s)
       \/ ReadForRemind(p, s) \/ ReadForReviewPack(p, s)

Proceed(p) ==
  \/ CheckStage(p) \/ CheckActive(p) \/ CreateSession(p) \/ MoveRead(p)
  \/ MoveWrite(p) \/ Reschedule(p) \/ Start(p) \/ Cancel(p)
  \/ RollbackStage(p) \/ RollbackActive(p) \/ Complete(p)
  \/ AutomationRead(p) \/ AutomationOff(p) \/ RequestReviewPack(p)
  \/ ExpireOnVisit(p) \/ Refresh(p) \/ OpenPublic(p)
  \/ ReadForPublicComplete(p) \/ FailPublic(p) \/ RemindManually(p)

Monitor(m) ==
  \/ Tick(m)
  \/ \E s \in Sessions :
       \/ ExpireInvitation(m, s)
       \/ \E n \in Reminders : RecordReminder(m, s, n) \/ AppendReminder(m, s, n)

Clock(s) == ExpiryNears(s) \/ ReminderDue(s) \/ CandidateSilent(s)

Next ==
  \/ \E p \in Requests : Arrive(p) \/ Proceed(p) \/ RequestFails(p)
  \/ \E m \in Monitors : Monitor(m) \/ TickFails(m)
  \/ \E s \in Sessions : Clock(s)

(* The monitors' timers fire for ever; statements are answered; the clock  *)
(* runs on.  Nobody has to send a request.                                 *)
Fairness ==
  /\ \A p \in Requests : WF_vars(Proceed(p))
  /\ \A m \in Monitors : WF_vars(Monitor(m))
  /\ \A s \in Sessions : WF_vars(ExpiryNears(s))

Spec == Init /\ [][Next]_vars
FairSpec == Spec /\ Fairness

-----------------------------------------------------------------------------
TypeOK ==
  /\ status \in [Sessions -> Statuses]
  /\ invitation \in [Sessions -> Invitations]
  /\ expiry \in [Sessions -> {"far", "near", "past"}]
  /\ due \in [Sessions -> BOOLEAN]
  /\ reminded \in [Sessions -> SUBSET Reminders]
  /\ activity \in [Sessions -> {"none", "recent", "old"}]
  /\ stage \in Stages
  /\ pc \in [Requests -> Points]
  /\ op \in [Requests -> AllKinds \union {"none"}]
  /\ sess \in [Requests -> Sessions \union {NoSession}]
  /\ seen \in [Requests -> Statuses]
  /\ aim \in [Requests -> Stages \union {"none", "first", "second", "neither"}]
  /\ todo \in [Monitors -> SUBSET (Invites \X {"expire", "remind1", "remind2"})]
  /\ sending \in [Monitors -> SUBSET (Invites \X Reminders)]
  /\ reminders \in [Sessions -> [Reminders -> Nat]]
  /\ packs \in [Sessions -> Nat]
  /\ requested \in [Sessions -> Nat]
  /\ unbacked \in BOOLEAN
  /\ begun \in Nat
  /\ faults \in Nat
  /\ \A p \in Requests :
       pc[p] \notin {"idle", "moveWrite"} => sess[p] \in Sessions

(* The points at which a request writes the status by id alone.            *)
BlindPoints == {"reschedule", "start", "cancel", "complete", "open", "timeout",
                "abandon"}

Cycle == INSTANCE SessionLifecycle WITH phase <- status, reviewed <- packs,
                                        asked <- requested

(* A session leaves its life cycle (scheduled, runs, ends, once) only by   *)
(* the write of a request that read the row before it took its present     *)
(* status; the monitor and the expiry never do it.  What the requests may  *)
(* do with a row that has not changed under them, in other words, is right.*)
(* (Abandoning an expired session is left to Lifecycle: the stale column   *)
(* that admits it is invitationStatus, which the request did read anew.)   *)
StaleWritesOnly ==
  [][\A s \in Sessions :
       status'[s] # status[s] =>
         \/ <<status[s], status'[s]>> \in
              Cycle!Allowed \union {<<"NO_SHOW", "FAILED">>}
         \/ \E p \in Requests : /\ pc[p] \in BlindPoints
                                /\ sess[p] = s
                                /\ seen[p] # status[s]]_vars

(* Of several API processes' monitors, one sends each automatic reminder,  *)
(* and none sends it again after a reschedule or a failure.                *)
RemindedOnce == \A s \in Sessions : \A n \in Reminders : reminders[s][n] <= 1

(* Operations that do not overlap keep every session in its life cycle;    *)
(* its completion asks for one review pack, whatever becomes of it later,  *)
(* and a recruiter for any number, of a completed session only.            *)
Lifecycle == Cycle!LSpec

(* An application whose sessions are all cancelled does not go on waiting  *)
(* for an interview, however the cancellations overlap with scheduling and *)
(* with each other: when all is done its stage is INTERVIEW_SCHEDULED only *)
(* if a recruiter chose that, if the request that scheduled a session wrote*)
(* it behind the session's cancellation, or if a rollback was cut short,   *)
(* and no session has been cancelled since.                                *)
CancellationRollsBack ==
  /\ \A p \in Requests : pc[p] = "idle"
  /\ \A s \in Sessions : status[s] \in {"none", "CANCELLED"}
  /\ stage = "INTERVIEW_SCHEDULED"
  => unbacked

(* An invitation whose time is over does not stay open: some monitor closes*)
(* it, unless it is opened, moved or cancelled first.                      *)
ExpiredInvitationCloses ==
  \A s \in Invites :
    (status[s] = "SCHEDULED" /\ expiry[s] = "past")
      ~> (status[s] # "SCHEDULED" \/ expiry[s] # "past")

-----------------------------------------------------------------------------
(* What the messages of the code say and the code does not keep.           *)

(* "Bu basvuru icin zaten aktif bir interview daveti veya oturumu mevcut": *)
(* an application has one active invitation or session.                    *)
OneActiveSession ==
  \A s, t \in Sessions : status[s] \in Active /\ status[t] \in Active => s = t

(* "Tamamlanan session iptal edilemez": a completed session is not         *)
(* cancelled.                                                              *)
CompletedIsNotCancelled ==
  [][\A s \in Sessions : status[s] = "COMPLETED" => status'[s] # "CANCELLED"]_vars

(* The link of a scheduled session is refused as expired only when its time*)
(* is over.                                                                *)
RefusedOnlyWhenOver ==
  \A s \in Invites :
    status[s] = "SCHEDULED" /\ Refused("publicStart", s) => expiry[s] = "past"
=============================================================================
