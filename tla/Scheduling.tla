----------------------------- MODULE Scheduling -----------------------------
(***************************************************************************)
(* The scheduling workflow of one application (scheduling.service.ts):     *)
(* availability of the recruiter and of the candidate, proposed slots, the *)
(* selected slot and its booking, which creates or moves an interview      *)
(* session through interviews.service.ts.                                  *)
(*                                                                         *)
(* Each handler reads the workflow's row, checks its state and writes the  *)
(* row by its id; a booking writes the session in between.  A session is   *)
(* also started, ended and moved by the recruiter without the workflow.    *)
(* The candidate's public selection is a selection followed by a booking,  *)
(* two requests as far as the rows can tell.                               *)
(***************************************************************************)
EXTENDS Naturals, FiniteSets

CONSTANTS
  Slots,        \* start times that can be proposed
  Windows,      \* availabilities that may be given, as sets of slots
  Requests,     \* requests in flight at once
  MaxRequests,  \* bound: requests served
  MaxSessions,  \* bound: interview sessions of the application
  MaxFaults     \* bound: requests cut off

ASSUME SchedulingAssumption ==
  /\ Windows \subseteq SUBSET Slots
  /\ MaxRequests \in Nat /\ MaxSessions \in Nat /\ MaxFaults \in Nat

VARIABLES
  wf,          \* the row of SchedulingWorkflow
  sess,        \* InterviewSession of the application, by id
  req,         \* what each request is about to write
  common,      \* history: slots that were in both availabilities at some time
  overlaps,    \* history: writes of a row another request had written meanwhile
  served, faults

vars == <<wf, sess, req, common, overlaps, served, faults>>

States == {"none", "COLLECTING_RECRUITER_AVAILABILITY", "COLLECTING_CANDIDATE_AVAILABILITY",
           "SLOT_PROPOSAL_READY", "SLOT_SELECTED", "BOOKED", "RESCHEDULE_PENDING", "CANCELLED"}
NoSlot == "none"
Sessions == 1..MaxSessions
None == 0

NoWorkflow == [state |-> "none", status |-> "ACTIVE", recruiter |-> {}, candidate |-> {},
               proposed |-> {}, selected |-> NoSlot, session |-> None]
NoSession == [status |-> "none", at |-> NoSlot, by |-> "recruiter"]
Idle == [pc |-> "idle", kind |-> "none", slots |-> {}, slot |-> NoSlot, session |-> None,
         stale |-> FALSE]

Init ==
  /\ wf = NoWorkflow
  /\ sess = [i \in Sessions |-> NoSession]
  /\ req = [r \in Requests |-> Idle]
  /\ common = {} /\ overlaps = 0 /\ served = 0 /\ faults = 0

At(r, pc) == req[r].pc = pc
In(states) == wf.state \in states
ActiveSessions == {i \in Sessions : sess[i].status \in {"SCHEDULED", "RUNNING"}}
NewSession == {i \in Sessions : sess[i].status = "none"}

CreateWorkflow ==
  /\ In({"none"})
  /\ wf' = [wf EXCEPT !.state = "COLLECTING_RECRUITER_AVAILABILITY"]
  /\ UNCHANGED <<sess, req, common, overlaps, served, faults>>

----------------------------------------------------------------------------
(* A request reads the workflow.                                            *)

Begin(r, pc, kind, slots, slot, session) ==
  /\ At(r, "idle") /\ served < MaxRequests
  /\ served' = served + 1
  /\ req' = [req EXCEPT ![r] = [pc |-> pc, kind |-> kind, slots |-> slots, slot |-> slot,
                                session |-> session, stale |-> FALSE]]
  /\ UNCHANGED <<wf, sess, common, overlaps, faults>>

Ask(r, kind, slots, slot) == Begin(r, "write", kind, slots, slot, None)

BeginConstraints(r) ==
  /\ In({"COLLECTING_RECRUITER_AVAILABILITY", "COLLECTING_CANDIDATE_AVAILABILITY",
         "SLOT_PROPOSAL_READY"})
  /\ \E slots \in Windows : Ask(r, "constraints", slots, NoSlot)

BeginAvailability(r) ==
  /\ In({"COLLECTING_CANDIDATE_AVAILABILITY", "SLOT_PROPOSAL_READY"})
  /\ \E slots \in Windows : Ask(r, "availability", slots, NoSlot)

M_SlotsOfRecruiter == wf.recruiter

BothAvailable == wf.recruiter \intersect wf.candidate

\* Some are left out that the calendar shows as busy; an empty rest is refused.
BeginPropose(r) ==
  /\ In({"SLOT_PROPOSAL_READY"})
  /\ \E slots \in SUBSET BothAvailable \ {{}} : Ask(r, "propose", slots, NoSlot)

BeginSelect(r) ==
  /\ In({"SLOT_PROPOSAL_READY"})
  /\ \E slot \in wf.proposed : Ask(r, "select", {}, slot)

BeginCancel(r) ==
  wf.state # "none" /\ wf.status = "ACTIVE" /\ Ask(r, "cancel", {}, NoSlot)

MayReschedule == In({"BOOKED", "SLOT_SELECTED"})

BeginReschedule(r) == MayReschedule /\ Ask(r, "reschedule", {}, NoSlot)

\* A workflow without a session schedules one, the others move theirs.
BeginBook(r) ==
  /\ In({"SLOT_SELECTED", "RESCHEDULE_PENDING"}) /\ wf.selected # NoSlot
  /\ Begin(r, IF wf.session = None THEN "look" ELSE "check", "book", {},
           wf.selected, wf.session)

----------------------------------------------------------------------------
(* The writes of the row.                                                   *)

Booked(q) ==
  [wf EXCEPT !.session = q.session, !.state = "BOOKED", !.status = "COMPLETED"]

M_CancelForgets == [wf EXCEPT !.state = "CANCELLED", !.status = "CANCELLED", !.session = None]

Cancelled == [wf EXCEPT !.state = "CANCELLED", !.status = "CANCELLED"]

Written(q) ==
  CASE q.kind = "constraints" ->
         [wf EXCEPT !.recruiter = q.slots, !.state = "COLLECTING_CANDIDATE_AVAILABILITY"]
    [] q.kind = "availability" ->
         [wf EXCEPT !.candidate = q.slots, !.state = "SLOT_PROPOSAL_READY"]
    [] q.kind = "propose" -> [wf EXCEPT !.proposed = q.slots, !.state = "SLOT_PROPOSAL_READY"]
    [] q.kind = "select" -> [wf EXCEPT !.selected = q.slot, !.state = "SLOT_SELECTED"]
    [] q.kind = "cancel" -> Cancelled
    [] q.kind = "reschedule" -> [wf EXCEPT !.state = "RESCHEDULE_PENDING", !.status = "ACTIVE"]
    [] q.kind = "book" -> Booked(q)

\* The row is written; the others in flight have read what it was before.
WriteWorkflow(r) ==
  /\ At(r, "write")
  /\ wf' = Written(req[r])
  /\ common' = common \union (wf'.recruiter \intersect wf'.candidate)
  /\ overlaps' = overlaps + (IF req[r].stale THEN 1 ELSE 0)
  /\ req' = [s \in Requests |->
               IF s = r THEN Idle
               ELSE IF At(s, "idle") THEN req[s] ELSE [req[s] EXCEPT !.stale = TRUE]]
  /\ UNCHANGED <<sess, served, faults>>

----------------------------------------------------------------------------
(* interviews.schedule and interviews.reschedule, as a booking calls them.  *)

LookForActive(r) ==
  /\ At(r, "look")
  /\ req' = [req EXCEPT ![r] = IF ActiveSessions = {} THEN [@ EXCEPT !.pc = "create"] ELSE Idle]
  /\ UNCHANGED <<wf, sess, common, overlaps, served, faults>>

M_BooksTheFirst(r) == CHOOSE slot \in wf.proposed : TRUE

SlotToBook(r) == req[r].slot

CreateSession(r) ==
  /\ At(r, "create")
  /\ \E i \in NewSession :
       /\ i - 1 \notin NewSession
       /\ sess' = [sess EXCEPT ![i] = [status |-> "SCHEDULED", at |-> SlotToBook(r), by |-> "booking"]]
       /\ req' = [req EXCEPT ![r].pc = "write", ![r].session = i]
  /\ UNCHANGED <<wf, common, overlaps, served, faults>>

\* interviews.reschedule also takes up a session that was missed.
Movable == {"SCHEDULED", "MISSED"}

CheckSession(r) ==
  /\ At(r, "check")
  /\ req' = [req EXCEPT ![r] = IF sess[@.session].status \in Movable
                                THEN [@ EXCEPT !.pc = "update"] ELSE Idle]
  /\ UNCHANGED <<wf, sess, common, overlaps, served, faults>>

\* The session is scheduled again whatever it has become.
UpdateSession(r) ==
  /\ At(r, "update")
  /\ sess' = [sess EXCEPT ![req[r].session].status = "SCHEDULED",
                          ![req[r].session].at = SlotToBook(r),
                          ![req[r].session].by = "booking"]
  /\ req' = [req EXCEPT ![r].pc = "write"]
  /\ UNCHANGED <<wf, common, overlaps, served, faults>>

----------------------------------------------------------------------------
(* The recruiter and the candidate, through interviews.service.ts alone.     *)

StartSession(i) == sess[i].status = "SCHEDULED" /\ sess' = [sess EXCEPT ![i].status = "RUNNING"]

\* Completed or cancelled, for good.
CloseSession(i) ==
  /\ sess[i].status \in {"SCHEDULED", "RUNNING", "MISSED"}
  /\ sess' = [sess EXCEPT ![i].status = "CLOSED"]

\* Not attended (NO_SHOW), abandoned or timed out (FAILED).
MissSession(i) == i \in ActiveSessions /\ sess' = [sess EXCEPT ![i].status = "MISSED"]

\* At a time the recruiter chooses, whatever the proposed slots are.
OwnTime == [status |-> "SCHEDULED", at |-> NoSlot, by |-> "recruiter"]

MoveSession(i) ==
  /\ sess[i].status \in Movable
  /\ sess' = [sess EXCEPT ![i] = OwnTime]

ScheduleSession(i) ==
  /\ ActiveSessions = {} /\ i \in NewSession /\ i - 1 \notin NewSession
  /\ sess' = [sess EXCEPT ![i] = OwnTime]

Recruiter ==
  /\ \E i \in Sessions : \/ StartSession(i) \/ CloseSession(i) \/ MissSession(i)
                        \/ MoveSession(i) \/ ScheduleSession(i)
  /\ UNCHANGED <<wf, req, common, overlaps, served, faults>>

\* Also when the meeting provider fails between the session and the workflow.
RequestFails(r) ==
  /\ ~At(r, "idle") /\ faults < MaxFaults
  /\ faults' = faults + 1
  /\ req' = [req EXCEPT ![r] = Idle]
  /\ UNCHANGED <<wf, sess, common, overlaps, served>>

----------------------------------------------------------------------------
Read(r) ==
  \/ BeginConstraints(r) \/ BeginAvailability(r) \/ BeginPropose(r) \/ BeginSelect(r)
  \/ BeginCancel(r) \/ BeginReschedule(r) \/ BeginBook(r)

Step(r) ==
  \/ LookForActive(r) \/ CreateSession(r) \/ CheckSession(r) \/ UpdateSession(r)
  \/ WriteWorkflow(r)

Next ==
  \/ CreateWorkflow \/ Recruiter
  \/ \E r \in Requests : Read(r) \/ Step(r) \/ RequestFails(r)

Spec == Init /\ [][Next]_vars

----------------------------------------------------------------------------
(* The rows have their types, and a request past the look-up of its        *)
(* session names one that exists.                                          *)
TypeOK ==
  /\ wf \in [state : States, status : {"ACTIVE", "COMPLETED", "CANCELLED"},
             recruiter : SUBSET Slots, candidate : SUBSET Slots, proposed : SUBSET Slots,
             selected : Slots \union {NoSlot}, session : Sessions \union {None}]
  /\ sess \in [Sessions -> [status : {"none", "SCHEDULED", "RUNNING", "MISSED", "CLOSED"},
                            at : Slots \union {NoSlot}, by : {"booking", "recruiter"}]]
  /\ req \in [Requests -> [pc : {"idle", "write", "look", "create", "check", "update"},
                           kind : {"none", "constraints", "availability", "propose", "select",
                                   "cancel", "reschedule", "book"},
                           slots : SUBSET Slots, slot : Slots \union {NoSlot},
                           session : Sessions \union {None}, stale : BOOLEAN]]
  /\ \A r \in Requests :
       At(r, "check") \/ At(r, "update") \/ (At(r, "write") /\ req[r].kind = "book") =>
         req[r].session # None /\ sess[req[r].session].status # "none"
  /\ common \subseteq Slots /\ overlaps \in Nat
  /\ served \in 0..MaxRequests /\ faults \in 0..MaxFaults

(* A booked workflow's session exists and is set for the selected slot,    *)
(* also when a booking was cut off between its two writes, unless requests *)
(* on the workflow have overlapped or the recruiter has moved the session  *)
(* since.                                                                  *)
BookedAtSelected ==
  wf.state = "BOOKED" /\ overlaps = 0 =>
    /\ wf.session # None
    /\ sess[wf.session].by = "booking" => sess[wf.session].at = wf.selected

(* Whatever overlaps, a selected slot was at some time one that both sides *)
(* had given: availability may have changed since, never invented.         *)
SelectedWasCommon == wf.selected # NoSlot => wf.selected \in common

(* Every session that a booking was the last to set is the workflow's own, *)
(* or a request is about to write it there: at most one is lost for each   *)
(* request cut off between its two writes and one for each that wrote the  *)
(* workflow over another.                                                  *)
AboutToBook(i) == \E r \in Requests : At(r, "write") /\ req[r].kind = "book" /\ req[r].session = i
Lost == {i \in Sessions : /\ sess[i].status # "none" /\ sess[i].by = "booking"
                          /\ wf.session # i /\ ~AboutToBook(i)}

NoOrphanSession == Cardinality(Lost) <= faults + overlaps

(* A cancelled workflow stays so: only a request that had read it before   *)
(* the cancellation brings it back.                                        *)
CancelledStays == [][wf.state = "CANCELLED" /\ overlaps' = overlaps => wf'.state = "CANCELLED"]_vars
=============================================================================
