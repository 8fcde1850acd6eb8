-------------------------- MODULE SessionLifecycle --------------------------
(***************************************************************************)
(* What the interviews service promises of one session when its operations *)
(* do not overlap: it is scheduled, runs and ends; only a session that     *)
(* failed or was not attended may be scheduled anew; its completion asks   *)
(* for at most one review pack; a recruiter may ask for more, but of a     *)
(* completed session only.  InterviewSession implements this specification *)
(* (InterviewSession!Lifecycle).                                           *)
(***************************************************************************)
EXTENDS Naturals

CONSTANT Sessions   (* rows of InterviewSession that may be created        *)

VARIABLES
  phase,            (* InterviewSession.status, "none" before the row      *)
  reviewed,         (* review packs requested by its completion            *)
  asked             (* review packs requested by a recruiter               *)

lvars == <<phase, reviewed, asked>>

LInit ==
  /\ phase = [s \in Sessions |-> "none"]
  /\ reviewed = [s \in Sessions |-> 0]
  /\ asked = [s \in Sessions |-> 0]

(* The status changes a session may go through.                            *)
Allowed ==
  ({"none", "SCHEDULED", "FAILED", "NO_SHOW"} \X {"SCHEDULED"})
    \union ({"SCHEDULED"} \X {"RUNNING", "NO_SHOW"})
    \union ({"SCHEDULED", "RUNNING"} \X {"COMPLETED", "FAILED"})
    \union ({"SCHEDULED", "RUNNING", "FAILED", "NO_SHOW"} \X {"CANCELLED"})

LMove(s, to) ==
  /\ <<phase[s], to>> \in Allowed
  /\ phase' = [phase EXCEPT ![s] = to]
  /\ UNCHANGED <<reviewed, asked>>

LReview(s) ==
  /\ phase[s] = "COMPLETED"
  /\ reviewed[s] = 0
  /\ reviewed' = [reviewed EXCEPT ![s] = 1]
  /\ UNCHANGED <<phase, asked>>

LAsk(s) ==
  /\ phase[s] = "COMPLETED"
  /\ asked' = [asked EXCEPT ![s] = @ + 1]
  /\ UNCHANGED <<phase, reviewed>>

LNext ==
  \E s \in Sessions :
    \/ LReview(s) \/ LAsk(s)
    \/ \E to \in {"SCHEDULED", "RUNNING", "COMPLETED", "CANCELLED", "FAILED",
                  "NO_SHOW"} : LMove(s, to)

LSpec == LInit /\ [][LNext]_lvars
=============================================================================
