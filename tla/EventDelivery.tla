--------------------------- MODULE EventDelivery ---------------------------
(***************************************************************************)
(* What the domain-event outbox promises to the code that appends events,  *)
(* with no process, lock or clock in it: an appended event stays open      *)
(* until every handler has handled it, and may be given up only after      *)
(* MaxAttempts delivery attempts.  Handlers may run more than once.        *)
(* Outbox implements this specification (Outbox!Promise).                  *)
(***************************************************************************)
EXTENDS Naturals

CONSTANTS
  Events,       (* domain events that may be appended                      *)
  Handlers,     (* subscribers every event is dispatched to                *)
  MaxAttempts   (* DOMAIN_EVENT_OUTBOX_MAX_ATTEMPTS                        *)

VARIABLES
  phase,        (* "none", "open", "published" or "failed"                 *)
  tries,        (* delivery attempts begun for the event                   *)
  handled       (* handlers that have completed for the event              *)

avars == <<phase, tries, handled>>

AInit ==
  /\ phase = [e \in Events |-> "none"]
  /\ tries = [e \in Events |-> 0]
  /\ handled = [e \in Events |-> {}]

AAppend(e) ==
  /\ phase[e] = "none"
  /\ phase' = [phase EXCEPT ![e] = "open"]
  /\ UNCHANGED <<tries, handled>>

AAttempt(e) ==
  /\ phase[e] = "open"
  /\ tries' = [tries EXCEPT ![e] = @ + 1]
  /\ UNCHANGED <<phase, handled>>

(* A handler may finish late, after the event was published or given up.   *)
AHandle(e, h) ==
  /\ tries[e] > 0
  /\ handled' = [handled EXCEPT ![e] = @ \union {h}]
  /\ UNCHANGED <<phase, tries>>

APublish(e) ==
  /\ phase[e] = "open"
  /\ handled[e] = Handlers
  /\ phase' = [phase EXCEPT ![e] = "published"]
  /\ UNCHANGED <<tries, handled>>

AGiveUp(e) ==
  /\ phase[e] = "open"
  /\ tries[e] >= MaxAttempts
  /\ phase' = [phase EXCEPT ![e] = "failed"]
  /\ UNCHANGED <<tries, handled>>

ANext ==
  \E e \in Events :
    \/ AAppend(e) \/ AAttempt(e) \/ APublish(e) \/ AGiveUp(e)
    \/ \E h \in Handlers : AHandle(e, h)

ASpec == AInit /\ [][ANext]_avars
=============================================================================
