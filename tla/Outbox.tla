------------------------------- MODULE Outbox -------------------------------
(***************************************************************************)
(* The domain-event outbox of apps/api: rows of the DomainEvent table      *)
(* (domain-events.service.ts), the polling consumer every API process runs *)
(* (domain-event-outbox-consumer.service.ts) and the dispatcher that calls *)
(* the integrations and notifications handlers with Promise.all            *)
(* (domain-event-dispatcher.service.ts).                                   *)
(*                                                                         *)
(* One action is one database statement or one handler outcome: between    *)
(* two of them every other process may run, and the process may die.       *)
(* Clocks are the booleans `due' (availableAt <= now) and `stale'          *)
(* (lockedAt < now - 60s).  A database error inside tick() rejects a       *)
(* promise nobody catches, which ends the Node process: it is Crash.       *)
(***************************************************************************)
EXTENDS Integers, FiniteSets

CONSTANTS
  Events,       (* domain events that may be appended                      *)
  Consumers,    (* API processes, one consumer each; a restart is another  *)
  Handlers,     (* IntegrationsService and NotificationsService            *)
  MaxAttempts,  (* DOMAIN_EVENT_OUTBOX_MAX_ATTEMPTS                        *)
  BatchSize,    (* DOMAIN_EVENT_OUTBOX_BATCH_SIZE                          *)
  MaxFaults,    (* bound: crashes, overrun locks and lost mark statements  *)
  NoOne         (* null for lockedBy and for the claimed event             *)

ASSUME OutboxAssumption ==
  /\ MaxAttempts \in Nat \ {0}
  /\ BatchSize \in Nat \ {0}
  /\ MaxFaults \in Nat
  /\ IsFiniteSet(Events)
  /\ NoOne \notin Consumers
  /\ NoOne \notin Events

VARIABLES
  (* columns of the DomainEvent table *)
  status, attempts, due, stale, lockedBy, createdAt,
  (* the consumers: control point, rows still to claim in this tick, the   *)
  (* claimed row, its `attempts' as read back, handler calls not yet       *)
  (* settled, and handler calls left behind by a rejected Promise.all      *)
  pc, batch, claimed, seen, open, stray,
  (* history: handlers that have completed, their effects, stale recoveries*)
  handled, effects, recoveries,
  (* faults spent so far *)
  faults

rowVars == <<status, attempts, due, stale, lockedBy, createdAt>>
procVars == <<pc, batch, claimed, seen, open, stray>>
histVars == <<handled, effects, recoveries>>
vars == <<rowVars, procVars, histVars, faults>>

Statuses == {"none", "PENDING", "PROCESSING", "PUBLISHED", "FAILED"}
Terminal == {"PUBLISHED", "FAILED"}
Points == {"off", "idle", "listing", "scanning", "claimed", "dispatching",
           "publishing", "failing", "dead"}

(* A consumer holds the row it claimed until it has marked it.             *)
Holding == {"claimed", "dispatching", "publishing", "failing"}
Holds(c, e) == pc[c] \in Holding /\ claimed[c] = e
Running(c) == pc[c] \notin {"off", "dead"}

Appended == {e \in Events : status[e] # "none"}
Dispatchable == {e \in Events : status[e] = "PENDING" /\ due[e]}

-----------------------------------------------------------------------------
Init ==
  /\ status = [e \in Events |-> "none"]
  /\ attempts = [e \in Events |-> 0]
  /\ due = [e \in Events |-> FALSE]
  /\ stale = [e \in Events |-> FALSE]
  /\ lockedBy = [e \in Events |-> NoOne]
  /\ createdAt = [e \in Events |-> 0]
  /\ pc = [c \in Consumers |-> "off"]
  /\ batch = [c \in Consumers |-> {}]
  /\ claimed = [c \in Consumers |-> NoOne]
  /\ seen = [c \in Consumers |-> 0]
  /\ open = [c \in Consumers |-> {}]
  /\ stray = [c \in Consumers |-> {}]
  /\ handled = [e \in Events |-> {}]
  /\ effects = [e \in Events |-> [h \in Handlers |-> 0]]
  /\ recoveries = [e \in Events |-> 0]
  /\ faults = 0

(* append: a business operation inserts a row that is available at once.   *)
Append(e) ==
  /\ status[e] = "none"
  /\ status' = [status EXCEPT ![e] = "PENDING"]
  /\ due' = [due EXCEPT ![e] = TRUE]
  /\ createdAt' = [createdAt EXCEPT ![e] = Cardinality(Appended) + 1]
  /\ UNCHANGED <<attempts, stale, lockedBy, procVars, histVars, faults>>

(* onModuleInit: an API process starts polling.                            *)
Start(c) ==
  /\ pc[c] = "off"
  /\ pc' = [pc EXCEPT ![c] = "idle"]
  /\ UNCHANGED <<rowVars, batch, claimed, seen, open, stray, histVars, faults>>

(* Mutant: nobody looks for stale locks.                                   *)
M_NothingIsStale == {}

StaleRows == {e \in Events : status[e] = "PROCESSING" /\ stale[e]}

(* tick, first statement: every stale lock is released, whoever holds it.  *)
RecoverStaleProcessing(c) ==
  LET old == StaleRows IN
  /\ pc[c] = "idle"
  /\ pc' = [pc EXCEPT ![c] = "listing"]
  /\ status' = [e \in Events |-> IF e \in old THEN "PENDING" ELSE status[e]]
  /\ due' = [e \in Events |-> e \in old \/ due[e]]
  /\ stale' = [e \in Events |-> e \notin old /\ stale[e]]
  /\ lockedBy' = [e \in Events |-> IF e \in old THEN NoOne ELSE lockedBy[e]]
  /\ recoveries' = [e \in Events |->
                      IF e \in old THEN recoveries[e] + 1 ELSE recoveries[e]]
  /\ UNCHANGED <<attempts, createdAt, batch, claimed, seen, open, stray,
                 handled, effects, faults>>

(* A batch: the oldest dispatchable rows, at most BatchSize of them.       *)
IsBatch(S) ==
  /\ S \subseteq Dispatchable
  /\ Cardinality(S) <= BatchSize
  /\ S # Dispatchable => Cardinality(S) = BatchSize
  /\ \A e \in S, d \in Dispatchable \ S : createdAt[e] <= createdAt[d]

(* Where the loop over the batch stands when `rest' is left of it.         *)
Resume(rest) == IF rest = {} THEN "idle" ELSE "scanning"

ListDispatchable(c) ==
  /\ pc[c] = "listing"
  /\ \E S \in SUBSET Dispatchable :
       /\ IsBatch(S)
       /\ batch' = [batch EXCEPT ![c] = S]
       /\ pc' = [pc EXCEPT ![c] = Resume(S)]
  /\ UNCHANGED <<rowVars, claimed, seen, open, stray, histVars, faults>>

(* Mutants: a claim that trusts the listing, and one that is not counted.  *)
M_ClaimableAsListed(e) == status[e] \in {"PENDING", "PROCESSING"}
M_ClaimNotCounted(n) == n

(* The where clause of claimForDispatch, and its attempts increment.       *)
Claimable(e) == e \in Dispatchable
CountClaim(n) == n + 1

(* claimForDispatch, the conditional update: the row is taken only if it   *)
(* is still PENDING and due; otherwise the loop continues.                 *)
Claim(c) ==
  /\ pc[c] = "scanning"
  /\ \E e \in batch[c] :
       /\ \A d \in batch[c] : createdAt[e] <= createdAt[d]
       /\ batch' = [batch EXCEPT ![c] = @ \ {e}]
       /\ \/ /\ Claimable(e)
             /\ status' = [status EXCEPT ![e] = "PROCESSING"]
             /\ stale' = [stale EXCEPT ![e] = FALSE]
             /\ lockedBy' = [lockedBy EXCEPT ![e] = c]
             /\ attempts' = [attempts EXCEPT ![e] = CountClaim(@)]
             /\ claimed' = [claimed EXCEPT ![c] = e]
             /\ pc' = [pc EXCEPT ![c] = "claimed"]
          \/ /\ ~Claimable(e)
             /\ pc' = [pc EXCEPT ![c] = Resume(batch[c] \ {e})]
             /\ UNCHANGED <<status, stale, lockedBy, attempts, claimed>>
  /\ UNCHANGED <<due, createdAt, seen, open, stray, histVars, faults>>

(* claimForDispatch, the read back: `attempts' is what the row holds now.  *)
ReadClaimed(c) ==
  /\ pc[c] = "claimed"
  /\ pc' = [pc EXCEPT ![c] = "dispatching"]
  /\ seen' = [seen EXCEPT ![c] = attempts[claimed[c]]]
  /\ open' = [open EXCEPT ![c] = Handlers]
  /\ UNCHANGED <<rowVars, batch, claimed, stray, histVars, faults>>

Bump(e, h) == [effects EXCEPT ![e][h] = @ + 1]

(* Mutant: Promise.race in place of Promise.all.                           *)
M_FirstResolved(c, h) == TRUE

(* Promise.all resolves when h is the last handler still open.             *)
AllResolved(c, h) == open[c] = {h}

(* A handler resolves; the dispatch is complete with the last one.         *)
HandlerResolves(c, h) ==
  LET e == claimed[c] IN
  /\ pc[c] = "dispatching"
  /\ h \in open[c]
  /\ open' = [open EXCEPT ![c] = @ \ {h}]
  /\ handled' = [handled EXCEPT ![e] = @ \union {h}]
  /\ effects' = Bump(e, h)
  /\ pc' = [pc EXCEPT ![c] = IF AllResolved(c, h) THEN "publishing" ELSE @]
  /\ UNCHANGED <<rowVars, batch, claimed, seen, stray, recoveries, faults>>

(* A handler rejects, before or after its effect (the audit write that     *)
(* follows an e-mail or a forwarded event can fail): Promise.all rejects   *)
(* at once and the handlers still open run on behind the consumer's back.  *)
HandlerRejects(c, h) ==
  LET e == claimed[c] IN
  /\ pc[c] = "dispatching"
  /\ h \in open[c]
  /\ effects' \in {effects, Bump(e, h)}
  /\ open' = [open EXCEPT ![c] = {}]
  /\ stray' = [stray EXCEPT ![c] =
                 @ \union {<<e, k, seen[c]>> : k \in open[c] \ {h}}]
  /\ pc' = [pc EXCEPT ![c] = "failing"]
  /\ UNCHANGED <<rowVars, batch, claimed, seen, handled, recoveries, faults>>

(* A handler left behind settles: it resolves, or rejects with or without  *)
(* its effect.  Nobody awaits it any more.  Of a dead process only requests*)
(* already sent are left: they may still have their effect.                *)
StraySettles(c, s) ==
  /\ s \in stray[c]
  /\ stray' = [stray EXCEPT ![c] = @ \ {s}]
  /\ \/ /\ Running(c)
        /\ handled' = [handled EXCEPT ![s[1]] = @ \union {s[2]}]
        /\ effects' = Bump(s[1], s[2])
     \/ /\ effects' \in {effects, Bump(s[1], s[2])}
        /\ UNCHANGED handled
  /\ UNCHANGED <<rowVars, pc, batch, claimed, seen, open, recoveries, faults>>

(* Mutants: a mark without the status guard, and one that keeps the lock.  *)
(* The row leaves PROCESSING for status s and its lock is cleared; a row   *)
(* that is not PROCESSING is not touched.  Who holds the lock is not asked.*)
Mark(e, s) ==
  /\ status' = [status EXCEPT ![e] = IF @ = "PROCESSING" THEN s ELSE @]
  /\ lockedBy' = [lockedBy EXCEPT ![e] =
                    IF status[e] = "PROCESSING" THEN NoOne ELSE @]
  /\ stale' = [stale EXCEPT ![e] = IF status[e] = "PROCESSING" THEN FALSE ELSE @]

Release(c) ==
  /\ pc' = [pc EXCEPT ![c] = Resume(batch[c])]
  /\ claimed' = [claimed EXCEPT ![c] = NoOne]
  /\ seen' = [seen EXCEPT ![c] = 0]

MarkPublished(c) ==
  /\ pc[c] = "publishing"
  /\ Mark(claimed[c], "PUBLISHED")
  /\ Release(c)
  /\ UNCHANGED <<attempts, due, createdAt, batch, open, stray, histVars, faults>>

(* The statement of markPublished fails, or its answer is lost: it is      *)
(* inside the try, so the catch block runs after a complete dispatch.      *)
MarkPublishedThrows(c) ==
  /\ pc[c] = "publishing"
  /\ faults < MaxFaults
  /\ faults' = faults + 1
  /\ \/ Mark(claimed[c], "PUBLISHED")
     \/ UNCHANGED <<status, lockedBy, stale>>
  /\ pc' = [pc EXCEPT ![c] = "failing"]
  /\ UNCHANGED <<attempts, due, createdAt, batch, claimed, seen, open, stray,
                 histVars>>

(* Mutants: give up one attempt early, and never.                          *)
M_GivesUpEarly(n) == n + 1 >= MaxAttempts
(* markFailedOrRetry gives the event up on the attempts read at the claim. *)
GivesUp(n) == n >= MaxAttempts

MarkFailedOrRetry(c) ==
  LET e == claimed[c]
      retry == ~GivesUp(seen[c])
  IN
  /\ pc[c] = "failing"
  /\ Mark(e, IF retry THEN "PENDING" ELSE "FAILED")
  /\ due' = [due EXCEPT ![e] = IF retry /\ status[e] = "PROCESSING"
                               THEN FALSE ELSE @]
  /\ Release(c)
  /\ UNCHANGED <<attempts, createdAt, batch, open, stray, histVars, faults>>

(* availableAt passes: the backoff of a retried row is over.               *)
BackoffElapses(e) ==
  /\ status[e] = "PENDING"
  /\ ~due[e]
  /\ due' = [due EXCEPT ![e] = TRUE]
  /\ UNCHANGED <<status, attempts, stale, lockedBy, createdAt, procVars,
                 histVars, faults>>

Ages(e) ==
  /\ status[e] = "PROCESSING"
  /\ ~stale[e]
  /\ stale' = [stale EXCEPT ![e] = TRUE]
  /\ UNCHANGED <<status, attempts, due, lockedBy, createdAt, procVars, histVars>>

(* Sixty seconds pass on a lock whose holder is gone...                    *)
LockExpires(e) ==
  /\ \A c \in Consumers : ~Holds(c, e)
  /\ Ages(e)
  /\ UNCHANGED faults

(* ...or on the lock of a consumer still at work, whose dispatch is slow.  *)
HolderOverruns(e) ==
  /\ \E c \in Consumers : Holds(c, e)
  /\ faults < MaxFaults
  /\ faults' = faults + 1
  /\ Ages(e)

(* The process dies; the handler calls it had in flight are left behind.   *)
(* Some process is still alive or can be started.                          *)
Crash(c) ==
  /\ Running(c)
  /\ \E d \in Consumers \ {c} : pc[d] # "dead"
  /\ faults < MaxFaults
  /\ faults' = faults + 1
  /\ stray' = [stray EXCEPT ![c] =
                 @ \union {<<claimed[c], h, seen[c]>> : h \in open[c]}]
  /\ pc' = [pc EXCEPT ![c] = "dead"]
  /\ batch' = [batch EXCEPT ![c] = {}]
  /\ claimed' = [claimed EXCEPT ![c] = NoOne]
  /\ seen' = [seen EXCEPT ![c] = 0]
  /\ open' = [open EXCEPT ![c] = {}]
  /\ UNCHANGED <<rowVars, histVars>>

-----------------------------------------------------------------------------
Tick(c) ==
  \/ RecoverStaleProcessing(c) \/ ListDispatchable(c)
  \/ Claim(c) \/ ReadClaimed(c)
  \/ MarkPublished(c) \/ MarkFailedOrRetry(c)

Dispatch(c) == \E h \in Handlers : HandlerResolves(c, h) \/ HandlerRejects(c, h)

Next ==
  \/ \E e \in Events :
       Append(e) \/ BackoffElapses(e) \/ LockExpires(e) \/ HolderOverruns(e)
  \/ \E c \in Consumers :
       \/ Start(c) \/ Tick(c) \/ Dispatch(c)
       \/ \E s \in stray[c] : StraySettles(c, s)
       \/ MarkPublishedThrows(c) \/ Crash(c)

Spec == Init /\ [][Next]_vars

(* The timer keeps firing, statements and handler calls are answered, time *)
(* passes and dead processes are replaced.  Nothing forces a fault.        *)
Fairness ==
  /\ \A c \in Consumers :
       WF_vars(Start(c)) /\ WF_vars(Tick(c)) /\ WF_vars(Dispatch(c))
  /\ \A e \in Events : WF_vars(BackoffElapses(e)) /\ WF_vars(LockExpires(e))

FairSpec == Spec /\ Fairness

-----------------------------------------------------------------------------
(* Types, and the columns that move together: a row is PROCESSING exactly  *)
(* while lockedBy is set, only such a row has a lock to go stale, and      *)
(* handler calls are awaited only while dispatching.                       *)
TypeOK ==
  /\ status \in [Events -> Statuses]
  /\ attempts \in [Events -> Nat]
  /\ due \in [Events -> BOOLEAN]
  /\ stale \in [Events -> BOOLEAN]
  /\ lockedBy \in [Events -> Consumers \union {NoOne}]
  /\ createdAt \in [Events -> Nat]
  /\ pc \in [Consumers -> Points]
  /\ batch \in [Consumers -> SUBSET Events]
  /\ claimed \in [Consumers -> Events \union {NoOne}]
  /\ seen \in [Consumers -> Nat]
  /\ open \in [Consumers -> SUBSET Handlers]
  /\ stray \in [Consumers -> SUBSET (Events \X Handlers \X Nat)]
  /\ handled \in [Events -> SUBSET Handlers]
  /\ effects \in [Events -> [Handlers -> Nat]]
  /\ recoveries \in [Events -> Nat]
  /\ faults \in 0..MaxFaults
  /\ \A e \in Events : (status[e] = "PROCESSING") <=> (lockedBy[e] # NoOne)
  /\ \A e \in Events : stale[e] => status[e] = "PROCESSING"
  /\ \A c \in Consumers : (pc[c] \in Holding) <=> (claimed[c] # NoOne)
  /\ \A c \in Consumers : open[c] # {} => pc[c] = "dispatching"
  /\ \A c \in Consumers : pc[c] \notin Holding => seen[c] = 0

(* An event is PUBLISHED only if both handlers completed for it, though    *)
(* markPublished does not ask who holds the lock: a consumer that lost its *)
(* lock may publish the claim of another one in the middle of a dispatch.  *)
PublishedMeansHandled ==
  \A e \in Events : status[e] = "PUBLISHED" => handled[e] = Handlers

(* An event is given up only after MaxAttempts claims, though the decision *)
(* is taken on the `attempts' read after the claim and the row may have    *)
(* been claimed by others since.                                           *)
FailedMeansMaxAttempts ==
  \A e \in Events : status[e] = "FAILED" => attempts[e] >= MaxAttempts

(* Two consumers work on one event only if its lock was found stale once:  *)
(* the conditional update of claimForDispatch is the only mutual exclusion *)
(* there is.                                                               *)
OneWorkerUnlessRecovered ==
  \A e \in Events : recoveries[e] = 0 =>
    \A c, d \in Consumers : Holds(c, e) /\ Holds(d, e) => c = d

(* The attempts of an event stay within MaxAttempts plus one per stale     *)
(* recovery: maxAttempts alone does not bound them, because a claim lost   *)
(* with its process is never counted as a failure.                         *)
AttemptBudget ==
  \A e \in Events : attempts[e] <= MaxAttempts + recoveries[e]

(* A handler takes effect at most once per claim, whatever crashes, lost   *)
(* locks and calls left behind by a rejected Promise.all there are.        *)
EffectsWithinAttempts ==
  \A e \in Events : \A h \in Handlers : effects[e][h] <= attempts[e]

(* So the recoveries bound what is done for an event, and how often.       *)
WorkBounded == AttemptBudget /\ EffectsWithinAttempts

(* PUBLISHED and FAILED are final: a late mark by a consumer that lost its *)
(* lock never reopens or relabels a settled event.                         *)
TerminalIsFinal ==
  [][\A e \in Events : status[e] \in Terminal => status'[e] = status[e]]_vars

(* Every appended event is eventually PUBLISHED or FAILED, as long as      *)
(* faults are finite in number.                                            *)
EventuallySettled ==
  \A e \in Events : (status[e] # "none") ~> (status[e] \in Terminal)

(* The outbox implements EventDelivery.                                    *)
PhaseOf(s) == CASE s = "none" -> "none"
                [] s \in {"PENDING", "PROCESSING"} -> "open"
                [] s = "PUBLISHED" -> "published"
                [] s = "FAILED" -> "failed"

Delivery == INSTANCE EventDelivery WITH
  phase <- [e \in Events |-> PhaseOf(status[e])],
  tries <- attempts

(* Every step of the outbox is a step of EventDelivery or changes nothing  *)
(* there: at-least-once delivery to both handlers, or giving up after      *)
(* MaxAttempts.                                                            *)
Promise == Delivery!ASpec
=============================================================================
