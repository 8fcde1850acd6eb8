-------------------------- MODULE SubscriptionSync --------------------------
(***************************************************************************)
(* The plan of one tenant (billing.service.ts): the local billing account, *)
(* the subscriptions it mirrors at Stripe, and the three ways the account  *)
(* learns of a change - the answer to its own call, a webhook, and the     *)
(* reconciliation every request starts with.                               *)
(*                                                                         *)
(* Time is the number of whole billing periods gone by.  A webhook carries *)
(* a subscription as it was when the event was made; events arrive in any  *)
(* order and may be repeated, and are taken over whichever subscription of *)
(* the customer they are of.  Stripe's statuses are written as those that  *)
(* accountStatusFromStripe maps them to.                                   *)
(***************************************************************************)
EXTENDS Naturals, Sequences, FiniteSets

CONSTANTS
  Requests,      \* requests of the tenant in flight at once
  MaxPeriod,     \* bound: periods
  MaxChoices,    \* bound: plans chosen, cancellations and resumptions
  MaxFaults,     \* bound: payments failed, subscriptions ended by Stripe,
                 \* requests cut off and events repeated
  MaxMail        \* bound: subscription events not delivered yet

ASSUME SyncAssumption ==
  MaxPeriod \in Nat /\ MaxChoices \in Nat /\ MaxFaults \in Nat /\ MaxMail \in Nat

VARIABLES
  now,       \* periods gone by
  subs,      \* the subscriptions at Stripe, oldest first
  checkouts, \* checkout sessions for a plan: the plan, the subscription it was
             \* paid with, 0 for none, and whether the local row is OPEN
  mail,      \* subscription events not delivered yet
  failed,    \* an invoice.payment_failed event is not delivered yet
  acct,      \* the row of TenantBillingAccount
  req,       \* what each request is doing, and the subscription it has cleared
  choices,   \* what MaxChoices counts, so far
  faults,    \* what MaxFaults counts, so far
  diverted   \* history: while Flex was pending or being scheduled, the account
             \* came to follow another subscription, or a request that had
             \* taken Flex back at Stripe was cut off before the account

bounds == <<choices, faults, diverted>>
vars == <<now, subs, checkouts, mail, failed, acct, req, bounds>>
stripeVars == <<subs, mail, failed>>

NoPlan == "none"
Plans == {"FLEX", "STARTER", "GROWTH"}
planOrder == [p \in Plans |-> CASE p = "FLEX" -> 0 [] p = "STARTER" -> 1 [] p = "GROWTH" -> 2]

Fields == {"id", "status", "plan", "end", "cancelAtEnd"}
Snapshot(s) == [f \in Fields |-> s[f]]

Live(i) == i # 0 /\ subs[i].status # "CANCELED"
Fault == faults < MaxFaults /\ faults' = faults + 1

Idle == [pc |-> "idle", kind |-> "overview", target |-> NoPlan, then |-> "idle",
         st |-> NoPlan, snap |-> NoPlan, cleared |-> 0]

Subscription(i, plan) == [id |-> i, status |-> "ACTIVE", plan |-> plan, end |-> now + 1,
                          cancelAtEnd |-> FALSE, sched |-> NoPlan]

\* A managed Growth subscription in its first period.
Init ==
  /\ now = 0
  /\ subs = <<Subscription(1, "GROWTH")>>
  /\ checkouts = <<>>
  /\ mail = {} /\ failed = FALSE
  /\ acct = [plan |-> "GROWTH", status |-> "ACTIVE", end |-> 1, sub |-> 1,
             pending |-> NoPlan, pendAt |-> 0, cancel |-> FALSE]
  /\ req = [r \in Requests |-> Idle]
  /\ choices = 0 /\ faults = 0 /\ diverted = FALSE

----------------------------------------------------------------------------
(* What the local transactions make of the account.                         *)

M_UpsertKeepsPastDue(a, s) ==
  [a EXCEPT !.plan = s.plan, !.end = s.end, !.sub = IF s.status = "CANCELED" THEN 0 ELSE s.id,
            !.status = IF a.status = "PAST_DUE" /\ s.status = "ACTIVE" THEN "PAST_DUE"
                       ELSE s.status,
            !.pending = IF @ = s.plan THEN NoPlan ELSE @]

\* upsertSubscriptionFromStripe: the account takes over what the snapshot
\* says, keeps a pending change to another plan, and notes a cancellation at
\* the period's end only when no change is pending.
Upserted(a, s) ==
  LET pending == IF a.pending = s.plan THEN NoPlan ELSE a.pending
  IN [a EXCEPT !.plan = s.plan, !.status = s.status, !.end = s.end,
               !.sub = IF s.status = "CANCELED" THEN 0 ELSE s.id,
               !.pending = pending,
               !.pendAt = IF pending = NoPlan THEN 0 ELSE @,
               !.cancel = s.cancelAtEnd /\ pending = NoPlan]

M_DueWhenActive(a) ==
  a.pending # NoPlan /\ a.pendAt <= now /\ a.sub = 0 /\ a.status = "ACTIVE"

PendingIsDue(a) == a.pending # NoPlan /\ a.pendAt <= now /\ a.sub = 0

\* applyPendingPlanChange: Flex runs by the calendar month, a recurring plan
\* from the date the change was to take effect.
Applied(a) ==
  [a EXCEPT !.plan = a.pending, !.status = "ACTIVE",
            !.end = IF a.pending = "FLEX" THEN now + 1 ELSE a.pendAt + 1,
            !.sub = IF a.pending = "FLEX" THEN 0 ELSE @,
            !.pending = NoPlan, !.pendAt = 0, !.cancel = FALSE]

\* A local recurring plan whose period is over rolls over.
Rolls(a) == a.plan # "FLEX" /\ a.status = "ACTIVE" /\ a.end <= now /\ a.sub = 0
RolledOver(a) == [a EXCEPT !.end = now + 1]

M_SyncPastDueOnly(a) == a.sub # 0 /\ a.status = "PAST_DUE"

NeedsSync(a) == a.sub # 0 /\ (a.end <= now \/ a.status = "PAST_DUE")

\* The three writes of the pending change.
Cleared(a) == [a EXCEPT !.pending = NoPlan, !.pendAt = 0, !.cancel = FALSE]
Scheduled(a, p, at) == [a EXCEPT !.pending = p, !.pendAt = at, !.cancel = FALSE]
FlexNow(a) == [Cleared(a) EXCEPT !.plan = "FLEX", !.status = "ACTIVE",
                                 !.end = now + 1, !.sub = 0]

\* The account takes over a snapshot.
Follows(a) ==
  /\ acct' = a
  /\ diverted' = (diverted \/ (acct.pending = "FLEX" /\ Live(a.sub) /\ a.sub # acct.sub))

----------------------------------------------------------------------------
(* Stripe.  Every change of a subscription makes an event of it.           *)

Mails(ss) ==
  /\ mail' = mail \union {Snapshot(s) : s \in ss}
  /\ Cardinality(mail') <= MaxMail

Becomes(s) ==
  /\ subs' = [subs EXCEPT ![s.id] = s]
  /\ Mails({s} \ {subs[s.id]})

Ended(s) == [s EXCEPT !.status = "CANCELED", !.cancelAtEnd = FALSE, !.sched = NoPlan]
Renewed(s) == [s EXCEPT !.end = now + 2, !.sched = NoPlan,
                        !.plan = IF s.sched = NoPlan THEN @ ELSE s.sched]

Period ==
  /\ now < MaxPeriod
  /\ now' = now + 1
  /\ LET over == {i \in DOMAIN subs : Live(i) /\ subs[i].end = now + 1} IN
     /\ subs' = [i \in DOMAIN subs |-> IF i \notin over THEN subs[i]
                                      ELSE IF subs[i].cancelAtEnd THEN Ended(subs[i])
                                      ELSE Renewed(subs[i])]
     /\ Mails({subs'[i] : i \in over})
  /\ UNCHANGED <<failed, checkouts, acct, req, bounds>>

PaymentFails(i) ==
  /\ subs[i].status = "ACTIVE" /\ Fault
  /\ Becomes([subs[i] EXCEPT !.status = "PAST_DUE"])
  /\ failed' = TRUE
  /\ UNCHANGED <<now, checkouts, acct, req, choices, diverted>>

PaymentSettled(i) ==
  /\ subs[i].status = "PAST_DUE"
  /\ Becomes([subs[i] EXCEPT !.status = "ACTIVE"])
  /\ UNCHANGED <<now, failed, checkouts, acct, req, bounds>>

\* Dunning gives up, or the subscription is ended at Stripe.
StripeCancels(i) ==
  /\ Live(i) /\ Fault
  /\ Becomes(Ended(subs[i]))
  /\ UNCHANGED <<now, failed, checkouts, acct, req, choices, diverted>>

\* The tenant pays for a plan it chose, whatever subscription it has besides,
\* or leaves the session to expire, which is no step.
CheckoutPaid(c) ==
  LET s == Subscription(Len(subs) + 1, checkouts[c].plan) IN
  /\ checkouts[c].sub = 0
  /\ checkouts' = [checkouts EXCEPT ![c].sub = s.id]
  /\ subs' = Append(subs, s) /\ Mails({s})
  /\ UNCHANGED <<now, failed, acct, req, bounds>>

----------------------------------------------------------------------------
(* The webhooks.                                                            *)

\* handleSubscriptionUpdated: the snapshot of the event, whatever Stripe has
\* become since, and then a pending change that is due.
Updated(s) ==
  LET a == Upserted(acct, s) IN IF PendingIsDue(a) THEN Applied(a) ELSE a

HandleSubscriptionUpdated(s, again) ==
  /\ s \in mail
  /\ Follows(Updated(s))
  /\ mail' = IF again THEN mail ELSE mail \ {s}
  /\ IF again THEN Fault ELSE UNCHANGED faults
  /\ UNCHANGED <<now, subs, failed, checkouts, req, choices>>

HandleInvoicePaymentFailed ==
  /\ failed
  /\ failed' = FALSE
  /\ acct' = [acct EXCEPT !.status = "PAST_DUE"]
  /\ UNCHANGED <<now, subs, mail, checkouts, req, bounds>>

----------------------------------------------------------------------------
(* Requests.  Each starts with resolveBillingState.                         *)

Done(r) == req' = [req EXCEPT ![r] = Idle]

Begin(r, kind, target) ==
  /\ req[r].pc = "idle"
  /\ kind # "overview" => choices < MaxChoices
  /\ choices' = choices + (IF kind = "overview" THEN 0 ELSE 1)
  /\ req' = [req EXCEPT ![r] = [Idle EXCEPT !.pc = "resolve", !.kind = kind,
                                            !.target = target,
                                            !.then = IF kind = "overview" THEN "idle" ELSE "act"]]
  /\ UNCHANGED <<now, stripeVars, checkouts, acct, faults, diverted>>

\* handleCheckoutSessionCompleted for a plan, by the webhook or by the
\* reconciliation: the subscription is retrieved, then taken over.
BeginCompleted(r, c) ==
  /\ req[r].pc = "idle" /\ checkouts[c].open /\ checkouts[c].sub # 0
  /\ req' = [req EXCEPT ![r] = [Idle EXCEPT !.pc = "upsert", !.kind = "completed", !.target = c,
                                            !.snap = Snapshot(subs[checkouts[c].sub])]]
  /\ UNCHANGED <<now, stripeVars, checkouts, acct, bounds>>

\* reconcileBillingAccount.
ApplyPending(r) ==
  /\ req[r].pc = "resolve" /\ PendingIsDue(acct)
  /\ acct' = Applied(acct)
  /\ UNCHANGED <<now, stripeVars, checkouts, req, bounds>>

RollOver(r) ==
  /\ req[r].pc = "resolve" /\ ~PendingIsDue(acct) /\ Rolls(acct)
  /\ acct' = RolledOver(acct)
  /\ UNCHANGED <<now, stripeVars, checkouts, req, bounds>>

Retrieve(r) ==
  /\ req[r].pc = "resolve" /\ NeedsSync(acct)
  /\ req' = [req EXCEPT ![r].pc = "sync", ![r].snap = Snapshot(subs[acct.sub])]
  /\ UNCHANGED <<now, stripeVars, checkouts, acct, bounds>>

\* The request goes on with the account it has resolved.
GoesOn(r, a) ==
  req' = [req EXCEPT ![r] = IF @.then = "idle" THEN Idle
                            ELSE [@ EXCEPT !.pc = req[r].then, !.st = a, !.snap = NoPlan]]

Sync(r) ==
  /\ req[r].pc = "sync"
  /\ Follows(Upserted(acct, req[r].snap))
  /\ GoesOn(r, acct')
  /\ UNCHANGED <<now, stripeVars, checkouts, choices, faults>>

Resolved(r) ==
  /\ req[r].pc = "resolve"
  /\ ~PendingIsDue(acct) /\ ~Rolls(acct) /\ ~NeedsSync(acct)
  /\ GoesOn(r, acct)
  /\ UNCHANGED <<now, stripeVars, checkouts, acct, bounds>>

----------------------------------------------------------------------------
(* What the request asks for, decided on the account it has resolved.       *)

St(r) == req[r].st
Acts(r, kind) == req[r].pc = "act" /\ req[r].kind = kind
Target(r) == req[r].target

\* The request has Stripe's answer a and goes on at pc.
Answered(r, a, pc) ==
  req' = [req EXCEPT ![r].pc = pc, ![r].snap = a,
                     ![r].st = IF pc = "call" THEN @ ELSE NoPlan]

\* A call that makes the request's subscription s; Stripe refuses one about
\* a subscription that has ended.
Calls(r, s, pc) ==
  /\ IF Live(s.id)
     THEN Becomes(s) /\ Answered(r, IF pc = "upsert" THEN Snapshot(s) ELSE NoPlan, pc)
     ELSE Done(r) /\ UNCHANGED <<subs, mail>>
  /\ UNCHANGED <<now, failed, checkouts, acct, bounds>>

\* clearManagedStripePlanChange, which comes before another call or is the
\* whole change; of a subscription that has ended it reads that, or is
\* refused.
ClearedSub(s) == [s EXCEPT !.cancelAtEnd = FALSE, !.sched = NoPlan]

Clears(r, pc, then) ==
  LET s == ClearedSub(subs[St(r).sub]) IN
  /\ \/ /\ IF Live(s.id) THEN Becomes(s) ELSE UNCHANGED <<subs, mail>>
        /\ req' = [req EXCEPT ![r].pc = pc, ![r].then = then, ![r].cleared = s.id,
                              ![r].snap = IF pc = "upsert" THEN Snapshot(s) ELSE NoPlan,
                              ![r].st = IF pc = "upsert" THEN NoPlan ELSE @]
     \/ ~Live(s.id) /\ Done(r) /\ UNCHANGED <<subs, mail>>
  /\ UNCHANGED <<now, failed, checkouts, acct, bounds>>

Unchanged(r) == Acts(r, "choose") /\ St(r).plan = Target(r)
                  /\ St(r).status = "ACTIVE" /\ St(r).pending = NoPlan
Revokes(r) == Acts(r, "choose") /\ St(r).plan = Target(r) /\ St(r).pending # NoPlan
Chooses(r) == Acts(r, "choose") /\ ~Unchanged(r) /\ ~Revokes(r)
Cancellable(r) == Acts(r, "cancel") /\ St(r).sub # 0 /\ St(r).plan # "FLEX" /\ ~St(r).cancel

\* cancelPendingPlanChange, asked for by choosing the current plan or by
\* cancelling the subscription, which resolves the state again after it.
CancelPending(r) ==
  /\ Revokes(r) \/ (Cancellable(r) /\ St(r).pending # NoPlan)
  /\ IF St(r).sub # 0
     THEN Clears(r, "upsert", "clear")
     ELSE /\ req' = [req EXCEPT ![r].pc = "clear", ![r].st = NoPlan]
          /\ UNCHANGED <<now, stripeVars, checkouts, acct, bounds>>

\* activateFlexPlan of an account that is not ACTIVE.
ActivateFlex(r) ==
  /\ Chooses(r) /\ Target(r) = "FLEX"
  /\ St(r).status # "ACTIVE" \/ St(r).plan = "FLEX"
  /\ acct' = FlexNow(acct)
  /\ Done(r)
  /\ UNCHANGED <<now, stripeVars, checkouts, bounds>>

Downgrades(r) ==
  /\ Chooses(r) /\ planOrder[Target(r)] < planOrder[St(r).plan]
  /\ Target(r) = "FLEX" => St(r).status = "ACTIVE"

\* scheduleManagedStripePlanChange clears what was scheduled; then Flex ends
\* the subscription with its period, another plan follows by a schedule.
Downgrade(r) ==
  /\ Downgrades(r)
  /\ IF St(r).sub # 0
     THEN Clears(r, "call", "schedule")
     ELSE /\ req' = [req EXCEPT ![r].pc = "resolve", ![r].then = "schedule", ![r].st = NoPlan]
          /\ UNCHANGED <<now, stripeVars, checkouts, acct, bounds>>

ScheduleAtStripe(r) ==
  LET s == subs[St(r).sub] IN
  /\ req[r].pc = "call" /\ req[r].then = "schedule"
  /\ Calls(r, IF Target(r) = "FLEX" THEN [s EXCEPT !.cancelAtEnd = TRUE]
              ELSE [s EXCEPT !.sched = Target(r)], "resolve")

\* schedulePlanChange, on the state it has resolved again.
SchedulePlanChange(r) ==
  /\ req[r].pc = "schedule"
  /\ acct' = Scheduled(acct, Target(r), St(r).end)
  /\ diverted' = (diverted \/ (Target(r) = "FLEX" /\ Live(acct.sub)
                                 /\ acct.sub # req[r].cleared))
  /\ Done(r)
  /\ UNCHANGED <<now, stripeVars, checkouts, choices, faults>>

Upgrades(r) ==
  Chooses(r) /\ Target(r) # "FLEX" /\ planOrder[Target(r)] >= planOrder[St(r).plan]

\* updateManagedStripePlanNow clears what was scheduled too; without a
\* subscription in the account's row a checkout is opened.
Upgrade(r) ==
  /\ Upgrades(r)
  /\ IF St(r).sub # 0
     THEN Clears(r, "call", "clear")
     ELSE /\ checkouts' = Append(checkouts, [plan |-> Target(r), sub |-> 0, open |-> TRUE])
          /\ Done(r)
          /\ UNCHANGED <<now, stripeVars, acct, bounds>>

UpdateAtStripe(r) ==
  /\ req[r].pc = "call" /\ req[r].then = "clear"
  /\ Calls(r, [subs[St(r).sub] EXCEPT !.plan = Target(r), !.cancelAtEnd = FALSE], "upsert")

\* scheduleSubscriptionCancellation and resumeScheduledCancellation.
Cancel(r) ==
  /\ Cancellable(r) /\ St(r).pending = NoPlan
  /\ Calls(r, [subs[St(r).sub] EXCEPT !.cancelAtEnd = TRUE], "upsert")

Resume(r) ==
  /\ Acts(r, "resume") /\ St(r).sub # 0 /\ St(r).cancel
  /\ Calls(r, [subs[St(r).sub] EXCEPT !.cancelAtEnd = FALSE], "upsert")

\* Nothing to do, or nothing that may be done.
Return(r) ==
  /\ \/ Unchanged(r)
     \/ Acts(r, "cancel") /\ ~Cancellable(r)
     \/ Acts(r, "resume") /\ ~(St(r).sub # 0 /\ St(r).cancel)
  /\ Done(r)
  /\ UNCHANGED <<now, stripeVars, checkouts, acct, bounds>>

\* The upsert of Stripe's answer; a completed checkout is marked with it.
UpsertAnswer(r) ==
  /\ req[r].pc = "upsert"
  /\ Follows(Upserted(acct, req[r].snap))
  /\ checkouts' = [c \in DOMAIN checkouts |->
                     [checkouts[c] EXCEPT !.open = @ /\ ~(req[r].kind = "completed"
                                                           /\ req[r].target = c)]]
  /\ IF req[r].then = "clear" THEN req' = [req EXCEPT ![r].pc = "clear", ![r].snap = NoPlan]
     ELSE Done(r)
  /\ UNCHANGED <<now, stripeVars, choices, faults>>

ClearPending(r) ==
  /\ req[r].pc = "clear"
  /\ acct' = Cleared(acct)
  /\ IF req[r].kind = "cancel"
     THEN req' = [req EXCEPT ![r] = [Idle EXCEPT !.pc = "resolve", !.kind = "cancel", !.then = "act"]]
     ELSE Done(r)
  /\ UNCHANGED <<now, stripeVars, checkouts, bounds>>

\* A statement or a call of the request throws, or its process dies.
RequestFails(r) ==
  /\ req[r].pc # "idle" /\ Fault
  /\ diverted' = (diverted \/ (req[r].cleared # 0 /\ acct.pending = "FLEX"))
  /\ Done(r)
  /\ UNCHANGED <<now, stripeVars, checkouts, acct, choices>>

----------------------------------------------------------------------------
Resolve(r) == ApplyPending(r) \/ RollOver(r) \/ Retrieve(r) \/ Sync(r) \/ Resolved(r)

Act(r) ==
  \/ CancelPending(r) \/ ActivateFlex(r)
  \/ Downgrade(r) \/ ScheduleAtStripe(r) \/ SchedulePlanChange(r)
  \/ Upgrade(r) \/ UpdateAtStripe(r) \/ Cancel(r) \/ Resume(r) \/ Return(r)
  \/ UpsertAnswer(r) \/ ClearPending(r)

Ask(r) ==
  \/ \E p \in Plans : Begin(r, "choose", p)
  \/ \E k \in {"cancel", "resume"} : Begin(r, k, NoPlan)

Stripe ==
  \/ \E i \in DOMAIN subs : PaymentFails(i) \/ PaymentSettled(i) \/ StripeCancels(i)
  \/ \E c \in DOMAIN checkouts : CheckoutPaid(c)

Webhook ==
  \/ \E s \in mail : HandleSubscriptionUpdated(s, FALSE)
  \/ HandleInvoicePaymentFailed

Request(r) ==
  \/ Ask(r) \/ Begin(r, "overview", NoPlan)
  \/ \E c \in DOMAIN checkouts : BeginCompleted(r, c)
  \/ Resolve(r) \/ Act(r) \/ RequestFails(r)

Next ==
  \/ \E r \in Requests : Request(r)
  \/ Stripe \/ Period \/ Webhook
  \/ \E s \in mail : HandleSubscriptionUpdated(s, TRUE)

Spec == Init /\ [][Next]_vars

\* Time goes on, requests run to their end, the tenant keeps looking at its
\* subscription, and Stripe delivers every event and completed checkout.
FairSpec ==
  /\ Spec
  /\ WF_vars(Period) /\ WF_vars(Webhook)
  /\ \A r \in Requests : /\ WF_vars(Resolve(r) \/ Act(r))
                         /\ SF_vars(Begin(r, "overview", NoPlan))
  /\ SF_vars(\E r \in Requests : \E c \in DOMAIN checkouts : BeginCompleted(r, c))

----------------------------------------------------------------------------
AcctType ==
  [plan : Plans, status : {"ACTIVE", "PAST_DUE", "CANCELED"}, end : Nat, sub : {0} \union DOMAIN subs,
   pending : Plans \union {NoPlan}, pendAt : Nat, cancel : BOOLEAN]
SnapType == [id : DOMAIN subs, status : {"ACTIVE", "PAST_DUE", "CANCELED"}, plan : Plans, end : Nat,
             cancelAtEnd : BOOLEAN]

(* The rows, events and requests have their types; a request that acts has *)
(* resolved an account, one about to upsert has an answer.                 *)
TypeOK ==
  /\ now \in Nat /\ choices \in Nat /\ faults \in Nat /\ failed \in BOOLEAN /\ diverted \in BOOLEAN
  /\ \A i \in DOMAIN subs : Snapshot(subs[i]) \in SnapType /\ subs[i].sched \in Plans \union {NoPlan}
  /\ mail \subseteq SnapType
  /\ acct \in AcctType
  /\ \A c \in DOMAIN checkouts :
       checkouts[c] \in [plan : {"STARTER", "GROWTH"}, sub : {0} \union DOMAIN subs, open : BOOLEAN]
  /\ \A r \in Requests :
       /\ req[r].pc \in {"act", "call", "schedule"} => req[r].st \in AcctType
       /\ req[r].pc \in {"sync", "upsert"} => req[r].snap \in SnapType
  /\ acct.cancel => acct.pending = NoPlan /\ acct.sub # 0

(* As the subscription page says: a downgrade to Flex waits for the end of *)
(* the period of the subscription the tenant has.                          *)
FlexWaitsForPeriodEnd ==
  [][(acct.sub # 0 /\ acct.plan # "FLEX" /\ acct'.plan = "FLEX") => acct.end <= now]_vars

(* A subscription that ended at Stripe stops counting as the tenant's at   *)
(* the end of the period the account knows of, at the latest, whatever     *)
(* stale event was taken over last.                                        *)
EndedIsNoticed ==
  (acct.sub # 0 /\ ~Live(acct.sub)) ~> (Live(acct.sub) \/ acct.sub = 0 \/ acct.end > now)

(* A subscriber blocked for a failed payment is let in again once Stripe   *)
(* was paid, even if the failure is delivered after the payment.           *)
PaidIsOpened ==
  (acct.sub # 0 /\ acct.status = "PAST_DUE")
    ~> (acct.sub = 0 \/ acct.status # "PAST_DUE" \/ subs[acct.sub].status = "PAST_DUE")

\* What Flex waits for lies behind the bound on time: the date, the end of a
\* subscription that Stripe is to end, or the date up to which the account
\* takes one that has ended for alive.
BehindBound ==
  \/ acct.pendAt > MaxPeriod
  \/ acct.sub # 0 /\ subs[acct.sub].cancelAtEnd /\ subs[acct.sub].end > MaxPeriod
  \/ acct.sub # 0 /\ ~Live(acct.sub) /\ acct.end > MaxPeriod

(* A change to Flex scheduled for the end of a period takes effect or is   *)
(* taken back, for a tenant that asks one thing at a time, whatever request*)
(* is cut off - but for one that had taken it back at Stripe, where the    *)
(* subscription then renews and the change stays pending - and unless the  *)
(* account came to follow another subscription than the one Stripe ends.   *)
FlexTakesEffect ==
  (acct.pending = "FLEX") ~> (acct.pending # "FLEX" \/ diverted \/ BehindBound)
=============================================================================
