---------------------------- MODULE BillingUsage ----------------------------
(***************************************************************************)
(* Job credits of one tenant (billing.service.ts, jobs.service.ts): the    *)
(* quota check before a job is published, the usage event recorded after   *)
(* it, and the add-on credits that pay for what the plan does not include. *)
(* How a paid checkout becomes a grant is in AddOnCheckout, how the plan   *)
(* follows Stripe in SubscriptionSync.                                     *)
(*                                                                         *)
(* The check and the recording each read the billing state anew and act on *)
(* what they read; nothing locks the account.  One step of this module is  *)
(* what runs between two awaits that matter: a read of the billing state,  *)
(* a statement, or the part of a transaction before and after its commit.  *)
(***************************************************************************)
EXTENDS Integers, Sequences, FiniteSets, FiniteSetsExt

CONSTANTS
  Jobs,        \* jobs of the tenant
  Requests,    \* API requests that may be in flight at once
  Allowances,  \* values of activeJobsIncluded, over plans
  Quantity,    \* credits of one add-on
  MaxPeriod,   \* bound: billing periods opened
  MaxGrants,   \* bound: grants
  MaxFaults,   \* bound: requests cut off
  NoJob        \* not a job

ASSUME BillingAssumption ==
  /\ IsFiniteSet(Requests)
  /\ Allowances \subseteq Nat /\ Allowances # {}
  /\ Quantity \in Nat \ {0}
  /\ MaxPeriod \in Nat /\ MaxGrants \in Nat /\ MaxFaults \in Nat
  /\ NoJob \notin Jobs

VARIABLES
  job,       \* Job.status, PUBLISHED or not
  usage,     \* rows of BillingUsageEvent; at: its place among them by occurredAt,
             \* grant: the credit it took, 0 for none
  grants,    \* rows of BillingQuotaGrant, oldest first
  starts,    \* the billing periods opened: the events that occurred before each
  period,    \* the current one, whose start names the keys
  included,  \* activeJobsIncluded of the account and its subscription
  base,      \* history: plan units counted when the period or plan last changed
  req,       \* what each request has done and read
  faults     \* requests cut off so far

accountVars == <<starts, period, included, base>>
vars == <<job, usage, grants, accountVars, req, faults>>

Idle == [pc |-> "idle", job |-> NoJob, key |-> 0, paid |-> FALSE, grant |-> 0]

Init ==
  /\ job = [j \in Jobs |-> "DRAFT"]
  /\ usage = {}
  /\ grants = <<>>
  /\ starts = <<0>> /\ period = 1
  /\ included \in Allowances /\ base = 0
  /\ req = [r \in Requests |-> Idle]
  /\ faults = 0

----------------------------------------------------------------------------
(* The billing state a request reads.                                       *)

\* Usage is aggregated over occurredAt since the current period's start.
Used == Cardinality({u \in usage : u.at > starts[period]})

Remaining(g) ==
  IF grants[g].expired \/ grants[g].consumed >= grants[g].quantity
  THEN 0 ELSE grants[g].quantity - grants[g].consumed

Spendable == {g \in DOMAIN grants : Remaining(g) > 0}

\* used + 1 <= used + max(0, included - used) + the add-on balance.
QuotaLeft == Used < included \/ Spendable # {}

M_PlanPaysAll == FALSE

\* max(0, used + 1 - included) - max(0, used - included), which is 0 or 1.
NeedsCredit == Used >= included

Charged(j, p) == \E u \in usage : u.job = j /\ u.key = p

----------------------------------------------------------------------------
(* Publishing a job.                                                        *)

\* jobs.service.ts update(): the quota is checked when the job read is not
\* published yet, unless this period already charged it.  A request that
\* is refused, for the quota or for the status of the account, does nothing.
AssertCanPublish(r, j) ==
  /\ req[r].pc = "idle"
  /\ job[j] # "PUBLISHED"
  /\ Charged(j, period) \/ QuotaLeft
  /\ req' = [req EXCEPT ![r] = [Idle EXCEPT !.pc = "publish", !.job = j]]
  /\ UNCHANGED <<job, usage, grants, accountVars, faults>>

\* The update, and recordJobCreditUsage reading the period its key names.
Publish(r) ==
  /\ req[r].pc = "publish"
  /\ job' = [job EXCEPT ![req[r].job] = "PUBLISHED"]
  /\ req' = [req EXCEPT ![r].pc = "used", ![r].key = period]
  /\ UNCHANGED <<usage, grants, accountVars, faults>>

\* An update to another status charges nothing.
Unpublish(j) ==
  /\ job[j] = "PUBLISHED"
  /\ job' = [job EXCEPT ![j] = "DRAFT"]
  /\ UNCHANGED <<usage, grants, accountVars, req, faults>>

\* recordUsageEvent reads the state again and decides whether the unit is
\* the plan's or a credit's.
ReadUsed(r) ==
  /\ req[r].pc = "used"
  /\ req' = [req EXCEPT ![r].pc = "tx", ![r].paid = NeedsCredit]
  /\ UNCHANGED <<job, usage, grants, accountVars, faults>>

\* Another transaction that has inserted the key and not committed.
KeyLocked(r) ==
  \E q \in Requests \ {r} : req[q].pc = "commit" /\ req[q].job = req[r].job
                              /\ req[q].key = req[r].key

\* The credit a unit takes: the oldest grant with a balance.
NextGrant == IF Spendable = {} THEN 0 ELSE Min(Spendable)

M_ChargedAgain(r) ==
  /\ req[r].pc = "tx"
  /\ req' = [req EXCEPT ![r] =
               IF @.paid /\ Spendable = {} THEN Idle
               ELSE [@ EXCEPT !.pc = "commit", !.grant = IF req[r].paid THEN NextGrant ELSE 0]]
  /\ UNCHANGED <<job, usage, grants, accountVars, faults>>

\* The transaction up to its commit: the insert fails when the key exists
\* (P2002, the request is done) and waits while it is locked; a paid unit
\* picks its grant by what is committed now, and throws without one.
BeginCharge(r) ==
  /\ req[r].pc = "tx"
  /\ ~KeyLocked(r)
  /\ req' = [req EXCEPT ![r] =
               IF Charged(@.job, @.key) \/ (@.paid /\ Spendable = {}) THEN Idle
               ELSE [@ EXCEPT !.pc = "commit", !.grant = IF req[r].paid THEN NextGrant ELSE 0]]
  /\ UNCHANGED <<job, usage, grants, accountVars, faults>>

\* The commit: the event, and the increment of the grant picked before.
CommitCharge(r) ==
  /\ req[r].pc = "commit"
  /\ usage' = usage \union {[job |-> req[r].job, key |-> req[r].key,
                             at |-> Cardinality(usage) + 1,
                             grant |-> req[r].grant]}
  /\ grants' = [g \in DOMAIN grants |->
                  IF g = req[r].grant
                  THEN [grants[g] EXCEPT !.consumed = @ + 1] ELSE grants[g]]
  /\ req' = [req EXCEPT ![r] = Idle]
  /\ UNCHANGED <<job, accountVars, faults>>

\* A statement of the request throws, its account lost its access since the
\* check, or its process dies: an open transaction rolls back, what was
\* written before stays.
RequestFails(r) ==
  /\ req[r].pc # "idle" /\ faults < MaxFaults
  /\ req' = [req EXCEPT ![r] = Idle]
  /\ faults' = faults + 1
  /\ UNCHANGED <<job, usage, grants, accountVars>>

----------------------------------------------------------------------------
(* The account.                                                             *)

\* Units of a period that starts behind s events the plan has paid.
PlanUnitsSince(s) == {u \in usage : u.at > s /\ u.grant = 0}

\* A period begins: rolled over locally, synchronised from Stripe, or opened
\* by a change of plan.  Flex's is the calendar month, which counts what was
\* used before the change too; s is where the start falls among the events.
NextPeriod(n, s) ==
  /\ Len(starts) < MaxPeriod
  /\ starts' = Append(starts, s)
  /\ period' = Len(starts) + 1
  /\ included' = n
  /\ base' = Cardinality(PlanUnitsSince(s))
  /\ UNCHANGED <<job, usage, grants, req, faults>>

\* The plan changes within its period, to more or to less, or the account
\* returns to a period it had: a subscription synchronised late, Flex again in
\* the same month.  One that is over is left by the next read of the state,
\* which rolls over or synchronises before it counts.
ChangePlan(n, p) ==
  /\ <<n, p>> # <<included, period>>
  /\ included' = n
  /\ period' = p
  /\ base' = Cardinality(PlanUnitsSince(starts[p]))
  /\ UNCHANGED <<job, usage, grants, starts, req, faults>>

\* An add-on is credited: a checkout completed, a local activation, or the
\* internal administration.
AddGrant ==
  /\ Len(grants) < MaxGrants
  /\ grants' = Append(grants, [quantity |-> Quantity, consumed |-> 0, expired |-> FALSE])
  /\ UNCHANGED <<job, usage, accountVars, req, faults>>

\* Ninety days after it was granted a balance no longer counts; that of a
\* grant with none is not told apart.
ExpireGrant(g) ==
  /\ Remaining(g) > 0
  /\ grants' = [grants EXCEPT ![g].expired = TRUE]
  /\ UNCHANGED <<job, usage, accountVars, req, faults>>

----------------------------------------------------------------------------
Charge(r) == ReadUsed(r) \/ BeginCharge(r) \/ CommitCharge(r)

Request(r) ==
  \/ \E j \in Jobs : AssertCanPublish(r, j)
  \/ Publish(r) \/ Charge(r) \/ RequestFails(r)

Account ==
  \/ \E n \in Allowances :
       \/ \E s \in 0..Cardinality(usage) : NextPeriod(n, s)
       \/ \E p \in DOMAIN starts : ChangePlan(n, p)
  \/ AddGrant
  \/ \E g \in DOMAIN grants : ExpireGrant(g)
  \/ \E j \in Jobs : Unpublish(j)

Next ==
  \/ \E r \in Requests : Request(r)
  \/ Account

Spec == Init /\ [][Next]_vars

----------------------------------------------------------------------------
Requesting == {"idle", "publish", "used", "tx", "commit"}

(* The rows and what each request and handler holds have their types: a   *)
(* request in flight has a job, one that picked a grant picked a row.      *)
TypeOK ==
  /\ job \in [Jobs -> {"DRAFT", "PUBLISHED"}]
  /\ usage \subseteq [job : Jobs, key : Nat, at : Nat, grant : Nat]
  /\ grants \in Seq([quantity : {Quantity}, consumed : Nat, expired : BOOLEAN])
  /\ starts \in Seq(Nat) /\ period \in DOMAIN starts
  /\ included \in Allowances /\ base \in Nat
  /\ req \in [Requests -> [pc : Requesting, job : Jobs \union {NoJob}, key : Nat,
                            paid : BOOLEAN, grant : Nat]]
  /\ \A r \in Requests :
       /\ req[r].pc # "idle" => req[r].job \in Jobs
       /\ req[r].grant \in {0} \union DOMAIN grants
       /\ req[r].grant # 0 => (req[r].pc = "commit" /\ req[r].paid)
       /\ (req[r].pc = "commit" /\ req[r].paid) => req[r].grant # 0
  /\ faults \in Nat

PlanUnits == PlanUnitsSince(starts[period])

PaidBy(g) == {u \in usage : u.grant = g}

(* A job is charged once in a period, and a credit leaves a grant exactly  *)
(* when a usage event was recorded for it: retries, refused inserts and    *)
(* requests cut off consume nothing.                                       *)
CreditsArePaidUnits ==
  /\ \A u, v \in usage : u.job = v.job /\ u.key = v.key => u = v
  /\ \A g \in DOMAIN grants : grants[g].consumed = Cardinality(PaidBy(g))

(* What concurrent requests cost: the plan never pays for more units in a  *)
(* period than it includes, or had paid already when the period or the plan*)
(* last changed if that is more, but for one per request that read the     *)
(* usage before another one recorded its unit; a grant is overdrawn by at  *)
(* most one credit per other request, its balance being read before the    *)
(* increments are committed.                                               *)
RacesCostOneUnitEach ==
  /\ Cardinality(PlanUnits) <= Max({included, base}) + Cardinality(Requests)
  /\ \A g \in DOMAIN grants :
       grants[g].consumed <= grants[g].quantity + Cardinality(Requests) - 1
=============================================================================
