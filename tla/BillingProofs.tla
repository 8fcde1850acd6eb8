---------------------------- MODULE BillingProofs ----------------------------
(***************************************************************************)
(* Theorems about the two halves of billing: what a paid checkout comes to *)
(* be credited (AddOnCheckout) and what a published job comes to be charged*)
(* (BillingUsage), for any finite set of completions and requests in       *)
(* flight, any checkouts, jobs, plans and bounds.                          *)
(*                                                                         *)
(* Both argue in the same way.  A check and the write it allows are two    *)
(* statements, so a bound is kept not by what was written but by that      *)
(* together with the writes already allowed: only as many of those as      *)
(* there are requests in flight come on top of what a check has seen.      *)
(***************************************************************************)
EXTENDS AddOnCheckout, BillingUsage, TLAPS, FiniteSetTheorems, WellFoundedInduction

USE CheckoutAssumption

----------------------------------------------------------------------------
(* AddOnCheckout.  Only a completion that has found no grant creates one,   *)
(* and none finds that again once there is one: the grants there are, with  *)
(* the completions about to create one, never come to more than the         *)
(* completions there can be.                                                *)

Work == [pc : {"idle", "find", "grant", "save"}, checkout : Checkouts]

(* Completions about to create a grant for c.                              *)
Granting(c) == {h \in Handlers : hdl[h].pc = "grant" /\ hdl[h].checkout = c}

GrantsCounted == \A c \in Checkouts : credits[c] + Cardinality(Granting(c)) <= Cardinality(Handlers)

SaveAfterGrant ==
  \A h \in Handlers : hdl[h].pc = "save" => credits[hdl[h].checkout] > 0

Inv == CheckoutTypeOK /\ GrantsCounted /\ SaveAfterGrant /\ CompletedIsGranted

LEMMA GrantingFinite ==
  ASSUME NEW c \in Checkouts
  PROVE  /\ IsFiniteSet(Granting(c)) /\ Cardinality(Granting(c)) \in Nat
         /\ Cardinality(Granting(c)) <= Cardinality(Handlers)
         /\ Cardinality(Handlers) \in Nat
BY FS_Subset, FS_CardinalityType DEF Granting

LEMMA InitInv == CheckoutInit => Inv
<1> SUFFICES ASSUME CheckoutInit PROVE Inv
  OBVIOUS
<1>1. NoWork \in Work /\ NoWork.pc = "idle"
  BY DEF NoWork, Work
<1>2. CheckoutTypeOK
  BY <1>1 DEF CheckoutInit, CheckoutTypeOK, Work
<1>3. GrantsCounted
  <2> SUFFICES ASSUME NEW c \in Checkouts
               PROVE  credits[c] + Cardinality(Granting(c)) <= Cardinality(Handlers)
    BY DEF GrantsCounted
  <2> QED BY GrantingFinite DEF CheckoutInit
<1>4. SaveAfterGrant /\ CompletedIsGranted
  BY <1>1 DEF CheckoutInit, SaveAfterGrant, CompletedIsGranted
<1> QED BY <1>2, <1>3, <1>4 DEF Inv

(* A step that creates no grant and sends no completion to create one.     *)
LEMMA CountKept ==
  ASSUME Inv, credits' = credits, \A c \in Checkouts : Granting(c)' \subseteq Granting(c)
  PROVE  GrantsCounted'
<1> SUFFICES ASSUME NEW c \in Checkouts
             PROVE  credits[c] + Cardinality(Granting(c)') <= Cardinality(Handlers)
  BY DEF GrantsCounted
<1>1. Cardinality(Granting(c)') \in Nat /\ Cardinality(Granting(c)') <= Cardinality(Granting(c))
  BY GrantingFinite, FS_Subset, FS_CardinalityType
<1>2. credits[c] \in Nat /\ credits[c] + Cardinality(Granting(c)) <= Cardinality(Handlers)
  BY DEF Inv, CheckoutTypeOK, GrantsCounted
<1> QED BY <1>1, <1>2, GrantingFinite

(* The checkout's own life leaves the completions and the grants alone.    *)
LEMMA CheckoutInv ==
  ASSUME Inv, NEW c \in Checkouts, Checkout(c)
  PROVE  Inv'
<1>1. credits' = credits /\ hdl' = hdl
  BY DEF Checkout, OpenCheckout, SaveCheckout, SaveFails, StripeSettles, HandleExpired
<1>2. GrantsCounted'
  BY <1>1, CountKept DEF Granting
<1>3. SaveAfterGrant'
  BY <1>1 DEF Inv, SaveAfterGrant
<1>4. CASE OpenCheckout(c) \/ SaveCheckout(c) \/ SaveFails(c)
  <2>1. CheckoutTypeOK'
    BY <1>4 DEF Inv, CheckoutTypeOK, OpenCheckout, SaveCheckout, SaveFails
  <2>2. CompletedIsGranted'
    BY <1>4 DEF Inv, CheckoutTypeOK, CompletedIsGranted, OpenCheckout, SaveCheckout, SaveFails
  <2> QED BY <1>2, <1>3, <2>1, <2>2 DEF Inv
<1>5. ASSUME NEW s \in {"complete", "expired"}, StripeSettles(c, s) PROVE Inv'
  <2>1. CheckoutTypeOK'
    BY <1>5 DEF Inv, CheckoutTypeOK, StripeSettles
  <2>2. CompletedIsGranted'
    BY <1>5 DEF Inv, CompletedIsGranted, StripeSettles
  <2> QED BY <1>2, <1>3, <2>1, <2>2 DEF Inv
<1>6. CASE HandleExpired(c)
  <2>1. CheckoutTypeOK'
    BY <1>6 DEF Inv, CheckoutTypeOK, HandleExpired
  <2>2. CompletedIsGranted'
    BY <1>6 DEF Inv, CheckoutTypeOK, CompletedIsGranted, HandleExpired
  <2> QED BY <1>2, <1>3, <2>1, <2>2 DEF Inv
<1> QED BY <1>4, <1>5, <1>6 DEF Checkout

(* A completion that goes on without creating a grant.                     *)
LEMMA MoveInv ==
  ASSUME Inv, NEW h \in Handlers,
         (\E c \in Checkouts : BeginCompleted(h, c)) \/ SaveCompleted(h) \/ HandlerFails(h)
  PROVE  Inv'
<1>1. ASSUME NEW c \in Checkouts, BeginCompleted(h, c) PROVE Inv'
  <2>1. CheckoutTypeOK'
    BY <1>1 DEF Inv, CheckoutTypeOK, BeginCompleted
  <2>2. credits' = credits /\ \A d \in Checkouts : Granting(d)' \subseteq Granting(d)
    BY <1>1 DEF Inv, CheckoutTypeOK, BeginCompleted, Granting
  <2>3. SaveAfterGrant' /\ CompletedIsGranted'
    BY <1>1 DEF Inv, CheckoutTypeOK, SaveAfterGrant, CompletedIsGranted, BeginCompleted
  <2> QED BY <2>1, <2>2, <2>3, CountKept DEF Inv
<1>2. CASE SaveCompleted(h)
  <2>1. CheckoutTypeOK'
    BY <1>2 DEF Inv, CheckoutTypeOK, SaveCompleted
  <2>2. credits' = credits /\ \A d \in Checkouts : Granting(d)' \subseteq Granting(d)
    BY <1>2 DEF Inv, CheckoutTypeOK, SaveCompleted, Granting
  <2>3. SaveAfterGrant'
    BY <1>2 DEF Inv, CheckoutTypeOK, SaveAfterGrant, SaveCompleted
  <2>4. CompletedIsGranted'
    BY <1>2 DEF Inv, CheckoutTypeOK, SaveAfterGrant, CompletedIsGranted, SaveCompleted
  <2> QED BY <2>1, <2>2, <2>3, <2>4, CountKept DEF Inv
<1>3. CASE HandlerFails(h)
  <2>1. CheckoutTypeOK'
    BY <1>3 DEF Inv, CheckoutTypeOK, HandlerFails
  <2>2. credits' = credits /\ \A d \in Checkouts : Granting(d)' \subseteq Granting(d)
    BY <1>3 DEF Inv, CheckoutTypeOK, HandlerFails, Granting
  <2>3. SaveAfterGrant' /\ CompletedIsGranted'
    BY <1>3 DEF Inv, CheckoutTypeOK, SaveAfterGrant, CompletedIsGranted, HandlerFails
  <2> QED BY <2>1, <2>2, <2>3, CountKept DEF Inv
<1> QED BY <1>1, <1>2, <1>3

(* Without a grant every completion may be about to create one.            *)
LEMMA FindInv ==
  ASSUME Inv, NEW h \in Handlers, FindGrant(h)
  PROVE  Inv'
<1> PICK k \in Checkouts : k = hdl[h].checkout
  BY DEF Inv, CheckoutTypeOK
<1>1. k \in Checkouts /\ credits \in [Checkouts -> Nat] /\ credits' = credits
  BY DEF Inv, CheckoutTypeOK, FindGrant
<1>2. CheckoutTypeOK'
  BY DEF Inv, CheckoutTypeOK, FindGrant
<1>3. SaveAfterGrant' /\ CompletedIsGranted'
  BY DEF Inv, CheckoutTypeOK, SaveAfterGrant, CompletedIsGranted, FindGrant, Granted
<1>4. CASE Granted(k)
  <2>1. \A d \in Checkouts : Granting(d)' \subseteq Granting(d)
    BY <1>4 DEF Inv, CheckoutTypeOK, FindGrant, Granting
  <2> QED BY <1>1, <1>2, <1>3, <2>1, CountKept DEF Inv
<1>5. CASE ~Granted(k)
  <2>1. credits[k] = 0
    BY <1>1, <1>5 DEF Granted
  <2>2. \A d \in Checkouts : d # k => Granting(d)' \subseteq Granting(d)
    BY <1>5 DEF Inv, CheckoutTypeOK, FindGrant, Granting
  <2>3. GrantsCounted'
    <3> SUFFICES ASSUME NEW c \in Checkouts
                 PROVE  credits[c] + Cardinality(Granting(c)') <= Cardinality(Handlers)
      BY <1>1 DEF GrantsCounted
    <3>1. /\ Granting(c)' \subseteq Handlers /\ Cardinality(Granting(c)') \in Nat
          /\ Cardinality(Granting(c)') <= Cardinality(Handlers)
      <4>1. Granting(c)' \subseteq Handlers
        BY DEF Granting
      <4> QED BY <4>1, FS_Subset, FS_CardinalityType
    <3>2. CASE c = k
      BY <2>1, <3>1, <3>2, GrantingFinite
    <3>3. CASE c # k
      <4>1. Cardinality(Granting(c)') <= Cardinality(Granting(c))
        BY <2>2, <3>3, GrantingFinite, FS_Subset
      <4>2. credits[c] \in Nat /\ credits[c] + Cardinality(Granting(c)) <= Cardinality(Handlers)
        BY <1>1 DEF Inv, GrantsCounted
      <4> QED BY <3>1, <4>1, <4>2, GrantingFinite
    <3> QED BY <3>2, <3>3
  <2> QED BY <1>2, <1>3, <2>3 DEF Inv
<1> QED BY <1>4, <1>5

(* The completion that creates a grant is no longer about to.              *)
LEMMA CreateInv ==
  ASSUME Inv, NEW h \in Handlers, CreateGrant(h)
  PROVE  Inv'
<1> PICK k \in Checkouts : k = hdl[h].checkout
  BY DEF Inv, CheckoutTypeOK
<1>1. /\ k \in Checkouts /\ credits \in [Checkouts -> Nat] /\ h \in Granting(k)
      /\ credits' = [credits EXCEPT ![k] = @ + 1]
  BY DEF Inv, CheckoutTypeOK, CreateGrant, Granting
<1>2. CheckoutTypeOK'
  BY DEF Inv, CheckoutTypeOK, CreateGrant
<1>3. \A c \in Checkouts : credits[c] > 0 => credits'[c] > 0
  BY <1>1
<1>4. SaveAfterGrant'
  BY <1>1, <1>3 DEF Inv, CheckoutTypeOK, SaveAfterGrant, CreateGrant
<1>5. CompletedIsGranted'
  BY <1>3 DEF Inv, CompletedIsGranted, CreateGrant
<1>6. /\ Granting(k)' \subseteq Granting(k) \ {h}
      /\ \A d \in Checkouts : d # k => Granting(d)' \subseteq Granting(d)
  <2>1. hdl' = [hdl EXCEPT ![h].pc = "save"] /\ hdl \in [Handlers -> Work]
    BY DEF Inv, CheckoutTypeOK, CreateGrant, Work
  <2>2. /\ hdl'[h].pc = "save"
        /\ \A g \in Handlers : g # h => hdl'[g] = hdl[g]
    BY <2>1 DEF Work
  <2>3. h \notin Granting(k)'
    BY <2>2 DEF Granting
  <2>4. \A d \in Checkouts : Granting(d)' \subseteq Granting(d)
    BY <2>2 DEF Granting
  <2> QED BY <1>1, <2>3, <2>4
<1>7. GrantsCounted'
  <2> SUFFICES ASSUME NEW c \in Checkouts
               PROVE  credits'[c] + Cardinality(Granting(c)') <= Cardinality(Handlers)
    BY DEF GrantsCounted
  <2>1. credits[c] \in Nat /\ credits[c] + Cardinality(Granting(c)) <= Cardinality(Handlers)
    BY <1>1 DEF Inv, GrantsCounted
  <2>2. CASE c = k
    <3>1. Cardinality(Granting(k) \ {h}) = Cardinality(Granting(k)) - 1
      BY <1>1, GrantingFinite, FS_RemoveElement
    <3>2. IsFiniteSet(Granting(k) \ {h})
      BY <1>1, GrantingFinite, FS_Subset
    <3>3. /\ Cardinality(Granting(k)') <= Cardinality(Granting(k) \ {h})
          /\ Cardinality(Granting(k)') \in Nat
      BY <1>6, <3>2, FS_Subset, FS_CardinalityType
    <3>4. credits'[k] = credits[k] + 1
      BY <1>1
    <3>5. credits[k] \in Nat /\ credits[k] + Cardinality(Granting(k)) <= Cardinality(Handlers)
      BY <2>1, <2>2
    <3>6. Cardinality(Granting(k)') <= Cardinality(Granting(k)) - 1
      BY <3>1, <3>3
    <3>7. Cardinality(Granting(k)) \in Nat /\ Cardinality(Handlers) \in Nat
      BY <1>1, GrantingFinite
    <3>8. credits'[k] + Cardinality(Granting(k)') <= Cardinality(Handlers)
      BY <3>3, <3>4, <3>5, <3>6, <3>7
    <3> QED BY <2>2, <3>8, Zenon
  <2>3. CASE c # k
    <3>1. /\ Cardinality(Granting(c)') <= Cardinality(Granting(c))
          /\ Cardinality(Granting(c)') \in Nat
      BY <1>6, <2>3, GrantingFinite, FS_Subset, FS_CardinalityType
    <3>2. credits'[c] = credits[c]
      BY <1>1, <2>3
    <3> QED BY <2>1, <3>1, <3>2, GrantingFinite
  <2> QED BY <2>2, <2>3
<1> QED BY <1>2, <1>4, <1>5, <1>7 DEF Inv

----------------------------------------------------------------------------
LEMMA InvInductive == Inv /\ [CheckoutNext]_checkoutVars => Inv'
<1> SUFFICES ASSUME Inv, [CheckoutNext]_checkoutVars PROVE Inv'
  OBVIOUS
<1>1. ASSUME NEW c \in Checkouts, Checkout(c) PROVE Inv'
  BY <1>1, CheckoutInv
<1>2. ASSUME NEW h \in Handlers, Complete(h) \/ HandlerFails(h) PROVE Inv'
  BY <1>2, MoveInv, FindInv, CreateInv DEF Complete
<1>3. CASE UNCHANGED checkoutVars
  <2>1. CheckoutTypeOK' /\ SaveAfterGrant' /\ CompletedIsGranted'
    BY <1>3 DEF Inv, CheckoutTypeOK, SaveAfterGrant, CompletedIsGranted, checkoutVars
  <2>2. GrantsCounted'
    BY <1>3, CountKept DEF Granting, checkoutVars
  <2> QED BY <2>1, <2>2 DEF Inv
<1> QED BY <1>1, <1>2, <1>3 DEF CheckoutNext

LEMMA InvHolds == CheckoutSpec => []Inv
BY InitInv, InvInductive, PTL DEF CheckoutSpec

(* The sessions, their rows and the completions keep their types, and a    *)
(* completion in flight is one of a paid session.                          *)
THEOREM CheckoutsTyped == CheckoutSpec => []CheckoutTypeOK
BY InvHolds, PTL DEF Inv

(* However many webhook deliveries and reconciling requests complete one   *)
(* checkout at once, it is credited at most once by each of those in       *)
(* flight together, and never taken for done without its credits.          *)
THEOREM CreditsFollowCheckouts == CheckoutSpec => []GrantsFollowCheckouts
<1>1. Inv => GrantsFollowCheckouts
  <2> SUFFICES ASSUME Inv, NEW c \in Checkouts PROVE credits[c] <= Cardinality(Handlers)
    BY DEF Inv, GrantsFollowCheckouts, GrantsBounded
  <2>1. credits[c] \in Nat /\ credits[c] + Cardinality(Granting(c)) <= Cardinality(Handlers)
    BY DEF Inv, CheckoutTypeOK, GrantsCounted
  <2> QED BY <2>1, GrantingFinite
<1> QED BY <1>1, InvHolds, PTL
----------------------------------------------------------------------------
(* BillingUsage.                                                            *)

HIDE CheckoutAssumption
USE BillingAssumption

Event == [job : Jobs, key : Nat, at : Nat, grant : Nat]
Grant == [quantity : {Quantity}, consumed : Nat, expired : BOOLEAN]
Holding == [pc : Requesting, job : Jobs \union {NoJob}, key : Nat, paid : BOOLEAN, grant : Nat]

\* What else holds of a request by its control point, n grants there are.
Holds(q, n) ==
  /\ q.pc # "idle" => q.job \in Jobs
  /\ q.grant \in 0..n
  /\ q.grant # 0 <=> q.pc = "commit" /\ q.paid

RowsTyped ==
  /\ job \in [Jobs -> {"DRAFT", "PUBLISHED"}]
  /\ usage \subseteq Event /\ IsFiniteSet(usage)
  /\ grants \in Seq(Grant)
  /\ starts \in Seq(Nat) /\ period \in DOMAIN starts
  /\ included \in Allowances /\ base \in Nat /\ faults \in Nat

RequestsTyped == req \in [Requests -> Holding] /\ \A r \in Requests : Holds(req[r], Len(grants))

\* Events are of grants that exist.
EventsKnown == \A u \in usage : u.grant \in 0..Len(grants)

\* A transaction that inserts a key is the first: no event has it, and no
\* other transaction is about to commit it.
KeysExclusive ==
  \A r \in Requests : req[r].pc = "commit" =>
    /\ ~Charged(req[r].job, req[r].key)
    /\ \A q \in Requests \ {r} :
         ~(req[q].pc = "commit" /\ req[q].job = req[r].job /\ req[q].key = req[r].key)

\* Requests that will have the plan pay, and those that took a credit of g.
OnPlan == {r \in Requests : req[r].pc \in {"tx", "commit"} /\ ~req[r].paid}
Taking(g) == {r \in Requests : req[r].pc = "commit" /\ req[r].grant = g}

\* What the plan includes, or had paid already when it or the period changed.
Bound == IF base > included THEN base ELSE included

PlanCounted == Cardinality(PlanUnits) + Cardinality(OnPlan) <= Bound + Cardinality(Requests)
OverdraftCounted == \A g \in DOMAIN grants :
  grants[g].consumed + Cardinality(Taking(g)) <= grants[g].quantity + Cardinality(Requests) - 1

UsageInv ==
  /\ RowsTyped /\ RequestsTyped /\ EventsKnown /\ KeysExclusive
  /\ CreditsArePaidUnits /\ PlanCounted /\ OverdraftCounted

(* A set of numbers has a least one, which is what Min chooses.            *)
LEMMA MinExists ==
  ASSUME NEW S \in SUBSET Nat, S # {}
  PROVE  Min(S) \in S
<1> DEFINE R == {ss \in Nat \X Nat : ss[1] < ss[2]}
<1>1. IsWellFoundedOn(R, Nat)
  BY NatLessThanWellFounded, Zenon DEF OpToRel
<1>2. \E x \in S : \A y \in S : ~ (<<y, x>> \in R)
  <2> HIDE DEF R
  <2> QED BY <1>1, WFMin
<1>3. PICK x \in S : \A y \in S : ~ (<<y, x>> \in R)
  BY <1>2
<1>4. ASSUME NEW y \in S PROVE x <= y
  <2>1. x \in Nat /\ y \in Nat
    OBVIOUS
  <2>2. y < x => <<y, x>> \in R
    BY <2>1
  <2> QED BY <1>3, <2>1, <2>2
<1> QED BY <1>4 DEF Min

LEMMA MaxOfTwo ==
  ASSUME NEW a \in Nat, NEW b \in Nat
  PROVE  Max({a, b}) = IF b > a THEN b ELSE a
<1> DEFINE m == IF b > a THEN b ELSE a
<1>1. m \in {a, b} /\ \A y \in {a, b} : m >= y
  OBVIOUS
<1>2. ASSUME NEW x \in {a, b}, \A y \in {a, b} : x >= y PROVE x = m
  BY <1>2
<1> HIDE DEF m
<1>3. Max({a, b}) = m
  BY <1>1, <1>2 DEF Max
<1> QED BY <1>3 DEF m

LEMMA RequestSets ==
  /\ Cardinality(Requests) \in Nat
  /\ \A S \in SUBSET Requests : /\ IsFiniteSet(S) /\ Cardinality(S) \in Nat
                                /\ Cardinality(S) <= Cardinality(Requests)
                                /\ \A r \in S : Cardinality(S \ {r}) = Cardinality(S) - 1
                                /\ \A T \in SUBSET S : Cardinality(T) <= Cardinality(S)
<1>1. Cardinality(Requests) \in Nat
  BY FS_CardinalityType
<1>2. ASSUME NEW S \in SUBSET Requests
      PROVE  IsFiniteSet(S) /\ Cardinality(S) \in Nat /\ Cardinality(S) <= Cardinality(Requests)
  BY FS_Subset, FS_CardinalityType
<1>3. ASSUME NEW S \in SUBSET Requests, NEW r \in S
      PROVE  Cardinality(S \ {r}) = Cardinality(S) - 1
  BY <1>2, FS_RemoveElement
<1>4. ASSUME NEW S \in SUBSET Requests, NEW T \in SUBSET S
      PROVE  Cardinality(T) <= Cardinality(S)
  BY <1>2, FS_Subset
<1> QED BY <1>1, <1>2, <1>3, <1>4

LEMMA EventSets ==
  ASSUME IsFiniteSet(usage)
  PROVE  /\ Cardinality(PlanUnits) \in Nat /\ IsFiniteSet(PlanUnits)
         /\ Cardinality(PlanUnits) <= Used /\ Used \in Nat
         /\ \A g : IsFiniteSet(PaidBy(g)) /\ Cardinality(PaidBy(g)) \in Nat
<1> DEFINE Now == {u \in usage : u.at > starts[period]}
<1>1. IsFiniteSet(Now) /\ Used = Cardinality(Now)
  BY FS_Subset DEF Used
<1>2. PlanUnits \subseteq Now /\ PlanUnits \subseteq usage
  BY DEF PlanUnits, PlanUnitsSince
<1> HIDE DEF Now
<1>3. IsFiniteSet(PlanUnits) /\ Cardinality(PlanUnits) <= Cardinality(Now)
  BY <1>1, <1>2, FS_Subset
<1>4. ASSUME NEW g PROVE IsFiniteSet(PaidBy(g))
  <2>1. PaidBy(g) \subseteq usage
    BY DEF PaidBy
  <2> QED BY <2>1, FS_Subset
<1> QED BY <1>1, <1>3, <1>4, FS_CardinalityType

LEMMA Grants ==
  ASSUME RowsTyped
  PROVE  /\ Len(grants) \in Nat /\ DOMAIN grants = 1..Len(grants)
         /\ \A g \in DOMAIN grants : /\ grants[g] \in Grant /\ grants[g].consumed \in Nat
                                     /\ grants[g].quantity = Quantity
         /\ included \in Nat /\ base \in Nat /\ Quantity \in Nat \ {0}
         /\ Bound \in Nat /\ Bound >= included /\ Bound >= base
<1>1. grants \in Seq(Grant) /\ included \in Allowances /\ Allowances \subseteq Nat /\ base \in Nat
  BY DEF RowsTyped
<1>2. Len(grants) \in Nat /\ DOMAIN grants = 1..Len(grants)
  BY <1>1
<1>3. ASSUME NEW g \in DOMAIN grants
      PROVE  /\ grants[g] \in Grant /\ grants[g].consumed \in Nat /\ grants[g].quantity = Quantity
  <2>1. grants[g] \in Grant
    BY <1>1, <1>2
  <2> QED BY <2>1 DEF Grant
<1>4. Bound \in Nat /\ Bound >= included /\ Bound >= base
  BY <1>1 DEF Bound
<1> QED BY <1>1, <1>2, <1>3, <1>4

LEMMA UsageInit == Init => UsageInv
<1> SUFFICES ASSUME Init PROVE UsageInv
  OBVIOUS
<1>1. /\ Idle \in Holding /\ Idle.pc = "idle" /\ Idle.grant = 0
      /\ \A r \in Requests : req[r] = Idle
  BY DEF Idle, Holding, Requesting, Init
<1>2. usage = {} /\ grants = <<>> /\ IsFiniteSet(usage) /\ DOMAIN grants = {} /\ Len(grants) = 0
  BY FS_EmptySet DEF Init
<1>3. RowsTyped
  <2>1. starts \in Seq(Nat) /\ period \in DOMAIN starts
    BY DEF Init
  <2> QED BY <1>2, <2>1 DEF Init, RowsTyped
<1>4. RequestsTyped
  BY <1>1, <1>2 DEF Init, RequestsTyped, Holds
<1>5. EventsKnown /\ KeysExclusive /\ CreditsArePaidUnits /\ OverdraftCounted
  BY <1>1, <1>2 DEF EventsKnown, KeysExclusive, CreditsArePaidUnits, OverdraftCounted
<1>6. PlanCounted
  <2>1. PlanUnits = {} /\ OnPlan = {}
    BY <1>1, <1>2 DEF PlanUnits, PlanUnitsSince, OnPlan
  <2>2. Cardinality(PlanUnits) = 0 /\ Cardinality(OnPlan) = 0
    BY <2>1, FS_EmptySet
  <2> QED BY <1>3, <2>2, Grants, RequestSets DEF PlanCounted
<1> QED BY <1>3, <1>4, <1>5, <1>6 DEF UsageInv

(* A request that writes nothing the others read: it comes to have the plan*)
(* pay only having read that it includes another unit, and to take a credit*)
(* only of a grant with a balance.                                         *)
LEMMA RequestOnly ==
  ASSUME UsageInv, NEW r \in Requests, \A q \in Requests \ {r} : req'[q] = req[q],
         req' \in [Requests -> Holding], Holds(req'[r], Len(grants)),
         usage' = usage, grants' = grants, accountVars' = accountVars,
         job' \in [Jobs -> {"DRAFT", "PUBLISHED"}], faults' \in Nat,
         req'[r].pc = "commit" =>
           /\ ~Charged(req'[r].job, req'[r].key)
           /\ \A q \in Requests \ {r} :
                ~(req[q].pc = "commit" /\ req[q].job = req'[r].job /\ req[q].key = req'[r].key),
         (r \in OnPlan' => r \in OnPlan) \/ Used < included,
         \A g \in DOMAIN grants :
           (r \in Taking(g)' => r \in Taking(g)) \/ grants[g].consumed < grants[g].quantity
  PROVE  UsageInv'
<1>0. starts' = starts /\ period' = period /\ included' = included /\ base' = base
  BY DEF accountVars
<1>1. /\ RowsTyped /\ RequestsTyped /\ EventsKnown /\ KeysExclusive
      /\ CreditsArePaidUnits /\ PlanCounted /\ OverdraftCounted /\ IsFiniteSet(usage)
  BY DEF UsageInv, RowsTyped
<1>2. RowsTyped' /\ EventsKnown' /\ CreditsArePaidUnits'
  BY <1>0, <1>1 DEF RowsTyped, EventsKnown, CreditsArePaidUnits, PaidBy
<1>3. RequestsTyped'
  BY <1>1 DEF RequestsTyped
<1>4. KeysExclusive'
  BY <1>1 DEF KeysExclusive, Charged
<1>5. /\ Cardinality(PlanUnits) \in Nat /\ Cardinality(PlanUnits) <= Used /\ Used \in Nat
      /\ included \in Nat /\ Bound \in Nat /\ Bound >= included
      /\ Cardinality(Requests) \in Nat
      /\ OnPlan \in SUBSET Requests /\ OnPlan' \in SUBSET Requests
  BY <1>1, EventSets, Grants, RequestSets DEF OnPlan
<1>6. PlanCounted'
  <2>1. PlanUnits' = PlanUnits /\ Bound' = Bound
    BY <1>0 DEF PlanUnits, PlanUnitsSince, Bound
  <2>2. CASE r \in OnPlan' => r \in OnPlan
    <3>1. OnPlan' \subseteq OnPlan
      BY <2>2 DEF OnPlan
    <3>2. Cardinality(OnPlan') <= Cardinality(OnPlan) /\ Cardinality(OnPlan') \in Nat /\ Cardinality(OnPlan) \in Nat
      BY <1>5, <3>1, RequestSets
    <3> QED BY <1>1, <1>5, <2>1, <3>2 DEF PlanCounted
  <2>3. CASE Used < included
    <3>1. Cardinality(OnPlan') <= Cardinality(Requests) /\ Cardinality(OnPlan') \in Nat
      BY <1>5, RequestSets
    <3> QED BY <1>5, <2>1, <2>3, <3>1 DEF PlanCounted
  <2> QED BY <2>2, <2>3
<1>7. OverdraftCounted'
  <2> SUFFICES ASSUME NEW g \in DOMAIN grants
               PROVE  grants[g].consumed + Cardinality(Taking(g)')
                        <= grants[g].quantity + Cardinality(Requests) - 1
    BY DEF OverdraftCounted
  <2>1. /\ Taking(g) \in SUBSET Requests /\ Taking(g)' \in SUBSET Requests
        /\ grants[g].consumed \in Nat /\ grants[g].quantity \in Nat
    BY <1>1, Grants DEF Taking
  <2>2. CASE r \in Taking(g)' => r \in Taking(g)
    <3>1. Taking(g)' \subseteq Taking(g)
      BY <2>2 DEF Taking
    <3>2. /\ Cardinality(Taking(g)') <= Cardinality(Taking(g))
          /\ Cardinality(Taking(g)') \in Nat /\ Cardinality(Taking(g)) \in Nat
      BY <2>1, <3>1, RequestSets
    <3>3. grants[g].consumed + Cardinality(Taking(g)) <= grants[g].quantity + Cardinality(Requests) - 1
      BY <1>1 DEF OverdraftCounted
    <3> HIDE <1>1
    <3> QED BY <1>5, <2>1, <3>2, <3>3
  <2>3. CASE grants[g].consumed < grants[g].quantity
    <3>1. Cardinality(Taking(g)') <= Cardinality(Requests) /\ Cardinality(Taking(g)') \in Nat
      BY <2>1, RequestSets
    <3> QED BY <1>5, <2>1, <2>3, <3>1
  <2> QED BY <2>2, <2>3
<1> QED BY <1>2, <1>3, <1>4, <1>6, <1>7 DEF UsageInv

LEMMA Free == Idle \in Holding /\ Idle.pc = "idle" /\ Idle.grant = 0 /\ Idle.paid = FALSE
BY DEF Idle, Holding, Requesting

LEMMA PublishInv ==
  ASSUME UsageInv, NEW r \in Requests,
         (\E j \in Jobs : AssertCanPublish(r, j)) \/ Publish(r) \/ RequestFails(r)
  PROVE  UsageInv'
<1>1. /\ req \in [Requests -> Holding] /\ req[r] \in Holding /\ Holds(req[r], Len(grants))
      /\ job \in [Jobs -> {"DRAFT", "PUBLISHED"}] /\ faults \in Nat /\ period \in Nat
      /\ Len(grants) \in Nat
  BY Grants DEF UsageInv, RequestsTyped, RowsTyped
<1>2. /\ \A q \in Requests \ {r} : req'[q] = req[q]
      /\ usage' = usage /\ grants' = grants /\ accountVars' = accountVars
  BY <1>1 DEF AssertCanPublish, Publish, RequestFails, accountVars
<1>3. /\ req' \in [Requests -> Holding] /\ Holds(req'[r], Len(grants))
      /\ req'[r].pc \in {"idle", "publish", "used"}
  <2>1. CASE \E j \in Jobs : AssertCanPublish(r, j)
    <3>1. PICK j \in Jobs : AssertCanPublish(r, j)
      BY <2>1
    <3>2. req' = [req EXCEPT ![r] = [Idle EXCEPT !.pc = "publish", !.job = j]]
      BY <3>1 DEF AssertCanPublish
    <3>3. [Idle EXCEPT !.pc = "publish", !.job = j] \in Holding
      BY Free DEF Holding, Requesting
    <3> QED BY <1>1, <3>2, <3>3, Free DEF Holds, Idle
  <2>2. CASE Publish(r)
    BY <1>1, <2>2 DEF Publish, Holding, Holds, Requesting
  <2>3. CASE RequestFails(r)
    BY <1>1, <2>3, Free DEF RequestFails, Holds
  <2> QED BY <2>1, <2>2, <2>3
<1>4. job' \in [Jobs -> {"DRAFT", "PUBLISHED"}] /\ faults' \in Nat
  <2>1. CASE Publish(r)
    BY <1>1, <2>1 DEF Publish, Holds
  <2>2. CASE RequestFails(r)
    BY <1>1, <2>2 DEF RequestFails
  <2>3. CASE \E j \in Jobs : AssertCanPublish(r, j)
    BY <1>1, <2>3 DEF AssertCanPublish
  <2> QED BY <2>1, <2>2, <2>3
<1>5. r \notin OnPlan' /\ \A g : r \notin Taking(g)'
  BY <1>3 DEF OnPlan, Taking
<1> QED BY <1>2, <1>3, <1>4, <1>5, RequestOnly

(* The billing state decides who pays.                                     *)
LEMMA ReadInv ==
  ASSUME UsageInv, NEW r \in Requests, ReadUsed(r)
  PROVE  UsageInv'
<1>1. /\ req \in [Requests -> Holding] /\ req[r] \in Holding /\ Holds(req[r], Len(grants))
      /\ job \in [Jobs -> {"DRAFT", "PUBLISHED"}] /\ faults \in Nat
      /\ Len(grants) \in Nat /\ IsFiniteSet(usage) /\ included \in Nat
  BY Grants DEF UsageInv, RequestsTyped, RowsTyped
<1>2. /\ \A q \in Requests \ {r} : req'[q] = req[q]
      /\ usage' = usage /\ grants' = grants /\ accountVars' = accountVars
      /\ job' = job /\ faults' = faults
  BY <1>1 DEF ReadUsed, accountVars
<1>3. /\ req'[r].pc = "tx" /\ req'[r].paid = NeedsCredit /\ NeedsCredit \in BOOLEAN
      /\ req' \in [Requests -> Holding] /\ Holds(req'[r], Len(grants))
  <2> DEFINE q == [req[r] EXCEPT !.pc = "tx", !.paid = NeedsCredit]
  <2>1. NeedsCredit \in BOOLEAN
    BY DEF NeedsCredit
  <2>2. q \in Holding /\ q.pc = "tx" /\ q.paid = NeedsCredit /\ Holds(q, Len(grants))
    BY <1>1, <2>1 DEF ReadUsed, Holding, Holds, Requesting
  <2>3. req' = [req EXCEPT ![r] = q]
    BY <1>1 DEF ReadUsed
  <2> HIDE DEF q
  <2> QED BY <1>1, <2>1, <2>2, <2>3
<1>4. Used \in Nat
  BY <1>1, EventSets
<1>5. (r \in OnPlan' => r \in OnPlan) \/ Used < included
  <2>1. CASE NeedsCredit
    BY <1>3, <2>1 DEF OnPlan
  <2>2. CASE ~NeedsCredit
    BY <1>1, <1>4, <2>2 DEF NeedsCredit
  <2> QED BY <2>1, <2>2
<1>6. \A g : r \notin Taking(g)'
  BY <1>3 DEF Taking
<1> QED BY <1>1, <1>2, <1>3, <1>5, <1>6, RequestOnly

(* The transaction opens: its key is free, and a credit it takes is left.  *)
LEMMA BeginInv ==
  ASSUME UsageInv, NEW r \in Requests, BeginCharge(r)
  PROVE  UsageInv'
<1>1. /\ req \in [Requests -> Holding] /\ req[r] \in Holding /\ Holds(req[r], Len(grants))
      /\ job \in [Jobs -> {"DRAFT", "PUBLISHED"}] /\ faults \in Nat
      /\ Len(grants) \in Nat /\ DOMAIN grants = 1..Len(grants)
      /\ \A g \in DOMAIN grants : grants[g].consumed \in Nat /\ grants[g].quantity \in Nat
  BY Grants DEF UsageInv, RequestsTyped, RowsTyped
<1>2. /\ \A q \in Requests \ {r} : req'[q] = req[q]
      /\ usage' = usage /\ grants' = grants /\ accountVars' = accountVars
      /\ job' = job /\ faults' = faults /\ req[r].pc = "tx"
  BY <1>1 DEF BeginCharge, accountVars
<1>3. CASE Charged(req[r].job, req[r].key) \/ (req[r].paid /\ Spendable = {})
  <2>1. req' = [req EXCEPT ![r] = Idle]
    BY <1>1, <1>3 DEF BeginCharge
  <2>2. req' \in [Requests -> Holding] /\ Holds(req'[r], Len(grants)) /\ req'[r].pc = "idle"
    BY <1>1, <2>1, Free DEF Holds
  <2>3. r \notin OnPlan' /\ \A g : r \notin Taking(g)'
    BY <2>2 DEF OnPlan, Taking
  <2> QED BY <1>1, <1>2, <2>2, <2>3, RequestOnly
<1>4. CASE ~(Charged(req[r].job, req[r].key) \/ (req[r].paid /\ Spendable = {}))
  <2> DEFINE n == IF req[r].paid THEN NextGrant ELSE 0
  <2>1. req' = [req EXCEPT ![r] = [req[r] EXCEPT !.pc = "commit", !.grant = n]]
    BY <1>1, <1>4 DEF BeginCharge
  <2>2. IF req[r].paid THEN n \in Spendable ELSE n = 0
    <3>1. Spendable \in SUBSET Nat
      BY <1>1 DEF Spendable
    <3> QED BY <1>4, <3>1, MinExists DEF NextGrant
  <2> HIDE DEF n
  <2>3. \A g \in Spendable : g \in 1..Len(grants) /\ grants[g].consumed < grants[g].quantity
    BY <1>1 DEF Spendable, Remaining
  <2>4. n \in 0..Len(grants) /\ (n # 0 <=> req[r].paid)
    BY <1>1, <2>2, <2>3 DEF Holding
  <2>5. /\ req'[r].pc = "commit" /\ req'[r].grant = n /\ req'[r].paid = req[r].paid
        /\ req'[r].job = req[r].job /\ req'[r].key = req[r].key
        /\ req' \in [Requests -> Holding]
    <3>1. n \in Nat
      BY <2>4
    <3>2. [req[r] EXCEPT !.pc = "commit", !.grant = n] \in Holding
      BY <1>1, <3>1 DEF Holding, Requesting
    <3> QED BY <1>1, <2>1, <3>2 DEF Holding
  <2>6. Holds(req'[r], Len(grants))
    BY <1>1, <1>2, <2>4, <2>5 DEF Holds
  <2>7. /\ ~Charged(req'[r].job, req'[r].key)
        /\ \A q \in Requests \ {r} :
             ~(req[q].pc = "commit" /\ req[q].job = req'[r].job /\ req[q].key = req'[r].key)
    BY <1>4, <2>5 DEF BeginCharge, KeyLocked
  <2>8. r \in OnPlan' => r \in OnPlan
    BY <1>2, <2>5 DEF OnPlan
  <2>9. ASSUME NEW g \in DOMAIN grants, r \in Taking(g)'
        PROVE  grants[g].consumed < grants[g].quantity
    <3>1. g = n /\ g # 0
      BY <1>1, <2>5, <2>9 DEF Taking
    <3> QED BY <2>2, <2>3, <2>4, <3>1
  <2> QED BY <1>1, <1>2, <2>5, <2>6, <2>7, <2>8, <2>9, RequestOnly
<1> QED BY <1>3, <1>4

(* The commit: the event is new, and it is paid for by the plan or by the  *)
(* grant that was picked.                                                  *)
LEMMA CommitInv ==
  ASSUME UsageInv, NEW r \in Requests, CommitCharge(r)
  PROVE  UsageInv'
<1> DEFINE u == [job |-> req[r].job, key |-> req[r].key, at |-> Cardinality(usage) + 1,
                grant |-> req[r].grant]
<1>1. /\ RowsTyped /\ RequestsTyped /\ EventsKnown /\ KeysExclusive
      /\ CreditsArePaidUnits /\ PlanCounted /\ OverdraftCounted
  BY DEF UsageInv
<1>2. /\ req \in [Requests -> Holding] /\ req[r] \in Holding /\ Holds(req[r], Len(grants))
      /\ IsFiniteSet(usage) /\ Len(grants) \in Nat
      /\ DOMAIN grants = 1..Len(grants) /\ grants \in Seq(Grant)
      /\ Cardinality(Requests) \in Nat /\ Bound \in Nat
  BY <1>1, Grants, RequestSets DEF RequestsTyped, RowsTyped
<1>3. /\ usage' = usage \union {u} /\ req' = [req EXCEPT ![r] = Idle] /\ req[r].pc = "commit"
      /\ job' = job /\ faults' = faults
      /\ starts' = starts /\ period' = period /\ included' = included /\ base' = base
      /\ grants' = [g \in DOMAIN grants |-> IF g = req[r].grant
                       THEN [grants[g] EXCEPT !.consumed = @ + 1] ELSE grants[g]]
  BY DEF CommitCharge, accountVars
<1>4. u \in Event /\ u.grant \in 0..Len(grants) /\ u \notin usage
  <2>0. Cardinality(usage) \in Nat
    BY <1>2, FS_CardinalityType
  <2>1. u \in Event
    BY <1>2, <1>3, <2>0 DEF Event, Holding, Holds
  <2>2. ~Charged(req[r].job, req[r].key)
    BY <1>1, <1>3 DEF KeysExclusive
  <2> QED BY <1>2, <2>1, <2>2 DEF Charged, Holds
<1>5. u.grant = req[r].grant /\ u.job = req[r].job /\ u.key = req[r].key
  OBVIOUS
<1> HIDE DEF u
<1>6. /\ Len(grants') = Len(grants) /\ DOMAIN grants' = DOMAIN grants /\ grants' \in Seq(Grant)
      /\ \A g \in DOMAIN grants :
           /\ grants'[g].quantity = grants[g].quantity
           /\ grants'[g].consumed = grants[g].consumed + (IF g = u.grant THEN 1 ELSE 0)
  <2>1. ASSUME NEW g \in DOMAIN grants
        PROVE  /\ grants'[g] \in Grant /\ grants'[g].quantity = grants[g].quantity
               /\ grants'[g].consumed = grants[g].consumed + (IF g = u.grant THEN 1 ELSE 0)
    <3>1. grants[g] \in Grant
      BY <1>2
    <3> QED BY <1>3, <1>5, <3>1 DEF Grant
  <2>2. DOMAIN grants' = DOMAIN grants
    BY <1>3
  <2>3. grants' \in Seq(Grant) /\ Len(grants') = Len(grants)
    <3>1. grants' \in [1..Len(grants) -> Grant]
      BY <1>2, <1>3, <2>1, <2>2
    <3> QED BY <1>2, <3>1
  <2> QED BY <2>1, <2>2, <2>3
<1>7. RowsTyped'
  <2>1. IsFiniteSet(usage')
    BY <1>2, <1>3, FS_AddElement
  <2> QED BY <1>1, <1>3, <1>4, <1>6, <2>1 DEF RowsTyped
<1>8. RequestsTyped'
  BY <1>1, <1>2, <1>3, <1>6, Free DEF RequestsTyped, Holds
<1>9. EventsKnown'
  BY <1>1, <1>2, <1>3, <1>4, <1>5, <1>6 DEF EventsKnown
<1>10. KeysExclusive'
  <2>1. ASSUME NEW q \in Requests \ {r}, req[q].pc = "commit"
        PROVE  ~Charged(req[q].job, req[q].key)' /\ req'[q] = req[q]
    <3>1. ~Charged(req[q].job, req[q].key) /\ ~(req[r].job = req[q].job /\ req[r].key = req[q].key)
      BY <1>1, <1>3, <2>1 DEF KeysExclusive
    <3>2. req'[q] = req[q]
      BY <1>2, <1>3
    <3> QED BY <1>3, <1>5, <3>1, <3>2 DEF Charged
  <2>2. req'[r].pc = "idle" /\ \A q \in Requests \ {r} : req'[q] = req[q]
    BY <1>2, <1>3, Free
  <2> QED BY <1>1, <2>1, <2>2 DEF KeysExclusive, Charged
<1>11. CreditsArePaidUnits'
  <2>0. \A v, w \in usage' : v.job = w.job /\ v.key = w.key => v = w
    <3>1. ~Charged(u.job, u.key)
      BY <1>1, <1>3, <1>5 DEF KeysExclusive
    <3>2. \A v, w \in usage : v.job = w.job /\ v.key = w.key => v = w
      BY <1>1 DEF CreditsArePaidUnits
    <3> QED BY <1>3, <3>1, <3>2 DEF Charged
  <2> SUFFICES ASSUME NEW g \in DOMAIN grants
               PROVE  grants'[g].consumed = Cardinality(PaidBy(g)')
    BY <1>6, <2>0 DEF CreditsArePaidUnits
  <2>1. IsFiniteSet(PaidBy(g)) /\ Cardinality(PaidBy(g)) \in Nat
    BY <1>2, EventSets
  <2>2. grants[g].consumed = Cardinality(PaidBy(g))
    BY <1>1 DEF CreditsArePaidUnits
  <2>3. CASE g = u.grant
    <3>1. PaidBy(g)' = PaidBy(g) \union {u} /\ u \notin PaidBy(g)
      BY <1>3, <1>4, <2>3 DEF PaidBy
    <3>2. Cardinality(PaidBy(g)') = Cardinality(PaidBy(g)) + 1
      BY <2>1, <3>1, FS_AddElement
    <3> QED BY <1>6, <2>2, <2>3, <3>2
  <2>4. CASE g # u.grant
    <3>1. PaidBy(g)' = PaidBy(g)
      BY <1>3, <2>4 DEF PaidBy
    <3> QED BY <1>6, <2>1, <2>2, <2>4, <3>1
  <2> QED BY <2>3, <2>4
<1>12. PlanCounted'
  <2>1. /\ Cardinality(PlanUnits) \in Nat /\ IsFiniteSet(PlanUnits)
        /\ OnPlan \in SUBSET Requests /\ OnPlan' = OnPlan \ {r}
    BY <1>2, <1>3, EventSets, Free DEF OnPlan
  <2>2. Cardinality(OnPlan) \in Nat /\ Cardinality(OnPlan') \in Nat /\ Cardinality(OnPlan') <= Cardinality(OnPlan)
    BY <2>1, RequestSets
  <2>5. Bound' = Bound
    BY <1>3 DEF Bound
  <2>3. CASE u.grant = 0 /\ u.at > starts[period]
    <3>1. PlanUnits' = PlanUnits \union {u} /\ u \notin PlanUnits
      BY <1>3, <1>4, <2>3 DEF PlanUnits, PlanUnitsSince
    <3>2. Cardinality(PlanUnits') = Cardinality(PlanUnits) + 1
      BY <2>1, <3>1, FS_AddElement
    <3>3. r \in OnPlan
      BY <1>2, <1>3, <1>5, <2>3 DEF OnPlan, Holds
    <3>4. Cardinality(OnPlan') = Cardinality(OnPlan) - 1
      BY <2>1, <3>3, RequestSets
    <3> QED BY <1>1, <1>2, <2>1, <2>2, <2>5, <3>2, <3>4 DEF PlanCounted
  <2>4. CASE ~(u.grant = 0 /\ u.at > starts[period])
    <3>1. PlanUnits' = PlanUnits
      BY <1>3, <2>4 DEF PlanUnits, PlanUnitsSince
    <3> QED BY <1>1, <1>2, <2>1, <2>2, <2>5, <3>1 DEF PlanCounted
  <2> QED BY <2>3, <2>4
<1>13. OverdraftCounted'
  <2> SUFFICES ASSUME NEW g \in DOMAIN grants
               PROVE  grants'[g].consumed + Cardinality(Taking(g)')
                        <= grants'[g].quantity + Cardinality(Requests) - 1
    BY <1>6 DEF OverdraftCounted
  <2>1. /\ Taking(g) \in SUBSET Requests /\ Taking(g)' = Taking(g) \ {r}
        /\ (g = u.grant => r \in Taking(g))
    BY <1>2, <1>3, <1>5, Free DEF Taking
  <2>2. /\ Cardinality(Taking(g)) \in Nat /\ Cardinality(Taking(g)') \in Nat
        /\ Cardinality(Taking(g)') <= Cardinality(Taking(g))
        /\ g = u.grant => Cardinality(Taking(g)') = Cardinality(Taking(g)) - 1
    BY <2>1, RequestSets
  <2>3. grants[g].consumed \in Nat /\ grants[g].quantity \in Nat
    BY <1>1, Grants
  <2>4. grants[g].consumed + Cardinality(Taking(g)) <= grants[g].quantity + Cardinality(Requests) - 1
    BY <1>1 DEF OverdraftCounted
  <2>5. grants'[g].quantity = grants[g].quantity
    BY <1>6
  <2>6. grants'[g].consumed = grants[g].consumed + (IF g = u.grant THEN 1 ELSE 0)
    BY <1>6
  <2>7. Cardinality(Requests) \in Nat
    BY <1>2
  <2> HIDE <1>1
  <2> QED BY <2>2, <2>3, <2>4, <2>5, <2>6, <2>7
<1> QED BY <1>7, <1>8, <1>9, <1>10, <1>11, <1>12, <1>13 DEF UsageInv

----------------------------------------------------------------------------
(* The account, which changes under the requests in flight.                 *)

LEMMA PeriodInv ==
  ASSUME UsageInv, NEW n \in Allowances,
         (\E s \in 0..Cardinality(usage) : NextPeriod(n, s))
           \/ (\E p \in DOMAIN starts : ChangePlan(n, p))
  PROVE  UsageInv'
<1>1. /\ RowsTyped /\ RequestsTyped /\ EventsKnown /\ KeysExclusive
      /\ CreditsArePaidUnits /\ PlanCounted /\ OverdraftCounted
  BY DEF UsageInv
<1>2. job' = job /\ usage' = usage /\ grants' = grants /\ req' = req /\ faults' = faults /\ included' = n
  BY DEF NextPeriod, ChangePlan
<1>3. n \in Nat /\ starts \in Seq(Nat) /\ IsFiniteSet(usage) /\ Cardinality(usage) \in Nat
  BY <1>1, FS_CardinalityType DEF RowsTyped
<1>4. /\ OnPlan \in SUBSET Requests /\ Cardinality(OnPlan) \in Nat /\ Cardinality(Requests) \in Nat
      /\ Cardinality(OnPlan) <= Cardinality(Requests) /\ OnPlan' = OnPlan
  <2>1. OnPlan \in SUBSET Requests /\ OnPlan' = OnPlan
    BY <1>2 DEF OnPlan
  <2> QED BY <2>1, RequestSets
<1>5. RequestsTyped' /\ EventsKnown' /\ KeysExclusive' /\ CreditsArePaidUnits' /\ OverdraftCounted'
  BY <1>1, <1>2 DEF RequestsTyped, EventsKnown, KeysExclusive, Charged, CreditsArePaidUnits, PaidBy,
                    OverdraftCounted, Taking
<1>6. starts' \in Seq(Nat) /\ period' \in DOMAIN starts' /\ base' = Cardinality(PlanUnits')
  <2>1. ASSUME NEW s \in 0..Cardinality(usage), NextPeriod(n, s)
        PROVE  starts' \in Seq(Nat) /\ period' \in DOMAIN starts' /\ base' = Cardinality(PlanUnits')
    <3>1. /\ starts' = Append(starts, s) /\ period' = Len(starts) + 1 /\ s \in Nat
          /\ base' = Cardinality(PlanUnitsSince(s))
      BY <1>3, <2>1 DEF NextPeriod
    <3>2. starts' \in Seq(Nat) /\ period' \in DOMAIN starts' /\ starts'[period'] = s
      BY <1>3, <3>1
    <3>3. PlanUnits' = PlanUnitsSince(s)
      BY <1>2, <3>2 DEF PlanUnits, PlanUnitsSince
    <3> QED BY <3>1, <3>2, <3>3
  <2>2. ASSUME NEW p \in DOMAIN starts, ChangePlan(n, p)
        PROVE  starts' \in Seq(Nat) /\ period' \in DOMAIN starts' /\ base' = Cardinality(PlanUnits')
    <3>1. starts' = starts /\ period' = p /\ base' = Cardinality(PlanUnitsSince(starts[p]))
      BY <2>2 DEF ChangePlan
    <3>2. PlanUnits' = PlanUnitsSince(starts[p])
      BY <1>2, <3>1 DEF PlanUnits, PlanUnitsSince
    <3> QED BY <1>3, <3>1, <3>2
  <2> QED BY <2>1, <2>2
<1>7. PlanUnits' \subseteq usage
  BY <1>2 DEF PlanUnits, PlanUnitsSince
<1>8. Cardinality(PlanUnits') \in Nat
  BY <1>3, <1>7, FS_Subset, FS_CardinalityType
<1>9. RowsTyped'
  BY <1>1, <1>2, <1>6, <1>8 DEF RowsTyped
<1>10. PlanCounted'
  <2>1. Bound' >= base' /\ Bound' \in Nat
    BY <1>2, <1>3, <1>6, <1>8 DEF Bound
  <2> QED BY <1>2, <1>4, <1>6, <1>8, <2>1 DEF PlanCounted
<1> QED BY <1>5, <1>9, <1>10 DEF UsageInv

LEMMA GrantInv ==
  ASSUME UsageInv, AddGrant
  PROVE  UsageInv'
<1> DEFINE e == [quantity |-> Quantity, consumed |-> 0, expired |-> FALSE]
<1>1. /\ RowsTyped /\ RequestsTyped /\ EventsKnown /\ KeysExclusive
      /\ CreditsArePaidUnits /\ PlanCounted /\ OverdraftCounted
  BY DEF UsageInv
<1>2. /\ grants' = Append(grants, e) /\ job' = job /\ usage' = usage
      /\ starts' = starts /\ period' = period /\ included' = included /\ base' = base
      /\ req' = req /\ faults' = faults
  BY DEF AddGrant, accountVars
<1>3. e \in Grant /\ e.quantity = Quantity /\ e.consumed = 0 /\ Quantity \in Nat \ {0}
  BY DEF Grant
<1> HIDE DEF e
<1>4. /\ grants \in Seq(Grant) /\ Len(grants) \in Nat /\ DOMAIN grants = 1..Len(grants)
      /\ IsFiniteSet(usage) /\ Cardinality(Requests) \in Nat
  BY <1>1, Grants, RequestSets DEF RowsTyped
<1>5. /\ grants' \in Seq(Grant) /\ Len(grants') = Len(grants) + 1
      /\ DOMAIN grants' = 1..(Len(grants) + 1)
      /\ \A g \in 1..Len(grants) : grants'[g] = grants[g]
      /\ grants'[Len(grants) + 1] = e
  BY <1>2, <1>3, <1>4
<1>6. RowsTyped'
  BY <1>1, <1>2, <1>5 DEF RowsTyped
<1>7. RequestsTyped' /\ EventsKnown'
  BY <1>1, <1>2, <1>4, <1>5 DEF RequestsTyped, Holds, EventsKnown
<1>8. KeysExclusive' /\ PlanCounted'
  BY <1>1, <1>2 DEF KeysExclusive, Charged, PlanCounted, PlanUnits, PlanUnitsSince, OnPlan, Bound
<1>9. CreditsArePaidUnits'
  <2>1. ASSUME NEW g \in 1..Len(grants) PROVE grants'[g].consumed = Cardinality(PaidBy(g)')
    BY <1>1, <1>2, <1>4, <1>5 DEF CreditsArePaidUnits, PaidBy
  <2>2. PaidBy(Len(grants) + 1) = {}
    BY <1>1, <1>4 DEF PaidBy, EventsKnown
  <2>3. ASSUME NEW g, g = Len(grants) + 1 PROVE grants'[g].consumed = Cardinality(PaidBy(g)')
    <3>1. PaidBy(g)' = {}
      BY <1>2, <2>2, <2>3 DEF PaidBy
    <3>2. Cardinality({}) = 0
      BY FS_EmptySet
    <3> QED BY <1>3, <1>5, <2>3, <3>1, <3>2
  <2>4. ASSUME NEW g \in DOMAIN grants' PROVE grants'[g].consumed = Cardinality(PaidBy(g)')
    BY <1>4, <1>5, <2>1, <2>3
  <2>5. \A v, w \in usage' : v.job = w.job /\ v.key = w.key => v = w
    BY <1>1, <1>2 DEF CreditsArePaidUnits
  <2> QED BY <2>4, <2>5 DEF CreditsArePaidUnits
<1>10. OverdraftCounted'
  <2>1. ASSUME NEW g \in 1..Len(grants)
        PROVE  grants'[g].consumed + Cardinality(Taking(g)') <= grants'[g].quantity + Cardinality(Requests) - 1
    BY <1>1, <1>2, <1>4, <1>5 DEF OverdraftCounted, Taking
  <2>2. ASSUME NEW g, g = Len(grants) + 1
        PROVE  grants'[g].consumed + Cardinality(Taking(g)') <= grants'[g].quantity + Cardinality(Requests) - 1
    <3>1. Taking(g)' \in SUBSET Requests
      BY DEF Taking
    <3>2. Cardinality(Taking(g)') \in Nat /\ Cardinality(Taking(g)') <= Cardinality(Requests)
      BY <3>1, RequestSets
    <3> QED BY <1>3, <1>4, <1>5, <2>2, <3>2
  <2> QED BY <1>4, <1>5, <2>1, <2>2 DEF OverdraftCounted
<1> QED BY <1>6, <1>7, <1>8, <1>9, <1>10 DEF UsageInv

LEMMA RestInv ==
  ASSUME UsageInv, (\E g \in DOMAIN grants : ExpireGrant(g)) \/ (\E j \in Jobs : Unpublish(j))
                     \/ UNCHANGED vars
  PROVE  UsageInv'
<1>1. /\ RowsTyped /\ RequestsTyped /\ EventsKnown /\ KeysExclusive
      /\ CreditsArePaidUnits /\ PlanCounted /\ OverdraftCounted
  BY DEF UsageInv
<1>2. /\ usage' = usage /\ starts' = starts /\ period' = period /\ included' = included /\ base' = base
      /\ req' = req /\ faults' = faults
  BY DEF ExpireGrant, Unpublish, vars, accountVars
<1>3. job' \in [Jobs -> {"DRAFT", "PUBLISHED"}]
  BY <1>1 DEF RowsTyped, ExpireGrant, Unpublish, vars
<1>4. /\ grants \in Seq(Grant) /\ Len(grants) \in Nat /\ DOMAIN grants = 1..Len(grants)
  BY <1>1, Grants DEF RowsTyped
<1>5. /\ grants' \in Seq(Grant) /\ Len(grants') = Len(grants) /\ DOMAIN grants' = DOMAIN grants
      /\ \A g \in DOMAIN grants : /\ grants'[g].consumed = grants[g].consumed
                                  /\ grants'[g].quantity = grants[g].quantity
  <2>1. CASE grants' = grants
    BY <1>4, <2>1
  <2>2. ASSUME NEW h \in DOMAIN grants, ExpireGrant(h)
        PROVE  /\ grants' \in Seq(Grant) /\ Len(grants') = Len(grants) /\ DOMAIN grants' = DOMAIN grants
               /\ \A g \in DOMAIN grants : /\ grants'[g].consumed = grants[g].consumed
                                           /\ grants'[g].quantity = grants[g].quantity
    <3>1. grants' = [grants EXCEPT ![h].expired = TRUE]
      BY <2>2 DEF ExpireGrant
    <3>2. ASSUME NEW g \in DOMAIN grants
          PROVE  /\ grants'[g] \in Grant /\ grants'[g].consumed = grants[g].consumed
                 /\ grants'[g].quantity = grants[g].quantity
      <4>1. grants[g] \in Grant
        BY <1>4
      <4> QED BY <3>1, <4>1 DEF Grant
    <3>3. DOMAIN grants' = DOMAIN grants
      BY <3>1
    <3>4. grants' \in [1..Len(grants) -> Grant]
      BY <1>4, <3>1, <3>2, <3>3
    <3>5. grants' \in Seq(Grant) /\ Len(grants') = Len(grants)
      BY <1>4, <3>4
    <3> QED BY <3>2, <3>3, <3>5
  <2> QED BY <2>1, <2>2 DEF Unpublish, vars
<1>6. RowsTyped' /\ RequestsTyped' /\ EventsKnown'
  BY <1>1, <1>2, <1>3, <1>5 DEF RowsTyped, RequestsTyped, EventsKnown
<1>7. KeysExclusive' /\ PlanCounted'
  BY <1>1, <1>2 DEF KeysExclusive, Charged, PlanCounted, PlanUnits, PlanUnitsSince, OnPlan, Bound
<1>8. CreditsArePaidUnits' /\ OverdraftCounted'
  BY <1>1, <1>2, <1>5 DEF CreditsArePaidUnits, PaidBy, OverdraftCounted, Taking
<1> QED BY <1>6, <1>7, <1>8 DEF UsageInv

LEMMA UsageInductive == UsageInv /\ [Next]_vars => UsageInv'
<1> SUFFICES ASSUME UsageInv, [Next]_vars PROVE UsageInv'
  OBVIOUS
<1>1. ASSUME NEW r \in Requests, Request(r) PROVE UsageInv'
  BY <1>1, PublishInv, ReadInv, BeginInv, CommitInv DEF Request, Charge
<1>2. CASE Account
  BY <1>2, PeriodInv, GrantInv, RestInv DEF Account
<1>3. CASE UNCHANGED vars
  BY <1>3, RestInv
<1> QED BY <1>1, <1>2, <1>3 DEF Next

LEMMA UsageHolds == Spec => []UsageInv
BY UsageInit, UsageInductive, PTL DEF Spec

LEMMA UsageImplies == UsageInv => TypeOK /\ RacesCostOneUnitEach
<1> SUFFICES ASSUME UsageInv PROVE TypeOK /\ RacesCostOneUnitEach
  OBVIOUS
<1>1. /\ RowsTyped /\ RequestsTyped /\ PlanCounted /\ OverdraftCounted
      /\ Len(grants) \in Nat /\ DOMAIN grants = 1..Len(grants) /\ IsFiniteSet(usage)
  BY Grants DEF UsageInv, RowsTyped
<1>2. TypeOK
  <2>1. ASSUME NEW r \in Requests
        PROVE  /\ req[r].pc # "idle" => req[r].job \in Jobs
               /\ req[r].grant \in {0} \union DOMAIN grants
               /\ req[r].grant # 0 => (req[r].pc = "commit" /\ req[r].paid)
               /\ (req[r].pc = "commit" /\ req[r].paid) => req[r].grant # 0
    BY <1>1 DEF RequestsTyped, Holds
  <2> QED BY <1>1, <2>1 DEF RowsTyped, RequestsTyped, TypeOK, Event, Grant, Holding
<1>3. Cardinality(PlanUnits) <= Max({included, base}) + Cardinality(Requests)
  <2>1. OnPlan \in SUBSET Requests
    BY DEF OnPlan
  <2>2. Cardinality(OnPlan) \in Nat /\ Cardinality(PlanUnits) \in Nat
    BY <1>1, <2>1, RequestSets, EventSets
  <2>3. Max({included, base}) = Bound /\ Bound \in Nat
    BY <1>1, Grants, MaxOfTwo DEF Bound
  <2> QED BY <1>1, <2>2, <2>3, RequestSets DEF PlanCounted
<1>4. ASSUME NEW g \in DOMAIN grants
      PROVE  grants[g].consumed <= grants[g].quantity + Cardinality(Requests) - 1
  <2>1. Taking(g) \in SUBSET Requests
    BY DEF Taking
  <2>2. /\ Cardinality(Taking(g)) \in Nat /\ Cardinality(Requests) \in Nat
        /\ grants[g].consumed \in Nat /\ grants[g].quantity \in Nat
    BY <1>1, <2>1, Grants, RequestSets
  <2>3. grants[g].consumed + Cardinality(Taking(g)) <= grants[g].quantity + Cardinality(Requests) - 1
    BY <1>1 DEF OverdraftCounted
  <2> QED BY <2>2, <2>3
<1> QED BY <1>2, <1>3, <1>4 DEF RacesCostOneUnitEach

(* The jobs, usage events, grants and requests have their types: one that  *)
(* has picked a grant picked one there is.                                 *)
THEOREM UsageTyped == Spec => []TypeOK
BY UsageHolds, UsageImplies, PTL

(* A job is charged once in a period, and a credit leaves a grant exactly  *)
(* when a usage event is recorded for it: the unique key lets one          *)
(* transaction in for each job and period, and the event and the increment *)
(* commit together.                                                        *)
THEOREM CreditsAccounted == Spec => []CreditsArePaidUnits
BY UsageHolds, PTL DEF UsageInv

(* However the plan and the period change under the requests, the plan pays*)
(* for at most one unit more per request in flight than it includes or had *)
(* paid at its last change, and a grant for one less than that.            *)
THEOREM RacesBounded == Spec => []RacesCostOneUnitEach
BY UsageHolds, UsageImplies, PTL

=============================================================================
