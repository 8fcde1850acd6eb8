--------------------------- MODULE AddOnCheckout ----------------------------
(***************************************************************************)
(* Add-on purchases of one tenant (billing.service.ts): the checkout       *)
(* session at Stripe, its local row, and the completion that turns a paid  *)
(* session into a grant of credits.                                        *)
(*                                                                         *)
(* A completion is run by a webhook delivery, which Stripe repeats until   *)
(* one is acknowledged, and by every request that finds the row still OPEN *)
(* and asks Stripe for its session.  It is four statements with an await   *)
(* between each two, so two of them for one session may interleave.        *)
(***************************************************************************)
EXTENDS Naturals, FiniteSets

CONSTANTS
  Checkouts,   \* checkout sessions for an add-on
  Handlers,    \* completions in flight at once
  MaxCutOffs    \* bound: requests and completions cut off

ASSUME CheckoutAssumption ==
  IsFiniteSet(Handlers) /\ Checkouts # {} /\ MaxCutOffs \in Nat

VARIABLES
  stripe,    \* status of each session at Stripe
  row,       \* BillingCheckoutSession.status, "none" without a row
  saving,    \* sessions whose local row is about to be created
  credits,    \* number of BillingQuotaGrant rows made for each session
  hdl,       \* what each completion is doing
  cutOffs     \* requests and completions cut off so far

checkoutVars == <<stripe, row, saving, credits, hdl, cutOffs>>

NoWork == [pc |-> "idle", checkout |-> CHOOSE c \in Checkouts : TRUE]

CheckoutInit ==
  /\ stripe = [c \in Checkouts |-> "none"]
  /\ row = [c \in Checkouts |-> "none"]
  /\ saving = {}
  /\ credits = [c \in Checkouts |-> 0]
  /\ hdl = [h \in Handlers |-> NoWork]
  /\ cutOffs = 0

----------------------------------------------------------------------------
(* createAddOnCheckoutSession: the session exists at Stripe before its row, *)
(* and the request may end between the two.                                 *)

OpenCheckout(c) ==
  /\ stripe[c] = "none"
  /\ stripe' = [stripe EXCEPT ![c] = "open"]
  /\ saving' = saving \union {c}
  /\ UNCHANGED <<row, credits, hdl, cutOffs>>

\* The create throws (P2002) when a completion has made the row before.
SaveCheckout(c) ==
  /\ c \in saving
  /\ saving' = saving \ {c}
  /\ row' = IF row[c] = "none" THEN [row EXCEPT ![c] = "OPEN"] ELSE row
  /\ UNCHANGED <<stripe, credits, hdl, cutOffs>>

SaveFails(c) ==
  /\ c \in saving /\ cutOffs < MaxCutOffs
  /\ saving' = saving \ {c}
  /\ cutOffs' = cutOffs + 1
  /\ UNCHANGED <<stripe, row, credits, hdl>>

\* The tenant pays, or lets the session expire.
StripeSettles(c, s) ==
  /\ stripe[c] = "open"
  /\ stripe' = [stripe EXCEPT ![c] = s]
  /\ UNCHANGED <<row, saving, credits, hdl, cutOffs>>

\* One unconditional update of the row, if there is one, by the webhook or
\* by the reconciliation.
HandleExpired(c) ==
  /\ stripe[c] = "expired" /\ row[c] # "none"
  /\ row' = [row EXCEPT ![c] = "EXPIRED"]
  /\ UNCHANGED <<stripe, saving, credits, hdl, cutOffs>>

----------------------------------------------------------------------------
(* handleCheckoutSessionCompleted.                                          *)

M_OnlySavedRows(h, c) ==
  /\ hdl[h].pc = "idle" /\ stripe[c] = "complete" /\ row[c] = "OPEN"
  /\ hdl' = [hdl EXCEPT ![h] = [pc |-> "find", checkout |-> c]]
  /\ UNCHANGED <<stripe, row, saving, credits, cutOffs>>

M_SaveFirst(h, c) ==
  /\ hdl[h].pc = "idle" /\ stripe[c] = "complete" /\ row[c] # "COMPLETED"
  /\ row' = [row EXCEPT ![c] = "COMPLETED"]
  /\ hdl' = [hdl EXCEPT ![h] = [pc |-> "find", checkout |-> c]]
  /\ UNCHANGED <<stripe, saving, credits, cutOffs>>

\* A webhook delivery, whatever the row, or the reconciliation of an OPEN
\* one; a row already COMPLETED ends it.
BeginCompleted(h, c) ==
  /\ hdl[h].pc = "idle"
  /\ stripe[c] = "complete"
  /\ row[c] # "COMPLETED"
  /\ hdl' = [hdl EXCEPT ![h] = [pc |-> "find", checkout |-> c]]
  /\ UNCHANGED <<stripe, row, saving, credits, cutOffs>>

Granted(c) == credits[c] > 0

FindGrant(h) ==
  /\ hdl[h].pc = "find"
  /\ hdl' = [hdl EXCEPT ![h].pc = IF Granted(hdl[h].checkout) THEN "save" ELSE "grant"]
  /\ UNCHANGED <<stripe, row, saving, credits, cutOffs>>

CreateGrant(h) ==
  /\ hdl[h].pc = "grant"
  /\ credits' = [credits EXCEPT ![hdl[h].checkout] = @ + 1]
  /\ hdl' = [hdl EXCEPT ![h].pc = "save"]
  /\ UNCHANGED <<stripe, row, saving, cutOffs>>

\* The upsert, which makes the row a request did not come to create.
SaveCompleted(h) ==
  /\ hdl[h].pc = "save"
  /\ row' = [row EXCEPT ![hdl[h].checkout] = "COMPLETED"]
  /\ hdl' = [hdl EXCEPT ![h].pc = "idle"]
  /\ UNCHANGED <<stripe, saving, credits, cutOffs>>

\* A statement throws or the process dies: the delivery is not acknowledged.
HandlerFails(h) ==
  /\ hdl[h].pc # "idle" /\ cutOffs < MaxCutOffs
  /\ hdl' = [hdl EXCEPT ![h].pc = "idle"]
  /\ cutOffs' = cutOffs + 1
  /\ UNCHANGED <<stripe, row, saving, credits>>

----------------------------------------------------------------------------
Complete(h) ==
  \/ \E c \in Checkouts : BeginCompleted(h, c)
  \/ FindGrant(h) \/ CreateGrant(h) \/ SaveCompleted(h)

Checkout(c) ==
  \/ OpenCheckout(c) \/ SaveCheckout(c) \/ SaveFails(c)
  \/ \E s \in {"complete", "expired"} : StripeSettles(c, s)
  \/ HandleExpired(c)

CheckoutNext ==
  \/ \E c \in Checkouts : Checkout(c)
  \/ \E h \in Handlers : Complete(h) \/ HandlerFails(h)

CheckoutSpec == CheckoutInit /\ [][CheckoutNext]_checkoutVars

\* A completion runs to its end, and Stripe repeats the delivery until one
\* has; a session is picked by any of them while its row is not COMPLETED.
FairCheckoutSpec ==
  /\ CheckoutSpec
  /\ \A h \in Handlers : WF_checkoutVars(FindGrant(h) \/ CreateGrant(h) \/ SaveCompleted(h))
  /\ \A c \in Checkouts : WF_checkoutVars(\E h \in Handlers : BeginCompleted(h, c))

----------------------------------------------------------------------------
(* The sessions, their rows and the completions have their types, and a    *)
(* completion is one of a paid session.                                    *)
CheckoutTypeOK ==
  /\ stripe \in [Checkouts -> {"none", "open", "complete", "expired"}]
  /\ row \in [Checkouts -> {"none", "OPEN", "COMPLETED", "EXPIRED"}]
  /\ saving \subseteq Checkouts
  /\ credits \in [Checkouts -> Nat]
  /\ hdl \in [Handlers -> [pc : {"idle", "find", "grant", "save"}, checkout : Checkouts]]
  /\ \A h \in Handlers : hdl[h].pc # "idle" => stripe[hdl[h].checkout] = "complete"
  /\ cutOffs \in Nat

(* A paid checkout is credited at most once per completion that can be in  *)
(* flight, however often the webhook is repeated and the reconciliation    *)
(* finds it: the search for a grant and its creation are two statements,   *)
(* so one completion at a time credits it once and two may credit it twice.*)
GrantsBounded == \A c \in Checkouts : credits[c] <= Cardinality(Handlers)

(* A row is COMPLETED, which stops every later completion, only when its   *)
(* credits exist: a completion cut off after the grant is repeated, one    *)
(* cut off before it is not taken for done.                                *)
CompletedIsGranted == \A c \in Checkouts : row[c] = "COMPLETED" => credits[c] > 0

(* The credits of a checkout are neither lost nor multiplied.              *)
GrantsFollowCheckouts == GrantsBounded /\ CompletedIsGranted

(* Every paid checkout is eventually completed, whether or not the request *)
(* that opened it came to save its row, and despite completions cut off.   *)
PaidIsCompleted ==
  \A c \in Checkouts : (stripe[c] = "complete") ~> (row[c] = "COMPLETED")
=============================================================================
