------------------------------ MODULE Members ------------------------------
(***************************************************************************)
(* The members of one tenant: rows, roles, seats and invitations, as       *)
(* members.service.ts administers them, auth.service.ts lets an invitation *)
(* be accepted (by password or by a Google sign-in) and                    *)
(* internal-admin.service.ts resets an owner.                              *)
(*                                                                         *)
(* Every operation reads the rows it decides on, then writes them by id in *)
(* one transaction that does not look at them again.  Transactions run at  *)
(* READ COMMITTED: the statement that revokes or re-roles a member's       *)
(* pending invitations finds those committed when it starts, and a row     *)
(* written by a statement before it is locked until the commit.  Only an   *)
(* owner has the permission user.manage, so the actor of an administrative *)
(* request is an owner when the request starts.                            *)
(*                                                                         *)
(* An expired invitation differs from a pending one only in that accepting *)
(* it is refused, which an invitee who never tries does not tell apart.    *)
(***************************************************************************)
EXTENDS Integers, Sequences, FiniteSets

CONSTANTS
  Users,        \* rows of User there may ever be
  Founder,      \* the owner the tenant is created with
  Requests,     \* requests in flight at once
  Seats,        \* seats of the plan
  MaxRequests   \* bound: requests served

ASSUME MembersAssumption ==
  /\ IsFiniteSet(Users) /\ Founder \in Users
  /\ IsFiniteSet(Requests) /\ Requests # {}
  /\ Seats \in Nat \ {0} /\ MaxRequests \in Nat

VARIABLES
  user,        \* rows of User
  inv,         \* rows of MemberInvitation of each user, oldest first
  req,         \* what each request has read and is about to write
  stale,       \* history: writes that met rows changed since they were read
  unchecked,   \* history: seats taken without a look at the quota
  served

memberVars == <<user, inv, req, stale, unchecked, served>>

Roles == {"OWNER", "MANAGER", "STAFF"}
Statuses == {"ACTIVE", "INVITED", "DISABLED"}
Rows == [role : Roles, status : Statuses \union {"absent"}, deleted : BOOLEAN,
         password : BOOLEAN]
Invitations == [role : Roles, accepts : Nat, revoked : BOOLEAN]

NoRow == [role |-> "STAFF", status |-> "absent", deleted |-> FALSE, password |-> FALSE]
NewInvitation(role) == [role |-> role, accepts |-> 0, revoked |-> FALSE]

Kinds == {"invite", "resend", "role", "transfer", "remove", "enable", "disable",
          "accept", "google", "reset"}

\* What a request works on; seen holds the rows as it has read them.
NoRequest == [kind |-> "none"]

MembersInit ==
  /\ user = [u \in Users |->
               IF u = Founder
               THEN [role |-> "OWNER", status |-> "ACTIVE", deleted |-> FALSE, password |-> TRUE]
               ELSE NoRow]
  /\ inv = [u \in Users |-> <<>>]
  /\ req = [r \in Requests |-> NoRequest]
  /\ stale = 0 /\ unchecked = 0 /\ served = 0

Exists(u) == user[u].status # "absent" /\ ~user[u].deleted
Active(u) == Exists(u) /\ user[u].status = "ACTIVE"
IsOwner(u) == Exists(u) /\ user[u].role = "OWNER"
Pending(i) == i.accepts = 0 /\ ~i.revoked

TakesSeat(row) == ~row.deleted /\ row.status \in {"ACTIVE", "INVITED"}
Used == Cardinality({u \in Users : TakesSeat(user[u])})

----------------------------------------------------------------------------
(* The reads: what must hold of the rows for the request to go on.          *)

M_InvitesBeyond(u) == user[u].status = "absent"

MayInvite(u) == Used < Seats /\ user[u].status = "absent"

MayResend(u) ==
  /\ Exists(u) /\ user[u].role # "OWNER"
  /\ user[u].status # "ACTIVE"
  /\ ~(user[u].status = "DISABLED" /\ user[u].password)

M_OwnerToo(u, role) == Exists(u) /\ user[u].role # role

MayChangeRole(u, role) == Exists(u) /\ user[u].role \notin {role, "OWNER"}

MayTransfer(a, u) == a # u /\ Active(u)

MayRemove(a, u) == a # u /\ Exists(u) /\ user[u].role # "OWNER"

MayEnable(u) ==
  /\ Exists(u) /\ user[u].password /\ user[u].status # "ACTIVE"
  /\ Used < Seats

MayDisable(u) == Exists(u) /\ user[u].role # "OWNER" /\ user[u].status # "DISABLED"

MayAccept(u, i) == Pending(inv[u][i]) /\ Exists(u) /\ user[u].status # "DISABLED"

MaySignIn(u) == Exists(u) /\ user[u].status # "DISABLED"

\* The permission is read when the request arrives.
Begin(r, kind, a, u, role, i) ==
  /\ req[r].kind = "none" /\ served < MaxRequests
  /\ served' = served + 1
  /\ req' = [req EXCEPT ![r] =
       [kind |-> kind, actor |-> a, user |-> u, role |-> role, inv |-> i,
        seen |-> <<user[u], inv[u], user[a]>>, at |-> "decided", sees |-> 0]]
  /\ UNCHANGED <<user, inv, stale, unchecked>>

Administer(r, a) == \E u \in Users :
  \/ \E role \in Roles \ {"OWNER"} :
       \/ MayInvite(u) /\ Begin(r, "invite", a, u, role, 0)
       \/ MayChangeRole(u, role) /\ Begin(r, "role", a, u, role, 0)
  \/ MayResend(u) /\ Begin(r, "resend", a, u, user[u].role, 0)
  \/ MayTransfer(a, u) /\ Begin(r, "transfer", a, u, "OWNER", 0)
  \/ MayRemove(a, u) /\ Begin(r, "remove", a, u, user[u].role, 0)
  \/ MayEnable(u) /\ Begin(r, "enable", a, u, user[u].role, 0)
  \/ MayDisable(u) /\ Begin(r, "disable", a, u, user[u].role, 0)

\* The invitee, and the operators of the service.
Join(r) == \E u \in Users :
  \/ \E i \in DOMAIN inv[u] :
       MayAccept(u, i) /\ Begin(r, "accept", u, u, inv[u][i].role, i)
  \/ MaySignIn(u) /\ Begin(r, "google", u, u, user[u].role, 0)
  \/ IsOwner(u) /\ Begin(r, "reset", u, u, "OWNER", 0)

----------------------------------------------------------------------------
(* The transactions.  What they write of the user u of request q; of the    *)
(* invitations is, the first n are those the statement has found.           *)

M_RevokesNone(is, n) == is

Revoked(is, n) ==
  [k \in DOMAIN is |-> IF k <= n /\ Pending(is[k]) THEN [is[k] EXCEPT !.revoked = TRUE] ELSE is[k]]

\* The invitation used is marked, every other pending one revoked.
Accepted(is, i, n) ==
  [k \in DOMAIN is |-> IF k = i THEN [is[k] EXCEPT !.accepts = @ + 1] ELSE Revoked(is, n)[k]]

\* A Google sign-in accepts when it has read that the user was invited.
Accepts(q) == q.kind = "accept" \/ (q.kind = "google" /\ q.seen[1].status = "INVITED")

Rewrites(q) == q.kind \in {"resend", "reset", "role", "remove", "disable"} \/ Accepts(q)

Row(q) ==
  LET row == user[q.user] IN
  CASE q.kind = "invite" -> [role |-> q.role, status |-> "INVITED", deleted |-> FALSE,
                             password |-> FALSE]
    [] q.kind = "resend" -> IF q.seen[1].status = "DISABLED"
                            THEN [row EXCEPT !.status = "INVITED"] ELSE row
    [] q.kind \in {"role", "transfer"} -> [row EXCEPT !.role = q.role]
    [] q.kind = "remove" -> [row EXCEPT !.status = "DISABLED", !.deleted = TRUE,
                                        !.password = FALSE]
    [] q.kind \in {"enable", "google"} -> [row EXCEPT !.status = "ACTIVE"]
    [] q.kind = "disable" -> [row EXCEPT !.status = "DISABLED"]
    [] q.kind = "accept" -> [row EXCEPT !.role = q.role, !.status = "ACTIVE", !.password = TRUE]
    [] q.kind = "reset" -> [row EXCEPT !.status = "INVITED", !.password = FALSE]

WithRole(is, role, n) ==
  [k \in DOMAIN is |-> IF k <= n /\ Pending(is[k]) THEN [is[k] EXCEPT !.role = role] ELSE is[k]]

InvitationsAfter(q) ==
  LET is == inv[q.user] IN
  CASE q.kind = "invite" -> <<NewInvitation(q.role)>>
    [] q.kind \in {"resend", "reset"} -> Append(Revoked(is, q.sees), NewInvitation(q.role))
    [] q.kind = "role" -> WithRole(is, q.role, q.sees)
    [] q.kind \in {"remove", "disable"} -> Revoked(is, q.sees)
    [] Accepts(q) -> Accepted(is, q.inv, q.sees)
    [] OTHER -> is

\* The rows a transaction has locked before it turns to the invitations: the
\* user's, or the invitation it accepts.
UserFirst(q) == q.kind \in {"role", "disable"} \/ (q.kind = "resend" /\ q.seen[1].status = "DISABLED")
InTransaction(q) == q.kind # "none" /\ q.at = "writing"

WritesUser(q, u) ==
  \/ u = q.user /\ (q.kind = "resend" => UserFirst(q))
  \/ u = q.actor /\ q.kind = "transfer"

\* A Google sign-in of an invited user accepts the latest pending invitation.
FindLatest(r) ==
  LET q == req[r]
      is == inv[q.user]
      pending == {k \in DOMAIN is : Pending(is[k])}
  IN /\ q.kind = "google" /\ Accepts(q) /\ q.at = "decided"
     /\ \E i \in IF pending = {} THEN {0} ELSE {k \in pending : \A j \in pending : j <= k} :
          req' = [req EXCEPT ![r].at = "found", ![r].inv = i]
     /\ UNCHANGED <<user, inv, stale, unchecked, served>>

\* The statement on the pending invitations starts, when no other transaction
\* holds the row that is written before it.
Look(r) ==
  LET q == req[r] IN
  /\ Rewrites(q) /\ q.at = IF q.kind = "google" THEN "found" ELSE "decided"
  /\ \A s \in Requests : InTransaction(req[s]) /\ req[s].user = q.user =>
       /\ ~(UserFirst(q) /\ UserFirst(req[s]))
       /\ ~(Accepts(q) /\ Accepts(req[s]) /\ q.inv = req[s].inv /\ q.inv # 0)
  /\ req' = [req EXCEPT ![r].at = "writing", ![r].sees = Len(inv[q.user])]
  /\ UNCHANGED <<user, inv, stale, unchecked, served>>

\* The transaction of q has to wait for a row that the one of p holds.
Waits(q, p) ==
  /\ InTransaction(p)
  /\ \/ UserFirst(p) /\ WritesUser(q, p.user)
     \/ /\ Accepts(p) /\ Rewrites(q) /\ p.user = q.user /\ p.inv \in DOMAIN inv[p.user]
        /\ InvitationsAfter(q)[p.inv] # inv[p.user][p.inv]

Changed(q) == q.seen # <<user[q.user], inv[q.user], user[q.actor]>>

QuotaRead == {"invite", "enable"}

\* The unique address refuses a second row; every other write succeeds.
Commit(r) ==
  LET q == req[r] IN
  /\ q.kind # "none" /\ (Rewrites(q) => q.at = "writing")
  /\ \A s \in Requests \ {r} : ~Waits(q, req[s])
  /\ req' = [req EXCEPT ![r] = NoRequest]
  /\ IF q.kind = "invite" /\ user[q.user].status # "absent"
     THEN UNCHANGED <<user, inv, stale, unchecked>>
     ELSE /\ user' = [user EXCEPT ![q.actor].role = IF q.kind = "transfer" THEN "MANAGER" ELSE @,
                                  ![q.user] = Row(q)]
          /\ inv' = [inv EXCEPT ![q.user] = InvitationsAfter(q)]
          /\ stale' = IF Changed(q) THEN stale + 1 ELSE stale
          /\ unchecked' = IF q.kind \notin QuotaRead /\ TakesSeat(Row(q))
                               /\ ~TakesSeat(user[q.user])
                          THEN unchecked + 1 ELSE unchecked
  /\ UNCHANGED served

\* A request cut off, or a transaction rolled back: in its middle, or to end
\* a deadlock of two.
Abandon(r) ==
  /\ req[r].kind # "none"
  /\ req' = [req EXCEPT ![r] = NoRequest]
  /\ UNCHANGED <<user, inv, stale, unchecked, served>>

MembersNext == \E r \in Requests :
  \/ \E a \in Users : IsOwner(a) /\ Active(a) /\ Administer(r, a)
  \/ Join(r) \/ FindLatest(r) \/ Look(r) \/ Commit(r) \/ Abandon(r)

MembersSpec == MembersInit /\ [][MembersNext]_memberVars

----------------------------------------------------------------------------
RequestsTyped == \A r \in Requests :
  \/ req[r] = NoRequest
  \/ /\ req[r] \in [kind : Kinds, actor : Users, user : Users, role : Roles, inv : Nat,
                    seen : Rows \X Seq(Invitations) \X Rows,
                    at : {"decided", "found", "writing"}, sees : Nat]
     /\ req[r].kind = "accept" => req[r].inv \in DOMAIN inv[req[r].user]

(* Rows, invitations and requests have their types, an invitation always   *)
(* belongs to a member there is, and an acceptance in flight names one.    *)
MembersTypeOK ==
  /\ user \in [Users -> Rows]
  /\ inv \in [Users -> Seq(Invitations)]
  /\ \A u \in Users : user[u].status = "absent" => inv[u] = <<>>
  /\ RequestsTyped
  /\ stale \in Nat /\ unchecked \in Nat /\ served \in 0..MaxRequests

Reclaimable(u) == \E i \in DOMAIN inv[u] : Pending(inv[u][i]) /\ inv[u][i].role = "OWNER"

Owners == {u \in Users : IsOwner(u)}

(* As long as no write has met rows that had changed since they were read, *)
(* the tenant has exactly one owner, who is active or holds an invitation  *)
(* to come back as the owner; and however transfers, resets, acceptances   *)
(* and removals overlap, each write of that kind makes at most one owner   *)
(* too many.                                                               *)
OneOwner ==
  /\ stale = 0 => \E o \in Users :
       /\ Owners = {o} /\ user[o].status # "DISABLED"
       /\ user[o].status = "INVITED" => Reclaimable(o)
  /\ Cardinality(Owners) <= 1 + stale

Checked == {r \in Requests : req[r].kind \in QuotaRead}

(* However requests overlap, the plan's seats are exceeded by no more than *)
(* the requests that looked at the quota together, and by the seats that   *)
(* are taken back without a look at it.                                    *)
SeatsBounded == Used <= Seats + Cardinality(Requests) - 1 + unchecked

PendingOf(u) == {i \in DOMAIN inv[u] : Pending(inv[u][i])}

(* Each invitation sent again revokes the others: however requests overlap,*)
(* a member has no more invitations that could still be accepted than there*)
(* are requests at once, and one only as long as no write met rows changed *)
(* since they were read.                                                   *)
FewPending ==
  \A u \in Users : Cardinality(PendingOf(u)) <= IF stale = 0 THEN 1 ELSE Cardinality(Requests)

(* Without such a write, accepting an invitation gives the role the member *)
(* is shown with.                                                          *)
PendingRoleIsMembers ==
  stale = 0 => \A u \in Users : \A i \in PendingOf(u) : inv[u][i].role = user[u].role

(* Without such a write an invitation is accepted once, never after it was *)
(* revoked, and only by a member who was invited: whoever is active or     *)
(* removed has no invitation left.                                         *)
InvitationsSettleOnce ==
  stale = 0 => \A u \in Users : \A i \in DOMAIN inv[u] :
    /\ inv[u][i].accepts + (IF inv[u][i].revoked THEN 1 ELSE 0) <= 1
    /\ Pending(inv[u][i]) => user[u].status = "INVITED"

(* An invitation is what the member was last offered, and used up once.    *)
InvitationsSound == FewPending /\ PendingRoleIsMembers /\ InvitationsSettleOnce
=============================================================================
