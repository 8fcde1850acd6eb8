---------------------------- MODULE AuthSession ----------------------------
(***************************************************************************)
(* A user's sign-in sessions (auth.service.ts) and the tabs of the browser *)
(* that share one stored session (apps/web/lib/auth/session.ts).           *)
(*                                                                         *)
(* A refresh token is used once: a refresh replaces it by a child.  Tabs   *)
(* that find their access token over at the same time present the same     *)
(* token; within a grace period the later ones are answered with a         *)
(* conflict and go on with the stored session, after it the session is     *)
(* closed.  Each answer overwrites or clears the store, whichever tab      *)
(* asked for it and whatever the store has become.                         *)
(*                                                                         *)
(* The transport is that of the header, with the tokens in localStorage.   *)
(* In production they are httpOnly cookies, which the answer of a refresh  *)
(* or of a sign-in sets: also whichever tab asked and whatever they have   *)
(* become.  A refusal leaves a cookie that is worthless where this module  *)
(* clears the store.                                                       *)
(***************************************************************************)
EXTENDS Naturals, FiniteSets

CONSTANTS
  Tabs,
  MaxSessions,   \* bound: sessions of the user
  MaxTokens,     \* bound: refresh tokens of the user
  MaxChanges,    \* bound: password changes
  MaxFaults      \* bound: requests that fail, answers that are lost

ASSUME AuthAssumption ==
  /\ IsFiniteSet(Tabs)
  /\ MaxSessions \in Nat /\ MaxTokens \in Nat /\ MaxChanges \in Nat /\ MaxFaults \in Nat

VARIABLES
  session,   \* AuthSession rows, by id
  token,     \* AuthRefreshToken rows, by id
  active,    \* the User is ACTIVE
  password,  \* how often the password was changed
  store,     \* the refresh token the browser keeps
  tab,       \* the request of each tab
  calm,      \* history: nothing has happened that is meant to end a session
  faults

vars == <<session, token, active, password, store, tab, calm, faults>>
server == <<session, token, active, password>>

None == 0
Sessions == 1..MaxSessions
Tokens == 1..MaxTokens

NoSession == [status |-> "none", over |-> FALSE, since |-> 0]
NoToken == [state |-> "none", session |-> None, next |-> None, aged |-> FALSE]
Idle == [pc |-> "idle", token |-> None, answer |-> "none"]

Init ==
  /\ session = [s \in Sessions |-> NoSession]
  /\ token = [k \in Tokens |-> NoToken]
  /\ active = TRUE /\ password = 0 /\ store = None
  /\ tab = [t \in Tabs |-> Idle]
  /\ calm = TRUE /\ faults = 0

At(t, pc) == tab[t].pc = pc
Goes(t, pc) == tab' = [tab EXCEPT ![t].pc = pc]
Answer(t, a, k) == tab' = [tab EXCEPT ![t] = [pc |-> "answer", token |-> k, answer |-> a]]
SessionOf(k) == session[token[k].session]
Open(s) == session[s].status = "ACTIVE" /\ ~session[s].over
IsNext(i, rows, used) == ~used[i] /\ \A j \in rows : j < i => used[j]
NewSession == {s \in Sessions : IsNext(s, Sessions, [i \in Sessions |-> session[i].status # "none"])}
NewToken == {k \in Tokens : IsNext(k, Tokens, [i \in Tokens |-> token[i].state # "none"])}

----------------------------------------------------------------------------
(* What ends sessions: revokeSession for one, a password change for all.    *)

M_RevokeTokensOnly(closed) ==
  token' = [k \in Tokens |-> IF token[k].session \in closed /\ token[k].state = "live"
                             THEN [token[k] EXCEPT !.state = "revoked"] ELSE token[k]]
    /\ UNCHANGED session

\* Rows that are closed or revoked already keep their reason.
Revoke(closed) ==
  /\ session' = [s \in Sessions |-> IF s \in closed /\ session[s].status = "ACTIVE"
                                    THEN [session[s] EXCEPT !.status = "REVOKED"] ELSE session[s]]
  /\ token' = [k \in Tokens |-> IF token[k].session \in closed /\ token[k].state = "live"
                                THEN [token[k] EXCEPT !.state = "revoked"] ELSE token[k]]

RevokeSession(t) ==
  /\ At(t, "close")
  /\ Revoke({token[tab[t].token].session})
  /\ Answer(t, "denied", None)
  /\ UNCHANGED <<active, password, store, calm, faults>>

\* verifyAccessToken closes the session of a user who is no longer active.
CloseUsed(t) ==
  /\ At(t, "closeUsed")
  /\ Revoke({token[tab[t].token].session})
  /\ Goes(t, "sent")
  /\ UNCHANGED <<active, password, store, calm, faults>>

\* With the link of an e-mail, from any tab, for a user who is active.
BeginReset(t) ==
  /\ At(t, "idle") /\ active /\ password < MaxChanges /\ NewSession # {}
  /\ Goes(t, "change")
  /\ UNCHANGED <<session, token, active, password, store, calm, faults>>

\* The transaction of changePassword and of resetPassword.
ChangePassword(t) ==
  /\ At(t, "change") /\ password < MaxChanges
  /\ password' = password + 1
  /\ Revoke(Sessions)
  /\ Goes(t, "reissue")
  /\ calm' = FALSE
  /\ UNCHANGED <<active, store, faults>>

----------------------------------------------------------------------------
(* Signing in, out, and changing the password.                              *)

\* The credentials are checked; the session is issued by a later statement.
SignIn(t) ==
  /\ At(t, "idle") /\ store = None /\ active /\ NewSession # {}
  /\ Goes(t, "issue")
  /\ calm' = (calm /\ NewSession = {1} /\ \A u \in Tabs : At(u, "idle"))
  /\ UNCHANGED <<session, token, active, password, store, faults>>

\* After a password change the user is read again.
IssueSession(t) ==
  /\ At(t, "issue") \/ (At(t, "reissue") /\ active)
  /\ \E s \in NewSession, k \in NewToken :
       /\ session' = [session EXCEPT ![s] = [status |-> "ACTIVE", over |-> FALSE,
                                             since |-> password]]
       /\ token' = [token EXCEPT ![k].state = "live", ![k].session = s]
       /\ Answer(t, "ok", k)
  /\ UNCHANGED <<active, password, store, calm, faults>>

NotReissued(t) ==
  /\ At(t, "reissue") /\ ~active
  /\ Answer(t, "refused", None)
  /\ UNCHANGED <<session, token, active, password, store, calm, faults>>

Logout(t) ==
  /\ At(t, "idle") /\ store # None
  /\ tab' = [tab EXCEPT ![t].pc = "close", ![t].token = store]
  /\ calm' = FALSE
  /\ UNCHANGED <<session, token, active, password, store, faults>>

----------------------------------------------------------------------------
(* A request of the application with the stored session, and the refresh   *)
(* that a refused one starts with the token it was sent with.              *)

BeginRequest(t) ==
  /\ At(t, "idle") /\ store # None
  /\ tab' = [tab EXCEPT ![t].pc = "used", ![t].token = store]
  /\ UNCHANGED <<session, token, active, password, store, calm, faults>>

\* Served, unless the access token is over, the session is, or the user is.
VerifyAccessToken(t) ==
  /\ At(t, "used")
  /\ \/ Open(token[tab[t].token].session) /\ active
          /\ tab' = [tab EXCEPT ![t] = Idle]
     \/ Open(token[tab[t].token].session) /\ active
          /\ password < MaxChanges /\ NewSession # {} /\ Goes(t, "change")
     \/ Open(token[tab[t].token].session) /\ ~active /\ Goes(t, "closeUsed")
     \/ Goes(t, "sent")
  /\ UNCHANGED <<session, token, active, password, store, calm, faults>>

M_NoGrace(k) == FALSE

\* Within REFRESH_TOKEN_CONCURRENCY_GRACE_MS.
IsRecentRefreshRotation(k) == ~token[k].aged

M_TokenIsEnough(s) == FALSE

SessionIsClosed(s) == ~Open(s)

\* What refresh decides from the token, its session and its user.
ReadForRefresh(t) ==
  LET k == tab[t].token IN
  LET s == token[k].session IN
  /\ At(t, "sent")
  /\ IF token[k].next # None
     THEN IF IsRecentRefreshRotation(k) THEN Answer(t, "conflict", None) ELSE Goes(t, "close")
     ELSE IF token[k].state = "revoked" THEN Answer(t, "denied", None)
     ELSE IF SessionIsClosed(s)
     THEN IF session[s].over /\ session[s].status # "EXPIRED"
          THEN Goes(t, "expire") ELSE Answer(t, "denied", None)
     ELSE IF active THEN Goes(t, "rotate") ELSE Goes(t, "close")
  /\ UNCHANGED <<session, token, active, password, store, calm, faults>>

ExpireSession(t) ==
  /\ At(t, "expire")
  /\ session' = [session EXCEPT ![token[tab[t].token].session].status = "EXPIRED"]
  /\ Answer(t, "denied", None)
  /\ UNCHANGED <<token, active, password, store, calm, faults>>

Replaced(k, child) == [token[k] EXCEPT !.state = "rotated", !.next = child, !.aged = FALSE]

\* Unconditional: whatever the token and the session have become since.
Rotate(t) ==
  LET k == tab[t].token IN
  /\ At(t, "rotate")
  /\ \E child \in NewToken :
       /\ token' = [token EXCEPT ![k] = Replaced(k, child),
                                 ![child] = [NoToken EXCEPT !.state = "live",
                                                            !.session = token[k].session]]
       /\ session' = [session EXCEPT ![token[k].session].over = FALSE]
       /\ Answer(t, "ok", child)
  /\ UNCHANGED <<active, password, store, calm, faults>>

\* persistSession, clearStoredSession; a conflict keeps what is stored.
Stored(t) ==
  CASE tab[t].answer = "ok" -> tab[t].token
    [] tab[t].answer = "denied" -> None
    [] OTHER -> store

Receive(t) ==
  /\ At(t, "answer")
  /\ store' = Stored(t)
  /\ tab' = [tab EXCEPT ![t] = Idle]
  /\ UNCHANGED <<session, token, active, password, calm, faults>>

----------------------------------------------------------------------------
(* The clock, the user's administration and the network.                    *)

\* 30 seconds after the rotation, with the old token still in some hand.
GraceEnds(k) ==
  /\ token[k].next # None /\ ~token[k].aged
  /\ store = k \/ \E t \in Tabs : tab[t].token = k
  /\ token' = [token EXCEPT ![k].aged = TRUE]
  /\ calm' = FALSE
  /\ UNCHANGED <<session, active, password, store, tab, faults>>

SessionTimeUp(s) ==
  /\ Open(s)
  /\ session' = [session EXCEPT ![s].over = TRUE]
  /\ calm' = FALSE
  /\ UNCHANGED <<token, active, password, store, tab, faults>>

DisableOrEnableUser ==
  /\ active' = ~active /\ calm' = FALSE
  /\ UNCHANGED <<session, token, password, store, tab, faults>>

\* A statement fails: the refresh is answered with an error that clears the store.
RequestFails(t) ==
  /\ faults < MaxFaults /\ faults' = faults + 1
  /\ \/ tab[t].pc \in {"sent", "close", "expire", "rotate"} /\ Answer(t, "denied", None)
     \/ tab[t].pc \in {"used", "closeUsed", "change", "issue", "reissue"}
          /\ Answer(t, "refused", None)
  /\ calm' = FALSE
  /\ UNCHANGED <<session, token, active, password, store>>

AnswerLost(t) ==
  /\ At(t, "answer") /\ faults < MaxFaults /\ faults' = faults + 1
  /\ tab' = [tab EXCEPT ![t] = Idle]
  /\ calm' = FALSE
  /\ UNCHANGED <<session, token, active, password, store>>

----------------------------------------------------------------------------
Account(t) ==
  \/ SignIn(t) \/ IssueSession(t) \/ NotReissued(t) \/ Logout(t)
  \/ BeginReset(t) \/ ChangePassword(t)

Refresh(t) ==
  \/ BeginRequest(t) \/ VerifyAccessToken(t) \/ ReadForRefresh(t) \/ Rotate(t)
  \/ RevokeSession(t) \/ CloseUsed(t) \/ ExpireSession(t) \/ Receive(t)

Next ==
  \/ \E t \in Tabs : Account(t) \/ Refresh(t) \/ RequestFails(t) \/ AnswerLost(t)
  \/ \E k \in Tokens : GraceEnds(k)
  \/ \E s \in Sessions : SessionTimeUp(s)
  \/ DisableOrEnableUser

Spec == Init /\ [][Next]_vars

----------------------------------------------------------------------------
(* The rows have their types; a token belongs to a session, and only a     *)
(* replaced one has a successor.                                           *)
TypeOK ==
  /\ session \in [Sessions -> [status : {"none", "ACTIVE", "REVOKED", "EXPIRED"},
                               over : BOOLEAN, since : 0..MaxChanges]]
  /\ token \in [Tokens -> [state : {"none", "live", "rotated", "revoked"},
                           session : Sessions \union {None},
                           next : Tokens \union {None}, aged : BOOLEAN]]
  /\ \A k \in Tokens :
       /\ token[k].state # "none" <=> token[k].session # None
       /\ token[k].session # None => SessionOf(k).status # "none"
       /\ token[k].next # None <=> token[k].state = "rotated"
  /\ tab \in [Tabs -> [pc : {"idle", "issue", "reissue", "change", "used", "closeUsed", "sent",
                             "close", "expire", "rotate", "answer"},
                       token : Tokens \union {None},
                       answer : {"none", "ok", "conflict", "denied", "refused"}]]
  /\ active \in BOOLEAN /\ password \in 0..MaxChanges /\ store \in Tokens \union {None}
  /\ calm \in BOOLEAN /\ faults \in 0..MaxFaults

(* Tabs that refresh at once do not sign the user out: without a logout, a *)
(* change of password, a disabled user, a lost answer and a delay beyond   *)
(* the grace period, the session stays open, and a token that can still be *)
(* refreshed is in the store or on its way there.                          *)
SignedInStaysIn ==
  calm => \A s \in Sessions : session[s].status # "none" =>
    /\ Open(s)
    /\ \/ store # None /\ token[store].state = "live"
       \/ \E t \in Tabs : tab[t].answer = "ok" /\ token[tab[t].token].state = "live"

(* A revoked session keeps no token that could be refreshed but those of   *)
(* refreshes that had read it open, at most one of each tab: nothing that  *)
(* is asked for afterwards adds to them.                                   *)
FewLiveAfterClose ==
  \A s \in Sessions : session[s].status = "REVOKED" =>
    Cardinality({k \in Tokens : token[k].session = s /\ token[k].state = "live"})
      + Cardinality({t \in Tabs : At(t, "rotate") /\ token[tab[t].token].session = s})
    <= Cardinality(Tabs)

(* Every open session was issued after the last change of the password,    *)
(* also one whose refresh or expiry was under way when it was changed.     *)
OlderSessionsEnd ==
  \A s \in Sessions : session[s].status = "ACTIVE" => session[s].since = password
=============================================================================
