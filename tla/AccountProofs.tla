--------------------------- MODULE AccountProofs ---------------------------
(***************************************************************************)
(* Theorems about the accounts of a tenant: AuthSession, for any number of *)
(* tabs, sessions, tokens, password changes and faults, and Members, for   *)
(* any number of users, requests in flight and seats.                      *)
(***************************************************************************)
EXTENDS AuthSession, Members, FiniteSetTheorems, TLAPS

Points == {"idle", "issue", "reissue", "change", "used", "closeUsed", "sent",
           "close", "expire", "rotate", "answer"}
Using == {"used", "closeUsed", "sent", "close", "expire", "rotate"}
Answers == {"none", "ok", "conflict", "denied", "refused"}

SessionRow == [status : {"none", "ACTIVE", "REVOKED", "EXPIRED"},
               over : BOOLEAN, since : 0..MaxChanges]
TokenRow == [state : {"none", "live", "rotated", "revoked"},
             session : Sessions \union {None},
             next : Tokens \union {None}, aged : BOOLEAN]
TabRow == [pc : Points, token : Tokens \union {None}, answer : Answers]

(* What the rows of the database say of each other.                        *)
RowsOK ==
  /\ session \in [Sessions -> SessionRow]
  /\ token \in [Tokens -> TokenRow]
  /\ \A k \in Tokens :
       /\ token[k].state # "none" <=> token[k].session # None
       /\ token[k].session # None => session[token[k].session].status # "none"
       /\ token[k].next # None <=> token[k].state = "rotated"

IsRow(tokens, k) == k \in Tokens /\ tokens[k].state # "none"

(* A tab is answered before it has received, and the token of a request or *)
(* of a successful answer is a row.                                        *)
Held(a, tokens) ==
  /\ a.answer # "none" <=> a.pc = "answer"
  /\ a.pc \in Using \/ a.answer = "ok" => IsRow(tokens, a.token)

TabsOK == tab \in [Tabs -> TabRow] /\ \A t \in Tabs : Held(tab[t], token)

RestOK ==
  /\ active \in BOOLEAN /\ password \in 0..MaxChanges /\ store \in Tokens \union {None}
  /\ calm \in BOOLEAN /\ faults \in 0..MaxFaults
  /\ store # None => IsRow(token, store)

Typed == RowsOK /\ TabsOK /\ RestOK

USE AuthAssumption DEF None, Sessions, Tokens

LEMMA InitTyped == Init => Typed
<1> SUFFICES ASSUME Init PROVE Typed
  OBVIOUS
<1>1. RowsOK
  BY DEF Init, RowsOK, SessionRow, TokenRow, NoSession, NoToken
<1>2. TabsOK
  BY DEF Init, TabsOK, TabRow, Points, Answers, Using, Held, Idle
<1>3. RestOK
  BY DEF Init, RestOK
<1> QED BY <1>1, <1>2, <1>3 DEF Typed

LEMMA TypedIsTypeOK == Typed => TypeOK
BY DEF Typed, RowsOK, TabsOK, RestOK, TypeOK, SessionOf, SessionRow, TokenRow, TabRow,
       Points, Answers

(* Only rows that are nobody's yet are new.                                *)
LEMMA NewIsUnused ==
  /\ \A k \in NewToken : k \in Tokens /\ token[k].state = "none"
  /\ \A s \in NewSession : s \in Sessions /\ session[s].status = "none"
BY DEF NewToken, NewSession, IsNext

(* Closing sessions keeps the rows' types and takes no row away.           *)
LEMMA RevokeTyped ==
  ASSUME RowsOK, NEW closed, Revoke(closed)
  PROVE  /\ RowsOK'
         /\ \A k \in Tokens : token'[k].state # "none" <=> token[k].state # "none"
<1> USE DEF RowsOK
<1>1. ASSUME NEW s \in Sessions
      PROVE  session'[s] \in SessionRow
             /\ (session'[s].status # "none" <=> session[s].status # "none")
  <2>1. session[s] \in SessionRow
    OBVIOUS
  <2>2. session'[s] = session[s] \/ (session[s].status = "ACTIVE"
                                     /\ session'[s] = [session[s] EXCEPT !.status = "REVOKED"])
    BY DEF Revoke
  <2> QED BY <2>1, <2>2 DEF SessionRow
<1>2. ASSUME NEW k \in Tokens
      PROVE  /\ token'[k] \in TokenRow
             /\ token'[k].session = token[k].session /\ token'[k].next = token[k].next
             /\ token'[k].state # "none" <=> token[k].state # "none"
             /\ token'[k].state = "rotated" <=> token[k].state = "rotated"
  <2>1. token[k] \in TokenRow
    OBVIOUS
  <2>2. token'[k] = token[k] \/ (token[k].state = "live"
                                 /\ token'[k] = [token[k] EXCEPT !.state = "revoked"])
    BY DEF Revoke
  <2> QED BY <2>1, <2>2 DEF TokenRow
<1>3. session' \in [Sessions -> SessionRow] /\ token' \in [Tokens -> TokenRow]
  BY <1>1, <1>2 DEF Revoke
<1>4. \A k \in Tokens : token[k].session \in Sessions \union {None}
  BY DEF TokenRow
<1> QED BY <1>1, <1>2, <1>3, <1>4

(* Writing one column of a token leaves the others.                        *)
LEMMA StateSet ==
  ASSUME NEW r \in TokenRow, NEW x \in {"none", "live", "rotated", "revoked"},
         NEW n, n = [r EXCEPT !.state = x]
  PROVE  n \in TokenRow /\ n.state = x /\ n.session = r.session /\ n.next = r.next
BY DEF TokenRow

LEMMA SessionSet ==
  ASSUME NEW r \in TokenRow, NEW x \in Sessions, NEW n, n = [r EXCEPT !.session = x]
  PROVE  n \in TokenRow /\ n.state = r.state /\ n.session = x /\ n.next = r.next
BY DEF TokenRow

LEMMA NextSet ==
  ASSUME NEW r \in TokenRow, NEW x \in Tokens, NEW n, n = [r EXCEPT !.next = x]
  PROVE  n \in TokenRow /\ n.state = r.state /\ n.session = r.session /\ n.next = x
BY DEF TokenRow

LEMMA AgedSet ==
  ASSUME NEW r \in TokenRow, NEW x \in BOOLEAN, NEW n, n = [r EXCEPT !.aged = x]
  PROVE  n \in TokenRow /\ n.state = r.state /\ n.session = r.session /\ n.next = r.next
BY DEF TokenRow

(* What a rotation makes of the token, and of its child.                   *)
LEMMA ReplacedFields ==
  ASSUME NEW k, token[k] \in TokenRow, NEW child \in Tokens
  PROVE  /\ Replaced(k, child) \in TokenRow
         /\ Replaced(k, child).state = "rotated"
         /\ Replaced(k, child).session = token[k].session
         /\ Replaced(k, child).next = child
<1> DEFINE r1 == [token[k] EXCEPT !.state = "rotated"]
           r2 == [r1 EXCEPT !.next = child]
           r3 == [r2 EXCEPT !.aged = FALSE]
<1>1. r1 \in TokenRow /\ r1.state = "rotated" /\ r1.session = token[k].session
  BY StateSet
<1>2. r2 \in TokenRow /\ r2.state = "rotated" /\ r2.session = token[k].session /\ r2.next = child
  <2> HIDE DEF r1
  <2> QED BY <1>1, NextSet
<1>3. r3 \in TokenRow /\ r3.state = "rotated" /\ r3.session = token[k].session /\ r3.next = child
  <2> HIDE DEF r2
  <2> QED BY <1>2, AgedSet
<1>4. Replaced(k, child) = r3
  BY DEF Replaced
<1> HIDE DEF r3
<1> QED BY <1>3, <1>4

LEMMA ChildFields ==
  ASSUME NEW s \in Sessions
  PROVE  /\ [NoToken EXCEPT !.state = "live", !.session = s] \in TokenRow
         /\ [NoToken EXCEPT !.state = "live", !.session = s].state = "live"
         /\ [NoToken EXCEPT !.state = "live", !.session = s].session = s
         /\ [NoToken EXCEPT !.state = "live", !.session = s].next = None
<1> DEFINE r1 == [NoToken EXCEPT !.state = "live"]
           r2 == [r1 EXCEPT !.session = s]
<1>1. NoToken \in TokenRow /\ NoToken.next = None
  BY DEF NoToken, TokenRow
<1>2. r1 \in TokenRow /\ r1.state = "live" /\ r1.next = None
  BY <1>1, StateSet
<1>3. r2 \in TokenRow /\ r2.state = "live" /\ r2.session = s /\ r2.next = None
  <2> HIDE DEF r1
  <2> QED BY <1>2, SessionSet
<1>4. r2 = [NoToken EXCEPT !.state = "live", !.session = s]
  OBVIOUS
<1> HIDE DEF r2
<1> QED BY <1>3, <1>4

Keeps == \A k \in Tokens : token[k].state # "none" => token'[k].state # "none"

(* What a step of one tab must show of the tab itself.                     *)
LEMMA OneTab ==
  ASSUME TabsOK, Keeps, NEW t \in Tabs, NEW a \in TabRow, Held(a, token'),
         tab' = [tab EXCEPT ![t] = a]
  PROVE  TabsOK'
BY DEF TabsOK, Keeps, Held, IsRow

LEMMA TabGoes ==
  ASSUME TabsOK, Keeps, NEW t \in Tabs, NEW x \in Points \ {"answer"}, Goes(t, x),
         tab[t].pc # "answer",
         x \in Using => IsRow(token', tab[t].token)
  PROVE  TabsOK'
<1> DEFINE a == [pc |-> x, token |-> tab[t].token, answer |-> tab[t].answer]
<1>1. tab[t] \in TabRow /\ Held(tab[t], token)
  BY DEF TabsOK
<1>2. a \in TabRow /\ Held(a, token')
  BY <1>1 DEF TabRow, Held, Points, Using
<1>3. tab' = [tab EXCEPT ![t] = a]
  <2>1. [tab[t] EXCEPT !.pc = x] = a
    BY <1>1 DEF TabRow
  <2> QED BY <2>1 DEF Goes
<1> QED BY <1>2, <1>3, OneTab

LEMMA TabAnswers ==
  ASSUME TabsOK, Keeps, NEW t \in Tabs, NEW a \in Answers \ {"none"},
         NEW k \in Tokens \union {None}, Answer(t, a, k),
         a = "ok" => IsRow(token', k)
  PROVE  TabsOK'
<1> DEFINE r == [pc |-> "answer", token |-> k, answer |-> a]
<1>1. r \in TabRow /\ Held(r, token')
  BY DEF TabRow, Held, Points, Using
<1> QED BY <1>1, OneTab DEF Answer

LEMMA TabIdles ==
  ASSUME TabsOK, Keeps, NEW t \in Tabs, tab' = [tab EXCEPT ![t] = Idle]
  PROVE  TabsOK'
<1>1. Idle \in TabRow /\ Held(Idle, token')
  BY DEF TabRow, Held, Points, Using, Answers, Idle
<1> QED BY <1>1, OneTab

(* A request takes the stored token.                                       *)
LEMMA TabTakes ==
  ASSUME Typed, Keeps, NEW t \in Tabs, NEW x \in Using, At(t, "idle"), store # None,
         tab' = [tab EXCEPT ![t].pc = x, ![t].token = store]
  PROVE  TabsOK'
<1> DEFINE a == [pc |-> x, token |-> store, answer |-> tab[t].answer]
<1>1. tab[t] \in TabRow /\ Held(tab[t], token) /\ TabsOK /\ IsRow(token, store)
  BY DEF TabsOK, Typed, RestOK
<1>2. a \in TabRow /\ Held(a, token')
  BY <1>1 DEF TabRow, Held, Points, Using, At, Keeps, IsRow
<1>3. tab' = [tab EXCEPT ![t] = a]
  <2> DEFINE b == [pc |-> x, token |-> tab[t].token, answer |-> tab[t].answer]
  <2>1. [tab[t] EXCEPT !.pc = x] = b
    BY <1>1 DEF TabRow
  <2>2. [b EXCEPT !.token = store] = a
    OBVIOUS
  <2> QED BY <2>1, <2>2
<1> QED BY <1>1, <1>2, <1>3, OneTab

LEMMA StepTyped == Typed /\ [Next]_vars => Typed'
<1> SUFFICES ASSUME Typed, [Next]_vars PROVE Typed'
  OBVIOUS
<1> USE DEF Typed, At
<1>a. /\ UNCHANGED token => Keeps
      /\ UNCHANGED <<session, token>> => RowsOK'
      /\ UNCHANGED <<token, tab>> => TabsOK'
  BY DEF Keeps, RowsOK, TabsOK, Held, IsRow
<1>b. Keeps /\ UNCHANGED <<active, password, store>> /\ calm' \in BOOLEAN
      /\ faults' \in 0..MaxFaults => RestOK'
  BY DEF Keeps, RestOK, IsRow
<1>c. \A t \in Tabs : tab[t] \in TabRow /\ Held(tab[t], token)
  BY DEF TabsOK
<1>d. calm \in BOOLEAN /\ faults \in 0..MaxFaults
  BY DEF RestOK
<1>1. ASSUME NEW t \in Tabs, SignIn(t) PROVE Typed'
  <2>1. TabsOK'
    BY <1>1, <1>a, TabGoes DEF SignIn, Points, Using
  <2> QED BY <1>1, <2>1, <1>a, <1>b, <1>d DEF SignIn
<1>2. ASSUME NEW t \in Tabs, IssueSession(t) PROVE Typed'
  <2>1. PICK s \in NewSession, k \in NewToken :
          /\ session' = [session EXCEPT ![s] = [status |-> "ACTIVE", over |-> FALSE,
                                                since |-> password]]
          /\ token' = [token EXCEPT ![k].state = "live", ![k].session = s]
          /\ Answer(t, "ok", k)
    BY <1>2 DEF IssueSession
  <2>2. /\ k \in Tokens /\ token[k].state = "none"
        /\ s \in Sessions /\ session[s].status = "none"
    BY NewIsUnused
  <2>3. token[k] \in TokenRow /\ token[k].next = None
    BY <2>2 DEF RowsOK, TokenRow
  <2> DEFINE new == [state |-> "live", session |-> s, next |-> None, aged |-> token[k].aged]
  <2>4. token' = [token EXCEPT ![k] = new] /\ new \in TokenRow
    <3> DEFINE b == [state |-> "live", session |-> token[k].session, next |-> token[k].next,
                     aged |-> token[k].aged]
    <3>a. [token[k] EXCEPT !.state = "live"] = b
      BY <2>3 DEF TokenRow
    <3>b. [b EXCEPT !.session = s] = new
      BY <2>3
    <3>1. [[token[k] EXCEPT !.state = "live"] EXCEPT !.session = s] = new
      BY <3>a, <3>b
    <3>2. new \in TokenRow
      BY <2>2, <2>3 DEF TokenRow
    <3> QED BY <2>1, <3>1, <3>2
  <2>5. [status |-> "ACTIVE", over |-> FALSE, since |-> password] \in SessionRow
    BY DEF SessionRow, RestOK
  <2>6. RowsOK'
    <3>1. session' \in [Sessions -> SessionRow] /\ token' \in [Tokens -> TokenRow]
      BY <2>1, <2>2, <2>4, <2>5 DEF RowsOK
    <3>2. \A x \in Sessions : session'[x].status # "none" \/ session'[x] = session[x]
      BY <2>1, <2>2 DEF RowsOK
    <3>3. \A x \in Tokens : token'[x] = new \/ token'[x] = token[x]
      BY <2>2, <2>4 DEF RowsOK
    <3>4. session'[s].status # "none"
      BY <2>1, <2>2 DEF RowsOK
    <3>5. \A x \in Tokens : token[x].session \in Sessions \union {None}
      BY DEF RowsOK, TokenRow
    <3> QED BY <2>2, <3>1, <3>2, <3>3, <3>4, <3>5 DEF RowsOK
  <2>7. Keeps /\ IsRow(token', k)
    BY <2>2, <2>4 DEF Keeps, RowsOK, IsRow
  <2>8. TabsOK'
    BY <2>1, <2>2, <2>7, TabAnswers DEF Answers
  <2> QED BY <1>2, <2>6, <2>7, <2>8, <1>b, <1>d DEF IssueSession
<1>3. ASSUME NEW t \in Tabs, NotReissued(t) PROVE Typed'
  <2>1. TabsOK'
    BY <1>3, <1>a, TabAnswers DEF NotReissued, Answers
  <2> QED BY <1>3, <2>1, <1>a, <1>b, <1>d DEF NotReissued
<1>4. ASSUME NEW t \in Tabs, Logout(t) PROVE Typed'
  <2>1. TabsOK'
    BY <1>4, <1>a, TabTakes DEF Logout, Using
  <2> QED BY <1>4, <2>1, <1>a, <1>b, <1>d DEF Logout
<1>5. ASSUME NEW t \in Tabs, BeginReset(t) PROVE Typed'
  <2>1. TabsOK'
    BY <1>5, <1>a, TabGoes DEF BeginReset, Points, Using
  <2> QED BY <1>5, <2>1, <1>a, <1>b, <1>d DEF BeginReset
<1>6. ASSUME NEW t \in Tabs, ChangePassword(t) PROVE Typed'
  <2>1. RowsOK' /\ Keeps
    BY <1>6, RevokeTyped DEF ChangePassword, Keeps
  <2>2. TabsOK'
    BY <1>6, <2>1, TabGoes DEF ChangePassword, Points, Using
  <2>3. RestOK'
    <3>0. password' \in 0..MaxChanges
      BY <1>6 DEF ChangePassword, RestOK
    <3>1. calm' \in BOOLEAN
      BY <1>6 DEF ChangePassword
    <3>2. store' # None => IsRow(token', store')
      BY <1>6, <2>1 DEF ChangePassword, RestOK, Keeps, IsRow
    <3> QED BY <1>6, <3>0, <3>1, <3>2 DEF ChangePassword, RestOK
  <2> QED BY <2>1, <2>2, <2>3
<1>7. ASSUME NEW t \in Tabs, BeginRequest(t) PROVE Typed'
  <2>1. TabsOK'
    BY <1>7, <1>a, TabTakes DEF BeginRequest, Using
  <2> QED BY <1>7, <2>1, <1>a, <1>b, <1>d DEF BeginRequest
<1>8. ASSUME NEW t \in Tabs, VerifyAccessToken(t) PROVE Typed'
  <2>1. Keeps /\ IsRow(token', tab[t].token)
    BY <1>8, <1>a, <1>c DEF VerifyAccessToken, Held, Using
  <2>2. TabsOK'
    BY <1>8, <2>1, TabGoes, TabIdles DEF VerifyAccessToken, Points, Using
  <2> QED BY <1>8, <2>1, <2>2, <1>a, <1>b, <1>d DEF VerifyAccessToken
<1>9. ASSUME NEW t \in Tabs, ReadForRefresh(t) PROVE Typed'
  <2>1. Keeps /\ IsRow(token', tab[t].token)
    BY <1>9, <1>a, <1>c DEF ReadForRefresh, Held, Using
  <2>2. \/ Answer(t, "conflict", None) \/ Answer(t, "denied", None)
        \/ Goes(t, "close") \/ Goes(t, "expire") \/ Goes(t, "rotate")
    BY <1>9 DEF ReadForRefresh
  <2>3. TabsOK'
    BY <1>9, <2>1, <2>2, TabGoes, TabAnswers DEF ReadForRefresh, Points, Using, Answers
  <2> QED BY <1>9, <2>1, <2>3, <1>a, <1>b, <1>d DEF ReadForRefresh
<1>10. ASSUME NEW t \in Tabs, Rotate(t) PROVE Typed'
  <2> DEFINE k == tab[t].token
  <2>1. PICK child \in NewToken :
          /\ token' = [token EXCEPT ![k] = Replaced(k, child),
                                    ![child] = [NoToken EXCEPT !.state = "live",
                                                               !.session = token[k].session]]
          /\ session' = [session EXCEPT ![token[k].session].over = FALSE]
          /\ Answer(t, "ok", child)
    BY <1>10 DEF Rotate
  <2>2. /\ child \in Tokens /\ token[child].state = "none"
        /\ k \in Tokens /\ token[k].state # "none" /\ k # child
    BY <1>10, <1>c, NewIsUnused DEF Rotate, Held, Using, IsRow
  <2>3. token[k] \in TokenRow /\ token[k].session \in Sessions
    BY <2>2 DEF RowsOK, TokenRow
  <2> DEFINE old == Replaced(k, child)
             new == [NoToken EXCEPT !.state = "live", !.session = token[k].session]
             s == token[k].session
  <2>4. /\ old \in TokenRow /\ new \in TokenRow
        /\ old.state = "rotated" /\ old.session = s /\ old.next = child
        /\ new.state = "live" /\ new.session = s /\ new.next = None
    <3>1. /\ old \in TokenRow /\ old.state = "rotated" /\ old.session = token[k].session
          /\ old.next = child
      BY <2>2, <2>3, ReplacedFields
    <3>2. /\ new \in TokenRow /\ new.state = "live" /\ new.session = token[k].session
          /\ new.next = None
      BY <2>3, ChildFields
    <3> HIDE DEF old, new
    <3> QED BY <3>1, <3>2
  <2>t. token' = [token EXCEPT ![k] = old, ![child] = new]
    BY <2>1
  <2> HIDE DEF old, new
  <2>5. /\ session' = [session EXCEPT ![s] = [session[s] EXCEPT !.over = FALSE]]
        /\ [session[s] EXCEPT !.over = FALSE] \in SessionRow
        /\ [session[s] EXCEPT !.over = FALSE].status = session[s].status
        /\ session[s].status # "none"
    BY <2>1, <2>2, <2>3 DEF RowsOK, SessionRow
  <2>6. RowsOK'
    <3>1. session' \in [Sessions -> SessionRow] /\ token' \in [Tokens -> TokenRow]
      BY <2>2, <2>3, <2>4, <2>t, <2>5 DEF RowsOK
    <3>2. \A x \in Sessions : session'[x].status = session[x].status
      BY <2>3, <2>5 DEF RowsOK
    <3>3. \A x \in Tokens : token'[x] = old \/ token'[x] = new \/ token'[x] = token[x]
      BY <2>2, <2>4, <2>t DEF RowsOK
    <3>4. \A x \in Tokens : token[x].session \in Sessions \union {None}
      BY DEF RowsOK, TokenRow
    <3>5. \A x \in Tokens :
            /\ token'[x].state # "none" <=> token'[x].session # None
            /\ token'[x].next # None <=> token'[x].state = "rotated"
      <4> SUFFICES ASSUME NEW x \in Tokens
                   PROVE  /\ token'[x].state # "none" <=> token'[x].session # None
                          /\ token'[x].next # None <=> token'[x].state = "rotated"
        OBVIOUS
      <4>1. CASE token'[x] = old
        BY <4>1, <2>2, <2>3, <2>4
      <4>2. CASE token'[x] = new
        BY <4>2, <2>3, <2>4
      <4>3. CASE token'[x] = token[x]
        BY <4>3 DEF RowsOK
      <4> QED BY <4>1, <4>2, <4>3, <3>3
    <3>6. \A x \in Tokens : token'[x].session # None =>
            session'[token'[x].session].status # "none"
      <4> SUFFICES ASSUME NEW x \in Tokens, token'[x].session # None
                   PROVE  session'[token'[x].session].status # "none"
        OBVIOUS
      <4>1. CASE token'[x] = old \/ token'[x] = new
        BY <4>1, <2>3, <2>4, <2>5, <3>2
      <4>2. CASE token'[x] = token[x]
        <5>1. token[x].session \in Sessions /\ session[token[x].session].status # "none"
          BY <4>2, <3>4 DEF RowsOK
        <5> QED BY <4>2, <5>1, <3>2
      <4> QED BY <4>1, <4>2, <3>3
    <3> QED BY <3>1, <3>5, <3>6 DEF RowsOK
  <2>7. Keeps /\ IsRow(token', child)
    BY <2>2, <2>4, <2>t DEF Keeps, RowsOK, IsRow
  <2>8. TabsOK'
    BY <2>1, <2>2, <2>7, TabAnswers DEF Answers
  <2> QED BY <1>10, <2>6, <2>7, <2>8, <1>b, <1>d DEF Rotate
<1>11. ASSUME NEW t \in Tabs, RevokeSession(t) PROVE Typed'
  <2>1. RowsOK' /\ Keeps
    BY <1>11, RevokeTyped DEF RevokeSession, Keeps
  <2>2. TabsOK'
    BY <1>11, <2>1, TabAnswers DEF RevokeSession, Answers
  <2> QED BY <1>11, <2>1, <2>2, <1>b, <1>d DEF RevokeSession
<1>12. ASSUME NEW t \in Tabs, CloseUsed(t) PROVE Typed'
  <2>1. RowsOK' /\ Keeps
    BY <1>12, RevokeTyped DEF CloseUsed, Keeps
  <2>2. IsRow(token', tab[t].token)
    BY <1>12, <2>1, <1>c DEF CloseUsed, Keeps, Held, Using, IsRow
  <2>3. TabsOK'
    BY <1>12, <2>1, <2>2, TabGoes DEF CloseUsed, Points
  <2> QED BY <1>12, <2>1, <2>3, <1>b, <1>d DEF CloseUsed
<1>13. ASSUME NEW t \in Tabs, ExpireSession(t) PROVE Typed'
  <2> DEFINE s == token[tab[t].token].session
  <2>1. s \in Sessions /\ session[s] \in SessionRow /\ session[s].status # "none"
    BY <1>13, <1>c DEF ExpireSession, Held, Using, IsRow, RowsOK, TokenRow
  <2>2. /\ session' = [session EXCEPT ![s] = [session[s] EXCEPT !.status = "EXPIRED"]]
        /\ [session[s] EXCEPT !.status = "EXPIRED"] \in SessionRow
        /\ [session[s] EXCEPT !.status = "EXPIRED"].status = "EXPIRED"
    BY <1>13, <2>1 DEF ExpireSession, SessionRow
  <2>3. RowsOK'
    BY <1>13, <2>1, <2>2 DEF ExpireSession, RowsOK
  <2>4. TabsOK'
    BY <1>13, <1>a, TabAnswers DEF ExpireSession, Answers
  <2> QED BY <1>13, <2>3, <2>4, <1>a, <1>b, <1>d DEF ExpireSession
<1>14. ASSUME NEW t \in Tabs, Receive(t) PROVE Typed'
  <2>1. /\ tab[t].answer = "ok" => Stored(t) = tab[t].token
        /\ tab[t].answer # "ok" => Stored(t) \in {None, store}
    BY DEF Stored
  <2>2. RestOK'
    BY <1>14, <2>1, <1>c DEF Receive, RestOK, Held, IsRow
  <2>3. TabsOK'
    BY <1>14, <1>a, TabIdles DEF Receive
  <2> QED BY <1>14, <2>2, <2>3, <1>a DEF Receive
<1>15. ASSUME NEW t \in Tabs, RequestFails(t) PROVE Typed'
  <2>1. TabsOK'
    BY <1>15, <1>a, TabAnswers DEF RequestFails, Answers
  <2>2. faults' \in 0..MaxFaults
    BY <1>15, <1>d DEF RequestFails
  <2> QED BY <1>15, <2>1, <2>2, <1>a, <1>b DEF RequestFails
<1>16. ASSUME NEW t \in Tabs, AnswerLost(t) PROVE Typed'
  <2>1. TabsOK'
    BY <1>16, <1>a, TabIdles DEF AnswerLost
  <2>2. faults' \in 0..MaxFaults
    BY <1>16, <1>d DEF AnswerLost
  <2> QED BY <1>16, <2>1, <2>2, <1>a, <1>b DEF AnswerLost
<1>17. ASSUME NEW k \in Tokens, GraceEnds(k) PROVE Typed'
  <2>1. /\ token' = [token EXCEPT ![k] = [token[k] EXCEPT !.aged = TRUE]]
        /\ [token[k] EXCEPT !.aged = TRUE] \in TokenRow
        /\ \A f \in {"state", "session", "next"} : [token[k] EXCEPT !.aged = TRUE][f] = token[k][f]
    BY <1>17 DEF GraceEnds, RowsOK, TokenRow
  <2>2. \A x \in Tokens : /\ token'[x].state = token[x].state
                          /\ token'[x].session = token[x].session
                          /\ token'[x].next = token[x].next
    BY <1>17, <2>1 DEF GraceEnds, RowsOK, TokenRow
  <2>3. RowsOK' /\ Keeps
    BY <1>17, <2>1, <2>2 DEF GraceEnds, RowsOK, Keeps
  <2>4. TabsOK'
    BY <1>17, <2>2, <2>3 DEF GraceEnds, TabsOK, Held, IsRow
  <2> QED BY <1>17, <2>3, <2>4, <1>b, <1>d DEF GraceEnds
<1>18. ASSUME NEW s \in Sessions, SessionTimeUp(s) PROVE Typed'
  <2>1. /\ session' = [session EXCEPT ![s] = [session[s] EXCEPT !.over = TRUE]]
        /\ [session[s] EXCEPT !.over = TRUE] \in SessionRow
        /\ [session[s] EXCEPT !.over = TRUE].status = session[s].status
    BY <1>18 DEF SessionTimeUp, RowsOK, SessionRow
  <2>2. RowsOK'
    BY <1>18, <2>1 DEF SessionTimeUp, RowsOK
  <2> QED BY <1>18, <2>2, <1>a, <1>b, <1>d DEF SessionTimeUp
<1>19. CASE DisableOrEnableUser
  <2>1. RestOK'
    BY <1>19 DEF DisableOrEnableUser, RestOK, IsRow
  <2> QED BY <1>19, <2>1, <1>a DEF DisableOrEnableUser
<1>20. CASE UNCHANGED vars
  <2>1. RestOK'
    BY <1>20 DEF vars, RestOK, IsRow
  <2> QED BY <1>20, <2>1, <1>a DEF vars
<1> QED
  BY <1>1, <1>2, <1>3, <1>4, <1>5, <1>6, <1>7, <1>8, <1>9, <1>10, <1>11, <1>12, <1>13,
     <1>14, <1>15, <1>16, <1>17, <1>18, <1>19, <1>20 DEF Next, Account, Refresh

LEMMA TypedHolds == Spec => []Typed
BY InitTyped, StepTyped, PTL DEF Spec

(* The types of the rows, and what ties tokens to sessions, hold in every  *)
(* reachable state.                                                        *)
THEOREM TypeCorrect == Spec => []TypeOK
BY TypedHolds, TypedIsTypeOK, PTL

----------------------------------------------------------------------------
(* What the steps do, column by column.                                     *)

LEMMA GoesFields ==
  ASSUME TabsOK, NEW t \in Tabs, NEW x \in Points, Goes(t, x)
  PROVE  /\ \A u \in Tabs \ {t} : tab'[u] = tab[u]
         /\ tab'[t].pc = x /\ tab'[t].token = tab[t].token /\ tab'[t].answer = tab[t].answer
BY DEF Goes, TabsOK, TabRow

LEMMA TakesFields ==
  ASSUME TabsOK, NEW t \in Tabs, NEW x \in Points,
         tab' = [tab EXCEPT ![t].pc = x, ![t].token = store]
  PROVE  /\ \A u \in Tabs \ {t} : tab'[u] = tab[u]
         /\ tab'[t].pc = x /\ tab'[t].token = store /\ tab'[t].answer = tab[t].answer
BY DEF TabsOK, TabRow

LEMMA AnswerFields ==
  ASSUME TabsOK, NEW t \in Tabs, NEW a, NEW k, Answer(t, a, k)
  PROVE  /\ \A u \in Tabs \ {t} : tab'[u] = tab[u]
         /\ tab'[t].pc = "answer" /\ tab'[t].token = k /\ tab'[t].answer = a
BY DEF Answer, TabsOK

LEMMA IdleFields ==
  ASSUME TabsOK, NEW t \in Tabs, tab' = [tab EXCEPT ![t] = Idle]
  PROVE  /\ \A u \in Tabs \ {t} : tab'[u] = tab[u]
         /\ tab'[t].pc = "idle" /\ tab'[t].answer = "none"
BY DEF Idle, TabsOK

LEMMA RevokeFields ==
  ASSUME RowsOK, NEW closed, Revoke(closed)
  PROVE  /\ \A s \in Sessions :
              /\ session'[s].since = session[s].since
              /\ session'[s].status # session[s].status =>
                   s \in closed /\ session[s].status = "ACTIVE" /\ session'[s].status = "REVOKED"
              /\ s \in closed => session'[s].status # "ACTIVE"
         /\ \A k \in Tokens :
              /\ token'[k].session = token[k].session
              /\ token'[k].state = "live" => token[k].state = "live" /\ token[k].session \notin closed
<1> USE DEF RowsOK
<1>1. ASSUME NEW s \in Sessions
      PROVE  \/ session'[s] = session[s] /\ ~(s \in closed /\ session[s].status = "ACTIVE")
             \/ /\ s \in closed /\ session[s].status = "ACTIVE"
                /\ session'[s] = [session[s] EXCEPT !.status = "REVOKED"]
  BY DEF Revoke
<1>2. ASSUME NEW s \in Sessions
      PROVE  /\ session'[s].since = session[s].since
             /\ session'[s].status # session[s].status =>
                  s \in closed /\ session[s].status = "ACTIVE" /\ session'[s].status = "REVOKED"
             /\ s \in closed => session'[s].status # "ACTIVE"
  BY <1>1 DEF SessionRow
<1>3. ASSUME NEW k \in Tokens
      PROVE  \/ token'[k] = token[k] /\ ~(token[k].session \in closed /\ token[k].state = "live")
             \/ token'[k] = [token[k] EXCEPT !.state = "revoked"]
  BY DEF Revoke
<1>4. ASSUME NEW k \in Tokens
      PROVE  /\ token'[k].session = token[k].session
             /\ token'[k].state = "live" => token[k].state = "live" /\ token[k].session \notin closed
  BY <1>3 DEF TokenRow
<1> QED BY <1>2, <1>4

LEMMA IssueFields ==
  ASSUME Typed, NEW t \in Tabs, IssueSession(t)
  PROVE  \E s \in NewSession, k \in NewToken :
           /\ s \in Sessions /\ session[s].status = "none"
           /\ k \in Tokens /\ token[k].state = "none"
           /\ session'[s].status = "ACTIVE" /\ ~session'[s].over /\ session'[s].since = password
           /\ \A x \in Sessions \ {s} : session'[x] = session[x]
           /\ token'[k].state = "live" /\ token'[k].session = s /\ token'[k].aged = token[k].aged
           /\ \A x \in Tokens \ {k} : token'[x] = token[x]
           /\ Answer(t, "ok", k)
<1>1. PICK s \in NewSession, k \in NewToken :
        /\ session' = [session EXCEPT ![s] = [status |-> "ACTIVE", over |-> FALSE,
                                              since |-> password]]
        /\ token' = [token EXCEPT ![k].state = "live", ![k].session = s]
        /\ Answer(t, "ok", k)
  BY DEF IssueSession
<1>2. /\ s \in Sessions /\ session[s].status = "none"
      /\ k \in Tokens /\ token[k].state = "none"
  BY NewIsUnused
<1>3. /\ session'[s].status = "ACTIVE" /\ ~session'[s].over /\ session'[s].since = password
      /\ \A x \in Sessions \ {s} : session'[x] = session[x]
  BY <1>1, <1>2 DEF Typed, RowsOK
<1>4. /\ token'[k].state = "live" /\ token'[k].session = s /\ token'[k].aged = token[k].aged
      /\ \A x \in Tokens \ {k} : token'[x] = token[x]
  BY <1>1, <1>2 DEF Typed, RowsOK, TokenRow
<1> QED BY <1>1, <1>2, <1>3, <1>4

(* No session begins or ends.                                              *)
NoneEnds ==
  \A s \in Sessions : /\ session'[s].status = session[s].status
                      /\ session'[s].since = session[s].since
                      /\ session'[s].over => session[s].over

LEMMA RotateFields ==
  ASSUME Typed, NEW t \in Tabs, Rotate(t), NEW k, k = tab[t].token
  PROVE  \E child \in Tokens :
           /\ token[child].state = "none" /\ IsRow(token, k) /\ k # child
           /\ token[k].session \in Sessions
           /\ token'[k].state = "rotated" /\ token'[k].session = token[k].session
           /\ ~token'[k].aged
           /\ token'[child].state = "live" /\ token'[child].session = token[k].session
           /\ ~token'[child].aged
           /\ \A x \in Tokens \ {k, child} : token'[x] = token[x]
           /\ NoneEnds
           /\ Answer(t, "ok", child)
<1>1. PICK child \in NewToken :
        /\ token' = [token EXCEPT ![k] = Replaced(k, child),
                                  ![child] = [NoToken EXCEPT !.state = "live",
                                                             !.session = token[k].session]]
        /\ session' = [session EXCEPT ![token[k].session].over = FALSE]
        /\ Answer(t, "ok", child)
  BY DEF Rotate
<1>2. /\ child \in Tokens /\ token[child].state = "none" /\ k # child
      /\ IsRow(token, k) /\ k \in Tokens /\ At(t, "rotate")
  BY NewIsUnused DEF Rotate, At, Typed, TabsOK, Held, Using, IsRow
<1>3. token[k] \in TokenRow /\ token[k].session \in Sessions
  BY <1>2 DEF Typed, RowsOK, TokenRow, IsRow
<1> DEFINE new == [NoToken EXCEPT !.state = "live", !.session = token[k].session]
           old == Replaced(k, child)
<1>4. /\ old.state = "rotated" /\ old.session = token[k].session
      /\ new.state = "live" /\ new.session = token[k].session
  <2>1. old.state = "rotated" /\ old.session = token[k].session
    BY <1>2, <1>3, ReplacedFields
  <2>2. new.state = "live" /\ new.session = token[k].session
    BY <1>3, ChildFields
  <2> HIDE DEF new, old
  <2> QED BY <2>1, <2>2
<1>5. new.aged = FALSE
  BY DEF NoToken
<1>6. old.aged = FALSE
  BY <1>3 DEF Replaced, TokenRow
<1>7. NoneEnds
  BY <1>1, <1>3 DEF NoneEnds, Typed, RowsOK, SessionRow
<1>8. /\ token'[k] = old /\ token'[child] = new
      /\ \A x \in Tokens \ {k, child} : token'[x] = token[x]
  <2> HIDE DEF new, old
  <2>1. token' = [token EXCEPT ![k] = old, ![child] = new]
    BY <1>1 DEF new, old
  <2> QED BY <1>2, <2>1 DEF Typed, RowsOK
<1> HIDE DEF new, old
<1>9. ~token'[k].aged /\ ~token'[child].aged
  BY <1>5, <1>6, <1>8
<1>10. /\ token'[k].state = "rotated" /\ token'[k].session = token[k].session
       /\ token'[child].state = "live" /\ token'[child].session = token[k].session
  BY <1>4, <1>8
<1>11. child \in Tokens
  BY <1>2
<1>12. Answer(t, "ok", child)
  BY <1>1
<1> WITNESS child \in Tokens
<1> QED BY <1>2, <1>3, <1>7, <1>8, <1>9, <1>10, <1>12

LEMMA GraceFields ==
  ASSUME RowsOK, NEW k \in Tokens, GraceEnds(k)
  PROVE  \A x \in Tokens : token'[x].state = token[x].state /\ token'[x].session = token[x].session
BY DEF GraceEnds, RowsOK, TokenRow

LEMMA TimeUpFields ==
  ASSUME RowsOK, NEW s \in Sessions, SessionTimeUp(s)
  PROVE  \A x \in Sessions :
           session'[x].status = session[x].status /\ session'[x].since = session[x].since
BY DEF SessionTimeUp, RowsOK, SessionRow

LEMMA ExpireFields ==
  ASSUME RowsOK, NEW t \in Tabs, ExpireSession(t)
  PROVE  \A s \in Sessions :
           /\ session'[s].since = session[s].since
           /\ session'[s].status = "EXPIRED" \/ session'[s].status = session[s].status
BY DEF ExpireSession, RowsOK, SessionRow

----------------------------------------------------------------------------
(* The open sessions are of the last password.                              *)

LEMMA StepOlder == Typed /\ OlderSessionsEnd /\ [Next]_vars => OlderSessionsEnd'
<1> SUFFICES ASSUME Typed, OlderSessionsEnd, [Next]_vars PROVE OlderSessionsEnd'
  OBVIOUS
<1> USE DEF OlderSessionsEnd
<1>r. RowsOK /\ TabsOK
  BY DEF Typed
<1>1. ASSUME UNCHANGED <<session, password>> PROVE OlderSessionsEnd'
  BY <1>1
<1>2. ASSUME NEW t \in Tabs, SignIn(t) \/ NotReissued(t) \/ Logout(t) \/ BeginReset(t)
             \/ BeginRequest(t) \/ VerifyAccessToken(t) \/ ReadForRefresh(t) \/ Receive(t)
             \/ RequestFails(t) \/ AnswerLost(t)
      PROVE  OlderSessionsEnd'
  BY <1>2, <1>1 DEF SignIn, NotReissued, Logout, BeginReset, BeginRequest, VerifyAccessToken,
                    ReadForRefresh, Receive, RequestFails, AnswerLost
<1>3. ASSUME NEW t \in Tabs, IssueSession(t) PROVE OlderSessionsEnd'
  <2>1. password' = password
    BY <1>3 DEF IssueSession
  <2>2. PICK s \in Sessions : session'[s].since = password
                            /\ \A x \in Sessions \ {s} : session'[x] = session[x]
    BY <1>3, IssueFields
  <2> QED BY <2>1, <2>2
<1>4. ASSUME NEW t \in Tabs, ChangePassword(t) PROVE OlderSessionsEnd'
  <2>1. Revoke(Sessions)
    BY <1>4 DEF ChangePassword
  <2>2. \A s \in Sessions : session'[s].status # "ACTIVE"
    BY <2>1, <1>r, RevokeFields
  <2> QED BY <2>2
<1>5. ASSUME NEW closed, Revoke(closed), UNCHANGED password PROVE OlderSessionsEnd'
  BY <1>5, <1>r, RevokeFields
<1>6. ASSUME NEW t \in Tabs, RevokeSession(t) \/ CloseUsed(t) PROVE OlderSessionsEnd'
  BY <1>6, <1>5 DEF RevokeSession, CloseUsed
<1>7. ASSUME NEW t \in Tabs, Rotate(t) PROVE OlderSessionsEnd'
  <2>1. UNCHANGED password
    BY <1>7 DEF Rotate
  <2>2. NoneEnds
    BY <1>7, RotateFields
  <2> QED BY <2>1, <2>2 DEF NoneEnds
<1>8. ASSUME NEW t \in Tabs, ExpireSession(t) PROVE OlderSessionsEnd'
  <2>1. UNCHANGED password
    BY <1>8 DEF ExpireSession
  <2> QED BY <1>8, <2>1, <1>r, ExpireFields
<1>9. ASSUME NEW k \in Tokens, GraceEnds(k) PROVE OlderSessionsEnd'
  BY <1>9, <1>1 DEF GraceEnds
<1>10. ASSUME NEW s \in Sessions, SessionTimeUp(s) PROVE OlderSessionsEnd'
  <2>1. UNCHANGED password
    BY <1>10 DEF SessionTimeUp
  <2> QED BY <1>10, <2>1, <1>r, TimeUpFields
<1>11. CASE DisableOrEnableUser \/ UNCHANGED vars
  BY <1>11, <1>1 DEF DisableOrEnableUser, vars
<1> QED
  BY <1>2, <1>3, <1>4, <1>6, <1>7, <1>8, <1>9, <1>10, <1>11 DEF Next, Account, Refresh

(* A session issued before a change of the password is not open after it,  *)
(* whatever refreshes and expiries were under way.                         *)
THEOREM OlderSessionsAreClosed == Spec => []OlderSessionsEnd
<1>1. Init => OlderSessionsEnd
  BY DEF Init, OlderSessionsEnd, NoSession
<1> QED BY <1>1, StepOlder, TypedHolds, PTL DEF Spec

----------------------------------------------------------------------------
(* A revoked session gains no token but from refreshes already under way.   *)

LiveOf(s) == {k \in Tokens : token[k].session = s /\ token[k].state = "live"}
RotatingOf(s) == {t \in Tabs : At(t, "rotate") /\ token[tab[t].token].session = s}

LEMMA Finite ==
  ASSUME NEW L \in SUBSET Tokens, NEW R \in SUBSET Tabs
  PROVE  /\ IsFiniteSet(L) /\ IsFiniteSet(R) /\ Cardinality(L) \in Nat /\ Cardinality(R) \in Nat
         /\ Cardinality(R) <= Cardinality(Tabs) /\ Cardinality(Tabs) \in Nat
<1>1. IsFiniteSet(Tokens)
  BY FS_Interval DEF Tokens
<1>2. IsFiniteSet(L) /\ IsFiniteSet(R) /\ Cardinality(R) <= Cardinality(Tabs)
  BY <1>1, FS_Subset
<1> QED BY <1>2, FS_CardinalityType

(* The two counts do not grow together.                                    *)
LEMMA Shrinks ==
  ASSUME NEW L \in SUBSET Tokens, NEW R \in SUBSET Tabs,
         NEW L1 \in SUBSET L, NEW R1 \in SUBSET R
  PROVE  Cardinality(L1) + Cardinality(R1) <= Cardinality(L) + Cardinality(R)
<1>1. IsFiniteSet(L) /\ IsFiniteSet(R)
  BY Finite
<1>2. Cardinality(L1) <= Cardinality(L) /\ Cardinality(R1) <= Cardinality(R)
  BY <1>1, FS_Subset
<1>3. L1 \in SUBSET Tokens /\ R1 \in SUBSET Tabs
  OBVIOUS
<1> QED BY <1>2, <1>3, Finite

(* A refresh that ends makes one token of one refresh.                     *)
LEMMA Exchanged ==
  ASSUME NEW L \in SUBSET Tokens, NEW R \in SUBSET Tabs, NEW c \in Tokens, NEW t \in R,
         NEW L1 \in SUBSET (L \union {c}), NEW R1 \in SUBSET (R \ {t})
  PROVE  Cardinality(L1) + Cardinality(R1) <= Cardinality(L) + Cardinality(R)
<1>1. IsFiniteSet(L) /\ IsFiniteSet(R) /\ Cardinality(L) \in Nat /\ Cardinality(R) \in Nat
  BY Finite
<1>2. /\ IsFiniteSet(L \union {c}) /\ Cardinality(L \union {c}) <= Cardinality(L) + 1
      /\ IsFiniteSet(R \ {t}) /\ Cardinality(R \ {t}) = Cardinality(R) - 1
  <2>1. IsFiniteSet(L \union {c}) /\ Cardinality(L \union {c}) <= Cardinality(L) + 1
    <3>1. IsFiniteSet(L \union {c})
          /\ Cardinality(L \union {c}) = IF c \in L THEN Cardinality(L) ELSE Cardinality(L) + 1
      BY <1>1, FS_AddElement
    <3>2. CASE c \in L
      BY <1>1, <3>1, <3>2
    <3>3. CASE c \notin L
      BY <1>1, <3>1, <3>3
    <3> QED BY <3>2, <3>3
  <2>2. IsFiniteSet(R \ {t}) /\ Cardinality(R \ {t}) = Cardinality(R) - 1
    BY <1>1, FS_RemoveElement
  <2> QED BY <2>1, <2>2
<1>3. Cardinality(L1) <= Cardinality(L \union {c}) /\ Cardinality(R1) <= Cardinality(R \ {t})
  BY <1>2, FS_Subset
<1>4. /\ Cardinality(L1) \in Nat /\ Cardinality(R1) \in Nat
      /\ Cardinality(L \union {c}) \in Nat /\ Cardinality(R \ {t}) \in Nat
  <2>1. L1 \in SUBSET Tokens /\ R1 \in SUBSET Tabs /\ (L \union {c}) \in SUBSET Tokens
        /\ (R \ {t}) \in SUBSET Tabs
    OBVIOUS
  <2> QED BY <2>1, Finite
<1> QED BY <1>1, <1>2, <1>3, <1>4

FewLive(s) == Cardinality(LiveOf(s)) + Cardinality(RotatingOf(s)) <= Cardinality(Tabs)

LEMMA FewLiveIsProperty ==
  FewLiveAfterClose <=> \A s \in Sessions : session[s].status = "REVOKED" => FewLive(s)
BY DEF FewLiveAfterClose, FewLive, LiveOf, RotatingOf

LEMMA NoneLive ==
  ASSUME NEW s, LiveOf(s)' = {}
  PROVE  FewLive(s)'
<1>1. RotatingOf(s)' \in SUBSET Tabs
  BY DEF RotatingOf
<1>2. Cardinality(LiveOf(s)') = 0
  BY FS_EmptySet
<1> QED BY <1>1, <1>2, Finite DEF FewLive

LEMMA FewerLive ==
  ASSUME NEW s, FewLive(s), LiveOf(s)' \subseteq LiveOf(s), RotatingOf(s)' \subseteq RotatingOf(s)
  PROVE  FewLive(s)'
<1>1. LiveOf(s) \in SUBSET Tokens /\ RotatingOf(s) \in SUBSET Tabs
  BY DEF LiveOf, RotatingOf
<1>2. /\ Cardinality(LiveOf(s)') + Cardinality(RotatingOf(s)')
           <= Cardinality(LiveOf(s)) + Cardinality(RotatingOf(s))
  BY <1>1, Shrinks
<1>3. /\ Cardinality(LiveOf(s)) \in Nat /\ Cardinality(RotatingOf(s)) \in Nat
      /\ Cardinality(LiveOf(s)') \in Nat /\ Cardinality(RotatingOf(s)') \in Nat
      /\ Cardinality(Tabs) \in Nat
  <2>1. LiveOf(s)' \in SUBSET Tokens /\ RotatingOf(s)' \in SUBSET Tabs
    BY DEF LiveOf, RotatingOf
  <2> QED BY <1>1, <2>1, Finite
<1> QED BY <1>2, <1>3 DEF FewLive

(* The tokens and the refreshes of s are among those there were.           *)
NoMoreOf(s) ==
  /\ \A k \in Tokens : token'[k].session = s /\ token'[k].state = "live" =>
       token[k].session = s /\ token[k].state = "live"
  /\ \A u \in Tabs : tab'[u].pc = "rotate" /\ token'[tab'[u].token].session = s =>
       tab[u].pc = "rotate" /\ token[tab[u].token].session = s

LEMMA NoMoreIsFew ==
  ASSUME NEW s, FewLive(s), NoMoreOf(s)
  PROVE  FewLive(s)'
<1>1. LiveOf(s)' \subseteq LiveOf(s) /\ RotatingOf(s)' \subseteq RotatingOf(s)
  BY DEF NoMoreOf, LiveOf, RotatingOf, At
<1> QED BY <1>1, FewerLive

LEMMA RevokeFew ==
  ASSUME Typed, FewLiveAfterClose, NEW closed, Revoke(closed), NEW t \in Tabs,
         \A u \in Tabs \ {t} : tab'[u] = tab[u], tab'[t].pc # "rotate",
         NEW s \in Sessions, session'[s].status = "REVOKED"
  PROVE  FewLive(s)'
<1>1. RowsOK /\ TabsOK
  BY DEF Typed
<1>2. CASE s \in closed
  <2>1. LiveOf(s)' = {}
    BY <1>1, <1>2, RevokeFields DEF LiveOf
  <2> QED BY <2>1, NoneLive
<1>3. CASE s \notin closed
  <2>1. session[s].status = "REVOKED" /\ FewLive(s)
    BY <1>1, <1>3, RevokeFields, FewLiveIsProperty
  <2>2. \A u \in Tabs : tab[u].pc = "rotate" => tab[u].token \in Tokens
    BY <1>1 DEF TabsOK, Held, Using, IsRow
  <2>3. NoMoreOf(s)
    BY <1>1, <2>2, RevokeFields DEF NoMoreOf
  <2> QED BY <2>1, <2>3, NoMoreIsFew
<1> QED BY <1>2, <1>3

LEMMA StepFewLive == Typed /\ FewLiveAfterClose /\ [Next]_vars => FewLiveAfterClose'
<1> SUFFICES ASSUME Typed, FewLiveAfterClose, [Next]_vars,
                    NEW s \in Sessions, session'[s].status = "REVOKED"
             PROVE  FewLive(s)'
  BY FewLiveIsProperty DEF FewLive, LiveOf, RotatingOf, FewLiveAfterClose
<1>r. RowsOK /\ TabsOK
  BY DEF Typed
<1>h. \A u \in Tabs : tab[u].pc = "rotate" => IsRow(token, tab[u].token)
  BY <1>r DEF TabsOK, Held, Using
<1>f. session[s].status = "REVOKED" => FewLive(s)
  BY FewLiveIsProperty
<1>1. ASSUME UNCHANGED <<session, token>>, NEW t \in Tabs,
             \A u \in Tabs \ {t} : tab'[u] = tab[u], tab'[t].pc # "rotate"
      PROVE  FewLive(s)'
  <2>1. NoMoreOf(s)
    BY <1>1 DEF NoMoreOf
  <2> QED BY <1>1, <2>1, <1>f, NoMoreIsFew
<1>2. ASSUME NEW t \in Tabs, SignIn(t) \/ BeginReset(t) PROVE FewLive(s)'
  <2>1. UNCHANGED <<session, token>> /\ \E x \in {"issue", "change"} : Goes(t, x)
    BY <1>2 DEF SignIn, BeginReset
  <2> QED BY <2>1, <1>1, <1>r, GoesFields DEF Points
<1>3. ASSUME NEW t \in Tabs, Logout(t) \/ BeginRequest(t) PROVE FewLive(s)'
  <2>1. /\ UNCHANGED <<session, token>>
        /\ \E x \in {"close", "used"} : tab' = [tab EXCEPT ![t].pc = x, ![t].token = store]
    BY <1>3 DEF Logout, BeginRequest
  <2> QED BY <2>1, <1>1, <1>r, TakesFields DEF Points
<1>4. ASSUME NEW t \in Tabs, NotReissued(t) \/ RequestFails(t) PROVE FewLive(s)'
  <2>1. UNCHANGED <<session, token>> /\ \E a \in Answers : Answer(t, a, None)
    BY <1>4 DEF NotReissued, RequestFails, Answers
  <2> QED BY <2>1, <1>1, <1>r, AnswerFields
<1>5. ASSUME NEW t \in Tabs, AnswerLost(t) \/ Receive(t) PROVE FewLive(s)'
  <2>1. UNCHANGED <<session, token>> /\ tab' = [tab EXCEPT ![t] = Idle]
    BY <1>5 DEF AnswerLost, Receive
  <2> QED BY <2>1, <1>1, <1>r, IdleFields
<1>6. ASSUME NEW t \in Tabs, VerifyAccessToken(t) PROVE FewLive(s)'
  <2>1. UNCHANGED <<session, token>>
        /\ (tab' = [tab EXCEPT ![t] = Idle] \/ \E x \in {"change", "closeUsed", "sent"} : Goes(t, x))
    BY <1>6 DEF VerifyAccessToken
  <2> QED BY <2>1, <1>1, <1>r, IdleFields, GoesFields DEF Points
<1>7. ASSUME NEW t \in Tabs, ReadForRefresh(t) PROVE FewLive(s)'
  <2>1. UNCHANGED <<session, token>>
    BY <1>7 DEF ReadForRefresh
  <2>2. CASE Goes(t, "rotate") /\ Open(token[tab[t].token].session)
    <3>1. /\ \A u \in Tabs \ {t} : tab'[u] = tab[u]
          /\ tab'[t].token = tab[t].token
      BY <2>2, <1>r, GoesFields DEF Points
    <3>2. session[s].status = "REVOKED" /\ token[tab[t].token].session # s
      BY <2>1, <2>2 DEF Open
    <3>3. NoMoreOf(s)
      BY <2>1, <3>1, <3>2 DEF NoMoreOf
    <3> QED BY <3>2, <3>3, <1>f, NoMoreIsFew
  <2>3. CASE \E a \in Answers : Answer(t, a, None)
    BY <2>1, <2>3, <1>1, <1>r, AnswerFields
  <2>4. CASE Goes(t, "close") \/ Goes(t, "expire")
    BY <2>1, <2>4, <1>1, <1>r, GoesFields DEF Points
  <2> QED BY <1>7, <2>2, <2>3, <2>4 DEF ReadForRefresh, SessionIsClosed, Answers
<1>8. ASSUME NEW t \in Tabs, IssueSession(t) PROVE FewLive(s)'
  <2>1. PICK i \in Sessions, k \in Tokens :
          /\ token[k].state = "none"
          /\ session'[i].status = "ACTIVE" /\ \A x \in Sessions \ {i} : session'[x] = session[x]
          /\ token'[k].session = i
          /\ \A x \in Tokens \ {k} : token'[x] = token[x]
          /\ Answer(t, "ok", k)
    BY <1>8, IssueFields
  <2>2. /\ \A u \in Tabs \ {t} : tab'[u] = tab[u]
        /\ tab'[t].pc = "answer"
    BY <2>1, <1>r, AnswerFields
  <2>3. s # i /\ session[s].status = "REVOKED"
    BY <2>1
  <2>4. NoMoreOf(s)
    BY <2>1, <2>2, <2>3, <1>h DEF NoMoreOf, IsRow
  <2> QED BY <2>3, <2>4, <1>f, NoMoreIsFew
<1>9. ASSUME NEW t \in Tabs, ChangePassword(t) \/ CloseUsed(t) PROVE FewLive(s)'
  <2>1. (\E closed : Revoke(closed)) /\ (\E x \in {"reissue", "sent"} : Goes(t, x))
    BY <1>9 DEF ChangePassword, CloseUsed
  <2>2. (\A u \in Tabs \ {t} : tab'[u] = tab[u]) /\ tab'[t].pc # "rotate"
    BY <2>1, <1>r, GoesFields DEF Points
  <2> QED BY <2>1, <2>2, RevokeFew
<1>10. ASSUME NEW t \in Tabs, RevokeSession(t) PROVE FewLive(s)'
  <2>1. (\E closed : Revoke(closed)) /\ Answer(t, "denied", None)
    BY <1>10 DEF RevokeSession
  <2>2. (\A u \in Tabs \ {t} : tab'[u] = tab[u]) /\ tab'[t].pc # "rotate"
    BY <2>1, <1>r, AnswerFields
  <2> QED BY <2>1, <2>2, RevokeFew
<1>11. ASSUME NEW t \in Tabs, Rotate(t) PROVE FewLive(s)'
  <2> DEFINE k == tab[t].token
  <2>1. PICK child \in Tokens :
           /\ token[child].state = "none" /\ IsRow(token, k) /\ k # child
           /\ token'[k].state = "rotated" /\ token'[k].session = token[k].session
           /\ token'[child].session = token[k].session
           /\ \A x \in Tokens \ {k, child} : token'[x] = token[x]
           /\ NoneEnds
           /\ Answer(t, "ok", child)
    BY <1>11, RotateFields
  <2>2. /\ \A u \in Tabs \ {t} : tab'[u] = tab[u]
        /\ tab'[t].pc = "answer"
    BY <2>1, <1>r, AnswerFields
  <2>3. session[s].status = "REVOKED" /\ FewLive(s)
    BY <2>1, <1>f DEF NoneEnds
  <2>4. \A u \in Tabs \ {t} : tab'[u].pc = "rotate" =>
          token'[tab'[u].token].session = token[tab[u].token].session
    BY <2>1, <2>2, <1>h DEF IsRow
  <2>5. CASE token[k].session # s
    <3>1. NoMoreOf(s)
      BY <2>1, <2>2, <2>4, <2>5 DEF NoMoreOf
    <3> QED BY <2>3, <3>1, NoMoreIsFew
  <2>6. CASE token[k].session = s
    <3>1. /\ LiveOf(s) \in SUBSET Tokens /\ RotatingOf(s) \in SUBSET Tabs
          /\ LiveOf(s)' \in SUBSET Tokens /\ RotatingOf(s)' \in SUBSET Tabs
      BY DEF LiveOf, RotatingOf
    <3>2. t \in RotatingOf(s)
      BY <1>11, <2>6 DEF Rotate, RotatingOf
    <3>3. LiveOf(s)' \subseteq LiveOf(s) \union {child}
      BY <2>1 DEF LiveOf
    <3>4. RotatingOf(s)' \subseteq RotatingOf(s) \ {t}
      BY <2>2, <2>4 DEF RotatingOf, At
    <3>5. Cardinality(LiveOf(s)') + Cardinality(RotatingOf(s)')
            <= Cardinality(LiveOf(s)) + Cardinality(RotatingOf(s))
      BY <3>1, <3>2, <3>3, <3>4, Exchanged
    <3>6. /\ Cardinality(LiveOf(s)) \in Nat /\ Cardinality(RotatingOf(s)) \in Nat
          /\ Cardinality(LiveOf(s)') \in Nat /\ Cardinality(RotatingOf(s)') \in Nat
          /\ Cardinality(Tabs) \in Nat
      BY <3>1, Finite
    <3> QED BY <2>3, <3>5, <3>6 DEF FewLive
  <2> QED BY <2>5, <2>6
<1>12. ASSUME NEW t \in Tabs, ExpireSession(t) PROVE FewLive(s)'
  <2>1. UNCHANGED token /\ Answer(t, "denied", None)
    BY <1>12 DEF ExpireSession
  <2>2. /\ \A u \in Tabs \ {t} : tab'[u] = tab[u]
        /\ tab'[t].pc # "rotate"
    BY <2>1, <1>r, AnswerFields
  <2>3. session[s].status = "REVOKED"
    BY <1>12, <1>r, ExpireFields
  <2>4. NoMoreOf(s)
    BY <2>1, <2>2 DEF NoMoreOf
  <2> QED BY <2>3, <2>4, <1>f, NoMoreIsFew
<1>13. ASSUME NEW k \in Tokens, GraceEnds(k) PROVE FewLive(s)'
  <2>1. UNCHANGED <<session, tab>>
    BY <1>13 DEF GraceEnds
  <2>2. NoMoreOf(s)
    BY <1>13, <2>1, <1>r, <1>h, GraceFields DEF NoMoreOf, IsRow
  <2> QED BY <2>1, <2>2, <1>f, NoMoreIsFew
<1>14. ASSUME NEW i \in Sessions, SessionTimeUp(i) PROVE FewLive(s)'
  <2>1. UNCHANGED <<token, tab>>
    BY <1>14 DEF SessionTimeUp
  <2>2. session[s].status = "REVOKED"
    BY <1>14, <1>r, TimeUpFields
  <2>3. NoMoreOf(s)
    BY <2>1 DEF NoMoreOf
  <2> QED BY <2>2, <2>3, <1>f, NoMoreIsFew
<1>15. CASE DisableOrEnableUser \/ UNCHANGED vars
  <2>1. UNCHANGED <<session, token, tab>>
    BY <1>15 DEF DisableOrEnableUser, vars
  <2>2. NoMoreOf(s)
    BY <2>1 DEF NoMoreOf
  <2> QED BY <2>1, <2>2, <1>f, NoMoreIsFew
<1> QED
  BY <1>2, <1>3, <1>4, <1>5, <1>6, <1>7, <1>8, <1>9, <1>10, <1>11, <1>12, <1>13, <1>14,
     <1>15 DEF Next, Account, Refresh

(* What is left of a revoked session are at most the refreshes that had    *)
(* read it open, one of each tab.                                          *)
THEOREM FewTokensOutlive == Spec => []FewLiveAfterClose
<1>1. Init => FewLiveAfterClose
  BY DEF Init, FewLiveAfterClose, NoSession
<1> QED BY <1>1, StepFewLive, TypedHolds, PTL DEF Spec

----------------------------------------------------------------------------
(* While nothing happens that is meant to end a session, the user stays     *)
(* signed in.                                                               *)

(* Rows are taken in their order.                                          *)
InOrder ==
  \A s, r \in Sessions : r < s /\ session[s].status # "none" => session[r].status # "none"

OutOfCalm == {"close", "closeUsed", "expire", "reissue"}

(* Nothing is closed, revoked, over or past its grace period, and nobody   *)
(* is told so; a session is being issued only when there is none.          *)
Quiet ==
  /\ active
  /\ \A s \in Sessions : session[s].status # "none" => Open(s)
  /\ \A k \in Tokens : ~token[k].aged /\ token[k].state # "revoked"
  /\ \A t \in Tabs : tab[t].pc \notin OutOfCalm /\ tab[t].answer \notin {"denied", "refused"}
  /\ \A t \in Tabs : tab[t].pc = "issue" =>
       /\ \A s \in Sessions : session[s].status = "none"
       /\ \A u \in Tabs : tab[u].pc = "issue" => u = t

HoldsToken(u) == tab[u].pc \in Using \/ tab[u].answer = "ok"

(* A token on its way to a tab is live, and nobody else's yet.             *)
OwnAnswer ==
  \A t \in Tabs : tab[t].answer = "ok" =>
    /\ token[tab[t].token].state = "live" /\ store # tab[t].token
    /\ \A u \in Tabs \ {t} : HoldsToken(u) => tab[u].token # tab[t].token

Refreshable ==
  \/ store # None /\ token[store].state = "live"
  \/ \E t \in Tabs : tab[t].answer = "ok" /\ token[tab[t].token].state = "live"

CalmInv ==
  calm => /\ Quiet
          /\ OwnAnswer
          /\ (\E s \in Sessions : session[s].status # "none") => Refreshable

LEMMA StepInOrder == Typed /\ InOrder /\ [Next]_vars => InOrder'
<1> SUFFICES ASSUME Typed, InOrder, [Next]_vars PROVE InOrder'
  OBVIOUS
<1>r. RowsOK
  BY DEF Typed
<1>1. ASSUME \A s \in Sessions : (session'[s].status = "none") <=> (session[s].status = "none")
      PROVE  InOrder'
  BY <1>1 DEF InOrder
<1>2. ASSUME UNCHANGED session PROVE InOrder'
  BY <1>2, <1>1
<1>3. ASSUME NEW t \in Tabs, IssueSession(t) PROVE InOrder'
  <2>1. PICK i \in NewSession :
          /\ i \in Sessions
          /\ session'[i].status = "ACTIVE"
          /\ \A x \in Sessions \ {i} : session'[x] = session[x]
    BY <1>3, IssueFields
  <2>2. \A r \in Sessions : r < i => session[r].status # "none"
    BY DEF NewSession, IsNext
  <2> QED BY <2>1, <2>2 DEF InOrder
<1>4. ASSUME NEW closed, Revoke(closed) PROVE InOrder'
  BY <1>4, <1>1, <1>r, RevokeFields
<1>5. ASSUME NEW t \in Tabs, Rotate(t) PROVE InOrder'
  <2>1. NoneEnds
    BY <1>5, RotateFields
  <2> QED BY <2>1, <1>1 DEF NoneEnds
<1>6. ASSUME NEW t \in Tabs, ExpireSession(t) PROVE InOrder'
  <2> DEFINE e == token[tab[t].token].session
  <2>1. e \in Sessions /\ session[e].status # "none"
    BY <1>6 DEF ExpireSession, At, Typed, TabsOK, Held, Using, IsRow, RowsOK, TokenRow
  <2>2. \A s \in Sessions : s # e => session'[s] = session[s]
    BY <1>6 DEF ExpireSession, RowsOK, Typed
  <2>3. session'[e].status = "EXPIRED"
    BY <1>6, <2>1, <1>r DEF ExpireSession, RowsOK, SessionRow
  <2> QED BY <2>1, <2>2, <2>3, <1>1
<1>7. ASSUME NEW s \in Sessions, SessionTimeUp(s) PROVE InOrder'
  BY <1>7, <1>1, <1>r, TimeUpFields
<1>8. ASSUME NEW t \in Tabs, Account(t) \/ Refresh(t) \/ RequestFails(t) \/ AnswerLost(t)
      PROVE  InOrder'
  BY <1>8, <1>2, <1>3, <1>4, <1>5, <1>6
     DEF Account, Refresh, SignIn, NotReissued, Logout, BeginReset, ChangePassword, BeginRequest,
         VerifyAccessToken, ReadForRefresh, RevokeSession, CloseUsed, Receive, RequestFails,
         AnswerLost
<1>9. ASSUME NEW k \in Tokens, GraceEnds(k) PROVE InOrder'
  BY <1>9, <1>2 DEF GraceEnds
<1>10. CASE DisableOrEnableUser \/ UNCHANGED vars
  BY <1>10, <1>2 DEF DisableOrEnableUser, vars
<1> QED BY <1>7, <1>8, <1>9, <1>10 DEF Next

(* A tab that takes or keeps a token, or drops it, without an answer that  *)
(* brings one.                                                             *)
LEMMA OneTabCalm ==
  ASSUME TabsOK, CalmInv, calm, UNCHANGED <<session, token, active, store>>,
         NEW t \in Tabs, \A u \in Tabs \ {t} : tab'[u] = tab[u],
         tab[t].answer # "ok", tab'[t].answer \in {"none", "conflict"},
         tab'[t].pc \notin OutOfCalm \union {"issue"},
         tab'[t].pc \in Using =>
           tab'[t].token = store \/ (tab[t].pc \in Using /\ tab'[t].token = tab[t].token)
  PROVE  CalmInv'
<1>1. Quiet'
  BY DEF CalmInv, Quiet, Open
<1>2. OwnAnswer'
  <2> SUFFICES ASSUME NEW v \in Tabs, tab'[v].answer = "ok"
               PROVE  /\ token'[tab'[v].token].state = "live" /\ store' # tab'[v].token
                      /\ \A u \in Tabs \ {v} : HoldsToken(u)' => tab'[u].token # tab'[v].token
    BY DEF OwnAnswer, HoldsToken
  <2>1. v # t /\ tab'[v] = tab[v] /\ tab[v].answer = "ok"
    OBVIOUS
  <2>2. /\ token[tab[v].token].state = "live" /\ store # tab[v].token
        /\ \A u \in Tabs \ {v} : HoldsToken(u) => tab[u].token # tab[v].token
    BY <2>1 DEF CalmInv, OwnAnswer
  <2> QED BY <2>1, <2>2 DEF HoldsToken
<1>3. Refreshable => Refreshable'
  BY DEF Refreshable
<1> QED BY <1>1, <1>2, <1>3 DEF CalmInv

LEMMA StepCalm == Typed /\ InOrder /\ CalmInv /\ [Next]_vars => CalmInv'
<1> SUFFICES ASSUME Typed, InOrder, CalmInv, [Next]_vars, calm' PROVE CalmInv'
  BY DEF CalmInv
<1>r. RowsOK /\ TabsOK
  BY DEF Typed
<1>q. calm => Quiet /\ OwnAnswer
  BY DEF CalmInv
<1>h. \A u \in Tabs :
        /\ tab[u] \in TabRow
        /\ (tab[u].answer # "none") <=> (tab[u].pc = "answer")
        /\ HoldsToken(u) => IsRow(token, tab[u].token)
  BY <1>r DEF TabsOK, Held, HoldsToken
<1>s. store # None => IsRow(token, store)
  BY DEF Typed, RestOK
<1>1. ASSUME NEW t \in Tabs, SignIn(t) PROVE CalmInv'
  <2>1. /\ UNCHANGED <<session, token, active, store>> /\ Goes(t, "issue")
        /\ calm /\ NewSession = {1} /\ \A u \in Tabs : tab[u].pc = "idle"
    BY <1>1 DEF SignIn, At
  <2>2. \A s \in Sessions : session[s].status = "none"
    <3>1. 1 \in NewSession
      BY <2>1
    <3>2. 1 \in Sessions /\ session[1].status = "none"
      BY <3>1, NewIsUnused
    <3> QED BY <3>2 DEF InOrder
  <2>3. /\ \A u \in Tabs \ {t} : tab'[u] = tab[u]
        /\ tab'[t].pc = "issue" /\ tab'[t].answer = tab[t].answer
    BY <2>1, <1>r, GoesFields DEF Points
  <2>4. \A u \in Tabs : tab'[u].answer = "none"
    BY <2>1, <2>3, <1>h
  <2>5. Quiet'
    BY <2>1, <2>2, <2>3, <2>4, <1>q DEF Quiet, Open, OutOfCalm
  <2>6. OwnAnswer'
    BY <2>4 DEF OwnAnswer
  <2> QED BY <2>1, <2>2, <2>5, <2>6 DEF CalmInv
<1>2. ASSUME NEW t \in Tabs, IssueSession(t) PROVE CalmInv'
  <2>1. PICK i \in Sessions, k \in Tokens :
          /\ session'[i].status = "ACTIVE" /\ ~session'[i].over
          /\ \A x \in Sessions \ {i} : session'[x] = session[x]
          /\ token'[k].state = "live" /\ token'[k].aged = token[k].aged
          /\ \A x \in Tokens \ {k} : token'[x] = token[x]
          /\ Answer(t, "ok", k)
    BY <1>2, IssueFields
  <2>2. calm /\ UNCHANGED <<active, store>> /\ tab[t].pc \in {"issue", "reissue"}
    BY <1>2 DEF IssueSession, At
  <2>3. Quiet
    BY <2>2, <1>q
  <2>4. tab[t].pc = "issue"
    BY <2>2, <2>3 DEF Quiet, OutOfCalm
  <2>5. \A s \in Sessions : session[s].status = "none"
    BY <2>3, <2>4 DEF Quiet
  <2>6. \A x \in Tokens : token[x].state = "none"
    BY <2>5, <1>r DEF RowsOK, TokenRow
  <2>7. store = None /\ \A u \in Tabs : ~HoldsToken(u)
    BY <2>6, <1>h, <1>s DEF IsRow
  <2>8. /\ \A u \in Tabs \ {t} : tab'[u] = tab[u]
        /\ tab'[t].pc = "answer" /\ tab'[t].token = k /\ tab'[t].answer = "ok"
    BY <2>1, <1>r, AnswerFields
  <2>9. Quiet'
    <3>1. \A s \in Sessions : session'[s].status # "none" => Open(s)'
      BY <2>1, <2>5 DEF Open
    <3>2. \A x \in Tokens : ~token'[x].aged /\ token'[x].state # "revoked"
      BY <2>1, <2>3 DEF Quiet
    <3>3. \A u \in Tabs : tab'[u].pc \notin OutOfCalm /\ tab'[u].answer \notin {"denied", "refused"}
      BY <2>3, <2>8 DEF Quiet, OutOfCalm
    <3>4. \A u \in Tabs : tab'[u].pc # "issue"
      BY <2>3, <2>4, <2>8 DEF Quiet
    <3> QED BY <2>2, <2>3, <3>1, <3>2, <3>3, <3>4 DEF Quiet
  <2>10. OwnAnswer'
    BY <2>1, <2>2, <2>7, <2>8 DEF OwnAnswer, HoldsToken
  <2>11. Refreshable'
    BY <2>1, <2>8 DEF Refreshable
  <2> QED BY <2>9, <2>10, <2>11 DEF CalmInv
<1>3. ASSUME NEW t \in Tabs, BeginReset(t) PROVE CalmInv'
  <2>1. /\ UNCHANGED <<session, token, active, store>> /\ Goes(t, "change")
        /\ calm /\ tab[t].pc = "idle"
    BY <1>3 DEF BeginReset, At
  <2>2. tab[t].answer = "none"
    BY <2>1, <1>h
  <2>3. /\ \A u \in Tabs \ {t} : tab'[u] = tab[u]
        /\ tab'[t].pc = "change" /\ tab'[t].answer = "none"
    BY <2>1, <2>2, <1>r, GoesFields DEF Points
  <2> QED BY <2>1, <2>2, <2>3, <1>r, OneTabCalm DEF OutOfCalm, Using
<1>4. ASSUME NEW t \in Tabs, BeginRequest(t) PROVE CalmInv'
  <2>1. /\ UNCHANGED <<session, token, active, store>>
        /\ tab' = [tab EXCEPT ![t].pc = "used", ![t].token = store]
        /\ calm /\ tab[t].pc = "idle"
    BY <1>4 DEF BeginRequest, At
  <2>2. tab[t].answer = "none"
    BY <2>1, <1>h
  <2>3. /\ \A u \in Tabs \ {t} : tab'[u] = tab[u]
        /\ tab'[t].pc = "used" /\ tab'[t].token = store /\ tab'[t].answer = "none"
    BY <2>1, <2>2, <1>r, TakesFields DEF Points
  <2> QED BY <2>1, <2>2, <2>3, <1>r, OneTabCalm DEF OutOfCalm, Using
<1>5. ASSUME NEW t \in Tabs, VerifyAccessToken(t) PROVE CalmInv'
  <2>1. /\ UNCHANGED <<session, token, active, store>>
        /\ calm /\ tab[t].pc = "used"
    BY <1>5 DEF VerifyAccessToken, At
  <2>2. active /\ tab[t].answer = "none"
    BY <2>1, <1>h, <1>q DEF Quiet
  <2>3. CASE tab' = [tab EXCEPT ![t] = Idle]
    <3>1. /\ \A u \in Tabs \ {t} : tab'[u] = tab[u]
          /\ tab'[t].pc = "idle" /\ tab'[t].answer = "none"
      BY <2>3, <1>r, IdleFields
    <3> QED BY <2>1, <2>2, <3>1, <1>r, OneTabCalm DEF OutOfCalm, Using
  <2>4. ASSUME NEW x \in {"change", "sent"}, Goes(t, x) PROVE CalmInv'
    <3>1. /\ \A u \in Tabs \ {t} : tab'[u] = tab[u]
          /\ tab'[t].pc = x /\ tab'[t].answer = "none" /\ tab'[t].token = tab[t].token
      BY <2>2, <2>4, <1>r, GoesFields DEF Points
    <3> QED BY <2>1, <2>2, <3>1, <1>r, OneTabCalm DEF OutOfCalm, Using
  <2> QED BY <1>5, <2>2, <2>3, <2>4 DEF VerifyAccessToken
<1>6. ASSUME NEW t \in Tabs, ReadForRefresh(t) PROVE CalmInv'
  <2> DEFINE k == tab[t].token
  <2>1. /\ UNCHANGED <<session, token, active, store>>
        /\ calm /\ tab[t].pc = "sent"
    BY <1>6 DEF ReadForRefresh, At
  <2>2. active /\ tab[t].answer = "none" /\ IsRow(token, k)
    BY <2>1, <1>h, <1>q DEF Quiet, HoldsToken, Using
  <2>3. /\ Open(token[k].session)
        /\ ~token[k].aged /\ token[k].state # "revoked"
    BY <2>1, <2>2, <1>r, <1>q DEF Quiet, IsRow, RowsOK, TokenRow
  <2>4. CASE Answer(t, "conflict", None)
    <3>1. /\ \A u \in Tabs \ {t} : tab'[u] = tab[u]
          /\ tab'[t].pc = "answer" /\ tab'[t].answer = "conflict"
      BY <2>4, <1>r, AnswerFields
    <3> QED BY <2>1, <2>2, <3>1, <1>r, OneTabCalm DEF OutOfCalm, Using
  <2>5. CASE Goes(t, "rotate")
    <3>1. /\ \A u \in Tabs \ {t} : tab'[u] = tab[u]
          /\ tab'[t].pc = "rotate" /\ tab'[t].answer = "none" /\ tab'[t].token = tab[t].token
      BY <2>2, <2>5, <1>r, GoesFields DEF Points
    <3> QED BY <2>1, <2>2, <3>1, <1>r, OneTabCalm DEF OutOfCalm, Using
  <2> QED BY <1>6, <2>2, <2>3, <2>4, <2>5 DEF ReadForRefresh, SessionIsClosed, IsRecentRefreshRotation
<1>7. ASSUME NEW t \in Tabs, Rotate(t) PROVE CalmInv'
  <2> DEFINE k == tab[t].token
  <2>1. PICK child \in Tokens :
           /\ token[child].state = "none" /\ IsRow(token, k) /\ k # child
           /\ token'[k].state = "rotated" /\ ~token'[k].aged
           /\ token'[child].state = "live" /\ ~token'[child].aged
           /\ \A x \in Tokens \ {k, child} : token'[x] = token[x]
           /\ NoneEnds
           /\ Answer(t, "ok", child)
    BY <1>7, RotateFields
  <2>2. calm /\ UNCHANGED <<active, store>> /\ tab[t].pc = "rotate"
    BY <1>7 DEF Rotate, At
  <2>3. Quiet /\ OwnAnswer
    BY <2>2, <1>q
  <2>4. /\ \A u \in Tabs \ {t} : tab'[u] = tab[u]
        /\ tab'[t].pc = "answer" /\ tab'[t].token = child /\ tab'[t].answer = "ok"
    BY <2>1, <1>r, AnswerFields
  <2>5. Quiet'
    <3>1. \A s \in Sessions : session'[s].status # "none" => Open(s)'
      BY <2>1, <2>3 DEF Quiet, Open, NoneEnds
    <3>2. \A x \in Tokens : ~token'[x].aged /\ token'[x].state # "revoked"
      BY <2>1, <2>3 DEF Quiet
    <3>3. \A u \in Tabs : tab'[u].pc \notin OutOfCalm /\ tab'[u].answer \notin {"denied", "refused"}
      BY <2>3, <2>4 DEF Quiet, OutOfCalm
    <3>4. \A u \in Tabs : tab'[u].pc = "issue" =>
            /\ \A s \in Sessions : session'[s].status = "none"
            /\ \A v \in Tabs : tab'[v].pc = "issue" => v = u
      BY <2>1, <2>3, <2>4 DEF Quiet, NoneEnds
    <3> QED BY <2>2, <2>3, <3>1, <3>2, <3>3, <3>4 DEF Quiet
  <2>6. OwnAnswer'
    <3> SUFFICES ASSUME NEW v \in Tabs, tab'[v].answer = "ok"
                 PROVE  /\ token'[tab'[v].token].state = "live" /\ store' # tab'[v].token
                        /\ \A u \in Tabs \ {v} : HoldsToken(u)' => tab'[u].token # tab'[v].token
      BY DEF OwnAnswer, HoldsToken
    <3>1. HoldsToken(t)
      BY <2>2 DEF HoldsToken, Using
    <3>2. CASE v = t
      <4>1. store # child /\ \A u \in Tabs : HoldsToken(u) => tab[u].token # child
        BY <2>1, <1>h, <1>s DEF IsRow
      <4> QED BY <2>1, <2>2, <2>4, <3>2, <4>1 DEF HoldsToken
    <3>3. CASE v # t
      <4>1. tab'[v] = tab[v] /\ HoldsToken(v)
        BY <2>4, <3>3 DEF HoldsToken
      <4>2. /\ token[tab[v].token].state = "live" /\ store # tab[v].token
            /\ \A u \in Tabs \ {v} : HoldsToken(u) => tab[u].token # tab[v].token
        BY <2>3, <4>1 DEF OwnAnswer
      <4>3. tab[v].token # k /\ tab[v].token # child /\ tab[v].token \in Tokens
        BY <2>1, <3>1, <3>3, <4>1, <4>2, <1>h DEF IsRow
      <4> QED BY <2>1, <2>2, <2>4, <4>1, <4>2, <4>3 DEF HoldsToken
    <3> QED BY <3>2, <3>3
  <2>7. Refreshable'
    BY <2>1, <2>4 DEF Refreshable
  <2> QED BY <2>5, <2>6, <2>7 DEF CalmInv
<1>8. ASSUME NEW t \in Tabs, Receive(t) PROVE CalmInv'
  <2>1. /\ UNCHANGED <<session, token, active>> /\ tab' = [tab EXCEPT ![t] = Idle]
        /\ calm /\ tab[t].pc = "answer" /\ store' = Stored(t)
    BY <1>8 DEF Receive, At
  <2>2. Quiet /\ OwnAnswer
    BY <2>1, <1>q
  <2>3. /\ \A u \in Tabs \ {t} : tab'[u] = tab[u]
        /\ tab'[t].pc = "idle" /\ tab'[t].answer = "none"
    BY <2>1, <1>r, IdleFields
  <2>4. tab[t].answer \in {"ok", "conflict"}
    BY <2>1, <2>2, <1>h DEF Quiet, TabRow, Answers
  <2>5. Quiet'
    BY <2>1, <2>2, <2>3 DEF Quiet, Open, OutOfCalm
  <2>6. CASE tab[t].answer = "ok"
    <3>1. store' = tab[t].token /\ token[tab[t].token].state = "live" /\ IsRow(token, tab[t].token)
      BY <2>1, <2>2, <2>6, <1>h DEF Stored, OwnAnswer, HoldsToken
    <3>2. OwnAnswer'
      <4> SUFFICES ASSUME NEW v \in Tabs, tab'[v].answer = "ok"
                   PROVE  /\ token'[tab'[v].token].state = "live" /\ store' # tab'[v].token
                          /\ \A u \in Tabs \ {v} : HoldsToken(u)' => tab'[u].token # tab'[v].token
        BY DEF OwnAnswer, HoldsToken
      <4>1. v # t /\ tab'[v] = tab[v] /\ HoldsToken(t)
        BY <2>3, <2>6 DEF HoldsToken
      <4>2. /\ token[tab[v].token].state = "live" /\ tab[t].token # tab[v].token
            /\ \A u \in Tabs \ {v} : HoldsToken(u) => tab[u].token # tab[v].token
        BY <2>2, <4>1 DEF OwnAnswer
      <4> QED BY <2>1, <2>3, <3>1, <4>1, <4>2 DEF HoldsToken, Using
    <3>3. Refreshable'
      BY <2>1, <3>1 DEF Refreshable, IsRow
    <3> QED BY <2>5, <3>2, <3>3 DEF CalmInv
  <2>7. CASE tab[t].answer = "conflict"
    <3>1. UNCHANGED store
      BY <2>1, <2>7 DEF Stored
    <3> QED BY <2>1, <2>3, <2>7, <3>1, <1>r, OneTabCalm DEF OutOfCalm, Using
  <2> QED BY <2>4, <2>6, <2>7
<1>9. ASSUME NEW t \in Tabs, NotReissued(t) \/ Logout(t) \/ ChangePassword(t) \/ RevokeSession(t)
             \/ CloseUsed(t) \/ ExpireSession(t) \/ RequestFails(t) \/ AnswerLost(t)
      PROVE  CalmInv'
  <2>1. calm /\ tab[t].pc \in OutOfCalm
    BY <1>9 DEF NotReissued, Logout, ChangePassword, RevokeSession, CloseUsed, ExpireSession,
                RequestFails, AnswerLost, OutOfCalm, At
  <2> QED BY <2>1, <1>q DEF Quiet
<1>10. ASSUME NEW k \in Tokens, GraceEnds(k) PROVE CalmInv'
  BY <1>10 DEF GraceEnds
<1>11. ASSUME NEW s \in Sessions, SessionTimeUp(s) PROVE CalmInv'
  BY <1>11 DEF SessionTimeUp
<1>12. CASE DisableOrEnableUser
  BY <1>12 DEF DisableOrEnableUser
<1>13. CASE UNCHANGED vars
  BY <1>13 DEF vars, CalmInv, Quiet, Open, OwnAnswer, HoldsToken, Refreshable
<1> QED
  BY <1>1, <1>2, <1>3, <1>4, <1>5, <1>6, <1>7, <1>8, <1>9, <1>10, <1>11, <1>12, <1>13
     DEF Next, Account, Refresh

(* Refreshing at the same time in any number of tabs never signs the user  *)
(* out.                                                                    *)
THEOREM RefreshesKeepSession == Spec => []SignedInStaysIn
<1>1. Init => InOrder /\ CalmInv
  <2> SUFFICES ASSUME Init PROVE InOrder /\ CalmInv
    OBVIOUS
  <2>1. /\ \A s \in Sessions : session[s].status = "none"
        /\ \A k \in Tokens : ~token[k].aged /\ token[k].state = "none"
        /\ \A t \in Tabs : tab[t].pc = "idle" /\ tab[t].answer = "none"
        /\ active
    BY DEF Init, NoSession, NoToken, Idle
  <2> QED BY <2>1 DEF InOrder, CalmInv, Quiet, OwnAnswer, OutOfCalm
<1>2. CalmInv => SignedInStaysIn
  BY DEF CalmInv, SignedInStaysIn, Quiet, Refreshable
<1> QED BY <1>1, <1>2, StepInOrder, StepCalm, TypedHolds, PTL DEF Spec

----------------------------------------------------------------------------
HIDE AuthAssumption DEF None, Sessions, Tokens
USE MembersAssumption

----------------------------------------------------------------------------
(* Members.  What a request decided on holds of the rows it has seen; when  *)
(* nothing changed since, those are the rows it writes, and every write     *)
(* leaves each member sound and one of them the owner.  Otherwise a write   *)
(* lays at most one claim to the ownership more than there were, and leaves *)
(* a member at most one pending invitation of each request.                 *)

Working == [kind : Kinds, actor : Users, user : Users, role : Roles, inv : Nat,
            seen : Rows \X Seq(Invitations) \X Rows,
            at : {"decided", "found", "writing"}, sees : Nat]

Creators == {"resend", "reset"}

There(row) == row.status # "absent" /\ ~row.deleted
Owning(row) == There(row) /\ row.role = "OWNER"

\* What a request of each kind found when it read the rows, and what it has
\* found of the invitations since.
Guarded(q) ==
  /\ q.kind = "invite" => q.seen[1].status = "absent" /\ q.role # "OWNER"
  /\ q.kind = "resend" => /\ There(q.seen[1]) /\ ~Owning(q.seen[1]) /\ q.seen[1].status # "ACTIVE"
                          /\ ~(q.seen[1].status = "DISABLED" /\ q.seen[1].password)
                          /\ q.role = q.seen[1].role
  /\ q.kind = "role" => There(q.seen[1]) /\ ~Owning(q.seen[1]) /\ q.role # "OWNER"
  /\ q.kind = "transfer" => /\ q.actor # q.user /\ q.role = "OWNER"
                            /\ There(q.seen[1]) /\ q.seen[1].status = "ACTIVE"
                            /\ Owning(q.seen[3]) /\ q.seen[3].status = "ACTIVE"
  /\ q.kind = "remove" => There(q.seen[1]) /\ ~Owning(q.seen[1])
  /\ q.kind = "enable" => There(q.seen[1]) /\ q.seen[1].password /\ q.seen[1].status # "ACTIVE"
  /\ q.kind = "disable" => There(q.seen[1]) /\ ~Owning(q.seen[1])
  /\ q.kind = "accept" => /\ There(q.seen[1]) /\ q.inv \in DOMAIN q.seen[2]
                          /\ Pending(q.seen[2][q.inv]) /\ q.role = q.seen[2][q.inv].role
  /\ q.kind = "google" => /\ There(q.seen[1]) /\ q.seen[1].status # "DISABLED"
                          /\ q.inv \in DOMAIN q.seen[2] => Pending(q.seen[2][q.inv])
  /\ q.kind = "reset" => Owning(q.seen[1]) /\ q.role = "OWNER"
  /\ q.at = "writing" => Len(q.seen[2]) <= q.sees

\* Invitations are added, and none becomes pending again.
Later(old, new) ==
  /\ Len(old) <= Len(new)
  /\ \A k \in DOMAIN old : Pending(new[k]) => Pending(old[k])

\* A member whose rows belong together.
Sound(row, is) ==
  /\ \A i \in DOMAIN is :
       /\ is[i].accepts + (IF is[i].revoked THEN 1 ELSE 0) <= 1
       /\ Pending(is[i]) => row.status = "INVITED" /\ is[i].role = row.role
  /\ \A i, j \in DOMAIN is : Pending(is[i]) /\ Pending(is[j]) => i = j
  /\ row.status = "INVITED" => ~row.password

RowsTyped ==
  /\ user \in [Users -> Rows] /\ inv \in [Users -> Seq(Invitations)]
  /\ \A u \in Users : user[u].status = "absent" => inv[u] = <<>>
  /\ stale \in Nat /\ unchecked \in Nat /\ served \in 0..MaxRequests

\* Of a request in flight.
WorkTyped(q) ==
  /\ q \in Working /\ Guarded(q)
  /\ q.kind # "invite" => user[q.user].status # "absent"
  /\ q.kind = "accept" => q.inv \in DOMAIN inv[q.user]
  /\ Later(q.seen[2], inv[q.user])

WorksTyped ==
  /\ req \in [Requests -> Working \union {NoRequest}]
  /\ \A r \in Requests : req[r] = NoRequest \/ WorkTyped(req[r])

SeatsCounted == Used + Cardinality(Checked) <= Seats + Cardinality(Requests) - 1 + unchecked

MembersSound ==
  stale = 0 => /\ \E o \in Users :
                    /\ Owners = {o} /\ user[o].status # "DISABLED"
                    /\ user[o].status = "INVITED" => Reclaimable(o)
               /\ \A u \in Users : Sound(user[u], inv[u])

\* The pending invitations of a member are of different requests, and one
\* that revokes what it sees has seen its own.
Made(u) == \E f \in [Nat -> Requests] :
  /\ \A j, k \in PendingOf(u) : f[j] = f[k] => j = k
  /\ \A k \in PendingOf(u) : \A r \in Requests :
       f[k] = r /\ req[r].kind \in Creators /\ req[r].at = "writing" /\ req[r].user = u
         => k <= req[r].sees

\* What makes a member the owner, now or when an invitation is accepted: the
\* row, unless it waits for such an invitation, and each of the invitations.
OwnerPending(i) == Pending(i) /\ i.role = "OWNER"
Waiting(row, is) ==
  row.status = "INVITED" /\ ~row.password /\ \E j \in DOMAIN is : OwnerPending(is[j])
Claim(row, is, k) ==
  \/ k \in DOMAIN is /\ OwnerPending(is[k])
  \/ k = 0 /\ Owning(row) /\ ~Waiting(row, is)

Claims == {c \in Users \X Nat : Claim(user[c[1]], inv[c[1]], c[2])}

ClaimsBounded == IsFiniteSet(Claims) /\ Cardinality(Claims) <= 1 + stale

MembersInv ==
  /\ RowsTyped /\ WorksTyped /\ SeatsCounted /\ MembersSound
  /\ \A u \in Users : Made(u)
  /\ ClaimsBounded

----------------------------------------------------------------------------
(* The invitations of one member.                                           *)

LEMMA RevokedFacts ==
  ASSUME NEW is \in Seq(Invitations), NEW n \in Nat
  PROVE  /\ Revoked(is, n) \in Seq(Invitations) /\ DOMAIN Revoked(is, n) = DOMAIN is
         /\ DOMAIN is = 1..Len(is) /\ Len(is) \in Nat /\ Len(Revoked(is, n)) = Len(is)
         /\ \A k \in DOMAIN is :
              /\ is[k] \in Invitations /\ Revoked(is, n)[k] \in Invitations
              /\ Pending(Revoked(is, n)[k]) => Pending(is[k]) /\ k > n
              /\ Revoked(is, n)[k].accepts = is[k].accepts
              /\ Revoked(is, n)[k].role = is[k].role
              /\ Revoked(is, n)[k] = IF k <= n /\ Pending(is[k])
                                     THEN [is[k] EXCEPT !.revoked = TRUE] ELSE is[k]
<1>1. Len(is) \in Nat /\ DOMAIN is = 1..Len(is) /\ \A k \in DOMAIN is : is[k] \in Invitations
  OBVIOUS
<1>2. DOMAIN Revoked(is, n) = DOMAIN is
  BY DEF Revoked
<1>3. ASSUME NEW k \in DOMAIN is
      PROVE  /\ Revoked(is, n)[k] \in Invitations
             /\ Pending(Revoked(is, n)[k]) => Pending(is[k]) /\ k > n
             /\ Revoked(is, n)[k].accepts = is[k].accepts
             /\ Revoked(is, n)[k].role = is[k].role
             /\ Revoked(is, n)[k] = IF k <= n /\ Pending(is[k])
                                    THEN [is[k] EXCEPT !.revoked = TRUE] ELSE is[k]
  <2>1. is[k] \in Invitations /\ k \in Nat
    BY <1>1
  <2>2. Revoked(is, n)[k] = IF k <= n /\ Pending(is[k]) THEN [is[k] EXCEPT !.revoked = TRUE] ELSE is[k]
    BY DEF Revoked
  <2>3. CASE k <= n /\ Pending(is[k])
    BY <2>1, <2>2, <2>3 DEF Invitations, Pending
  <2>4. CASE ~(k <= n /\ Pending(is[k]))
    BY <2>1, <2>2, <2>4
  <2> QED BY <2>2, <2>3, <2>4
<1>4. Revoked(is, n) \in [1..Len(is) -> Invitations]
  BY <1>1, <1>2, <1>3 DEF Revoked
<1>5. Revoked(is, n) \in Seq(Invitations) /\ Len(Revoked(is, n)) = Len(is)
  BY <1>1, <1>4
<1> QED BY <1>1, <1>2, <1>3, <1>5

LEMMA AcceptedOne ==
  ASSUME NEW is \in Seq(Invitations), NEW i \in Nat, NEW n \in Nat
  PROVE  /\ DOMAIN Accepted(is, i, n) = DOMAIN is
         /\ \A k \in DOMAIN is : k # i => Accepted(is, i, n)[k] = Revoked(is, n)[k]
         /\ i \in DOMAIN is => Accepted(is, i, n)[i] = [is[i] EXCEPT !.accepts = is[i].accepts + 1]
BY DEF Accepted

LEMMA AcceptedFacts ==
  ASSUME NEW is \in Seq(Invitations), NEW i \in Nat, NEW n \in Nat
  PROVE  /\ Accepted(is, i, n) \in Seq(Invitations) /\ DOMAIN Accepted(is, i, n) = DOMAIN is
         /\ Len(Accepted(is, i, n)) = Len(is)
         /\ \A k \in DOMAIN is :
              /\ Pending(Accepted(is, i, n)[k]) => Pending(is[k]) /\ k > n /\ k # i
              /\ Accepted(is, i, n)[k].role = is[k].role
<1>1. /\ DOMAIN is = 1..Len(is) /\ Len(is) \in Nat
      /\ \A k \in DOMAIN is :
           /\ is[k] \in Invitations /\ Revoked(is, n)[k] \in Invitations
           /\ Pending(Revoked(is, n)[k]) => Pending(is[k]) /\ k > n
           /\ Revoked(is, n)[k].role = is[k].role
  <2>1. DOMAIN is = 1..Len(is) /\ Len(is) \in Nat
    OBVIOUS
  <2>2. \A k \in DOMAIN is :
          /\ is[k] \in Invitations /\ Revoked(is, n)[k] \in Invitations
          /\ Pending(Revoked(is, n)[k]) => Pending(is[k]) /\ k > n
          /\ Revoked(is, n)[k].role = is[k].role
    BY RevokedFacts, Zenon
  <2> QED BY <2>1, <2>2
<1>2. DOMAIN Accepted(is, i, n) = DOMAIN is
  BY DEF Accepted
<1>3. \A k \in DOMAIN is : k # i => Accepted(is, i, n)[k] = Revoked(is, n)[k]
  BY DEF Accepted
<1>4. ASSUME i \in DOMAIN is
      PROVE  /\ Accepted(is, i, n)[i] = [is[i] EXCEPT !.accepts = is[i].accepts + 1]
             /\ Accepted(is, i, n)[i] \in Invitations /\ ~Pending(Accepted(is, i, n)[i])
             /\ Accepted(is, i, n)[i].role = is[i].role
  <2>1. Accepted(is, i, n)[i] = [is[i] EXCEPT !.accepts = is[i].accepts + 1]
    BY <1>4 DEF Accepted
  <2>2. is[i] \in Invitations
    BY <1>1, <1>4
  <2> DEFINE j == Accepted(is, i, n)[i]
  <2>3. j.accepts = is[i].accepts + 1 /\ j.role = is[i].role /\ is[i].accepts + 1 \in Nat \ {0}
    BY <2>1, <2>2 DEF Invitations
  <2>4. j \in Invitations
    <3>1. ASSUME NEW x \in Invitations, NEW a \in Nat
          PROVE  [x EXCEPT !.accepts = a] \in Invitations
      BY DEF Invitations
    <3> QED BY <2>1, <2>2, <2>3, <3>1
  <2> QED BY <2>1, <2>3, <2>4 DEF Pending
<1>5. Accepted(is, i, n) \in [1..Len(is) -> Invitations]
  <2>1. \A k \in DOMAIN is : Accepted(is, i, n)[k] \in Invitations
    BY <1>1, <1>3, <1>4
  <2> QED BY <1>1, <1>2, <2>1 DEF Accepted
<1>6. Accepted(is, i, n) \in Seq(Invitations) /\ Len(Accepted(is, i, n)) = Len(is)
  BY <1>1, <1>5
<1>7. \A k \in DOMAIN is :
        /\ Pending(Accepted(is, i, n)[k]) => Pending(is[k]) /\ k > n /\ k # i
        /\ Accepted(is, i, n)[k].role = is[k].role
  BY <1>1, <1>3, <1>4
<1> QED BY <1>1, <1>2, <1>6, <1>7

LEMMA WithRoleFacts ==
  ASSUME NEW is \in Seq(Invitations), NEW role \in Roles, NEW n \in Nat
  PROVE  /\ WithRole(is, role, n) \in Seq(Invitations) /\ DOMAIN WithRole(is, role, n) = DOMAIN is
         /\ Len(WithRole(is, role, n)) = Len(is)
         /\ \A k \in DOMAIN is :
              /\ Pending(WithRole(is, role, n)[k]) <=> Pending(is[k])
              /\ Pending(is[k]) /\ k <= n => WithRole(is, role, n)[k].role = role
              /\ WithRole(is, role, n)[k].role \in {role, is[k].role}
              /\ WithRole(is, role, n)[k].accepts = is[k].accepts
              /\ WithRole(is, role, n)[k].revoked = is[k].revoked
<1>1. Len(is) \in Nat /\ DOMAIN is = 1..Len(is) /\ \A k \in DOMAIN is : is[k] \in Invitations
  OBVIOUS
<1>2. DOMAIN WithRole(is, role, n) = DOMAIN is
  BY DEF WithRole
<1>3. ASSUME NEW k \in DOMAIN is
      PROVE  /\ Pending(WithRole(is, role, n)[k]) <=> Pending(is[k])
             /\ Pending(is[k]) /\ k <= n => WithRole(is, role, n)[k].role = role
             /\ WithRole(is, role, n)[k].role \in {role, is[k].role}
             /\ WithRole(is, role, n)[k].accepts = is[k].accepts
             /\ WithRole(is, role, n)[k].revoked = is[k].revoked
             /\ WithRole(is, role, n)[k] \in Invitations
  <2>1. is[k] \in Invitations
    BY <1>1
  <2>2. WithRole(is, role, n)[k] = IF k <= n /\ Pending(is[k]) THEN [is[k] EXCEPT !.role = role] ELSE is[k]
    BY DEF WithRole
  <2>3. CASE k <= n /\ Pending(is[k])
    BY <2>1, <2>2, <2>3 DEF Invitations, Pending
  <2>4. CASE ~(k <= n /\ Pending(is[k]))
    BY <2>1, <2>2, <2>4
  <2> QED BY <2>3, <2>4
<1>4. WithRole(is, role, n) \in [1..Len(is) -> Invitations]
  BY <1>1, <1>2, <1>3 DEF WithRole
<1>5. WithRole(is, role, n) \in Seq(Invitations) /\ Len(WithRole(is, role, n)) = Len(is)
  BY <1>1, <1>4
<1> QED BY <1>2, <1>3, <1>5

(* A new invitation after the others that were found are revoked.          *)
LEMMA RenewedFacts ==
  ASSUME NEW is \in Seq(Invitations), NEW role \in Roles, NEW n \in Nat
  PROVE  LET js == Append(Revoked(is, n), NewInvitation(role)) IN
         /\ js \in Seq(Invitations) /\ DOMAIN js = 1..(Len(is) + 1) /\ Len(is) \in Nat
         /\ Len(js) = Len(is) + 1
         /\ \A k \in 1..Len(is) : js[k] = Revoked(is, n)[k]
         /\ js[Len(is) + 1] = NewInvitation(role) /\ Pending(js[Len(is) + 1])
<1>1. NewInvitation(role) \in Invitations /\ Pending(NewInvitation(role))
  BY DEF NewInvitation, Invitations, Pending
<1>2. /\ Revoked(is, n) \in Seq(Invitations) /\ Len(Revoked(is, n)) = Len(is) /\ Len(is) \in Nat
  BY RevokedFacts
<1> QED BY <1>1, <1>2

----------------------------------------------------------------------------
(* What one transaction writes.                                             *)

LEMMA RowFacts ==
  ASSUME NEW q \in Working, user \in [Users -> Rows]
  PROVE  /\ Row(q) \in Rows /\ user[q.user] \in Rows
         /\ Row(q).status = "absent" => user[q.user].status = "absent"
<1> DEFINE row == user[q.user]
<1>1. q.kind \in Kinds /\ q.role \in Roles /\ row \in Rows
  BY DEF Working
<1>2. CASE q.kind = "invite"
  BY <1>1, <1>2 DEF Row, Rows, Statuses
<1>3. CASE q.kind = "resend"
  <2>1. Row(q) = IF q.seen[1].status = "DISABLED" THEN [row EXCEPT !.status = "INVITED"] ELSE row
    BY <1>3 DEF Row
  <2> QED BY <1>1, <2>1 DEF Rows, Statuses
<1>4. CASE q.kind \in {"role", "transfer"}
  <2>1. Row(q) = [row EXCEPT !.role = q.role]
    BY <1>4 DEF Row
  <2> QED BY <1>1, <2>1 DEF Rows, Statuses
<1>5. CASE q.kind = "remove"
  <2>1. Row(q) = [row EXCEPT !.status = "DISABLED", !.deleted = TRUE, !.password = FALSE]
    BY <1>5 DEF Row
  <2> QED BY <1>1, <2>1 DEF Rows, Statuses
<1>6. CASE q.kind \in {"enable", "google"}
  <2>1. Row(q) = [row EXCEPT !.status = "ACTIVE"]
    BY <1>6 DEF Row
  <2> QED BY <1>1, <2>1 DEF Rows, Statuses
<1>7. CASE q.kind = "disable"
  <2>1. Row(q) = [row EXCEPT !.status = "DISABLED"]
    BY <1>7 DEF Row
  <2> QED BY <1>1, <2>1 DEF Rows, Statuses
<1>8. CASE q.kind = "accept"
  <2>1. Row(q) = [row EXCEPT !.role = q.role, !.status = "ACTIVE", !.password = TRUE]
    BY <1>8 DEF Row
  <2> QED BY <1>1, <2>1 DEF Rows, Statuses
<1>9. CASE q.kind = "reset"
  <2>1. Row(q) = [row EXCEPT !.status = "INVITED", !.password = FALSE]
    BY <1>9 DEF Row
  <2> QED BY <1>1, <2>1 DEF Rows, Statuses
<1> QED BY <1>1, <1>2, <1>3, <1>4, <1>5, <1>6, <1>7, <1>8, <1>9 DEF Kinds

\* Invitations are added, not lost; the pending ones are pending already, or
\* the one added; and a request that revokes keeps only those it did not see.
Kept(q, is, js) == \A k \in DOMAIN js : Pending(js[k]) =>
  \/ /\ k \in DOMAIN is /\ Pending(is[k]) /\ js[k].role \in {is[k].role, q.role}
     /\ q.kind # "role" => js[k].role = is[k].role
     /\ q.kind = "role" /\ k <= q.sees => js[k].role = q.role
     /\ Rewrites(q) /\ q.kind # "role" => k > q.sees
  \/ /\ q.kind \in Creators \union {"invite"} /\ k = Len(is) + 1
     /\ js[k] = NewInvitation(q.role)

LEMMA AfterFacts ==
  ASSUME NEW q \in Working, inv \in [Users -> Seq(Invitations)],
         q.kind = "invite" => inv[q.user] = <<>>
  PROVE  /\ InvitationsAfter(q) \in Seq(Invitations)
         /\ Later(inv[q.user], InvitationsAfter(q))
         /\ Kept(q, inv[q.user], InvitationsAfter(q))
<1> DEFINE is == inv[q.user]
           js == InvitationsAfter(q)
           n == q.sees
<1>1. /\ q.kind \in Kinds /\ q.role \in Roles /\ is \in Seq(Invitations) /\ q.inv \in Nat /\ n \in Nat
      /\ DOMAIN is = 1..Len(is) /\ Len(is) \in Nat
  <2>1. q.user \in Users /\ q.kind \in Kinds /\ q.role \in Roles /\ q.inv \in Nat /\ q.sees \in Nat
    BY DEF Working
  <2>2. is \in Seq(Invitations)
    BY <2>1
  <2> QED BY <2>1, <2>2
<1>2. CASE q.kind = "invite"
  <2>1. js = <<NewInvitation(q.role)>> /\ NewInvitation(q.role) \in Invitations /\ is = <<>>
    BY <1>1, <1>2 DEF InvitationsAfter, Accepts, NewInvitation, Invitations
  <2>2. \A k \in DOMAIN js : k = 1 /\ js[k] = NewInvitation(q.role)
    BY <2>1
  <2>3. Len(is) = 0 /\ DOMAIN is = {} /\ Len(js) = 1 /\ js \in Seq(Invitations)
    BY <2>1
  <2>4. Later(is, js) /\ Kept(q, is, js)
    <3> HIDE DEF is, js
    <3> QED BY <1>2, <2>2, <2>3 DEF Later, Kept
  <2> QED BY <2>3, <2>4
<1>3. CASE q.kind \in {"resend", "reset"}
  <2>1. js = Append(Revoked(is, n), NewInvitation(q.role))
    BY <1>3 DEF InvitationsAfter, Accepts
  <2>2. /\ js \in Seq(Invitations) /\ DOMAIN js = 1..(Len(is) + 1) /\ Len(js) = Len(is) + 1
        /\ \A k \in 1..Len(is) : js[k] = Revoked(is, n)[k]
        /\ js[Len(is) + 1] = NewInvitation(q.role)
    <3> HIDE DEF is, n
    <3> QED BY <1>1, <2>1, RenewedFacts
  <2>3. \A k \in DOMAIN is :
          /\ Pending(Revoked(is, n)[k]) => Pending(is[k]) /\ k > n
          /\ Revoked(is, n)[k].role = is[k].role
    <3> HIDE DEF is, n
    <3> QED BY <1>1, RevokedFacts, Zenon
  <2>4. \A k \in DOMAIN is : Pending(js[k]) => Pending(is[k]) /\ k > n /\ js[k].role = is[k].role
    BY <1>1, <2>2, <2>3
  <2>5. Later(is, js)
    <3> HIDE DEF is, js
    <3> QED BY <1>1, <2>2, <2>4 DEF Later
  <2>6. Kept(q, is, js)
    <3>1. \A k \in DOMAIN js : k \in DOMAIN is \/ k = Len(is) + 1
      <4> HIDE DEF is, js
      <4> QED BY <1>1, <2>2
    <3> HIDE DEF is, js
    <3> QED BY <1>3, <2>2, <2>4, <3>1 DEF Kept, Creators
  <2> QED BY <2>2, <2>5, <2>6
<1>4. CASE q.kind = "role"
  <2>1. js = WithRole(is, q.role, n)
    BY <1>4 DEF InvitationsAfter, Accepts
  <2>2. /\ js \in Seq(Invitations) /\ DOMAIN js = DOMAIN is /\ Len(js) = Len(is)
        /\ \A k \in DOMAIN is :
              /\ Pending(js[k]) <=> Pending(is[k])
              /\ Pending(is[k]) /\ k <= n => js[k].role = q.role
              /\ js[k].role \in {q.role, is[k].role}
    <3>1. /\ WithRole(is, q.role, n) \in Seq(Invitations) /\ DOMAIN WithRole(is, q.role, n) = DOMAIN is
          /\ Len(WithRole(is, q.role, n)) = Len(is)
          /\ \A k \in DOMAIN is :
               /\ Pending(WithRole(is, q.role, n)[k]) <=> Pending(is[k])
               /\ Pending(is[k]) /\ k <= n => WithRole(is, q.role, n)[k].role = q.role
               /\ WithRole(is, q.role, n)[k].role \in {q.role, is[k].role}
      <4> HIDE DEF is, n
      <4> QED BY <1>1, WithRoleFacts
    <3> HIDE DEF is, n, js
    <3> QED BY <2>1, <3>1
  <2>9. Later(is, js) /\ Kept(q, is, js)
    <3> HIDE DEF is, js
    <3> QED BY <1>1, <1>4, <2>2 DEF Later, Kept
  <2> QED BY <2>2, <2>9
<1>5. CASE q.kind \in {"remove", "disable"}
  <2>1. js = Revoked(is, n)
    BY <1>5 DEF InvitationsAfter, Accepts
  <2>2. /\ js \in Seq(Invitations) /\ DOMAIN js = DOMAIN is /\ Len(js) = Len(is)
        /\ \A k \in DOMAIN is :
             /\ Pending(js[k]) => Pending(is[k]) /\ k > n
             /\ js[k].role = is[k].role
    <3>1. /\ Revoked(is, n) \in Seq(Invitations) /\ DOMAIN Revoked(is, n) = DOMAIN is
          /\ Len(Revoked(is, n)) = Len(is)
          /\ \A k \in DOMAIN is :
               /\ Pending(Revoked(is, n)[k]) => Pending(is[k]) /\ k > n
               /\ Revoked(is, n)[k].role = is[k].role
      <4> HIDE DEF is, n
      <4> QED BY <1>1, RevokedFacts, Zenon
    <3> HIDE DEF is, n, js
    <3> QED BY <2>1, <3>1
  <2>9. Later(is, js) /\ Kept(q, is, js)
    <3> HIDE DEF is, js
    <3> QED BY <1>1, <1>5, <2>2 DEF Later, Kept
  <2> QED BY <2>2, <2>9
<1>6. CASE Accepts(q)
  <2>0. q.kind \in {"accept", "google"}
    BY <1>6 DEF Accepts
  <2>1. js = Accepted(is, q.inv, n)
    BY <1>6, <2>0 DEF InvitationsAfter, Accepts
  <2>2. /\ js \in Seq(Invitations) /\ DOMAIN js = DOMAIN is /\ Len(js) = Len(is)
        /\ \A k \in DOMAIN is :
             /\ Pending(js[k]) => Pending(is[k]) /\ k > n
             /\ js[k].role = is[k].role
    <3>1. /\ Accepted(is, q.inv, n) \in Seq(Invitations) /\ DOMAIN Accepted(is, q.inv, n) = DOMAIN is
          /\ Len(Accepted(is, q.inv, n)) = Len(is)
          /\ \A k \in DOMAIN is :
               /\ Pending(Accepted(is, q.inv, n)[k]) => Pending(is[k]) /\ k > n
               /\ Accepted(is, q.inv, n)[k].role = is[k].role
      <4> HIDE DEF is, n
      <4>1. PICK i \in Nat : i = q.inv
        BY <1>1
      <4>2. /\ Accepted(is, i, n) \in Seq(Invitations) /\ DOMAIN Accepted(is, i, n) = DOMAIN is
            /\ Len(Accepted(is, i, n)) = Len(is)
        BY <1>1, AcceptedFacts
      <4>3. \A k \in DOMAIN is :
               /\ Pending(Accepted(is, i, n)[k]) => Pending(is[k]) /\ k > n /\ k # i
               /\ Accepted(is, i, n)[k].role = is[k].role
        BY <1>1, AcceptedFacts
      <4> QED BY <4>1, <4>2, <4>3
    <3> HIDE DEF is, n, js
    <3> QED BY <2>1, <3>1
  <2>9. Later(is, js) /\ Kept(q, is, js)
    <3> HIDE DEF is, js
    <3> QED BY <1>1, <2>0, <2>2 DEF Later, Kept
  <2> QED BY <2>2, <2>9
<1>7. CASE q.kind \in {"transfer", "enable", "google"} /\ ~Accepts(q)
  <2>1. js = is /\ ~Rewrites(q)
    BY <1>7 DEF InvitationsAfter, Rewrites
  <2>9. Later(is, js) /\ Kept(q, is, js)
    <3> HIDE DEF is, js
    <3> QED BY <1>1, <1>7, <2>1 DEF Later, Kept
  <2> QED BY <1>1, <2>1, <2>9
<1> QED BY <1>1, <1>2, <1>3, <1>4, <1>5, <1>6, <1>7 DEF Kinds, Accepts

(* Each way to rewrite all the invitations of a sound member leaves it sound. *)
LEMMA SoundFacts ==
  ASSUME NEW is \in Seq(Invitations), NEW row \in Rows, Sound(row, is),
         NEW new \in Rows, new.status = "INVITED" => ~new.password, NEW role \in Roles,
         NEW n \in Nat, Len(is) <= n
  PROVE  /\ Sound(new, Revoked(is, n))
         /\ \A i \in DOMAIN is : Pending(is[i]) => Sound(new, Accepted(is, i, n))
         /\ row.status # "INVITED" => Sound(new, is)
         /\ new.role = role /\ new.status = row.status => Sound(new, WithRole(is, role, n))
         /\ new.role = role /\ new.status = "INVITED"
              => Sound(new, Append(Revoked(is, n), NewInvitation(role)))
<1>1. /\ \A k \in DOMAIN is : is[k] \in Invitations /\ k <= n /\ k \in Nat
      /\ Len(is) \in Nat /\ DOMAIN is = 1..Len(is)
  OBVIOUS
<1>2. ASSUME NEW k \in DOMAIN is
      PROVE  /\ is[k].accepts + (IF is[k].revoked THEN 1 ELSE 0) <= 1
             /\ Pending(is[k]) => row.status = "INVITED"
             /\ ~Pending(Revoked(is, n)[k])
             /\ Revoked(is, n)[k].accepts + (IF Revoked(is, n)[k].revoked THEN 1 ELSE 0) <= 1
  <2>1. /\ is[k].accepts + (IF is[k].revoked THEN 1 ELSE 0) <= 1
        /\ Pending(is[k]) => row.status = "INVITED"
    BY DEF Sound
  <2>2. /\ Pending(Revoked(is, n)[k]) => Pending(is[k]) /\ k > n
        /\ Revoked(is, n)[k] = IF k <= n /\ Pending(is[k])
                               THEN [is[k] EXCEPT !.revoked = TRUE] ELSE is[k]
    BY RevokedFacts, Zenon
  <2>3. is[k] \in Invitations /\ k <= n /\ ~(k > n)
    BY <1>1
  <2>4. CASE Pending(is[k])
    <3>1. Revoked(is, n)[k] = [is[k] EXCEPT !.revoked = TRUE] /\ is[k].accepts = 0
      BY <2>2, <2>3, <2>4 DEF Pending
    <3>2. Revoked(is, n)[k].accepts = 0 /\ Revoked(is, n)[k].revoked
      BY <2>3, <3>1 DEF Invitations
    <3> QED BY <2>1, <2>2, <2>3, <3>2
  <2>5. CASE ~Pending(is[k])
    BY <2>1, <2>2, <2>5
  <2> QED BY <2>1, <2>2, <2>4, <2>5
<1>3. Sound(new, Revoked(is, n))
  <2>1. DOMAIN Revoked(is, n) = DOMAIN is
    BY DEF Revoked
  <2> QED BY <1>2, <2>1 DEF Sound
<1>4. ASSUME NEW i \in DOMAIN is, Pending(is[i])
      PROVE  Sound(new, Accepted(is, i, n))
  <2>1. i \in Nat
    BY <1>1
  <2>2. /\ DOMAIN Accepted(is, i, n) = DOMAIN is
        /\ \A k \in DOMAIN is : k # i => Accepted(is, i, n)[k] = Revoked(is, n)[k]
        /\ Accepted(is, i, n)[i] = [is[i] EXCEPT !.accepts = is[i].accepts + 1]
    BY <2>1, AcceptedOne
  <2>3. /\ Accepted(is, i, n)[i].accepts = is[i].accepts + 1
        /\ Accepted(is, i, n)[i].revoked = is[i].revoked
    BY <1>1, <2>2 DEF Invitations
  <2>4. /\ Accepted(is, i, n)[i].accepts + (IF Accepted(is, i, n)[i].revoked THEN 1 ELSE 0) <= 1
        /\ ~Pending(Accepted(is, i, n)[i])
    BY <1>4, <2>3 DEF Pending
  <2>5. ASSUME NEW k \in DOMAIN is
        PROVE  /\ Accepted(is, i, n)[k].accepts + (IF Accepted(is, i, n)[k].revoked THEN 1 ELSE 0) <= 1
               /\ ~Pending(Accepted(is, i, n)[k])
    BY <1>2, <2>2, <2>4
  <2> QED BY <2>2, <2>5 DEF Sound
<1>5. ASSUME row.status # "INVITED"
      PROVE  Sound(new, is)
  BY <1>2, <1>5 DEF Sound
<1>6. ASSUME new.role = role, new.status = row.status
      PROVE  Sound(new, WithRole(is, role, n))
  <2> DEFINE js == WithRole(is, role, n)
  <2>1. /\ DOMAIN js = DOMAIN is
        /\ \A k \in DOMAIN is :
              /\ Pending(js[k]) <=> Pending(is[k])
              /\ Pending(is[k]) => js[k].role = role
              /\ js[k].accepts = is[k].accepts /\ js[k].revoked = is[k].revoked
    BY <1>1, WithRoleFacts
  <2>2. \A i, j \in DOMAIN is : Pending(is[i]) /\ Pending(is[j]) => i = j
    BY DEF Sound
  <2>3. Sound(new, js)
    <3> HIDE DEF js
    <3> QED BY <1>2, <1>6, <2>1, <2>2 DEF Sound
  <2> QED BY <2>3
<1>7. ASSUME new.role = role, new.status = "INVITED"
      PROVE  Sound(new, Append(Revoked(is, n), NewInvitation(role)))
  <2> DEFINE js == Append(Revoked(is, n), NewInvitation(role))
  <2>1. /\ DOMAIN js = 1..(Len(is) + 1) /\ Len(is) \in Nat
        /\ \A k \in 1..Len(is) : js[k] = Revoked(is, n)[k]
        /\ js[Len(is) + 1] = NewInvitation(role)
    BY RenewedFacts
  <2>2. /\ NewInvitation(role).accepts = 0 /\ ~NewInvitation(role).revoked
        /\ NewInvitation(role).role = role
    BY DEF NewInvitation
  <2>3. DOMAIN is = 1..Len(is)
    OBVIOUS
  <2> HIDE DEF js
  <2>8. \A k \in DOMAIN js : k \in DOMAIN is \/ k = Len(is) + 1
    BY <2>1, <2>3
  <2>4. \A k \in DOMAIN js : js[k].accepts + (IF js[k].revoked THEN 1 ELSE 0) <= 1
    <3>1. ASSUME NEW k \in DOMAIN is
          PROVE  js[k].accepts + (IF js[k].revoked THEN 1 ELSE 0) <= 1
      <4>1. js[k] = Revoked(is, n)[k]
        BY <2>1, <2>3
      <4> QED BY <1>2, <4>1
    <3>2. js[Len(is) + 1].accepts + (IF js[Len(is) + 1].revoked THEN 1 ELSE 0) <= 1
      BY <2>1, <2>2
    <3> QED BY <2>8, <3>1, <3>2
  <2>5. \A k \in DOMAIN js : Pending(js[k]) => js[k].role = role /\ k = Len(is) + 1
    <3>1. ASSUME NEW k \in DOMAIN is
          PROVE  ~Pending(js[k])
      <4>1. js[k] = Revoked(is, n)[k]
        BY <2>1, <2>3
      <4> QED BY <1>2, <4>1
    <3>2. js[Len(is) + 1].role = role
      BY <2>1, <2>2
    <3> QED BY <2>8, <3>1, <3>2
  <2>6. Sound(new, js)
    BY <1>7, <2>4, <2>5 DEF Sound
  <2> QED BY <2>6 DEF js
<1> QED BY <1>3, <1>4, <1>5, <1>6, <1>7

(* A transaction that meets the rows the request has read leaves the       *)
(* member it writes sound.                                                 *)
LEMMA WriteIsSound ==
  ASSUME NEW q \in Working, Guarded(q), ~Changed(q), RowsTyped,
         Rewrites(q) => q.at = "writing", Sound(user[q.user], inv[q.user])
  PROVE  Sound(Row(q), InvitationsAfter(q))
<1> DEFINE row == user[q.user]
           is == inv[q.user]
           n == q.sees
<1>1. /\ q.kind \in Kinds /\ q.role \in Roles /\ row \in Rows /\ is \in Seq(Invitations)
      /\ q.seen[1] = row /\ q.seen[2] = is
      /\ Row(q) \in Rows /\ n \in Nat
  BY RowFacts DEF Working, RowsTyped, Changed
<1>2. row.status = "INVITED" => ~row.password
  BY DEF Sound
<1>0. q.kind \in {"resend", "reset", "role", "remove", "disable", "accept"} => Rewrites(q)
  BY DEF Rewrites, Accepts
<1>3. ASSUME Row(q).status = "INVITED" => ~Row(q).password
      PROVE  /\ row.status # "INVITED" => Sound(Row(q), is)
             /\ Rewrites(q) =>
                  /\ Sound(Row(q), Revoked(is, n))
                  /\ \A i \in DOMAIN is : Pending(is[i]) => Sound(Row(q), Accepted(is, i, n))
                  /\ Row(q).role = q.role /\ Row(q).status = row.status
                       => Sound(Row(q), WithRole(is, q.role, n))
                  /\ Row(q).role = q.role /\ Row(q).status = "INVITED"
                       => Sound(Row(q), Append(Revoked(is, n), NewInvitation(q.role)))
  <2>1. Sound(row, is) /\ Len(is) \in Nat
    BY <1>1
  <2>2. row.status # "INVITED" => Sound(Row(q), is)
    <3>1. Len(is) <= Len(is)
      BY <2>1
    <3> QED BY <1>1, <1>3, <2>1, <3>1, SoundFacts, Zenon
  <2>3. ASSUME Rewrites(q)
        PROVE  Len(is) <= n
    BY <1>1, <2>3 DEF Guarded
  <2> QED BY <1>1, <1>3, <2>1, <2>2, <2>3, SoundFacts, Zenon
<1>4. CASE q.kind = "invite"
  <2>1. Row(q).status = "INVITED" /\ ~Row(q).password /\ Row(q).role = q.role
    BY <1>4 DEF Row
  <2>2. InvitationsAfter(q) = <<NewInvitation(q.role)>>
    BY <1>4 DEF InvitationsAfter, Accepts
  <2> QED BY <2>1, <2>2 DEF Sound, NewInvitation, Pending
<1>5. CASE q.kind = "resend"
  <2>1. Row(q) = IF row.status = "DISABLED" THEN [row EXCEPT !.status = "INVITED"] ELSE row
    BY <1>1, <1>5 DEF Row
  <2>2. /\ row.status # "ACTIVE" /\ row.status # "absent" /\ q.role = row.role
        /\ ~(row.status = "DISABLED" /\ row.password)
    BY <1>1, <1>5 DEF Guarded, There
  <2>3. Row(q).status = "INVITED" /\ ~Row(q).password /\ Row(q).role = q.role
    BY <1>1, <1>2, <2>1, <2>2 DEF Rows, Statuses
  <2>4. InvitationsAfter(q) = Append(Revoked(is, n), NewInvitation(q.role))
    BY <1>5 DEF InvitationsAfter, Accepts
  <2> QED BY <1>0, <1>5, <1>3, <2>3, <2>4
<1>6. CASE q.kind = "reset"
  <2>1. Row(q) = [row EXCEPT !.status = "INVITED", !.password = FALSE]
    BY <1>6 DEF Row
  <2>2. row.role = q.role
    BY <1>1, <1>6 DEF Guarded, Owning
  <2>3. Row(q).status = "INVITED" /\ ~Row(q).password /\ Row(q).role = q.role
    BY <1>1, <2>1, <2>2 DEF Rows
  <2>4. InvitationsAfter(q) = Append(Revoked(is, n), NewInvitation(q.role))
    BY <1>6 DEF InvitationsAfter, Accepts
  <2> QED BY <1>0, <1>6, <1>3, <2>3, <2>4
<1>7. CASE q.kind = "role"
  <2>1. Row(q) = [row EXCEPT !.role = q.role]
    BY <1>7 DEF Row
  <2>2. Row(q).role = q.role /\ Row(q).status = row.status /\ Row(q).password = row.password
    BY <1>1, <2>1 DEF Rows
  <2>3. InvitationsAfter(q) = WithRole(is, q.role, n)
    BY <1>7 DEF InvitationsAfter, Accepts
  <2> QED BY <1>0, <1>7, <1>2, <1>3, <2>2, <2>3
<1>8. CASE q.kind = "transfer"
  <2>1. Row(q) = [row EXCEPT !.role = q.role] /\ InvitationsAfter(q) = is
    BY <1>8 DEF Row, InvitationsAfter, Accepts
  <2>2. row.status = "ACTIVE"
    BY <1>1, <1>8 DEF Guarded
  <2>3. Row(q).status = "ACTIVE"
    BY <1>1, <2>1, <2>2 DEF Rows
  <2> QED BY <1>3, <2>1, <2>2, <2>3
<1>9. CASE q.kind = "remove"
  <2>1. Row(q) = [row EXCEPT !.status = "DISABLED", !.deleted = TRUE, !.password = FALSE]
    BY <1>9 DEF Row
  <2>2. Row(q).status = "DISABLED"
    BY <1>1, <2>1 DEF Rows
  <2>3. InvitationsAfter(q) = Revoked(is, n)
    BY <1>9 DEF InvitationsAfter, Accepts
  <2> QED BY <1>0, <1>9, <1>3, <2>2, <2>3
<1>10. CASE q.kind = "disable"
  <2>1. Row(q) = [row EXCEPT !.status = "DISABLED"]
    BY <1>10 DEF Row
  <2>2. Row(q).status = "DISABLED"
    BY <1>1, <2>1 DEF Rows
  <2>3. InvitationsAfter(q) = Revoked(is, n)
    BY <1>10 DEF InvitationsAfter, Accepts
  <2> QED BY <1>0, <1>10, <1>3, <2>2, <2>3
<1>11. CASE q.kind = "enable"
  <2>1. Row(q) = [row EXCEPT !.status = "ACTIVE"] /\ InvitationsAfter(q) = is
    BY <1>11 DEF Row, InvitationsAfter, Accepts
  <2>2. row.status # "INVITED"
    BY <1>1, <1>2, <1>11 DEF Guarded
  <2>3. Row(q).status = "ACTIVE"
    BY <1>1, <2>1 DEF Rows
  <2> QED BY <1>3, <2>1, <2>2, <2>3
<1>12. CASE q.kind = "accept"
  <2>1. Row(q) = [row EXCEPT !.role = q.role, !.status = "ACTIVE", !.password = TRUE]
    BY <1>12 DEF Row
  <2>2. Row(q).status = "ACTIVE"
    BY <1>1, <2>1 DEF Rows
  <2>3. q.inv \in DOMAIN is /\ Pending(is[q.inv])
    BY <1>1, <1>12 DEF Guarded
  <2>4. InvitationsAfter(q) = Accepted(is, q.inv, n)
    BY <1>12 DEF InvitationsAfter, Accepts
  <2> QED BY <1>0, <1>12, <1>3, <2>2, <2>3, <2>4
<1>13. CASE q.kind = "google"
  <2>1. Row(q) = [row EXCEPT !.status = "ACTIVE"]
    BY <1>13 DEF Row
  <2>2. Row(q).status = "ACTIVE"
    BY <1>1, <2>1 DEF Rows
  <2>3. CASE ~Accepts(q)
    <3>1. InvitationsAfter(q) = is /\ row.status # "INVITED"
      BY <1>1, <1>13, <2>3 DEF InvitationsAfter, Accepts
    <3> QED BY <1>3, <2>2, <3>1
  <2>4. CASE Accepts(q) /\ q.inv \in DOMAIN is
    <3>1. InvitationsAfter(q) = Accepted(is, q.inv, n) /\ Rewrites(q)
      BY <1>13, <2>4 DEF InvitationsAfter, Rewrites
    <3>2. Pending(is[q.inv])
      BY <1>1, <1>13, <2>4 DEF Guarded
    <3> QED BY <1>3, <2>2, <2>4, <3>1, <3>2
  <2>5. CASE Accepts(q) /\ q.inv \notin DOMAIN is
    <3>1. InvitationsAfter(q) = Accepted(is, q.inv, n) /\ Rewrites(q)
      BY <1>13, <2>5 DEF InvitationsAfter, Rewrites
    <3>2. Accepted(is, q.inv, n) = Revoked(is, n)
      BY <2>5 DEF Accepted, Revoked
    <3> QED BY <1>3, <2>2, <3>1, <3>2
  <2> QED BY <2>3, <2>4, <2>5
<1> QED BY <1>1, <1>4, <1>5, <1>6, <1>7, <1>8, <1>9, <1>10, <1>11, <1>12, <1>13 DEF Kinds

(* Such a transaction, unless it hands the ownership over, leaves an owner *)
(* an owner who can come back, and makes nobody one.                       *)
LEMMA WriteKeepsOwners ==
  ASSUME NEW q \in Working, Guarded(q), ~Changed(q), RowsTyped, q.kind # "transfer",
         Sound(user[q.user], inv[q.user]),
         Owning(user[q.user]) => user[q.user].status # "DISABLED"
  PROVE  /\ Owning(Row(q)) <=> Owning(user[q.user])
         /\ Owning(Row(q)) => /\ Row(q).status # "DISABLED"
                              /\ \/ Row(q).status # "INVITED"
                                 \/ q.kind = "reset"
<1> DEFINE row == user[q.user]
           is == inv[q.user]
<1>1. /\ q.kind \in Kinds /\ q.role \in Roles /\ row \in Rows /\ is \in Seq(Invitations)
      /\ q.seen[1] = row /\ q.seen[2] = is
  BY RowFacts DEF Working, RowsTyped, Changed
<1>2. row.status = "INVITED" => ~row.password
  BY DEF Sound
<1>3. CASE q.kind = "invite"
  BY <1>1, <1>3 DEF Row, Guarded, Owning, There
<1>4. CASE q.kind = "resend"
  <2>1. Row(q) = IF row.status = "DISABLED" THEN [row EXCEPT !.status = "INVITED"] ELSE row
    BY <1>1, <1>4 DEF Row
  <2>2. There(row) /\ ~Owning(row)
    BY <1>1, <1>4 DEF Guarded
  <2> QED BY <1>1, <2>1, <2>2 DEF Rows, Owning, There
<1>5. CASE q.kind = "reset"
  <2>1. Row(q) = [row EXCEPT !.status = "INVITED", !.password = FALSE]
    BY <1>5 DEF Row
  <2>2. Owning(row)
    BY <1>1, <1>5 DEF Guarded
  <2> QED BY <1>1, <1>5, <2>1, <2>2 DEF Rows, Owning, There
<1>6. CASE q.kind = "role"
  <2>1. Row(q) = [row EXCEPT !.role = q.role]
    BY <1>6 DEF Row
  <2>2. ~Owning(row) /\ q.role # "OWNER"
    BY <1>1, <1>6 DEF Guarded
  <2> QED BY <1>1, <2>1, <2>2 DEF Rows, Owning, There
<1>7. CASE q.kind = "remove"
  <2>1. Row(q) = [row EXCEPT !.status = "DISABLED", !.deleted = TRUE, !.password = FALSE]
    BY <1>7 DEF Row
  <2>2. ~Owning(row)
    BY <1>1, <1>7 DEF Guarded
  <2> QED BY <1>1, <2>1, <2>2 DEF Rows, Owning, There
<1>8. CASE q.kind = "disable"
  <2>1. Row(q) = [row EXCEPT !.status = "DISABLED"]
    BY <1>8 DEF Row
  <2>2. There(row) /\ ~Owning(row)
    BY <1>1, <1>8 DEF Guarded
  <2> QED BY <1>1, <2>1, <2>2 DEF Rows, Owning, There
<1>9. CASE q.kind \in {"enable", "google"}
  <2>1. Row(q) = [row EXCEPT !.status = "ACTIVE"]
    BY <1>9 DEF Row
  <2>2. There(row)
    BY <1>1, <1>9 DEF Guarded
  <2> QED BY <1>1, <2>1, <2>2 DEF Rows, Owning, There
<1>10. CASE q.kind = "accept"
  <2>1. Row(q) = [row EXCEPT !.role = q.role, !.status = "ACTIVE", !.password = TRUE]
    BY <1>10 DEF Row
  <2>2. There(row) /\ q.inv \in DOMAIN is /\ Pending(is[q.inv]) /\ q.role = is[q.inv].role
    BY <1>1, <1>10 DEF Guarded
  <2>3. q.role = row.role
    BY <2>2 DEF Sound
  <2> QED BY <1>1, <2>1, <2>2, <2>3 DEF Rows, Owning, There
<1> QED BY <1>1, <1>3, <1>4, <1>5, <1>6, <1>7, <1>8, <1>9, <1>10 DEF Kinds

----------------------------------------------------------------------------
(* The claims to the ownership that a transaction leaves to its user.       *)

\* The one claim it may add: the invitation of a reset, or else the row.
Added(q) == IF q.kind = "reset" THEN Len(inv[q.user]) + 1 ELSE 0

LEMMA OwnerClaims ==
  ASSUME NEW row, NEW is, Owning(row)
  PROVE  \E k \in DOMAIN is \union {0} : Claim(row, is, k)
BY DEF Claim, Waiting

LEMMA WriteClaims ==
  ASSUME NEW q \in Working, Guarded(q), RowsTyped, q.kind = "invite" => inv[q.user] = <<>>
  PROVE  /\ \A k \in Nat : Claim(Row(q), InvitationsAfter(q), k)
                             => Claim(user[q.user], inv[q.user], k) \/ k = Added(q)
         /\ q.kind = "reset" => ~Claim(Row(q), InvitationsAfter(q), 0)
         /\ \A k \in Nat : k # 0 /\ Claim(Row(q), InvitationsAfter(q), k) /\ Rewrites(q) /\ q.kind # "role"
                             => k > q.sees \/ k = Added(q)
<1> DEFINE row == user[q.user]
           is == inv[q.user]
           js == InvitationsAfter(q)
<1>1. /\ is \in Seq(Invitations) /\ js \in Seq(Invitations) /\ Kept(q, is, js)
      /\ Len(is) \in Nat /\ DOMAIN is = 1..Len(is) /\ q.kind \in Kinds /\ row \in Rows
      /\ DOMAIN js = 1..Len(js) /\ Len(js) \in Nat
  <2>1. q.user \in Users /\ q.kind \in Kinds /\ inv \in [Users -> Seq(Invitations)] /\ user \in [Users -> Rows]
    BY DEF Working, RowsTyped
  <2>2. js \in Seq(Invitations) /\ Kept(q, is, js)
    BY <2>1, AfterFacts
  <2>3. is \in Seq(Invitations) /\ row \in Rows
    BY <2>1
  <2> HIDE DEF is, js
  <2> QED BY <2>1, <2>2, <2>3
<1>2. CASE q.kind = "reset"
  <2>1. js = Append(Revoked(is, q.sees), NewInvitation(q.role)) /\ q.role = "OWNER"
    BY <1>2 DEF InvitationsAfter, Accepts, Guarded
  <2>2. js[Len(is) + 1] = NewInvitation("OWNER") /\ Len(is) + 1 \in DOMAIN js
    <3>1. q.role \in Roles /\ q.sees \in Nat
      BY DEF Working
    <3>2. /\ DOMAIN Append(Revoked(is, q.sees), NewInvitation(q.role)) = 1..(Len(is) + 1)
          /\ Append(Revoked(is, q.sees), NewInvitation(q.role))[Len(is) + 1] = NewInvitation(q.role)
      BY <1>1, <3>1, RenewedFacts
    <3> HIDE DEF is, js
    <3> QED BY <1>1, <2>1, <3>2
  <2>3. OwnerPending(js[Len(is) + 1])
    BY <2>2 DEF OwnerPending, Pending, NewInvitation
  <2>4. Row(q).status = "INVITED" /\ ~Row(q).password
    <3>1. Row(q) = [row EXCEPT !.status = "INVITED", !.password = FALSE]
      BY <1>2 DEF Row
    <3> QED BY <1>1, <3>1 DEF Rows
  <2>5. Waiting(Row(q), js)
    BY <2>2, <2>3, <2>4 DEF Waiting
  <2>6. ASSUME NEW k \in Nat, Claim(Row(q), js, k)
        PROVE  /\ k # 0 /\ (Claim(row, is, k) \/ k = Len(is) + 1)
               /\ k > q.sees \/ k = Len(is) + 1
    <3>1. k \in DOMAIN js /\ OwnerPending(js[k])
      BY <2>5, <2>6 DEF Claim
    <3>2. Rewrites(q)
      BY <1>2 DEF Rewrites
    <3>3. \/ k \in DOMAIN is /\ Pending(is[k]) /\ js[k].role = is[k].role /\ k > q.sees
          \/ k = Len(is) + 1
      <4> HIDE DEF is, js
      <4> QED BY <1>1, <1>2, <3>1, <3>2 DEF Kept, OwnerPending
    <3>4. k # 0
      <4> HIDE DEF is, js
      <4> QED BY <1>1, <3>1
    <3> HIDE DEF is, js
    <3> QED BY <3>1, <3>3, <3>4 DEF Claim, OwnerPending
  <2>7. Added(q) = Len(is) + 1
    BY <1>2 DEF Added
  <2>8. ~Claim(Row(q), js, 0)
    BY <2>6
  <2> QED BY <2>6, <2>7, <2>8
<1>3. CASE q.kind # "reset"
  <2>1. ASSUME NEW k \in Nat \ {0}, Claim(Row(q), js, k)
        PROVE  /\ Claim(row, is, k)
               /\ Rewrites(q) /\ q.kind # "role" => k > q.sees
    <3>1. k \in DOMAIN js /\ OwnerPending(js[k])
      BY <2>1 DEF Claim
    <3>2. q.kind \in {"resend", "invite", "role"} => q.role # "OWNER"
      BY DEF Guarded, Owning
    <3>3. /\ k \in DOMAIN is /\ Pending(is[k]) /\ js[k].role \in {is[k].role, q.role}
          /\ q.kind # "role" => js[k].role = is[k].role
          /\ Rewrites(q) /\ q.kind # "role" => k > q.sees
      <4>1. js[k].role = "OWNER" /\ Pending(js[k])
        BY <3>1 DEF OwnerPending
      <4>2. NewInvitation(q.role).role = q.role
        BY DEF NewInvitation
      <4> HIDE DEF is, js
      <4> QED BY <1>1, <1>3, <3>1, <3>2, <4>1, <4>2 DEF Kept, Creators
    <3>4. is[k].role = "OWNER"
      <4> HIDE DEF is, js
      <4> QED BY <3>1, <3>2, <3>3 DEF OwnerPending
    <3> QED BY <3>3, <3>4 DEF Claim, OwnerPending
  <2>2. Added(q) = 0
    BY <1>3 DEF Added
  <2> HIDE DEF is, js, row
  <2>3. \A k \in Nat : Claim(Row(q), js, k) => Claim(row, is, k) \/ k = Added(q)
    BY <2>1, <2>2
  <2>4. \A k \in Nat : k # 0 /\ Claim(Row(q), js, k) /\ Rewrites(q) /\ q.kind # "role"
                             => k > q.sees \/ k = Added(q)
    BY <2>1, <2>2
  <2> QED BY <1>3, <2>3, <2>4 DEF is, js, row
<1> QED BY <1>2, <1>3

(* A transaction that meets the rows the request has read, and is no       *)
(* transfer, leaves its user no claim more than there was.                 *)
LEMMA CurrentClaims ==
  ASSUME NEW q \in Working, Guarded(q), ~Changed(q), RowsTyped, q.kind # "transfer",
         Rewrites(q) => q.at = "writing"
  PROVE  \/ \A k \in Nat : Claim(Row(q), InvitationsAfter(q), k) => Claim(user[q.user], inv[q.user], k)
         \/ /\ \E y \in Nat : Claim(user[q.user], inv[q.user], y)
            /\ \A k \in Nat : Claim(Row(q), InvitationsAfter(q), k) => k = Added(q)
<1> DEFINE row == user[q.user]
           is == inv[q.user]
           js == InvitationsAfter(q)
<1>1. /\ q.kind \in Kinds /\ q.role \in Roles /\ row \in Rows /\ is \in Seq(Invitations)
      /\ q.seen[1] = row /\ q.seen[2] = is /\ q.sees \in Nat
      /\ Len(is) \in Nat /\ DOMAIN is = 1..Len(is)
  <2>1. /\ q.kind \in Kinds /\ q.role \in Roles /\ row \in Rows /\ is \in Seq(Invitations)
        /\ q.seen[1] = row /\ q.seen[2] = is /\ q.sees \in Nat
    BY RowFacts DEF Working, RowsTyped, Changed
  <2> HIDE DEF is, row
  <2> QED BY <2>1
<1>2. q.kind = "invite" => is = <<>>
  BY <1>1 DEF Guarded, RowsTyped, Working
<1>3. /\ \A k \in Nat : Claim(Row(q), js, k) => Claim(row, is, k) \/ k = Added(q)
      /\ q.kind = "reset" => ~Claim(Row(q), js, 0)
      /\ \A k \in Nat : k # 0 /\ Claim(Row(q), js, k) /\ Rewrites(q) /\ q.kind # "role"
                             => k > q.sees \/ k = Added(q)
  BY <1>2, WriteClaims
<1>4. q.kind # "reset" => Added(q) = 0
  BY DEF Added
<1>5. ASSUME Owning(row)
      PROVE  \E y \in Nat : Claim(row, is, y)
  <2>1. DOMAIN is \union {0} \subseteq Nat
    <3> HIDE DEF is
    <3> QED BY <1>1
  <2> HIDE DEF is, row
  <2> QED BY <1>5, <2>1, OwnerClaims
<1>8. Claim(Row(q), js, 0) => Owning(Row(q))
  <2>1. js \in Seq(Invitations)
    BY <1>2, AfterFacts DEF RowsTyped
  <2>2. 0 \notin DOMAIN js
    <3> HIDE DEF js
    <3> QED BY <2>1
  <2> QED BY <2>2 DEF Claim
<1>6. CASE Rewrites(q) /\ q.kind # "role"
  <2>1. Len(is) <= q.sees
    BY <1>1, <1>6 DEF Guarded
  <2>2. ASSUME NEW k \in Nat, k # 0, Claim(Row(q), js, k)
        PROVE  k = Added(q)
    <3>1. k > q.sees \/ k = Added(q)
      BY <1>3, <1>6, <2>2
    <3>2. ASSUME k > q.sees, k # Added(q)
          PROVE  FALSE
      <4>1. Claim(row, is, k)
        BY <1>3, <2>2, <3>2
      <4>2. k \in DOMAIN is
        BY <2>2, <4>1 DEF Claim
      <4> HIDE DEF is
      <4> QED BY <1>1, <2>1, <3>2, <4>2
    <3> QED BY <3>1, <3>2
  <2>3. \A k \in Nat : Claim(Row(q), js, k) => k = Added(q)
    <3> HIDE DEF js
    <3> QED BY <1>3, <1>4, <2>2
  <2>4. CASE q.kind = "reset"
    <3>1. Owning(row)
      BY <1>1, <2>4 DEF Guarded
    <3> QED BY <1>5, <2>3, <3>1
  <2>5. CASE q.kind \in {"resend", "remove", "disable"}
    <3>1. ~Owning(Row(q))
      <4>1. CASE q.kind = "resend"
        <5>1. Row(q) = IF row.status = "DISABLED" THEN [row EXCEPT !.status = "INVITED"] ELSE row
          BY <1>1, <4>1 DEF Row
        <5>2. There(row) /\ ~Owning(row)
          BY <1>1, <4>1 DEF Guarded
        <5> QED BY <1>1, <5>1, <5>2 DEF Rows, Owning, There
      <4>2. CASE q.kind = "remove"
        <5>1. Row(q) = [row EXCEPT !.status = "DISABLED", !.deleted = TRUE, !.password = FALSE]
          BY <4>2 DEF Row
        <5> QED BY <1>1, <5>1 DEF Rows, Owning, There
      <4>3. CASE q.kind = "disable"
        <5>1. Row(q) = [row EXCEPT !.status = "DISABLED"]
          BY <4>3 DEF Row
        <5>2. There(row) /\ ~Owning(row)
          BY <1>1, <4>3 DEF Guarded
        <5> QED BY <1>1, <5>1, <5>2 DEF Rows, Owning, There
      <4> QED BY <2>5, <4>1, <4>2, <4>3
    <3>2. \A k \in Nat : ~Claim(Row(q), js, k)
      <4> HIDE DEF js
      <4> QED BY <1>4, <1>8, <2>3, <2>5, <3>1
    <3> QED BY <3>2
  <2>6. CASE q.kind = "google"
    <3>1. CASE Owning(row)
      BY <1>5, <2>3, <3>1
    <3>2. CASE ~Owning(row)
      <4>1. Row(q) = [row EXCEPT !.status = "ACTIVE"]
        BY <2>6 DEF Row
      <4>2. There(row)
        BY <1>1, <2>6 DEF Guarded
      <4>3. ~Owning(Row(q))
        BY <1>1, <3>2, <4>1, <4>2 DEF Rows, Owning, There
      <4>4. \A k \in Nat : ~Claim(Row(q), js, k)
        <5> HIDE DEF js
        <5> QED BY <1>4, <1>8, <2>3, <2>6, <4>3
      <4> QED BY <4>4
    <3> QED BY <3>1, <3>2
  <2>7. CASE q.kind = "accept"
    <3>1. q.inv \in DOMAIN is /\ Pending(is[q.inv]) /\ q.role = is[q.inv].role
      BY <1>1, <2>7 DEF Guarded
    <3>2. CASE q.role = "OWNER"
      <4>1. Claim(row, is, q.inv) /\ q.inv \in Nat
        BY <3>1, <3>2 DEF Claim, OwnerPending, Working
      <4> QED BY <2>3, <4>1
    <3>3. CASE q.role # "OWNER"
      <4>1. Row(q) = [row EXCEPT !.role = q.role, !.status = "ACTIVE", !.password = TRUE]
        BY <2>7 DEF Row
      <4>3. ~Owning(Row(q))
        BY <1>1, <3>3, <4>1 DEF Rows, Owning
      <4>4. \A k \in Nat : ~Claim(Row(q), js, k)
        <5> HIDE DEF js
        <5> QED BY <1>4, <1>8, <2>3, <2>7, <4>3
      <4> QED BY <4>4
    <3> QED BY <3>2, <3>3
  <2> QED BY <1>6, <2>4, <2>5, <2>6, <2>7 DEF Rewrites, Accepts
<1>7. CASE ~(Rewrites(q) /\ q.kind # "role")
  <2>1. q.kind \in {"invite", "role", "enable", "google"} /\ (q.kind = "google" => row.status # "INVITED")
    BY <1>1, <1>7 DEF Rewrites, Accepts, Kinds
  <2>2. ASSUME Claim(Row(q), js, 0)
        PROVE  Claim(row, is, 0)
    <3>0. Owning(Row(q))
      BY <1>8, <2>2
    <3>1. CASE q.kind \in {"invite", "role"}
      <4>1. q.role # "OWNER"
        BY <3>1 DEF Guarded
      <4>2. Row(q).role = q.role
        <5>1. CASE q.kind = "invite"
          BY <5>1 DEF Row
        <5>2. CASE q.kind = "role"
          <6>1. Row(q) = [row EXCEPT !.role = q.role]
            BY <5>2 DEF Row
          <6> QED BY <1>1, <6>1 DEF Rows
        <5> QED BY <3>1, <5>1, <5>2
      <4> QED BY <3>0, <4>1, <4>2 DEF Owning
    <3>2. CASE q.kind \in {"enable", "google"}
      <4>1. Row(q) = [row EXCEPT !.status = "ACTIVE"]
        BY <3>2 DEF Row
      <4>2. There(row) /\ ~(row.status = "INVITED" /\ ~row.password)
        BY <1>1, <2>1, <3>2 DEF Guarded
      <4>3. Owning(row)
        BY <1>1, <3>0, <4>1, <4>2 DEF Rows, Owning, There
      <4> QED BY <4>2, <4>3 DEF Claim, Waiting
    <3> QED BY <2>1, <3>1, <3>2
  <2>3. Added(q) = 0
    BY <1>4, <2>1
  <2>4. \A k \in Nat : Claim(Row(q), js, k) => Claim(row, is, k)
    <3> HIDE DEF js, is, row
    <3> QED BY <1>3, <2>2, <2>3
  <2> QED BY <2>4
<1> QED BY <1>6, <1>7

----------------------------------------------------------------------------
(* A transaction, refused or written.                                       *)

Takes(q) == q.kind \notin QuotaRead /\ TakesSeat(Row(q)) /\ ~TakesSeat(user[q.user])

\* What the transaction of request q of r leaves of the rows.
Written(r, q) ==
  /\ req' = [req EXCEPT ![r] = NoRequest]
  /\ user' \in [Users -> Rows] /\ inv' \in [Users -> Seq(Invitations)]
  /\ user'[q.user] = Row(q) /\ inv'[q.user] = InvitationsAfter(q)
  /\ \A u \in Users \ {q.user} :
       /\ inv'[u] = inv[u]
       /\ user'[u] = IF q.kind = "transfer" /\ u = q.actor
                     THEN [user[u] EXCEPT !.role = "MANAGER"] ELSE user[u]
  /\ stale' = IF Changed(q) THEN stale + 1 ELSE stale
  /\ unchecked' = IF Takes(q) THEN unchecked + 1 ELSE unchecked
  /\ served' = served
  /\ q.kind = "invite" => user[q.user].status = "absent" /\ inv[q.user] = <<>>
  /\ Rewrites(q) => q.at = "writing"

\* A request takes up q or, when q is none, leaves; no row is written.
Turns(r, q) ==
  /\ req' = [req EXCEPT ![r] = q]
  /\ UNCHANGED <<user, inv, stale, unchecked>> /\ served' \in 0..MaxRequests
  /\ q = NoRequest \/ WorkTyped(q)
  /\ q.kind \in QuotaRead => Used < Seats \/ req[r].kind \in QuotaRead
  /\ q.kind \in Creators /\ q.at = "writing" => Len(inv[q.user]) <= q.sees

LEMMA CommitWrites ==
  ASSUME RowsTyped, WorksTyped, NEW r \in Requests, NEW q, q = req[r], Commit(r)
  PROVE  /\ q \in Working /\ WorkTyped(q)
         /\ Turns(r, NoRequest) \/ Written(r, q)
<1>1. q # NoRequest /\ q \in Working /\ WorkTyped(q)
  <2>1. q.kind # "none"
    BY DEF Commit
  <2>2. q # NoRequest
    BY <2>1 DEF NoRequest
  <2>3. WorkTyped(q)
    BY <2>2 DEF WorksTyped
  <2> QED BY <2>2, <2>3 DEF WorkTyped
<1>2. q.user \in Users /\ q.actor \in Users
  BY <1>1 DEF Working
<1>3. /\ req' = [req EXCEPT ![r] = NoRequest] /\ served' = served
      /\ Rewrites(q) => q.at = "writing"
  BY DEF Commit
<1>4. CASE q.kind = "invite" /\ user[q.user].status # "absent"
  <2>1. UNCHANGED <<user, inv, stale, unchecked>>
    BY <1>4 DEF Commit
  <2>2. NoRequest.kind = "none" /\ "none" \notin QuotaRead /\ "none" \notin Creators
    BY DEF NoRequest, QuotaRead, Creators
  <2> QED BY <1>1, <1>3, <2>1, <2>2 DEF Turns, RowsTyped
<1>5. CASE ~(q.kind = "invite" /\ user[q.user].status # "absent")
  <2>1. /\ user' = [user EXCEPT ![q.actor].role = IF q.kind = "transfer" THEN "MANAGER" ELSE @,
                                ![q.user] = Row(q)]
        /\ inv' = [inv EXCEPT ![q.user] = InvitationsAfter(q)]
        /\ stale' = IF Changed(q) THEN stale + 1 ELSE stale
        /\ unchecked' = IF Takes(q) THEN unchecked + 1 ELSE unchecked
    BY <1>5 DEF Commit, Takes
  <2>2. user \in [Users -> Rows] /\ inv \in [Users -> Seq(Invitations)]
    BY DEF RowsTyped
  <2>7. q.kind = "invite" => user[q.user].status = "absent" /\ inv[q.user] = <<>>
    BY <1>2, <1>5 DEF RowsTyped
  <2>3. Row(q) \in Rows /\ InvitationsAfter(q) \in Seq(Invitations)
    BY <1>1, <2>2, <2>7, RowFacts, AfterFacts
  <2>4. ASSUME NEW u \in Users
        PROVE  user'[u] = IF u = q.user THEN Row(q)
                          ELSE IF q.kind = "transfer" /\ u = q.actor
                               THEN [user[u] EXCEPT !.role = "MANAGER"] ELSE user[u]
    <3>1. user[q.actor] = [user[q.actor] EXCEPT !.role = user[q.actor].role]
      <4>1. user[q.actor] \in Rows
        BY <1>2, <2>2
      <4> QED BY <4>1 DEF Rows
    <3>2. CASE q.kind = "transfer"
      BY <1>2, <2>1, <2>2, <3>2
    <3>3. CASE q.kind # "transfer"
      <4>1. user' = [user EXCEPT ![q.actor].role = user[q.actor].role, ![q.user] = Row(q)]
        BY <2>1, <3>3
      <4>2. user' = [user EXCEPT ![q.actor] = user[q.actor], ![q.user] = Row(q)]
        BY <3>1, <4>1
      <4> QED BY <1>2, <2>2, <3>3, <4>2
    <3> QED BY <3>2, <3>3
  <2>5. user' \in [Users -> Rows]
    <3>1. \A u \in Users : user'[u] \in Rows
      <4>1. \A u \in Users : [user[u] EXCEPT !.role = "MANAGER"] \in Rows
        BY <2>2 DEF Rows, Roles
      <4> QED BY <2>2, <2>3, <2>4, <4>1
    <3> QED BY <2>1, <2>2, <3>1
  <2>6. inv' \in [Users -> Seq(Invitations)] /\ inv'[q.user] = InvitationsAfter(q)
        /\ \A u \in Users \ {q.user} : inv'[u] = inv[u]
    BY <1>2, <2>1, <2>2, <2>3
  <2> QED BY <1>1, <1>2, <1>3, <2>1, <2>4, <2>5, <2>6, <2>7 DEF Written
<1> QED BY <1>1, <1>4, <1>5

\* Later is an order.
LEMMA LaterFacts ==
  ASSUME NEW a \in Seq(Invitations), NEW b \in Seq(Invitations), NEW c \in Seq(Invitations),
         Later(a, b), Later(b, c)
  PROVE  Later(a, c) /\ Later(b, b)
<1>1. /\ DOMAIN a = 1..Len(a) /\ DOMAIN b = 1..Len(b)
      /\ Len(a) \in Nat /\ Len(b) \in Nat /\ Len(c) \in Nat
  OBVIOUS
<1> QED BY <1>1 DEF Later

\* The types and the other requests.
LEMMA WrittenTyped ==
  ASSUME RowsTyped, WorksTyped, NEW r \in Requests, NEW q \in Working,
         WorkTyped(q), Written(r, q)
  PROVE  RowsTyped' /\ WorksTyped'
<1>1. q.user \in Users /\ user \in [Users -> Rows] /\ inv \in [Users -> Seq(Invitations)]
  BY DEF Working, RowsTyped
<1>2. /\ InvitationsAfter(q) \in Seq(Invitations) /\ Later(inv[q.user], InvitationsAfter(q))
  BY <1>1, AfterFacts DEF Written
<1>3. Row(q).status = "absent" => user[q.user].status = "absent"
  BY <1>1, RowFacts
<1>4. \A u \in Users : user'[u].status = "absent" => user[u].status = "absent"
  <2>1. ASSUME NEW u \in Users \ {q.user}
        PROVE  user'[u].status = user[u].status
    <3>1. user[u] \in Rows
      BY <1>1
    <3> QED BY <3>1 DEF Written, Rows
  <2> QED BY <1>3, <2>1 DEF Written
<1>5. Row(q).status # "absent"
  <2>1. CASE q.kind = "invite"
    BY <2>1 DEF Row
  <2>2. CASE q.kind # "invite"
    BY <1>3, <2>2 DEF WorkTyped
  <2> QED BY <2>1, <2>2
<1>6. RowsTyped'
  <2>1. \A u \in Users : user'[u].status = "absent" => inv'[u] = <<>>
    <3>1. ASSUME NEW u \in Users, user'[u].status = "absent"
          PROVE  inv'[u] = <<>>
      <4>1. u # q.user
        BY <1>5, <3>1 DEF Written
      <4>2. inv[u] = <<>>
        BY <1>4, <3>1 DEF RowsTyped
      <4> QED BY <4>1, <4>2 DEF Written
    <3> QED BY <3>1
  <2>2. unchecked' \in Nat /\ stale' \in Nat
    BY DEF Written, RowsTyped
  <2> QED BY <2>1, <2>2 DEF RowsTyped, Written
<1>7. \A u \in Users : Later(inv[u], inv'[u]) /\ inv'[u] \in Seq(Invitations)
  <2>1. ASSUME NEW u \in Users \ {q.user}
        PROVE  Later(inv[u], inv'[u]) /\ inv'[u] \in Seq(Invitations)
    <3>1. inv[u] \in Seq(Invitations) /\ inv'[u] = inv[u]
      BY <1>1 DEF Written
    <3>2. Len(inv[u]) \in Nat
      BY <3>1
    <3> QED BY <3>1, <3>2 DEF Later
  <2> QED BY <1>2, <2>1 DEF Written
<1>8. WorksTyped'
  <2>1. req' \in [Requests -> Working \union {NoRequest}]
    BY DEF Written, WorksTyped
  <2>2. ASSUME NEW s \in Requests, NEW p, p = req'[s], p # NoRequest
        PROVE  /\ Guarded(p) /\ p \in Working
               /\ p.kind # "invite" => user'[p.user].status # "absent"
               /\ p.kind = "accept" => p.inv \in DOMAIN inv'[p.user]
               /\ Later(p.seen[2], inv'[p.user])
    <3>1. p = req[s] /\ WorkTyped(p)
      BY <2>2 DEF Written, WorksTyped
    <3>2. p.user \in Users /\ p \in Working /\ Guarded(p) /\ p.seen[2] \in Seq(Invitations)
      BY <3>1 DEF WorkTyped, Working
    <3>3. p.kind # "invite" => user'[p.user].status # "absent"
      BY <1>4, <3>1, <3>2 DEF WorkTyped
    <3>4. /\ Later(p.seen[2], inv[p.user]) /\ Later(inv[p.user], inv'[p.user])
          /\ inv[p.user] \in Seq(Invitations) /\ inv'[p.user] \in Seq(Invitations)
      BY <1>1, <1>7, <3>1, <3>2 DEF WorkTyped
    <3>5. Later(p.seen[2], inv'[p.user])
      BY <3>2, <3>4, LaterFacts
    <3>6. DOMAIN inv[p.user] \subseteq DOMAIN inv'[p.user]
      BY <3>4 DEF Later
    <3>7. p.kind = "accept" => p.inv \in DOMAIN inv'[p.user]
      BY <3>1, <3>6 DEF WorkTyped
    <3> QED BY <3>2, <3>3, <3>5, <3>7
  <2> QED BY <2>1, <2>2 DEF WorksTyped, WorkTyped
<1> QED BY <1>6, <1>8

\* The seats.
LEMMA WrittenSeats ==
  ASSUME RowsTyped, WorksTyped, SeatsCounted, NEW r \in Requests, NEW q \in Working,
         q = req[r], Written(r, q)
  PROVE  SeatsCounted'
<1> DEFINE S == {u \in Users : TakesSeat(user[u])}
           T == {u \in Users : TakesSeat(user'[u])}
           C == {s \in Requests : req[s].kind \in QuotaRead}
           D == {s \in Requests : req'[s].kind \in QuotaRead}
<1>1. /\ IsFiniteSet(S) /\ IsFiniteSet(T) /\ IsFiniteSet(C) /\ IsFiniteSet(D)
      /\ Cardinality(S) \in Nat /\ Cardinality(C) \in Nat /\ Cardinality(T) \in Nat
      /\ Cardinality(D) \in Nat /\ Cardinality(Requests) \in Nat
  <2>1. S \subseteq Users /\ T \subseteq Users /\ C \subseteq Requests /\ D \subseteq Requests
    OBVIOUS
  <2>2. IsFiniteSet(Users) /\ IsFiniteSet(Requests)
    OBVIOUS
  <2> HIDE DEF S, T, C, D
  <2>3. IsFiniteSet(S) /\ IsFiniteSet(T) /\ IsFiniteSet(C) /\ IsFiniteSet(D)
    BY <2>1, <2>2, FS_Subset
  <2> QED BY <2>2, <2>3, FS_CardinalityType
<1>2. q.user \in Users /\ user \in [Users -> Rows] /\ unchecked \in Nat
  BY DEF Working, RowsTyped
<1>3. \A u \in Users \ {q.user} : TakesSeat(user'[u]) <=> TakesSeat(user[u])
  <2>1. ASSUME NEW u \in Users \ {q.user}
        PROVE  TakesSeat(user'[u]) <=> TakesSeat(user[u])
    <3>1. user[u] \in Rows
      BY <1>2
    <3>2. user'[u].deleted = user[u].deleted /\ user'[u].status = user[u].status
      BY <3>1 DEF Written, Rows
    <3> QED BY <3>2 DEF TakesSeat
  <2> QED BY <2>1
<1>4. user'[q.user] = Row(q) /\ unchecked' = IF Takes(q) THEN unchecked + 1 ELSE unchecked
  BY DEF Written
<1>5. D = C \ {r}
  <2>1. NoRequest.kind \notin QuotaRead
    BY DEF NoRequest, QuotaRead
  <2> QED BY <2>1 DEF Written, WorksTyped
<1>6. Cardinality(S) + Cardinality(C) <= Seats + Cardinality(Requests) - 1 + unchecked
  BY DEF SeatsCounted, Used, Checked
<1>7. CASE TakesSeat(Row(q)) => TakesSeat(user[q.user])
  <2>1. T \subseteq S /\ D \subseteq C
    BY <1>2, <1>3, <1>4, <1>5, <1>7
  <2>2. Cardinality(T) <= Cardinality(S) /\ Cardinality(D) <= Cardinality(C)
    <3> HIDE DEF S, T, C, D
    <3> QED BY <1>1, <2>1, FS_Subset
  <2>3. unchecked' = unchecked
    BY <1>4, <1>7 DEF Takes
  <2>4. Cardinality(T) + Cardinality(D) <= Seats + Cardinality(Requests) - 1 + unchecked'
    <3> HIDE DEF S, T, C, D
    <3> QED BY <1>1, <1>2, <1>6, <2>2, <2>3
  <2> QED BY <2>4 DEF SeatsCounted, Used, Checked
<1>8. CASE TakesSeat(Row(q)) /\ ~TakesSeat(user[q.user])
  <2>1. T = S \union {q.user} /\ q.user \notin S
    BY <1>2, <1>3, <1>4, <1>8
  <2>2. Cardinality(T) = Cardinality(S) + 1
    <3> HIDE DEF S, T, C, D
    <3> QED BY <1>1, <2>1, FS_AddElement
  <2>3. CASE q.kind \in QuotaRead
    <3>1. r \in C
      BY <2>3
    <3>2. Cardinality(D) = Cardinality(C) - 1
      <4> HIDE DEF S, T, C, D
      <4> QED BY <1>1, <1>5, <3>1, FS_RemoveElement
    <3>3. unchecked' = unchecked
      BY <1>4, <2>3 DEF Takes
    <3>4. Cardinality(T) + Cardinality(D) <= Seats + Cardinality(Requests) - 1 + unchecked'
      <4> HIDE DEF S, T, C, D
      <4> QED BY <1>1, <1>2, <1>6, <2>2, <3>2, <3>3
    <3> QED BY <3>4 DEF SeatsCounted, Used, Checked
  <2>4. CASE q.kind \notin QuotaRead
    <3>1. D \subseteq C
      BY <1>5
    <3>2. Cardinality(D) <= Cardinality(C)
      <4> HIDE DEF S, T, C, D
      <4> QED BY <1>1, <3>1, FS_Subset
    <3>3. unchecked' = unchecked + 1
      BY <1>4, <1>8, <2>4 DEF Takes
    <3>4. Cardinality(T) + Cardinality(D) <= Seats + Cardinality(Requests) - 1 + unchecked'
      <4> HIDE DEF S, T, C, D
      <4> QED BY <1>1, <1>2, <1>6, <2>2, <3>2, <3>3
    <3> QED BY <3>4 DEF SeatsCounted, Used, Checked
  <2> QED BY <2>3, <2>4
<1> QED BY <1>7, <1>8

\* The owner, in terms of the rows.
OwnedBy(o) ==
  /\ Owning(user[o]) /\ user[o].status # "DISABLED"
  /\ user[o].status = "INVITED" => Reclaimable(o)
  /\ \A u \in Users : Owning(user[u]) => u = o

OneOwned == \E o \in Users :
  /\ Owners = {o} /\ user[o].status # "DISABLED"
  /\ user[o].status = "INVITED" => Reclaimable(o)

LEMMA OwnerFacts == OneOwned <=> \E o \in Users : OwnedBy(o)
BY DEF OneOwned, OwnedBy, Owners, IsOwner, Exists, Owning, There

\* Soundness, when nothing has changed.
LEMMA WrittenSound ==
  ASSUME RowsTyped, MembersSound, NEW r \in Requests, NEW q \in Working,
         WorkTyped(q), Written(r, q)
  PROVE  MembersSound'
<1> SUFFICES ASSUME stale' = 0
             PROVE  OneOwned' /\ \A u \in Users : Sound(user'[u], inv'[u])
  BY DEF MembersSound, OneOwned
<1>1. stale = 0 /\ ~Changed(q)
  BY DEF Written, RowsTyped
<1>2. PICK o \in Users : OwnedBy(o)
  BY <1>1, OwnerFacts DEF MembersSound, OneOwned
<1>3. /\ q.user \in Users /\ q.actor \in Users /\ user \in [Users -> Rows]
      /\ inv \in [Users -> Seq(Invitations)] /\ Guarded(q)
      /\ \A u \in Users : Sound(user[u], inv[u])
      /\ q.seen[1] = user[q.user] /\ q.seen[2] = inv[q.user] /\ q.seen[3] = user[q.actor]
  BY <1>1 DEF Working, RowsTyped, WorkTyped, MembersSound, Changed
<1>4. Sound(Row(q), InvitationsAfter(q))
  BY <1>1, <1>3, WriteIsSound DEF Written
<1>5. CASE q.kind = "transfer"
  <2>1. /\ q.actor # q.user /\ q.role = "OWNER"
        /\ There(user[q.user]) /\ user[q.user].status = "ACTIVE"
        /\ Owning(user[q.actor]) /\ user[q.actor].status = "ACTIVE"
    BY <1>3, <1>5 DEF Guarded
  <2>2. o = q.actor
    BY <1>2, <1>3, <2>1 DEF OwnedBy
  <2>3. /\ user'[q.user] = [user[q.user] EXCEPT !.role = "OWNER"]
        /\ user'[q.actor] = [user[q.actor] EXCEPT !.role = "MANAGER"]
        /\ \A u \in Users \ {q.user, q.actor} : user'[u] = user[u]
        /\ \A u \in Users \ {q.user} : inv'[u] = inv[u]
    <3>1. Row(q) = [user[q.user] EXCEPT !.role = "OWNER"]
      BY <1>5, <2>1 DEF Row
    <3> QED BY <1>3, <1>5, <2>1, <3>1 DEF Written
  <2>4. /\ Owning(user'[q.user]) /\ user'[q.user].status = "ACTIVE"
        /\ ~Owning(user'[q.actor]) /\ user'[q.actor].status = "ACTIVE"
    <3>1. user[q.user] \in Rows /\ user[q.actor] \in Rows
      BY <1>3
    <3> QED BY <2>1, <2>3, <3>1 DEF Owning, There, Rows
  <2>5. \A u \in Users : Owning(user'[u]) => u = q.user
    BY <1>2, <2>2, <2>3, <2>4 DEF OwnedBy
  <2>6. OneOwned'
    BY <1>3, <2>4, <2>5 DEF OneOwned, Owners, IsOwner, Exists, Owning, There
  <2>7. Sound(user'[q.actor], inv'[q.actor])
    <3>1. Sound(user[q.actor], inv[q.actor]) /\ inv'[q.actor] = inv[q.actor]
      BY <1>3, <2>1, <2>3
    <3> QED BY <2>1, <2>4, <3>1 DEF Sound
  <2>8. \A u \in Users : Sound(user'[u], inv'[u])
    <3>1. Sound(user'[q.user], inv'[q.user])
      BY <1>4 DEF Written
    <3>2. \A u \in Users \ {q.user, q.actor} : Sound(user'[u], inv'[u])
      BY <1>3, <2>3
    <3> QED BY <2>7, <3>1, <3>2
  <2> QED BY <2>6, <2>8
<1>6. CASE q.kind # "transfer"
  <2>1. /\ user'[q.user] = Row(q) /\ inv'[q.user] = InvitationsAfter(q)
        /\ \A u \in Users \ {q.user} : user'[u] = user[u] /\ inv'[u] = inv[u]
    BY <1>6 DEF Written
  <2>2. \A u \in Users : Sound(user'[u], inv'[u])
    BY <1>3, <1>4, <2>1
  <2>3. /\ Owning(Row(q)) <=> Owning(user[q.user])
        /\ Owning(Row(q)) => /\ Row(q).status # "DISABLED"
                             /\ \/ Row(q).status # "INVITED"
                                \/ q.kind = "reset"
    <3>1. Owning(user[q.user]) => user[q.user].status # "DISABLED"
      BY <1>2, <1>3 DEF OwnedBy
    <3> QED BY <1>1, <1>3, <1>6, <3>1, WriteKeepsOwners
  <2>4. \A u \in Users : Owning(user'[u]) <=> u = o
    BY <1>2, <2>1, <2>3 DEF OwnedBy
  <2>5. user'[o].status # "DISABLED"
    BY <1>2, <2>1, <2>3 DEF OwnedBy
  <2>6. user'[o].status = "INVITED" =>
          \E i \in DOMAIN inv'[o] : Pending(inv'[o][i]) /\ inv'[o][i].role = "OWNER"
    <3>1. CASE o # q.user
      BY <1>2, <2>1, <3>1 DEF OwnedBy, Reclaimable
    <3>2. CASE o = q.user /\ q.kind = "reset"
      <4>1. q.role = "OWNER" /\ q.role \in Roles /\ q.sees \in Nat /\ inv[q.user] \in Seq(Invitations)
        BY <1>3, <3>2 DEF Guarded, Working
      <4>2. inv'[o] = Append(Revoked(inv[q.user], q.sees), NewInvitation("OWNER"))
        BY <2>1, <3>2, <4>1 DEF InvitationsAfter, Accepts
      <4> DEFINE n == Len(inv[q.user]) + 1
      <4>3. n \in DOMAIN inv'[o] /\ inv'[o][n] = NewInvitation("OWNER")
        <5>1. /\ DOMAIN Append(Revoked(inv[q.user], q.sees), NewInvitation("OWNER")) = 1..(Len(inv[q.user]) + 1)
              /\ Len(inv[q.user]) \in Nat
              /\ Append(Revoked(inv[q.user], q.sees), NewInvitation("OWNER"))[Len(inv[q.user]) + 1] = NewInvitation("OWNER")
          BY <4>1, RenewedFacts
        <5> QED BY <4>2, <5>1
      <4> QED BY <4>3 DEF NewInvitation, Pending
    <3>3. CASE o = q.user /\ q.kind # "reset"
      BY <2>1, <2>3, <2>4, <3>3
    <3> QED BY <3>1, <3>2, <3>3
  <2>7. OneOwned'
    BY <2>4, <2>5, <2>6 DEF OneOwned, Owners, IsOwner, Exists, Owning, There, Reclaimable
  <2> QED BY <2>2, <2>7
<1> QED BY <1>5, <1>6

\* The pending invitations: the new one is of r, and none that r did not see
\* was.
LEMMA WrittenMade ==
  ASSUME RowsTyped, WorksTyped, NEW r \in Requests, NEW q \in Working, q = req[r],
         WorkTyped(q), Written(r, q), NEW u \in Users, Made(u)
  PROVE  Made(u)'
<1> DEFINE is == inv[u]
           js == inv'[u]
<1>1. PICK f \in [Nat -> Requests] :
        /\ \A j, k \in PendingOf(u) : f[j] = f[k] => j = k
        /\ \A k \in PendingOf(u) : \A s \in Requests :
             f[k] = s /\ req[s].kind \in Creators /\ req[s].at = "writing" /\ req[s].user = u
               => k <= req[s].sees
  BY DEF Made
<1>2. \A s \in Requests : IF s = r THEN req'[s].kind \notin Creators ELSE req'[s] = req[s]
  BY DEF Written, WorksTyped, NoRequest, Creators
<1>3. is \in Seq(Invitations) /\ js \in Seq(Invitations)
  BY DEF RowsTyped, Written
<1>4. /\ PendingOf(u) = {k \in DOMAIN is : Pending(is[k])}
      /\ PendingOf(u)' = {k \in DOMAIN js : Pending(js[k])}
  BY DEF PendingOf
<1>5. DOMAIN is \subseteq Nat /\ DOMAIN is = 1..Len(is) /\ Len(is) \in Nat
      /\ DOMAIN js \subseteq Nat
  <2> HIDE DEF is, js
  <2> QED BY <1>3
<1>6. ASSUME PendingOf(u)' \subseteq PendingOf(u)
      PROVE  Made(u)'
  <2>1. \A j, k \in PendingOf(u)' : f[j] = f[k] => j = k
    BY <1>1, <1>6
  <2>2. \A k \in PendingOf(u)' : \A s \in Requests :
             f[k] = s /\ req'[s].kind \in Creators /\ req'[s].at = "writing" /\ req'[s].user = u
               => k <= req'[s].sees
    BY <1>1, <1>2, <1>6
  <2> QED BY <2>1, <2>2 DEF Made
<1>7. CASE u # q.user
  <2>1. is = js
    BY <1>7 DEF Written
  <2> QED BY <1>4, <1>6, <2>1
<1>8. CASE u = q.user
  <2>1. js = InvitationsAfter(q) /\ Kept(q, is, js)
    <3>1. js = InvitationsAfter(q)
      BY <1>8 DEF Written
    <3> QED BY <1>8, <3>1, AfterFacts DEF Written, RowsTyped
  <2>2. CASE q.kind \notin Creators \union {"invite"}
    <3>1. PendingOf(u)' \subseteq PendingOf(u)
      <4> HIDE DEF is, js
      <4> QED BY <1>4, <2>1, <2>2 DEF Kept
    <3> QED BY <1>6, <3>1
  <2>3. CASE q.kind = "invite"
    <3>1. is = <<>> /\ Len(is) = 0
      BY <1>8, <2>3 DEF Written
    <3>2. \A k \in PendingOf(u)' : k = 1
      <4> HIDE DEF is, js
      <4> QED BY <1>4, <2>1, <3>1 DEF Kept
    <3>3. PICK g \in [Nat -> Requests] : \A k \in Nat : g[k] = r
      <4>1. [k \in Nat |-> r] \in [Nat -> Requests]
        OBVIOUS
      <4> QED BY <4>1
    <3>4. \A k \in PendingOf(u)' : \A s \in Requests :
             g[k] = s /\ req'[s].kind \in Creators /\ req'[s].at = "writing" /\ req'[s].user = u
               => k <= req'[s].sees
      <4>1. \A k \in PendingOf(u)' : g[k] = r
        BY <3>2, <3>3
      <4> QED BY <1>2, <4>1
    <3> QED BY <3>2, <3>4 DEF Made
  <2>4. CASE q.kind \in Creators
    <3> DEFINE n == Len(is) + 1
               g == [f EXCEPT ![n] = r]
    <3>1. q.at = "writing" /\ Rewrites(q) /\ q.kind # "role"
      BY <2>4 DEF Creators, Rewrites, Written
    <3>2. \A k \in PendingOf(u)' : k = n \/ (k # n /\ k \in PendingOf(u) /\ k > q.sees)
      <4> HIDE DEF is, js
      <4> QED BY <1>4, <1>5, <2>1, <3>1 DEF Kept
    <3>3. g \in [Nat -> Requests] /\ g[n] = r /\ \A k \in Nat : k # n => g[k] = f[k]
      <4> HIDE DEF is
      <4> QED BY <1>5
    <3>4. \A k \in PendingOf(u) : k > q.sees => f[k] # r
      <4>1. ASSUME NEW k \in PendingOf(u), k > q.sees, f[k] = r
            PROVE  FALSE
        <5>1. k <= q.sees
          BY <1>1, <1>8, <2>4, <3>1, <4>1
        <5>2. k \in Nat /\ q.sees \in Nat
          <6>1. k \in DOMAIN is
            BY <1>4
          <6> HIDE DEF is
          <6> QED BY <1>5, <6>1 DEF Working
        <5> QED BY <4>1, <5>1, <5>2
      <4> QED BY <4>1
    <3>5. PendingOf(u) \subseteq Nat
      <4> HIDE DEF is
      <4> QED BY <1>4, <1>5
    <3>6. PendingOf(u)' \subseteq Nat
      <4> HIDE DEF is, js
      <4> QED BY <1>4, <1>5
    <3> HIDE DEF g, n
    <3>7. \A j, k \in PendingOf(u)' : g[j] = g[k] => j = k
      BY <1>1, <3>2, <3>3, <3>4, <3>5
    <3>8. \A k \in PendingOf(u)' : \A s \in Requests :
             g[k] = s /\ req'[s].kind \in Creators /\ req'[s].at = "writing" /\ req'[s].user = u
               => k <= req'[s].sees
      <4>1. ASSUME NEW k \in PendingOf(u)', NEW s \in Requests, g[k] = s, req'[s].kind \in Creators,
                   req'[s].at = "writing", req'[s].user = u
            PROVE  k <= req'[s].sees
        <5>1. s # r /\ req'[s] = req[s]
          BY <1>2, <4>1
        <5>2. k \in PendingOf(u) /\ g[k] = f[k]
          BY <3>2, <3>3, <3>5, <4>1, <5>1
        <5> QED BY <1>1, <4>1, <5>1, <5>2
      <4> QED BY <4>1
    <3> QED BY <3>3, <3>7, <3>8 DEF Made
  <2> QED BY <2>2, <2>3, <2>4
<1> QED BY <1>7, <1>8

LEMMA OneMore ==
  ASSUME NEW S, NEW x, IsFiniteSet(S)
  PROVE  /\ IsFiniteSet(S \union {x}) /\ Cardinality(S \union {x}) \in Nat
         /\ Cardinality(S) \in Nat /\ Cardinality(S \union {x}) <= Cardinality(S) + 1
<1>1. /\ IsFiniteSet(S \union {x})
      /\ Cardinality(S \union {x}) = IF x \in S THEN Cardinality(S) ELSE Cardinality(S) + 1
  BY FS_AddElement
<1>2. Cardinality(S) \in Nat
  BY FS_CardinalityType
<1> QED BY <1>1, <1>2

(* The claims: a write adds one at most, and none when it meets what was   *)
(* read, but for the one it takes away.                                    *)
LEMMA WrittenClaims ==
  ASSUME RowsTyped, NEW r \in Requests, NEW q \in Working, WorkTyped(q), Written(r, q),
         ClaimsBounded
  PROVE  ClaimsBounded'
<1> DEFINE x == <<q.user, Added(q)>>
           C == Claims
           D == Claims'
<1>1. /\ q.user \in Users /\ q.actor \in Users /\ stale \in Nat /\ Guarded(q)
      /\ user \in [Users -> Rows] /\ inv \in [Users -> Seq(Invitations)]
      /\ q.kind = "invite" => inv[q.user] = <<>>
      /\ user'[q.user] = Row(q) /\ inv'[q.user] = InvitationsAfter(q)
      /\ stale' = IF Changed(q) THEN stale + 1 ELSE stale
      /\ Rewrites(q) => q.at = "writing"
  BY DEF Working, RowsTyped, WorkTyped, Written
<1>2. /\ C \subseteq Users \X Nat /\ D \subseteq Users \X Nat
      /\ \A u \in Users, k \in Nat :
           /\ <<u, k>> \in C <=> Claim(user[u], inv[u], k)
           /\ <<u, k>> \in D <=> Claim(user'[u], inv'[u], k)
  BY DEF Claims
<1>3. \A k \in Nat : Claim(Row(q), InvitationsAfter(q), k)
                       => Claim(user[q.user], inv[q.user], k) \/ k = Added(q)
  BY <1>1, WriteClaims
<1>4. ASSUME NEW u \in Users \ {q.user}, NEW k \in Nat, Claim(user'[u], inv'[u], k)
      PROVE  /\ Claim(user[u], inv[u], k)
             /\ q.kind = "transfer" /\ u = q.actor => k # 0
  <2>1. inv'[u] = inv[u] /\ inv[u] \in Seq(Invitations) /\ user[u] \in Rows
    BY <1>1 DEF Written
  <2>2. CASE q.kind = "transfer" /\ u = q.actor
    <3>1. user'[u] = [user[u] EXCEPT !.role = "MANAGER"]
      BY <2>2 DEF Written
    <3>2. ~Owning(user'[u])
      BY <2>1, <3>1 DEF Rows, Owning
    <3>3. 0 \notin DOMAIN inv[u]
      BY <2>1
    <3> QED BY <1>4, <2>1, <3>2, <3>3 DEF Claim
  <2>3. CASE ~(q.kind = "transfer" /\ u = q.actor)
    <3>1. user'[u] = user[u]
      BY <2>3 DEF Written
    <3> QED BY <1>4, <2>1, <2>3, <3>1
  <2> QED BY <2>2, <2>3
<1>5. Added(q) \in Nat
  <2>1. inv[q.user] \in Seq(Invitations)
    BY <1>1
  <2>2. Len(inv[q.user]) \in Nat
    BY <2>1
  <2> QED BY <2>2 DEF Added
<1>6. \A c \in Users \X Nat : c = <<c[1], c[2]>> /\ c[1] \in Users /\ c[2] \in Nat
  OBVIOUS
<1>7. D \subseteq C \union {x}
  <2>1. ASSUME NEW u \in Users, NEW k \in Nat, <<u, k>> \in D
        PROVE  <<u, k>> \in C \union {x}
    <3> HIDE DEF C, D
    <3>1. CASE u = q.user
      BY <1>1, <1>2, <1>3, <2>1, <3>1
    <3>2. CASE u # q.user
      BY <1>2, <1>4, <2>1, <3>2
    <3> QED BY <3>1, <3>2
  <2> HIDE DEF C, D, x
  <2> QED BY <1>2, <1>6, <2>1
<1>8. IsFiniteSet(C) /\ Cardinality(C) <= 1 + stale /\ Cardinality(C) \in Nat
  BY FS_CardinalityType DEF ClaimsBounded
<1>9. /\ IsFiniteSet(C \union {x}) /\ Cardinality(C \union {x}) <= Cardinality(C) + 1
      /\ Cardinality(C \union {x}) \in Nat
  <2> HIDE DEF C, x
  <2> QED BY <1>8, OneMore
<1>10. IsFiniteSet(D) /\ Cardinality(D) \in Nat /\ Cardinality(D) <= Cardinality(C) + 1
  <2> HIDE DEF C, D, x
  <2>1. IsFiniteSet(D) /\ Cardinality(D) <= Cardinality(C \union {x})
    BY <1>7, <1>9, FS_Subset
  <2> QED BY <1>8, <1>9, <2>1, FS_CardinalityType
<1>11. ASSUME NEW y \in C, D \subseteq (C \ {y}) \union {x}
       PROVE  Cardinality(D) <= Cardinality(C)
  <2> HIDE DEF C, D, x
  <2>1. /\ IsFiniteSet(C \ {y}) /\ Cardinality(C \ {y}) = Cardinality(C) - 1
        /\ Cardinality(C \ {y}) \in Nat
    <3>1. IsFiniteSet(C \ {y}) /\ Cardinality(C \ {y}) = Cardinality(C) - 1
      BY <1>8, <1>11, FS_RemoveElement
    <3> QED BY <3>1, FS_CardinalityType
  <2>2. /\ IsFiniteSet((C \ {y}) \union {x})
        /\ Cardinality((C \ {y}) \union {x}) <= Cardinality(C)
        /\ Cardinality((C \ {y}) \union {x}) \in Nat
    <3>1. /\ IsFiniteSet((C \ {y}) \union {x}) /\ Cardinality((C \ {y}) \union {x}) \in Nat
          /\ Cardinality((C \ {y}) \union {x}) <= Cardinality(C \ {y}) + 1
      BY <2>1, OneMore
    <3> QED BY <1>8, <2>1, <3>1
  <2>3. Cardinality(D) <= Cardinality((C \ {y}) \union {x})
    BY <1>11, <2>2, FS_Subset
  <2> QED BY <1>8, <1>10, <2>2, <2>3
<1>12. ASSUME ~Changed(q)
       PROVE  Cardinality(D) <= Cardinality(C)
  <2>1. q.seen[1] = user[q.user] /\ q.seen[3] = user[q.actor]
    BY <1>12 DEF Changed
  <2>2. CASE q.kind = "transfer"
    <3>1. q.actor # q.user /\ Owning(user[q.actor]) /\ user[q.actor].status = "ACTIVE"
      BY <1>1, <2>1, <2>2 DEF Guarded
    <3> DEFINE y == <<q.actor, 0>>
    <3>2. y \in C
      <4>1. Claim(user[q.actor], inv[q.actor], 0)
        BY <3>1 DEF Claim, Waiting
      <4> QED BY <1>1, <1>2, <4>1
    <3>3. y \notin D /\ y # x
      <4>1. ~Claim(user'[q.actor], inv'[q.actor], 0)
        BY <1>1, <1>4, <2>2, <3>1
      <4> QED BY <1>1, <1>2, <3>1, <4>1
    <3>4. D \subseteq (C \ {y}) \union {x}
      <4> HIDE DEF C, D, x, y
      <4> QED BY <1>7, <3>3
    <3> QED BY <1>11, <3>2, <3>4
  <2>3. CASE q.kind # "transfer"
    <3>1. \/ \A k \in Nat : Claim(Row(q), InvitationsAfter(q), k) => Claim(user[q.user], inv[q.user], k)
          \/ /\ \E k \in Nat : Claim(user[q.user], inv[q.user], k)
             /\ \A k \in Nat : Claim(Row(q), InvitationsAfter(q), k) => k = Added(q)
      BY <1>1, <1>12, <2>3, CurrentClaims
    <3>2. CASE \A k \in Nat : Claim(Row(q), InvitationsAfter(q), k) => Claim(user[q.user], inv[q.user], k)
      <4>1. ASSUME NEW u \in Users, NEW k \in Nat, <<u, k>> \in D
            PROVE  <<u, k>> \in C
        <5> HIDE DEF C, D
        <5>1. CASE u = q.user
          BY <1>1, <1>2, <3>2, <4>1, <5>1
        <5>2. CASE u # q.user
          BY <1>2, <1>4, <4>1, <5>2
        <5> QED BY <5>1, <5>2
      <4>2. D \subseteq C
        <5> HIDE DEF C, D
        <5> QED BY <1>2, <1>6, <4>1
      <4> HIDE DEF C, D
      <4> QED BY <1>8, <4>2, FS_Subset
    <3>3. CASE /\ \E k \in Nat : Claim(user[q.user], inv[q.user], k)
               /\ \A k \in Nat : Claim(Row(q), InvitationsAfter(q), k) => k = Added(q)
      <4>1. PICK k \in Nat : Claim(user[q.user], inv[q.user], k)
        BY <3>3
      <4> DEFINE y == <<q.user, k>>
      <4>2. y \in C
        BY <1>1, <1>2, <4>1
      <4>3. y \in D => y = x
        <5>1. y \in D <=> Claim(Row(q), InvitationsAfter(q), k)
          BY <1>1, <1>2
        <5> QED BY <3>3, <5>1
      <4>4. D \subseteq (C \ {y}) \union {x}
        <5> HIDE DEF C, D, x, y
        <5> QED BY <1>7, <4>3
      <4> QED BY <1>11, <4>2, <4>4
    <3> QED BY <3>1, <3>2, <3>3
  <2> QED BY <2>2, <2>3
<1>13. Cardinality(D) <= 1 + stale'
  <2> HIDE DEF C, D
  <2> QED BY <1>1, <1>8, <1>10, <1>12
<1> QED BY <1>10, <1>13 DEF ClaimsBounded

----------------------------------------------------------------------------
(* A request that starts, finds, looks or leaves: no row is written.        *)

LEMMA BeginWorks ==
  ASSUME RowsTyped, NEW r \in Requests, NEW a \in Users, NEW u \in Users,
         NEW kind \in Kinds, NEW role \in Roles, NEW i \in Nat, Begin(r, kind, a, u, role, i)
  PROVE  LET q == [kind |-> kind, actor |-> a, user |-> u, role |-> role, inv |-> i,
                   seen |-> <<user[u], inv[u], user[a]>>, at |-> "decided", sees |-> 0] IN
         /\ q \in Working /\ req[r].kind = "none" /\ req' = [req EXCEPT ![r] = q]
         /\ served' \in 0..MaxRequests
         /\ UNCHANGED <<user, inv, stale, unchecked>>
<1>1. /\ user[u] \in Rows /\ user[a] \in Rows /\ inv[u] \in Seq(Invitations)
      /\ served \in 0..MaxRequests
  BY DEF RowsTyped
<1>2. <<user[u], inv[u], user[a]>> \in Rows \X Seq(Invitations) \X Rows
  BY <1>1
<1>3. served' \in 0..MaxRequests
  BY <1>1 DEF Begin
<1> QED BY <1>2, <1>3 DEF Begin, Working

(* A request of any kind starts on rows that allow it, and one that takes  *)
(* a seat of the quota has seen one free.                                  *)
LEMMA StartFacts ==
  ASSUME RowsTyped, NEW r \in Requests,
         (\E a \in Users : IsOwner(a) /\ Active(a) /\ Administer(r, a)) \/ Join(r)
  PROVE  \E q \in Working : Turns(r, q)
<1> DEFINE Goal == \E q \in Working : Turns(r, q)
<1> SUFFICES Goal
  OBVIOUS
<1>1. user \in [Users -> Rows] /\ inv \in [Users -> Seq(Invitations)]
  BY DEF RowsTyped
<1>2. ASSUME NEW a \in Users, NEW u \in Users, NEW kind \in Kinds, NEW role \in Roles, NEW i \in Nat,
             Begin(r, kind, a, u, role, i),
             LET q == [kind |-> kind, actor |-> a, user |-> u, role |-> role, inv |-> i,
                       seen |-> <<user[u], inv[u], user[a]>>, at |-> "decided", sees |-> 0] IN
             Guarded(q),
             kind # "invite" => user[u].status # "absent",
             kind = "accept" => i \in DOMAIN inv[u],
             kind \in QuotaRead => Used < Seats
      PROVE  Goal
  <2> DEFINE q == [kind |-> kind, actor |-> a, user |-> u, role |-> role, inv |-> i,
                   seen |-> <<user[u], inv[u], user[a]>>, at |-> "decided", sees |-> 0]
  <2>1. /\ q \in Working /\ req[r].kind = "none" /\ req' = [req EXCEPT ![r] = q]
        /\ served' \in 0..MaxRequests
        /\ UNCHANGED <<user, inv, stale, unchecked>>
    BY <1>2, BeginWorks
  <2>2. /\ q.kind = kind /\ q.user = u /\ q.inv = i /\ q.at = "decided" /\ q.seen[2] = inv[u]
    OBVIOUS
  <2>3. Guarded(q)
    BY <1>2
  <2>5. Later(inv[u], inv[u])
    <3>1. inv[u] \in Seq(Invitations)
      BY <1>1
    <3>2. Len(inv[u]) \in Nat
      BY <3>1
    <3> QED BY <3>2 DEF Later
  <2> HIDE DEF q
  <2>4. WorkTyped(q)
    BY <1>2, <2>1, <2>2, <2>3, <2>5 DEF WorkTyped
  <2>6. Turns(r, q)
    BY <1>2, <2>1, <2>2, <2>4 DEF Turns
  <2> QED BY <2>1, <2>6
<1>3. ASSUME NEW a \in Users, IsOwner(a), Active(a), Administer(r, a)
      PROVE  Goal
  <2> HIDE DEF Goal
  <2>1. PICK u \in Users :
          \/ \E role \in Roles \ {"OWNER"} :
               \/ MayInvite(u) /\ Begin(r, "invite", a, u, role, 0)
               \/ MayChangeRole(u, role) /\ Begin(r, "role", a, u, role, 0)
          \/ MayResend(u) /\ Begin(r, "resend", a, u, user[u].role, 0)
          \/ MayTransfer(a, u) /\ Begin(r, "transfer", a, u, "OWNER", 0)
          \/ MayRemove(a, u) /\ Begin(r, "remove", a, u, user[u].role, 0)
          \/ MayEnable(u) /\ Begin(r, "enable", a, u, user[u].role, 0)
          \/ MayDisable(u) /\ Begin(r, "disable", a, u, user[u].role, 0)
    BY <1>3 DEF Administer
  <2>2. user[u] \in Rows /\ user[a] \in Rows /\ user[u].role \in Roles
    <3>1. user[u] \in Rows /\ user[a] \in Rows
      BY <1>1
    <3> QED BY <3>1 DEF Rows
  <2>3. ASSUME NEW role \in Roles \ {"OWNER"}, MayInvite(u), Begin(r, "invite", a, u, role, 0)
        PROVE  Goal
    BY <1>2, <2>3 DEF MayInvite, Guarded, Kinds
  <2>4. ASSUME NEW role \in Roles \ {"OWNER"}, MayChangeRole(u, role), Begin(r, "role", a, u, role, 0)
        PROVE  Goal
    BY <1>2, <2>4 DEF MayChangeRole, Exists, There, Owning, Guarded, Kinds, QuotaRead
  <2>5. CASE MayResend(u) /\ Begin(r, "resend", a, u, user[u].role, 0)
    BY <1>2, <2>2, <2>5 DEF MayResend, Exists, There, Owning, Guarded, Kinds, QuotaRead
  <2>6. CASE MayTransfer(a, u) /\ Begin(r, "transfer", a, u, "OWNER", 0)
    BY <1>2, <1>3, <2>2, <2>6 DEF MayTransfer, Active, IsOwner, Exists, There, Owning, Guarded, Kinds, QuotaRead, Roles
  <2>7. CASE MayRemove(a, u) /\ Begin(r, "remove", a, u, user[u].role, 0)
    BY <1>2, <2>2, <2>7 DEF MayRemove, Exists, There, Owning, Guarded, Kinds, QuotaRead
  <2>8. CASE MayEnable(u) /\ Begin(r, "enable", a, u, user[u].role, 0)
    BY <1>2, <2>2, <2>8 DEF MayEnable, Exists, There, Owning, Guarded, Kinds, QuotaRead
  <2>9. CASE MayDisable(u) /\ Begin(r, "disable", a, u, user[u].role, 0)
    BY <1>2, <2>2, <2>9 DEF MayDisable, Exists, There, Owning, Guarded, Kinds, QuotaRead
  <2> QED BY <2>1, <2>3, <2>4, <2>5, <2>6, <2>7, <2>8, <2>9
<1>4. CASE Join(r)
  <2> HIDE DEF Goal
  <2>1. PICK u \in Users :
          \/ \E i \in DOMAIN inv[u] :
               MayAccept(u, i) /\ Begin(r, "accept", u, u, inv[u][i].role, i)
          \/ MaySignIn(u) /\ Begin(r, "google", u, u, user[u].role, 0)
          \/ IsOwner(u) /\ Begin(r, "reset", u, u, "OWNER", 0)
    BY <1>4 DEF Join
  <2>2. user[u].role \in Roles
    <3>1. user[u] \in Rows
      BY <1>1
    <3> QED BY <3>1 DEF Rows
  <2>3. ASSUME NEW i \in DOMAIN inv[u], MayAccept(u, i), Begin(r, "accept", u, u, inv[u][i].role, i)
        PROVE  Goal
    <3>1. i \in Nat /\ inv[u][i] \in Invitations
      BY <1>1
    <3>2. inv[u][i].role \in Roles
      BY <3>1 DEF Invitations
    <3> QED BY <1>2, <2>3, <3>1, <3>2 DEF MayAccept, Exists, There, Guarded, Kinds, QuotaRead
  <2>6. 0 \notin DOMAIN inv[u]
    <3>1. inv[u] \in Seq(Invitations)
      BY <1>1
    <3> QED BY <3>1
  <2>4. CASE MaySignIn(u) /\ Begin(r, "google", u, u, user[u].role, 0)
    BY <1>2, <2>2, <2>4, <2>6 DEF MaySignIn, Exists, There, Guarded, Kinds, QuotaRead
  <2>5. CASE IsOwner(u) /\ Begin(r, "reset", u, u, "OWNER", 0)
    BY <1>2, <2>5 DEF IsOwner, Exists, There, Owning, Guarded, Kinds, QuotaRead, Roles
  <2> QED BY <2>1, <2>3, <2>4, <2>5
<1> QED BY <1>3, <1>4

(* A Google sign-in finds the latest of the pending invitations, which was *)
(* pending when the request began, if it was there.                        *)
LEMMA FindFacts ==
  ASSUME RowsTyped, WorksTyped, NEW r \in Requests, FindLatest(r)
  PROVE  \E q \in Working : Turns(r, q)
<1>1. PICK q : q = req[r]
  OBVIOUS
<1>2. q.kind = "google" /\ q \in Working /\ WorkTyped(q)
  <2>1. q.kind = "google"
    BY <1>1 DEF FindLatest
  <2>2. q # NoRequest
    BY <2>1 DEF NoRequest
  <2> QED BY <1>1, <2>1, <2>2 DEF WorksTyped, WorkTyped
<1> DEFINE is == inv[q.user]
           pending == {k \in DOMAIN is : Pending(is[k])}
<1>3. PICK i \in IF pending = {} THEN {0} ELSE {k \in pending : \A j \in pending : j <= k} :
        req' = [req EXCEPT ![r] = [q EXCEPT !.at = "found", !.inv = i]]
  <2>1. \E i \in IF pending = {} THEN {0} ELSE {k \in pending : \A j \in pending : j <= k} :
          req' = [req EXCEPT ![r].at = "found", ![r].inv = i]
    BY <1>1 DEF FindLatest
  <2>2. \A i : [req EXCEPT ![r].at = "found", ![r].inv = i]
                 = [req EXCEPT ![r] = [q EXCEPT !.at = "found", !.inv = i]]
    BY <1>1, <1>2 DEF WorksTyped
  <2> HIDE DEF pending
  <2> QED BY <2>1, <2>2
<1>4. /\ is \in Seq(Invitations) /\ DOMAIN is = 1..Len(is) /\ Len(is) \in Nat
      /\ q.seen[2] \in Seq(Invitations) /\ DOMAIN q.seen[2] = 1..Len(q.seen[2]) /\ Len(q.seen[2]) \in Nat
  <2>1. is \in Seq(Invitations) /\ q.seen[2] \in Seq(Invitations)
    BY <1>2 DEF RowsTyped, Working
  <2> HIDE DEF is
  <2> QED BY <2>1
<1>5. i \in Nat /\ (i \in DOMAIN q.seen[2] => Pending(q.seen[2][i]))
  <2>1. Later(q.seen[2], is)
    BY <1>2 DEF WorkTyped
  <2>2. i = 0 \/ (i \in DOMAIN is /\ Pending(is[i]))
    BY <1>3
  <2> HIDE DEF is
  <2> QED BY <1>4, <2>1, <2>2 DEF Later
<1> DEFINE p == [q EXCEPT !.at = "found", !.inv = i]
<1>6. /\ p \in Working /\ p.kind = "google" /\ p.at = "found" /\ p.inv = i
      /\ p.seen = q.seen /\ p.user = q.user
  BY <1>2, <1>5 DEF Working
<1>7. Guarded(p)
  <2>1. There(q.seen[1]) /\ q.seen[1].status # "DISABLED"
    BY <1>2 DEF WorkTyped, Guarded
  <2> HIDE DEF p
  <2> QED BY <1>5, <1>6, <2>1 DEF Guarded
<1>8. req' = [req EXCEPT ![r] = p] /\ UNCHANGED <<user, inv, stale, unchecked, served>>
  BY <1>3 DEF FindLatest
<1>9. Turns(r, p)
  <2> HIDE DEF p
  <2> QED BY <1>2, <1>6, <1>7, <1>8 DEF Turns, WorkTyped, QuotaRead, Creators, RowsTyped
<1> QED BY <1>6, <1>9

(* The statement on the invitations sees those committed when it starts.   *)
LEMMA LookFacts ==
  ASSUME RowsTyped, WorksTyped, NEW r \in Requests, Look(r)
  PROVE  \E q \in Working : Turns(r, q)
<1>1. PICK q : q = req[r]
  OBVIOUS
<1>2. Rewrites(q) /\ req' = [req EXCEPT ![r].at = "writing", ![r].sees = Len(inv[q.user])]
      /\ UNCHANGED <<user, inv, stale, unchecked, served>>
  BY <1>1 DEF Look
<1>3. q \in Working /\ WorkTyped(q) /\ q.kind \notin QuotaRead
  <2>1. q.kind \in {"resend", "reset", "role", "remove", "disable", "accept", "google"}
    BY <1>2 DEF Rewrites, Accepts
  <2>2. q # NoRequest
    BY <2>1 DEF NoRequest
  <2> QED BY <1>1, <2>1, <2>2 DEF WorksTyped, WorkTyped, QuotaRead
<1> DEFINE n == Len(inv[q.user])
           p == [q EXCEPT !.at = "writing", !.sees = n]
<1>4. n \in Nat /\ Len(q.seen[2]) <= n
  <2>1. inv[q.user] \in Seq(Invitations)
    BY <1>3 DEF RowsTyped, Working
  <2> QED BY <1>3, <2>1 DEF WorkTyped, Later
<1>5. req' = [req EXCEPT ![r] = p]
  BY <1>1, <1>2, <1>3 DEF WorksTyped
<1> HIDE DEF n
<1>6. /\ p \in Working /\ p.kind = q.kind /\ p.at = "writing" /\ p.sees = n /\ p.inv = q.inv
      /\ p.seen = q.seen /\ p.user = q.user /\ p.actor = q.actor /\ p.role = q.role
  BY <1>3, <1>4 DEF Working
<1> HIDE DEF p
<1>7. Guarded(p)
  <2>1. Guarded(q)
    BY <1>3 DEF WorkTyped
  <2> QED BY <1>4, <1>6, <2>1 DEF Guarded
<1>8. WorkTyped(p)
  BY <1>3, <1>6, <1>7 DEF WorkTyped
<1>9. Len(inv[p.user]) <= p.sees
  BY <1>4, <1>6 DEF n
<1>10. Turns(r, p)
  BY <1>2, <1>3, <1>5, <1>6, <1>8, <1>9 DEF Turns, RowsTyped
<1> QED BY <1>6, <1>10

LEMMA TurnKeeps ==
  ASSUME MembersInv, NEW r \in Requests, NEW q \in Working \union {NoRequest}, Turns(r, q)
  PROVE  MembersInv'
<1>1. RowsTyped /\ WorksTyped /\ SeatsCounted /\ MembersSound /\ ClaimsBounded
  BY DEF MembersInv
<1>2. /\ req' = [req EXCEPT ![r] = q] /\ user' = user /\ inv' = inv /\ stale' = stale
      /\ unchecked' = unchecked /\ served' \in 0..MaxRequests
  BY DEF Turns
<1>3. RowsTyped'
  BY <1>1, <1>2 DEF RowsTyped
<1>4. MembersSound'
  BY <1>1, <1>2 DEF MembersSound, Owners, IsOwner, Exists, Reclaimable
<1>5. ClaimsBounded'
  BY <1>1, <1>2 DEF ClaimsBounded, Claims
<1>6. \A s \in Requests : req'[s] = IF s = r THEN q ELSE req[s]
  BY <1>1, <1>2 DEF WorksTyped
<1>7. WorksTyped'
  <2>1. req' \in [Requests -> Working \union {NoRequest}]
    BY <1>1, <1>2 DEF WorksTyped
  <2>2. \A s \in Requests : req'[s] = NoRequest \/ WorkTyped(req'[s])
    BY <1>1, <1>6 DEF WorksTyped, Turns
  <2> QED BY <1>2, <2>1, <2>2 DEF WorksTyped, WorkTyped
<1>8. ASSUME NEW u \in Users
      PROVE  Made(u)'
  <2>1. PICK f \in [Nat -> Requests] :
          /\ \A j, k \in PendingOf(u) : f[j] = f[k] => j = k
          /\ \A k \in PendingOf(u) : \A s \in Requests :
               f[k] = s /\ req[s].kind \in Creators /\ req[s].at = "writing" /\ req[s].user = u
                 => k <= req[s].sees
    BY DEF MembersInv, Made
  <2>2. PendingOf(u)' = PendingOf(u)
    BY <1>2 DEF PendingOf
  <2>3. ASSUME NEW k \in PendingOf(u), NEW s \in Requests, f[k] = s, req'[s].kind \in Creators,
               req'[s].at = "writing", req'[s].user = u
        PROVE  k <= req'[s].sees
    <3>1. CASE s # r
      BY <1>6, <2>1, <2>3, <3>1
    <3>2. CASE s = r
      <4>1. req'[s] = q
        BY <1>6, <3>2
      <4>2. Len(inv[u]) <= q.sees /\ q.sees \in Nat
        <5>1. Len(inv[q.user]) <= q.sees
          BY <2>3, <4>1 DEF Turns
        <5>2. q # NoRequest
          BY <2>3, <4>1 DEF NoRequest, Creators
        <5> QED BY <2>3, <4>1, <5>1, <5>2 DEF Working
      <4>3. k \in 1..Len(inv[u]) /\ Len(inv[u]) \in Nat
        <5>1. inv[u] \in Seq(Invitations)
          BY <1>1 DEF RowsTyped
        <5>2. k \in DOMAIN inv[u]
          BY DEF PendingOf
        <5> QED BY <5>1, <5>2
      <4> QED BY <4>1, <4>2, <4>3
    <3> QED BY <3>1, <3>2
  <2> QED BY <2>1, <2>2, <2>3 DEF Made
<1>9. SeatsCounted'
  <2> DEFINE S == {u \in Users : TakesSeat(user[u])}
             C == {s \in Requests : req[s].kind \in QuotaRead}
             D == {s \in Requests : req'[s].kind \in QuotaRead}
  <2>1. Cardinality(S) + Cardinality(C) <= Seats + Cardinality(Requests) - 1 + unchecked
    BY <1>1 DEF SeatsCounted, Used, Checked
  <2>2. /\ S \subseteq Users /\ C \subseteq Requests /\ D \subseteq Requests /\ unchecked \in Nat
    BY <1>1 DEF RowsTyped
  <2>3. D \subseteq C \/ Cardinality(S) < Seats
    <3>1. q.kind \in QuotaRead => Cardinality(S) < Seats \/ req[r].kind \in QuotaRead
      BY DEF Turns, Used
    <3> HIDE DEF S
    <3> QED BY <1>6, <3>1
  <2>4. /\ Cardinality(S) \in Nat /\ Cardinality(C) \in Nat /\ Cardinality(D) \in Nat
        /\ Cardinality(Requests) \in Nat
        /\ Cardinality(D) <= Cardinality(Requests) /\ (D \subseteq C => Cardinality(D) <= Cardinality(C))
    <3> HIDE DEF S, C, D
    <3>1. IsFiniteSet(S) /\ IsFiniteSet(C) /\ IsFiniteSet(D) /\ IsFiniteSet(Requests)
      BY <2>2, FS_Subset
    <3>2. Cardinality(D) <= Cardinality(Requests) /\ (D \subseteq C => Cardinality(D) <= Cardinality(C))
      BY <2>2, <3>1, FS_Subset
    <3> QED BY <3>1, <3>2, FS_CardinalityType
  <2>5. Cardinality(S) + Cardinality(D) <= Seats + Cardinality(Requests) - 1 + unchecked
    <3> HIDE DEF S, C, D
    <3> QED BY <2>1, <2>2, <2>3, <2>4
  <2> QED BY <1>2, <2>5 DEF SeatsCounted, Used, Checked
<1> QED BY <1>3, <1>4, <1>5, <1>7, <1>8, <1>9 DEF MembersInv

LEMMA MembersInitial == MembersInit => MembersInv
<1> SUFFICES ASSUME MembersInit PROVE MembersInv
  OBVIOUS
<1>1. /\ user = [u \in Users |->
                   IF u = Founder
                   THEN [role |-> "OWNER", status |-> "ACTIVE", deleted |-> FALSE, password |-> TRUE]
                   ELSE NoRow]
      /\ inv = [u \in Users |-> <<>>] /\ req = [r \in Requests |-> NoRequest]
      /\ stale = 0 /\ unchecked = 0 /\ served = 0
  BY DEF MembersInit
<1>2. RowsTyped
  <2>1. <<>> \in Seq(Invitations)
    OBVIOUS
  <2>2. NoRow \in Rows /\ [role |-> "OWNER", status |-> "ACTIVE", deleted |-> FALSE, password |-> TRUE] \in Rows
    BY DEF Rows, Roles, Statuses, NoRow
  <2>3. user \in [Users -> Rows]
    <3> HIDE DEF Rows, NoRow
    <3> QED BY <1>1, <2>2
  <2>4. inv \in [Users -> Seq(Invitations)] /\ \A u \in Users : inv[u] = <<>>
    BY <1>1, <2>1
  <2>5. stale \in Nat /\ unchecked \in Nat
    BY <1>1
  <2>6. served \in 0..MaxRequests
    BY <1>1
  <2> QED BY <2>3, <2>4, <2>5, <2>6, Zenon DEF RowsTyped
<1>3. WorksTyped
  BY <1>1 DEF WorksTyped
<1>4. ASSUME NEW u \in Users
      PROVE  Made(u)
  <2>1. PendingOf(u) = {}
    BY <1>1 DEF PendingOf
  <2>2. PICK r \in Requests : TRUE
    OBVIOUS
  <2>3. [k \in Nat |-> r] \in [Nat -> Requests]
    OBVIOUS
  <2> QED BY <2>1, <2>3 DEF Made
<1>5. SeatsCounted
  <2>1. Used = 1
    <3>1. {u \in Users : TakesSeat(user[u])} = {Founder}
      BY <1>1 DEF TakesSeat, NoRow
    <3> QED BY <3>1, FS_Singleton DEF Used
  <2>2. Cardinality(Checked) = 0
    <3>1. Checked = {}
      BY <1>1 DEF Checked, NoRequest, QuotaRead
    <3> QED BY <3>1, FS_EmptySet
  <2>3. Cardinality(Requests) \in Nat /\ Cardinality(Requests) # 0
    BY FS_CardinalityType, FS_EmptySet
  <2> QED BY <1>1, <2>1, <2>2, <2>3 DEF SeatsCounted
<1>6. MembersSound
  <2>1. Owners = {Founder}
    BY <1>1 DEF Owners, IsOwner, Exists, NoRow
  <2>2. user[Founder].status = "ACTIVE"
    BY <1>1
  <2>3. \A u \in Users : Sound(user[u], inv[u])
    BY <1>1 DEF Sound, NoRow
  <2> QED BY <2>1, <2>2, <2>3 DEF MembersSound
<1>7. ClaimsBounded
  <2>1. Claims = {<<Founder, 0>>}
    <3>1. \A u \in Users, k \in Nat : Claim(user[u], inv[u], k) <=> u = Founder /\ k = 0
      <4>1. \A u \in Users : inv[u] = <<>> /\ DOMAIN inv[u] = {}
        BY <1>1
      <4>2. \A u \in Users : (Owning(user[u]) /\ user[u].status # "INVITED") <=> u = Founder
        BY <1>1 DEF Owning, There, NoRow
      <4>3. \A u \in Users : user[u].status # "INVITED"
        BY <1>1 DEF NoRow
      <4> QED BY <4>1, <4>2, <4>3 DEF Claim, Waiting
    <3>2. \A c \in Users \X Nat : c = <<c[1], c[2]>> /\ c[1] \in Users /\ c[2] \in Nat
      OBVIOUS
    <3> QED BY <3>1, <3>2 DEF Claims
  <2>2. IsFiniteSet(Claims) /\ Cardinality(Claims) = 1
    BY <2>1, FS_Singleton
  <2> QED BY <1>1, <2>2 DEF ClaimsBounded
<1> QED BY <1>2, <1>3, <1>4, <1>5, <1>6, <1>7 DEF MembersInv

LEMMA MembersStep == MembersInv /\ [MembersNext]_memberVars => MembersInv'
<1> SUFFICES ASSUME MembersInv, [MembersNext]_memberVars PROVE MembersInv'
  OBVIOUS
<1>0. RowsTyped /\ WorksTyped /\ SeatsCounted /\ MembersSound /\ ClaimsBounded
  BY DEF MembersInv
<1>1. ASSUME NEW r \in Requests,
             (\E a \in Users : IsOwner(a) /\ Active(a) /\ Administer(r, a)) \/ Join(r)
      PROVE  MembersInv'
  BY <1>0, <1>1, StartFacts, TurnKeeps
<1>2. ASSUME NEW r \in Requests, Commit(r)
      PROVE  MembersInv'
  <2>1. PICK q : q = req[r]
    OBVIOUS
  <2>3. q \in Working /\ WorkTyped(q) /\ (Turns(r, NoRequest) \/ Written(r, q))
    BY <1>0, <1>2, <2>1, CommitWrites
  <2>4. CASE Turns(r, NoRequest)
    BY <2>4, TurnKeeps
  <2>5. CASE Written(r, q)
    <3>1. RowsTyped' /\ WorksTyped'
      BY <1>0, <2>3, <2>5, WrittenTyped
    <3>2. SeatsCounted'
      BY <1>0, <2>1, <2>3, <2>5, WrittenSeats
    <3>3. MembersSound'
      BY <1>0, <2>3, <2>5, WrittenSound
    <3>4. ClaimsBounded'
      BY <1>0, <2>3, <2>5, WrittenClaims
    <3>5. ASSUME NEW u \in Users
          PROVE  Made(u)'
      <4>1. Made(u)
        BY DEF MembersInv
      <4> QED BY <1>0, <2>1, <2>3, <2>5, <4>1, WrittenMade
    <3> QED BY <3>1, <3>2, <3>3, <3>4, <3>5 DEF MembersInv
  <2> QED BY <2>3, <2>4, <2>5
<1>3. ASSUME NEW r \in Requests, FindLatest(r) \/ Look(r)
      PROVE  MembersInv'
  BY <1>0, <1>3, FindFacts, LookFacts, TurnKeeps
<1>4. ASSUME NEW r \in Requests, Abandon(r)
      PROVE  MembersInv'
  <2>1. NoRequest.kind = "none" /\ "none" \notin QuotaRead /\ "none" \notin Creators
    BY DEF NoRequest, QuotaRead, Creators
  <2>2. Turns(r, NoRequest)
    BY <1>0, <1>4, <2>1 DEF Abandon, Turns, RowsTyped
  <2> QED BY <2>2, TurnKeeps
<1>5. CASE UNCHANGED memberVars
  <2>1. UNCHANGED <<user, inv, stale, unchecked>> /\ req' = req /\ served' = served
    BY <1>5 DEF memberVars
  <2>2. RowsTyped' /\ WorksTyped'
    BY <1>0, <2>1 DEF RowsTyped, WorksTyped, WorkTyped
  <2>3. MembersSound'
    BY <1>0, <2>1 DEF MembersSound, Owners, IsOwner, Exists, Reclaimable
  <2>4. SeatsCounted' /\ ClaimsBounded'
    BY <1>0, <2>1 DEF SeatsCounted, Used, Checked, ClaimsBounded, Claims
  <2>5. ASSUME NEW u \in Users
        PROVE  Made(u)'
    <3>1. PendingOf(u)' = PendingOf(u)
      BY <2>1 DEF PendingOf
    <3> QED BY <2>1, <3>1 DEF MembersInv, Made
  <2> QED BY <2>2, <2>3, <2>4, <2>5 DEF MembersInv
<1> QED BY <1>1, <1>2, <1>3, <1>4, <1>5 DEF MembersNext

LEMMA MembersReached == MembersSpec => []MembersInv
BY MembersInitial, MembersStep, PTL DEF MembersSpec

----------------------------------------------------------------------------
(* Rows, invitations and requests in flight keep their types, every        *)
(* invitation belongs to a member there is, and an acceptance in flight    *)
(* names an invitation that is still there when it is written.             *)
THEOREM MembersTyped == MembersSpec => []MembersTypeOK
<1>1. MembersInv => MembersTypeOK
  <2> SUFFICES ASSUME MembersInv PROVE MembersTypeOK
    OBVIOUS
  <2>1. RequestsTyped
    <3>1. ASSUME NEW r \in Requests, req[r] # NoRequest
          PROVE  /\ req[r] \in Working
                 /\ req[r].kind = "accept" => req[r].inv \in DOMAIN inv[req[r].user]
      BY <3>1 DEF MembersInv, WorksTyped, WorkTyped
    <3> QED BY <3>1 DEF RequestsTyped, Working
  <2> QED BY <2>1 DEF MembersInv, RowsTyped, MembersTypeOK
<1> QED BY <1>1, MembersReached, PTL

(* For any number of members and requests: as long as no write meets rows  *)
(* changed since they were read, invitations, transfers, removals,         *)
(* sign-ins and resets leave the tenant exactly one owner, who can act or  *)
(* come back; and each write that does makes at most one owner too many.   *)
THEOREM OwnerIsUnique == MembersSpec => []OneOwner
<1>1. MembersInv => OneOwner
  <2> SUFFICES ASSUME MembersInv PROVE OneOwner
    OBVIOUS
  <2>1. /\ user \in [Users -> Rows] /\ inv \in [Users -> Seq(Invitations)] /\ stale \in Nat
        /\ IsFiniteSet(Claims) /\ Cardinality(Claims) <= 1 + stale
    BY DEF MembersInv, RowsTyped, ClaimsBounded
  <2> DEFINE k(u) == CHOOSE n \in Nat : Claim(user[u], inv[u], n)
             f == [u \in Owners |-> <<u, k(u)>>]
  <2>2. ASSUME NEW u \in Owners
        PROVE  k(u) \in Nat /\ Claim(user[u], inv[u], k(u)) /\ u \in Users
    <3>1. u \in Users /\ Owning(user[u])
      BY DEF Owners, IsOwner, Exists, Owning, There
    <3>2. DOMAIN inv[u] \union {0} \subseteq Nat
      <4>1. inv[u] \in Seq(Invitations)
        BY <2>1, <3>1
      <4> QED BY <4>1
    <3>3. \E n \in Nat : Claim(user[u], inv[u], n)
      BY <3>1, <3>2, OwnerClaims
    <3> QED BY <3>1, <3>3
  <2>3. f \in Injection(Owners, Claims)
    <3> HIDE DEF k
    <3>1. \A u \in Owners : f[u] = <<u, k(u)>> /\ f[u] \in Claims
      BY <2>2 DEF Claims
    <3> QED BY <3>1 DEF Injection, IsInjective
  <2>4. /\ IsFiniteSet(Owners) /\ Cardinality(Owners) <= Cardinality(Claims)
    BY <2>1, <2>3, FS_Injection
  <2>5. Cardinality(Owners) <= 1 + stale
    BY <2>1, <2>4, FS_CardinalityType
  <2> QED BY <2>5 DEF MembersInv, MembersSound, OneOwner
<1> QED BY <1>1, MembersReached, PTL

(* However any number of requests overlap, the seats in use exceed the     *)
(* plan's by no more than the requests that can have looked at the quota   *)
(* together, and by the seats taken back without a look at it.             *)
THEOREM SeatsAreBounded == MembersSpec => []SeatsBounded
<1>1. MembersInv => SeatsBounded
  <2> SUFFICES ASSUME MembersInv PROVE SeatsBounded
    OBVIOUS
  <2>1. SeatsCounted /\ unchecked \in Nat
    BY DEF MembersInv, RowsTyped
  <2>2. /\ IsFiniteSet(Checked) /\ IsFiniteSet({u \in Users : TakesSeat(user[u])})
        /\ Checked \subseteq Requests
    BY FS_Subset DEF Checked
  <2>3. Cardinality(Checked) \in Nat /\ Used \in Nat /\ Cardinality(Requests) \in Nat
    BY <2>2, FS_CardinalityType DEF Used
  <2> QED BY <2>1, <2>3 DEF SeatsCounted, SeatsBounded
<1> QED BY <1>1, MembersReached, PTL

(* However many requests overlap, a member has no more invitations that    *)
(* could be accepted than there are requests at once; and as long as no    *)
(* write meets rows changed since they were read there is one, it offers   *)
(* the member's own role, is used or revoked once, and nobody who joined   *)
(* or left has one.                                                        *)
THEOREM InvitationsHold == MembersSpec => []InvitationsSound
<1>1. MembersInv => InvitationsSound
  <2> SUFFICES ASSUME MembersInv PROVE InvitationsSound
    OBVIOUS
  <2>1. stale = 0 => \A u \in Users : Sound(user[u], inv[u])
    BY DEF MembersInv, MembersSound
  <2>2. FewPending
    <3> SUFFICES ASSUME NEW u \in Users
                 PROVE  Cardinality(PendingOf(u)) <= IF stale = 0 THEN 1 ELSE Cardinality(Requests)
      BY DEF FewPending
    <3>1. PICK f \in [Nat -> Requests] : \A j, k \in PendingOf(u) : f[j] = f[k] => j = k
      BY DEF MembersInv, Made
    <3>2. PendingOf(u) \subseteq Nat
      <4>1. inv[u] \in Seq(Invitations)
        BY DEF MembersInv, RowsTyped
      <4> QED BY <4>1 DEF PendingOf
    <3> DEFINE g == [k \in PendingOf(u) |-> f[k]]
    <3>3. g \in Injection(PendingOf(u), Requests)
      BY <3>1, <3>2 DEF Injection, IsInjective
    <3>4. IsFiniteSet(PendingOf(u)) /\ Cardinality(PendingOf(u)) <= Cardinality(Requests)
      BY <3>3, FS_Injection
    <3>5. ASSUME stale = 0
          PROVE  Cardinality(PendingOf(u)) <= 1
      <4>1. \A j, k \in PendingOf(u) : j = k
        BY <2>1, <3>5 DEF Sound, PendingOf
      <4>2. CASE PendingOf(u) = {}
        BY <4>2, FS_EmptySet
      <4>3. CASE PendingOf(u) # {}
        <5>1. PICK k : PendingOf(u) = {k}
          BY <4>1, <4>3
        <5> QED BY <5>1, FS_Singleton
      <4> QED BY <4>2, <4>3
    <3> QED BY <3>4, <3>5
  <2>3. PendingRoleIsMembers
    BY <2>1 DEF Sound, PendingRoleIsMembers, PendingOf
  <2>4. InvitationsSettleOnce
    BY <2>1 DEF Sound, InvitationsSettleOnce
  <2> QED BY <2>2, <2>3, <2>4 DEF InvitationsSound
<1> QED BY <1>1, MembersReached, PTL

===========================================================================
