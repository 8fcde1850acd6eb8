--------------------------- MODULE PipelineProofs ---------------------------
(***************************************************************************)
(* Theorems about ApplicationPipeline for any finite set of requests, any  *)
(* targets and any bounds.  Every handler writes what it decided on an     *)
(* earlier read, so each of its consequences is counted together with the  *)
(* requests that are still about to bring it about: what a request owes    *)
(* was paid for by the step that sent it there.                            *)
(***************************************************************************)
EXTENDS ApplicationPipeline, TLAPS, FiniteSetTheorems, SequenceTheorems

USE PipelineAssumption

Entries == [from : Stages \union {NoStage}, to : Stages]
Working == [pc : Points, kind : Kinds, id : Ids \union {0},
            from : Stages \union {NoStage}, to : Stages \union {NoStage}]

RowsTyped ==
  /\ app \in [id : Ids, stage : Stages] \union {NoApp}
  /\ hist \in Seq(Entries) /\ (~Exists => hist = <<>>)
  /\ archived \in BOOLEAN /\ synced \subseteq Ids
  /\ served \in 0..MaxRequests /\ faults \in 0..MaxFaults

CountersTyped ==
  /\ moved \in [Ids -> Nat] /\ announced \in [Ids -> Nat] /\ packs \in [Ids -> Nat]
  /\ decided \in [Ids -> Nat] /\ approved \in [Ids -> Nat] /\ cleared \in [Ids -> Nat]
  /\ invited \in [Ids -> Nat] /\ created \in [Ids -> Nat] /\ charged \in [Ids -> Nat]

\* What else holds of a request by its control point, when s are the
\* applications an import has written and n requests have been served.
Owes(q, s, n) ==
  /\ q.pc \notin {"idle", "create", "sync"} => q.id \in Ids
  /\ q.pc \in {"recommend", "approve"} => q.kind = "decision"
  /\ q.pc \in {"write", "announce", "automate", "sync", "trace", "stage", "session", "invite", "clear"}
       => q.to \in Stages
  /\ q.pc = "trace" => q.id \in s
  /\ q.pc # "idle" => n > 0

RequestsTyped == req \in [Requests -> Working] /\ \A r \in Requests : Owes(req[r], synced, served)

Typed == RowsTyped /\ CountersTyped /\ RequestsTyped

\* The requests that are going to ...
\* ... approve a decision of application i, if they get that far;
Deciding(i) == {r \in Requests : /\ req[r].pc \in {"announce", "automate", "recommend", "approve"}
                                 /\ req[r].kind = "decision" /\ req[r].id = i}
\* ... create an interview session for it;
Inviting(i) == {r \in Requests : req[r].pc \in {"invite", "session"} /\ req[r].id = i}
\* ... ask for its review pack.
Packing(i) == {r \in Requests : /\ req[r].pc \in {"announce", "automate"} /\ req[r].id = i
                                /\ NeedsReviewPack(r)}

ToReview == [from |-> "INTERVIEW_COMPLETED", to |-> "RECRUITER_REVIEW"]
Reviews(h) == {k \in DOMAIN h : h[k] = ToReview}

DecisionsCounted == \A i \in Ids : approved[i] + Cardinality(Deciding(i)) <= decided[i]
InvitesCounted == \A i \in Ids : invited[i] + Cardinality(Inviting(i)) <= cleared[i]
EventsCounted == \A i \in Ids :
  /\ announced[i] + Cardinality(Announcing(i)) <= moved[i]
  /\ moved[i] <= announced[i] + Cardinality(Announcing(i)) + faults
PacksCounted ==
  Exists => packs[app.id] + Cardinality(Packing(app.id)) <= Cardinality(Reviews(hist))

\* An id is new until an application has it: nothing was counted for it, and
\* no request knows it.
Unused(i) == packs[i] = 0 /\ \A r \in Requests : req[r].id # i
FreshIds ==
  /\ app.id <= served
  /\ \A i \in Ids : i >= served /\ i # app.id => Unused(i)
  /\ \A r \in Requests : At(r, "delete") => req[r].id < served

\* A stage that was read and is about to be left is in the history.
Led(h, stage) == \E k \in DOMAIN h : h[k].to = stage
ReadStagesLed ==
  \A r \in Requests :
    At(r, "write") /\ req[r].id = app.id /\ app.id \notin synced => Led(hist, req[r].from)

Inv ==
  /\ Typed /\ FreshIds
  /\ TraceMatchesStage /\ FromWasReached /\ ReadStagesLed
  /\ DecisionsCounted /\ InvitesCounted /\ EventsCounted /\ PacksCounted

----------------------------------------------------------------------------
(* Counting.                                                                *)

(* A set of requests of which only r may enter or leave.                   *)
LEMMA CountStep ==
  ASSUME NEW S \in SUBSET Requests, NEW T \in SUBSET Requests, NEW r \in Requests,
         \A q \in Requests \ {r} : q \in T <=> q \in S
  PROVE  /\ Cardinality(S) \in Nat /\ Cardinality(T) \in Nat
         /\ Cardinality(T) + (IF r \in S THEN 1 ELSE 0)
              = Cardinality(S) + (IF r \in T THEN 1 ELSE 0)
<1>1. IsFiniteSet(S) /\ IsFiniteSet(T)
  BY FS_Subset
<1>2. Cardinality(S) \in Nat /\ Cardinality(T) \in Nat
  BY <1>1, FS_CardinalityType
<1>3. CASE r \in S /\ r \notin T
  <2>1. T = S \ {r}
    BY <1>3
  <2> QED BY <1>1, <1>2, <1>3, <2>1, FS_RemoveElement
<1>4. CASE r \notin S /\ r \in T
  <2>1. T = S \cup {r}
    BY <1>4
  <2> QED BY <1>1, <1>2, <1>4, <2>1, FS_AddElement
<1>5. CASE r \in S <=> r \in T
  <2>1. T = S
    BY <1>5
  <2> QED BY <1>2, <1>5, <2>1
<1> QED BY <1>3, <1>4, <1>5

LEMMA ReviewsCount ==
  ASSUME NEW h \in Seq(Entries)
  PROVE  IsFiniteSet(Reviews(h)) /\ Cardinality(Reviews(h)) \in Nat
<1>1. Len(h) \in Nat /\ DOMAIN h = 1..Len(h)
  BY LenProperties
<1>2. IsFiniteSet(1..Len(h))
  BY <1>1, FS_Interval
<1>3. Reviews(h) \in SUBSET (1..Len(h))
  BY <1>1 DEF Reviews
<1>4. IsFiniteSet(Reviews(h))
  BY <1>2, <1>3, FS_Subset
<1> QED BY <1>4, FS_CardinalityType

(* A history that has grown by one entry.                                  *)
LEMMA ReviewsAppend ==
  ASSUME NEW h \in Seq(Entries), NEW e \in Entries
  PROVE  /\ IsFiniteSet(Reviews(h)) /\ Cardinality(Reviews(h)) \in Nat
         /\ Cardinality(Reviews(Append(h, e))) =
              Cardinality(Reviews(h)) + (IF e = ToReview THEN 1 ELSE 0)
<1>1. Len(h) \in Nat /\ DOMAIN h = 1..Len(h)
  BY LenProperties
<1>2. IsFiniteSet(Reviews(h)) /\ Cardinality(Reviews(h)) \in Nat
  BY ReviewsCount
<1>3. /\ DOMAIN Append(h, e) = 1..(Len(h) + 1)
      /\ \A k \in 1..Len(h) : Append(h, e)[k] = h[k]
      /\ Append(h, e)[Len(h) + 1] = e
  <2>1. Append(h, e) \in Seq(Entries)
    BY AppendProperties
  <2> QED BY <2>1, LenProperties, AppendProperties
<1>4. CASE e = ToReview
  <2>1. Reviews(Append(h, e)) = Reviews(h) \cup {Len(h) + 1}
    BY <1>1, <1>3, <1>4 DEF Reviews
  <2>2. Len(h) + 1 \notin Reviews(h)
    BY <1>1 DEF Reviews
  <2> QED BY <1>2, <1>4, <2>1, <2>2, FS_AddElement
<1>5. CASE e # ToReview
  <2>1. Reviews(Append(h, e)) = Reviews(h)
    BY <1>1, <1>3, <1>5 DEF Reviews
  <2> QED BY <1>2, <1>5, <2>1
<1> QED BY <1>2, <1>4, <1>5

(* A stage in the history stays in it.                                     *)
LEMMA LedAppend ==
  ASSUME NEW h \in Seq(Entries), NEW e \in Entries
  PROVE  /\ \A s : Led(h, s) => Led(Append(h, e), s)
         /\ Led(Append(h, e), e.to)
         /\ Last(Append(h, e)) = e /\ Append(h, e) # <<>> /\ Append(h, e) \in Seq(Entries)
<1>1. /\ Len(h) \in Nat /\ DOMAIN h = 1..Len(h) /\ Append(h, e) \in Seq(Entries)
      /\ Len(Append(h, e)) = Len(h) + 1 /\ Append(h, e) # <<>>
  BY LenProperties, AppendProperties
<1>2. DOMAIN Append(h, e) = 1..(Len(h) + 1)
  BY <1>1, LenProperties
<1>3. (\A k \in 1..Len(h) : Append(h, e)[k] = h[k]) /\ Append(h, e)[Len(h) + 1] = e
  BY AppendProperties
<1> QED BY <1>1, <1>2, <1>3 DEF Led, Last

----------------------------------------------------------------------------
(* Types.                                                                   *)

LEMMA InitTyped == Init => Typed
<1> SUFFICES ASSUME Init PROVE Typed
  OBVIOUS
<1>1. <<>> \in Seq(Entries) /\ Idle \in Working /\ Zero \in [Ids -> Nat]
  BY EmptySeq DEF Idle, Working, Points, Kinds, Zero
<1>2. RowsTyped
  <2>1. app \in [id : Ids, stage : Stages] \union {NoApp} /\ hist \in Seq(Entries)
    BY <1>1 DEF Init
  <2>2. hist = <<>> /\ archived \in BOOLEAN /\ synced \subseteq Ids
    BY DEF Init
  <2>3. served \in 0..MaxRequests /\ faults \in 0..MaxFaults
    BY DEF Init
  <2> QED BY <2>1, <2>2, <2>3 DEF RowsTyped
<1>3. CountersTyped
  BY <1>1 DEF Init, CountersTyped
<1>4. RequestsTyped
  BY <1>1 DEF Init, RequestsTyped, Owes, Idle
<1> QED BY <1>2, <1>3, <1>4 DEF Typed

(* A step that changes no row of a request but that of r.                  *)
LEMMA RequestStep ==
  ASSUME RequestsTyped, NEW r \in Requests, req' = [req EXCEPT ![r] = req'[r]],
         req'[r] \in Working, Owes(req'[r], synced', served'),
         served \in Nat, served' \in Nat, served <= served', synced \subseteq synced'
  PROVE  RequestsTyped'
BY DEF RequestsTyped, Owes

LEMMA IdleTyped == Idle \in Working /\ \A s, n : Owes(Idle, s, n)
BY DEF Idle, Working, Owes, Points, Kinds

(* Every request starts with a read of the row, and only a creation and an  *)
(* import start without one.                                               *)
LEMMA AskBegins ==
  ASSUME NEW r \in Requests, Ask(r)
  PROVE  \E pc \in {"create", "write", "clear", "sync", "delete"}, kind \in Kinds,
            to \in Stages \union {NoStage} :
           /\ Begin(r, pc, kind, to)
           /\ to \in Stages \/ pc = "delete"
           /\ pc \in {"create", "sync"} \/ Exists
<1> USE DEF Kinds
<1>1. CASE BeginCreate(r)
  BY <1>1 DEF BeginCreate, Stages
<1>2. CASE BeginApprove(r)
  BY <1>2 DEF BeginApprove, Stages
<1>3. CASE BeginDelete(r)
  BY <1>3 DEF BeginDelete
<1>4. ASSUME NEW to \in Targets, BeginTransition(r, to) \/ BeginSync(r, to)
      PROVE  \E kind \in Kinds, pc \in {"write", "sync"} :
               Begin(r, pc, kind, to) /\ to \in Stages /\ (pc = "sync" \/ Exists)
  BY <1>4 DEF BeginTransition, MayTransition, BeginSync
<1>5. ASSUME NEW d \in DOMAIN decisionStage, BeginDecision(r, d)
      PROVE  \E to \in Stages : Begin(r, "write", "decision", to) /\ Exists
  <2>1. decisionStage[d] \in Stages
    BY DEF decisionStage, Stages
  <2> QED BY <1>5, <2>1 DEF BeginDecision, MayTransition
<1>6. ASSUME NEW to \in {"INTERVIEW_COMPLETED", "SCREENING"}, BeginInterview(r, to)
      PROVE  to \in Stages /\ Begin(r, "write", "interview", to) /\ Exists
  BY <1>6 DEF BeginInterview, Stages
<1> QED BY <1>1, <1>2, <1>3, <1>4, <1>5, <1>6, Zenon DEF Ask

LEMMA BeginTyped ==
  ASSUME Typed, NEW r \in Requests,
         NEW pc \in {"create", "write", "clear", "sync", "delete"}, NEW kind \in Kinds,
         NEW to \in Stages \union {NoStage}, Begin(r, pc, kind, to),
         to \in Stages \/ pc = "delete", pc \in {"create", "sync"} \/ Exists
  PROVE  Typed'
<1> DEFINE q == [pc |-> pc, kind |-> kind, id |-> app.id, from |-> app.stage, to |-> to]
<1>1. app.id \in Ids \union {0} /\ app.stage \in Stages \union {NoStage} /\ (Exists => app.id \in Ids)
  BY DEF Typed, RowsTyped, NoApp, Exists
<1>2. served \in Nat /\ served' = served + 1 /\ served' \in 0..MaxRequests /\ synced' = synced
  BY DEF Typed, RowsTyped, Begin
<1>3. req' = [req EXCEPT ![r] = q] /\ req'[r] = q
  BY DEF Begin, Typed, RequestsTyped
<1>4. q \in Working
  BY <1>1 DEF Working, Points
<1>5. Owes(q, synced', served')
  BY <1>1, <1>2 DEF Owes
<1> HIDE DEF q
<1>6. req' = [req EXCEPT ![r] = req'[r]]
  BY <1>3
<1>7. RequestsTyped'
  <2>1. req'[r] \in Working /\ Owes(req'[r], synced', served') /\ RequestsTyped
    BY <1>3, <1>4, <1>5 DEF Typed
  <2>2. served' \in Nat /\ served <= served' /\ synced \subseteq synced'
    BY <1>2
  <2> QED BY <1>2, <1>6, <2>1, <2>2, RequestStep
<1>8. RowsTyped' /\ CountersTyped'
  BY <1>2 DEF Typed, RowsTyped, CountersTyped, Begin, countVars, Exists
<1> QED BY <1>7, <1>8 DEF Typed

LEMMA CountedTyped ==
  ASSUME NEW f \in [Ids -> Nat], NEW i \in Ids
  PROVE  /\ Counted(f, i) \in [Ids -> Nat] /\ Counted(f, i)[i] = f[i] + 1
         /\ \A j \in Ids \ {i} : Counted(f, i)[j] = f[j]
BY DEF Counted

LEMMA StepRequests ==
  ASSUME Typed, NEW r \in Requests, Step(r) \/ RequestFails(r)
  PROVE  /\ req' = [req EXCEPT ![r] = req'[r]]
         /\ req'[r] \in Working /\ Owes(req'[r], synced', served')
         /\ synced \subseteq synced' /\ served' = served
<1>1. /\ req \in [Requests -> Working] /\ req[r] \in Working /\ Owes(req[r], synced, served)
      /\ served \in 0..MaxRequests
  BY DEF Typed, RequestsTyped, RowsTyped
<1>2. Idle \in Working /\ Owes(Idle, synced', served')
  BY IdleTyped
<1>3. app.stage \in Stages \union {NoStage} /\ (Exists => app.id \in Ids /\ app.stage \in Stages)
  BY DEF Typed, RowsTyped, NoApp, Exists
<1>4. served > 0 => served \in Ids
  BY <1>1 DEF Ids
<1> USE DEF Done, GoTo, At, Working, Points, Owes, boundVars
<1>5. CASE RequestFails(r)
  BY <1>1, <1>2, <1>5 DEF RequestFails
<1>6. CASE CreateApplication(r)
  BY <1>1, <1>2, <1>4, <1>6 DEF CreateApplication
<1>7. CASE AnnounceCreated(r)
  BY <1>1, <1>2, <1>7 DEF AnnounceCreated
<1>8. CASE ChargeCreated(r)
  BY <1>1, <1>2, <1>8 DEF ChargeCreated
<1>9. CASE WriteStage(r)
  BY <1>1, <1>2, <1>9 DEF WriteStage
<1>10. CASE AnnounceTransition(r)
  BY <1>1, <1>2, <1>10 DEF AnnounceTransition, AfterAnnounce
<1>11. CASE Automate(r)
  BY <1>1, <1>2, <1>11 DEF Automate, IsDecision
<1>12. CASE Recommend(r)
  BY <1>1, <1>2, <1>12 DEF Recommend
<1>13. CASE RecordApproval(r)
  BY <1>1, <1>2, <1>13 DEF RecordApproval
<1>14. CASE ClearForInterview(r)
  BY <1>1, <1>2, <1>14 DEF ClearForInterview
<1>15. CASE Invite(r)
  BY <1>1, <1>2, <1>15 DEF Invite
<1>16. CASE CreateSession(r)
  BY <1>1, <1>2, <1>16 DEF CreateSession
<1>17. CASE ReadStage(r)
  BY <1>1, <1>2, <1>3, <1>17 DEF ReadStage, Found
<1>18. CASE SyncWrite(r)
  BY <1>1, <1>2, <1>3, <1>4, <1>18 DEF SyncWrite, Found
<1>19. CASE SyncTrace(r)
  BY <1>1, <1>2, <1>19 DEF SyncTrace
<1>20. CASE DeleteApplication(r)
  BY <1>1, <1>2, <1>20 DEF DeleteApplication
<1> QED BY <1>5, <1>6, <1>7, <1>8, <1>9, <1>10, <1>11, <1>12, <1>13, <1>14, <1>15, <1>16,
           <1>17, <1>18, <1>19, <1>20 DEF Step

LEMMA StepCounters ==
  ASSUME Typed, NEW r \in Requests, Step(r) \/ RequestFails(r)
  PROVE  CountersTyped'
<1>1. /\ CountersTyped
      /\ req[r].pc \notin {"idle", "create", "sync"} => req[r].id \in Ids
      /\ Exists => app.id \in Ids
      /\ req[r].pc # "idle" => served \in Ids
  BY DEF Typed, RequestsTyped, RowsTyped, Owes, Exists, NoApp, Ids
<1> USE DEF CountersTyped, At, countVars
<1>2. CASE ChargeCreated(r)
  BY <1>1, <1>2, CountedTyped DEF ChargeCreated
<1>3. CASE WriteStage(r)
  <2>1. CASE Found(r)
    <3>1. /\ moved' = Counted(moved, app.id) /\ app.id \in Ids
          /\ decided' = IF IsDecision(r) THEN Counted(decided, app.id) ELSE decided
          /\ UNCHANGED <<announced, packs, approved, cleared, invited, created, charged>>
      BY <1>1, <1>3, <2>1 DEF WriteStage, Found
    <3> HIDE DEF IsDecision
    <3> QED BY <1>1, <3>1, CountedTyped
  <2>2. CASE ~Found(r)
    BY <1>1, <1>3, <2>2 DEF WriteStage
  <2> QED BY <2>1, <2>2
<1>4. CASE AnnounceTransition(r)
  BY <1>1, <1>4, CountedTyped DEF AnnounceTransition
<1>5. CASE Automate(r)
  BY <1>1, <1>5, CountedTyped DEF Automate
<1>6. CASE RecordApproval(r)
  BY <1>1, <1>6, CountedTyped DEF RecordApproval
<1>7. CASE ClearForInterview(r)
  BY <1>1, <1>7, CountedTyped DEF ClearForInterview
<1>8. CASE CreateSession(r)
  BY <1>1, <1>8, CountedTyped DEF CreateSession, Found
<1>9. CASE RequestFails(r) \/ AnnounceCreated(r) \/ Recommend(r)
  BY <1>1, <1>9 DEF RequestFails, AnnounceCreated, Recommend
<1>11. CASE CreateApplication(r)
  <2>1. /\ created' = created \/ (served \in Ids /\ created' = Counted(created, served))
        /\ UNCHANGED <<moved, announced, packs, decided, approved, cleared, invited, charged>>
    BY <1>1, <1>11 DEF CreateApplication
  <2> QED BY <1>1, <2>1, CountedTyped
<1>10. CASE Invite(r) \/ ReadStage(r) \/ SyncWrite(r) \/ SyncTrace(r) \/ DeleteApplication(r)
  BY <1>1, <1>10 DEF Invite, ReadStage, SyncWrite, SyncTrace, DeleteApplication
<1> QED BY <1>2, <1>3, <1>4, <1>5, <1>6, <1>7, <1>8, <1>9, <1>10, <1>11 DEF Step

LEMMA StepRows ==
  ASSUME Typed, NEW r \in Requests, Step(r) \/ RequestFails(r)
  PROVE  RowsTyped'
<1>1. /\ RowsTyped /\ req[r] \in Working /\ Owes(req[r], synced, served)
      /\ Exists => app.id \in Ids /\ app.stage \in Stages
      /\ ~Exists => app = NoApp
  <2>1. RowsTyped /\ req[r] \in Working /\ Owes(req[r], synced, served)
    BY DEF Typed, RequestsTyped
  <2>2. app \in [id : Ids, stage : Stages] \union {NoApp} /\ 0 \notin Ids
    BY <2>1 DEF RowsTyped, Ids
  <2> QED BY <2>1, <2>2 DEF Exists, NoApp
<1>2. <<>> \in Seq(Entries) /\ (served > 0 => served \in Ids)
  BY <1>1, EmptySeq DEF RowsTyped, Ids
<1>3. At(r, "write") \/ At(r, "trace") => HistoryWith(r) \in Seq(Entries)
  <2>1. ASSUME At(r, "write") \/ At(r, "trace")
        PROVE  [from |-> req[r].from, to |-> req[r].to] \in Entries
    BY <1>1, <2>1 DEF At, Owes, Working, Entries
  <2> QED BY <1>1, <2>1, AppendProperties DEF HistoryWith, RowsTyped
<1>4. CASE CreateApplication(r) /\ ~Exists
  <2>1. [from |-> NoStage, to |-> "APPLIED"] \in Entries /\ "APPLIED" \in Stages
    BY DEF Entries, Stages
  <2>2. app' \in [id : Ids, stage : Stages] /\ hist' \in Seq(Entries) /\ app'.id # 0
    <3>1. app' = [id |-> served, stage |-> "APPLIED"] /\ served \in Ids /\ 0 \notin Ids
      BY <1>1, <1>2, <1>4 DEF CreateApplication, At, Owes, Ids
    <3>2. hist' = Append(<<>>, [from |-> NoStage, to |-> "APPLIED"])
      BY <1>4 DEF CreateApplication
    <3> QED BY <1>2, <2>1, <3>1, <3>2, AppendProperties
  <2> QED BY <1>1, <1>4, <2>2 DEF CreateApplication, RowsTyped, Exists, boundVars
<1>5. CASE WriteStage(r) /\ Found(r)
  <2>1. app' \in [id : Ids, stage : Stages] /\ app'.id = app.id
    BY <1>1, <1>5 DEF WriteStage, At, Owes, Found, RowsTyped, NoApp, Exists
  <2> QED BY <1>1, <1>3, <1>5, <2>1 DEF WriteStage, RowsTyped, Found, Exists, boundVars
<1>6. CASE SyncWrite(r) /\ Found(r)
  <2>1. /\ app' \in [id : Ids, stage : Stages] /\ app'.id = app.id
        /\ hist' = hist /\ synced' = synced \union {app.id}
    BY <1>1, <1>6 DEF SyncWrite, At, Owes, Found, RowsTyped, NoApp, Exists
  <2> QED BY <1>1, <1>6, <2>1 DEF SyncWrite, RowsTyped, Found, Exists, boundVars
<1>7. CASE SyncWrite(r) /\ ~Found(r)
  BY <1>1, <1>2, <1>7 DEF SyncWrite, At, Owes, Found, RowsTyped, NoApp, Exists, boundVars, Ids
<1>8. CASE SyncTrace(r)
  BY <1>1, <1>3, <1>8 DEF SyncTrace, RowsTyped, Found, Exists, boundVars
<1>9. CASE DeleteApplication(r)
  BY <1>1, <1>2, <1>9 DEF DeleteApplication, RowsTyped, Exists, NoApp, boundVars
<1>10. CASE RequestFails(r)
  BY <1>1, <1>10 DEF RequestFails, RowsTyped, Exists
<1> USE DEF RowsTyped, Exists, boundVars
<1>11. CASE (WriteStage(r) /\ ~Found(r)) \/ (CreateApplication(r) /\ Exists)
  BY <1>1, <1>11 DEF WriteStage, CreateApplication
<1>12. CASE AnnounceCreated(r) \/ ChargeCreated(r) \/ AnnounceTransition(r) \/ Automate(r)
  BY <1>1, <1>12 DEF AnnounceCreated, ChargeCreated, AnnounceTransition, Automate
<1>13. CASE Recommend(r) \/ RecordApproval(r) \/ ClearForInterview(r)
  BY <1>1, <1>13 DEF Recommend, RecordApproval, ClearForInterview
<1>14. CASE Invite(r) \/ CreateSession(r) \/ ReadStage(r)
  BY <1>1, <1>14 DEF Invite, CreateSession, ReadStage
<1> QED BY <1>4, <1>5, <1>6, <1>7, <1>8, <1>9, <1>10, <1>11, <1>12, <1>13, <1>14 DEF Step

LEMMA NextTyped ==
  ASSUME Typed, [Next]_vars
  PROVE  Typed'
<1>1. ASSUME NEW r \in Requests, Ask(r) PROVE Typed'
  BY <1>1, AskBegins, BeginTyped
<1>2. ASSUME NEW r \in Requests, Step(r) \/ RequestFails(r) PROVE Typed'
  <2>1. RowsTyped' /\ CountersTyped'
    BY <1>2, StepRows, StepCounters
  <2>2. served \in Nat
    BY DEF Typed, RowsTyped
  <2>3. RequestsTyped'
    BY <1>2, <2>2, StepRequests, RequestStep DEF Typed
  <2> QED BY <2>1, <2>3 DEF Typed
<1>3. CASE UpdateJob
  <2>1. RowsTyped' /\ CountersTyped' /\ served' = served + 1 /\ req' = req /\ synced' = synced
    BY <1>3 DEF UpdateJob, Typed, RowsTyped, CountersTyped, Exists, countVars
  <2>2. served \in Nat
    BY DEF Typed, RowsTyped
  <2>3. RequestsTyped'
    BY <2>1, <2>2 DEF Typed, RequestsTyped, Owes
  <2> QED BY <2>1, <2>3 DEF Typed
<1>4. CASE UNCHANGED vars
  BY <1>4 DEF vars, countVars, boundVars, Typed, RowsTyped, CountersTyped, RequestsTyped, Exists
<1> QED BY <1>1, <1>2, <1>3, <1>4 DEF Next

----------------------------------------------------------------------------
(* One step leaves the other requests alone.                                *)

LEMMA OthersWait ==
  ASSUME Typed, NEW r \in Requests, Ask(r) \/ Step(r) \/ RequestFails(r)
  PROVE  \A q \in Requests \ {r} : req'[q] = req[q]
<1>1. req \in [Requests -> Working]
  BY DEF Typed, RequestsTyped
<1>2. CASE Ask(r)
  BY <1>1, <1>2, AskBegins DEF Begin
<1>3. CASE Step(r) \/ RequestFails(r)
  BY <1>1, <1>3, StepRequests
<1> QED BY <1>2, <1>3

(* The row's id, and none.                                                 *)
LEMMA AppId ==
  ASSUME Typed
  PROVE  /\ app.id \in Ids \union {0} /\ (Exists => app.id \in Ids)
         /\ served \in Nat /\ faults \in Nat /\ Ids \subseteq Nat /\ 0 \notin Ids
<1>1. app \in [id : Ids, stage : Stages] \union {NoApp}
  BY DEF Typed, RowsTyped
<1>2. app.id \in Ids \union {0}
  BY <1>1 DEF NoApp
<1>3. served \in Nat /\ faults \in Nat
  BY DEF Typed, RowsTyped
<1> QED BY <1>2, <1>3 DEF Exists, Ids

(* What is known of the request at work and of the row it may have read.   *)
LEMMA AtWork ==
  ASSUME Typed, NEW r \in Requests
  PROVE  /\ req \in [Requests -> Working] /\ req[r] \in Working
         /\ Owes(req[r], synced, served)
         /\ req[r].pc \notin {"idle", "create", "sync"} => req[r].id \in Ids
         /\ served \in 0..MaxRequests /\ (served > 0 => served \in Ids)
         /\ Exists => app.id \in Ids /\ app.stage \in Stages
         /\ ~Exists => app = NoApp /\ hist = <<>>
         /\ 0 \notin Ids /\ Ids \subseteq Nat /\ hist \in Seq(Entries)
<1>1. req \in [Requests -> Working] /\ req[r] \in Working /\ Owes(req[r], synced, served)
  BY DEF Typed, RequestsTyped
<1>2. /\ app \in [id : Ids, stage : Stages] \union {NoApp} /\ 0 \notin Ids /\ Ids \subseteq Nat
      /\ hist \in Seq(Entries) /\ (~Exists => hist = <<>>)
      /\ served \in 0..MaxRequests /\ (served > 0 => served \in Ids)
  BY DEF Typed, RowsTyped, Ids
<1>3. (Exists => app.id \in Ids /\ app.stage \in Stages) /\ (~Exists => app = NoApp)
  BY <1>2 DEF Exists, NoApp
<1> QED BY <1>1, <1>2, <1>3 DEF Owes

----------------------------------------------------------------------------
(* Ids.                                                                     *)

LEMMA FreshAfterAsk ==
  ASSUME Typed, FreshIds, NEW r \in Requests, Ask(r)
  PROVE  FreshIds'
<1>1. PICK pc \in {"create", "write", "clear", "sync", "delete"}, kind \in Kinds,
          to \in Stages \union {NoStage} : Begin(r, pc, kind, to) /\ (pc \in {"create", "sync"} \/ Exists)
  BY AskBegins
<1>2. /\ app' = app /\ served' = served + 1 /\ packs' = packs /\ req'[r].id = app.id
      /\ \A q \in Requests \ {r} : req'[q] = req[q]
  BY <1>1, AtWork DEF Begin, countVars
<1>3. app.id \in Nat /\ served \in Nat /\ Ids \subseteq Nat
  BY AtWork DEF NoApp
<1>4. \A q \in Requests : req[q].id \in Nat
  BY AtWork DEF Working
<1> QED BY <1>2, <1>3, <1>4 DEF FreshIds, Unused, At

(* A step that makes no row and gives no request an id but one of the row  *)
(* it made, or none.                                                       *)
LEMMA FreshKept ==
  ASSUME Typed, FreshIds, NEW r \in Requests, \A q \in Requests \ {r} : req'[q] = req[q],
         served' = served, app'.id = app.id \/ (app'.id = served /\ app.id = 0),
         req'[r].id = req[r].id \/ req'[r].id = 0 \/ req'[r].id = app'.id,
         req'[r].pc # "delete", \A i \in Ids : i # req[r].id => packs'[i] = packs[i]
  PROVE  FreshIds'
<1>1. served \in Nat /\ Ids \subseteq Nat /\ 0 \notin Ids /\ app.id \in Ids \union {0}
  BY AppId
<1>2. app'.id <= served'
  BY <1>1 DEF FreshIds
<1>3. \A q \in Requests : At(q, "delete")' => req'[q].id < served'
  BY DEF FreshIds, At
<1>4. ASSUME NEW i \in Ids, i >= served', i # app'.id PROVE Unused(i)'
  <2>1. i # app.id
    BY <1>1, <1>4 DEF FreshIds
  <2>2. Unused(i)
    BY <1>4, <2>1 DEF FreshIds
  <2>3. \A q \in Requests : req'[q].id # i
    BY <1>1, <1>4, <2>2 DEF Unused
  <2>4. packs'[i] = 0
    BY <2>2 DEF Unused
  <2> QED BY <2>3, <2>4 DEF Unused
<1> QED BY <1>2, <1>3, <1>4 DEF FreshIds

LEMMA FreshAfterStep ==
  ASSUME Typed, FreshIds, NEW r \in Requests, Step(r) \/ RequestFails(r)
  PROVE  FreshIds'
<1>1. /\ \A q \in Requests \ {r} : req'[q] = req[q]
      /\ served' = served /\ req[r] \in Working /\ Idle.id = 0 /\ Idle.pc = "idle"
      /\ req \in [Requests -> Working] /\ packs \in [Ids -> Nat]
  BY OthersWait, StepRequests, AtWork DEF Idle, Typed, CountersTyped
<1> USE DEF Done, GoTo, At, countVars, boundVars, Working
<1>2. CASE CreateApplication(r)
  BY <1>1, <1>2, FreshKept DEF CreateApplication, Exists
<1>3. CASE SyncWrite(r)
  <2>1. req'[r].pc # "delete" /\ packs' = packs
    BY <1>1, <1>3 DEF SyncWrite
  <2>2. \/ app'.id = app.id /\ (req'[r].id = req[r].id \/ req'[r].id = 0)
        \/ app'.id = served /\ app.id = 0 /\ req'[r].id = app'.id
    <3>1. CASE Found(r)
      <4>1. app' = [app EXCEPT !.stage = req[r].to] /\ req'[r].id = req[r].id
        BY <1>1, <1>3, <3>1 DEF SyncWrite, Found
      <4>2. app \in [id : Ids, stage : Stages]
        BY <3>1 DEF Typed, RowsTyped, Found, Exists, NoApp
      <4> QED BY <4>1, <4>2
    <3>2. CASE ~Found(r)
      BY <1>1, <1>3, <3>2 DEF SyncWrite, Exists
    <3> QED BY <3>1, <3>2
  <2> QED BY <1>1, <2>1, <2>2, FreshKept
<1>4. CASE DeleteApplication(r) /\ Found(r)
  <2>1. /\ req[r].id < served /\ app.id = req[r].id /\ app'.id = 0 /\ req'[r].id = 0
        /\ req'[r].pc = "idle" /\ packs' = packs
    BY <1>1, <1>4 DEF DeleteApplication, Found, FreshIds, NoApp
  <2>2. app.id \in Nat /\ served \in Nat /\ Ids \subseteq Nat /\ 0 \notin Ids
    BY AppId
  <2> QED BY <1>1, <2>1, <2>2 DEF FreshIds, Unused
<1>5. CASE DeleteApplication(r) /\ ~Found(r)
  BY <1>1, <1>5, FreshKept DEF DeleteApplication
<1>6. CASE WriteStage(r)
  <2>1. /\ app'.id = app.id /\ packs' = packs /\ req'[r].pc # "delete"
        /\ req'[r].id = req[r].id \/ req'[r].id = 0
    <3>1. CASE Found(r)
      <4>1. app \in [id : Ids, stage : Stages]
        BY <3>1 DEF Typed, RowsTyped, Found, Exists, NoApp
      <4> QED BY <1>1, <1>6, <3>1, <4>1 DEF WriteStage
    <3>2. CASE ~Found(r)
      BY <1>1, <1>6, <3>2 DEF WriteStage
    <3> QED BY <3>1, <3>2
  <2> QED BY <1>1, <2>1, FreshKept
<1>7. CASE AnnounceTransition(r)
  BY <1>1, <1>7, FreshKept DEF AnnounceTransition, AfterAnnounce
<1>8. CASE Automate(r)
  <2>1. \A i \in Ids : i # req[r].id => packs'[i] = packs[i]
    BY <1>1, <1>8 DEF Automate, Counted
  <2>2. /\ app' = app /\ req'[r].pc # "delete"
        /\ req'[r].id = req[r].id \/ req'[r].id = 0
    BY <1>1, <1>8 DEF Automate
  <2> QED BY <1>1, <1>8, <2>1, <2>2, FreshKept DEF Automate
<1>9. CASE AnnounceCreated(r) \/ ChargeCreated(r) \/ RequestFails(r)
  BY <1>1, <1>9, FreshKept DEF AnnounceCreated, ChargeCreated, RequestFails
<1>10. CASE Recommend(r) \/ RecordApproval(r) \/ ClearForInterview(r)
  BY <1>1, <1>10, FreshKept DEF Recommend, RecordApproval, ClearForInterview
<1>11. CASE Invite(r) \/ CreateSession(r) \/ ReadStage(r)
  BY <1>1, <1>11, FreshKept DEF Invite, CreateSession, ReadStage
<1>12. CASE SyncTrace(r)
  BY <1>1, <1>12, FreshKept DEF SyncTrace
<1> QED BY <1>2, <1>3, <1>4, <1>5, <1>6, <1>7, <1>8, <1>9, <1>10, <1>11, <1>12 DEF Step

----------------------------------------------------------------------------
(* The stage history.                                                       *)

Traced == TraceMatchesStage /\ FromWasReached /\ ReadStagesLed

(* The stage an application is in is one its history led to.               *)
LEMMA StageLed ==
  ASSUME Typed, TraceMatchesStage, Exists, app.id \notin synced
  PROVE  Led(hist, app.stage)
<1>1. hist \in Seq(Entries) /\ hist # <<>> /\ Last(hist).to = app.stage
  BY DEF Typed, RowsTyped, TraceMatchesStage
<1>2. Len(hist) \in Nat /\ Len(hist) # 0 /\ DOMAIN hist = 1..Len(hist)
  BY <1>1, LenProperties, EmptySeq
<1>3. Len(hist) \in DOMAIN hist
  BY <1>2
<1> QED BY <1>1, <1>3 DEF Led, Last

(* A step that writes neither the row nor the history.                     *)
LEMMA TraceKept ==
  ASSUME Traced, NEW r \in Requests, \A q \in Requests \ {r} : req'[q] = req[q],
         app' = app, hist' = hist, synced' = synced,
         req'[r].pc = "write" /\ req'[r].id = app.id /\ app.id \notin synced => Led(hist, req'[r].from)
  PROVE  Traced'
<1>1. TraceMatchesStage'
  BY DEF Traced, TraceMatchesStage, Exists, Last
<1>2. FromWasReached'
  BY DEF Traced, FromWasReached
<1>3. ReadStagesLed'
  BY DEF Traced, ReadStagesLed, At
<1> QED BY <1>1, <1>2, <1>3 DEF Traced

LEMMA TraceAfterAsk ==
  ASSUME Typed, Traced, NEW r \in Requests, Ask(r)
  PROVE  Traced'
<1>1. PICK pc \in {"create", "write", "clear", "sync", "delete"}, kind \in Kinds,
          to \in Stages \union {NoStage} : Begin(r, pc, kind, to) /\ (pc \in {"create", "sync"} \/ Exists)
  BY AskBegins
<1>2. /\ app' = app /\ hist' = hist /\ synced' = synced
      /\ req'[r].pc = pc /\ req'[r].from = app.stage
      /\ \A q \in Requests \ {r} : req'[q] = req[q]
  BY <1>1, AtWork DEF Begin
<1>3. pc = "write" /\ app.id \notin synced => Led(hist, app.stage)
  BY <1>1, StageLed DEF Traced
<1> QED BY <1>2, <1>3, TraceKept

(* The entry that a move of the row adds tells a stage the history led to. *)
LEMMA TraceAfterWrite ==
  ASSUME Typed, Traced, NEW r \in Requests, WriteStage(r), Found(r)
  PROVE  Traced'
<1> DEFINE e == [from |-> req[r].from, to |-> req[r].to]
<1>1. /\ \A q \in Requests \ {r} : req'[q] = req[q]
      /\ req[r] \in Working /\ req[r].to \in Stages /\ hist \in Seq(Entries)
      /\ app \in [id : Ids, stage : Stages] /\ req \in [Requests -> Working]
  BY OthersWait, AtWork DEF Step, WriteStage, At, Owes, Found, Typed, RowsTyped, Exists, NoApp
<1>2. /\ app'.id = app.id /\ app'.stage = e.to /\ hist' = Append(hist, e) /\ synced' = synced
      /\ req'[r].pc = "announce" /\ e \in Entries
  BY <1>1 DEF WriteStage, HistoryWith, GoTo, Working, Entries
<1>3. app.id \notin synced => Led(hist, e.from)
  BY DEF Traced, ReadStagesLed, WriteStage, Found, At
<1> HIDE DEF e
<1>4. /\ \A s : Led(hist, s) => Led(hist', s)
      /\ Led(hist', e.to) /\ Last(hist') = e /\ hist' # <<>>
  BY <1>1, <1>2, LedAppend
<1>5. TraceMatchesStage'
  BY <1>2, <1>4 DEF TraceMatchesStage
<1>6. FromWasReached'
  <2>1. /\ Len(hist) \in Nat /\ Len(hist') = Len(hist) + 1 /\ DOMAIN hist = 1..Len(hist)
        /\ \A k \in 1..Len(hist) : hist'[k] = hist[k]
        /\ hist'[Len(hist) + 1] = e
    BY <1>1, <1>2, LenProperties, AppendProperties
  <2>2. ASSUME app.id \notin synced, NEW i \in 2..Len(hist')
        PROVE  \E j \in 1..(i - 1) : hist'[j].to = hist'[i].from
    <3>1. CASE i \in 2..Len(hist)
      <4>1. PICK j \in 1..(i - 1) : hist[j].to = hist[i].from
        BY <2>2, <3>1 DEF Traced, FromWasReached
      <4> QED BY <2>1, <3>1, <4>1
    <3>2. CASE i = Len(hist) + 1
      <4>1. PICK j \in 1..Len(hist) : hist[j].to = e.from
        BY <1>3, <2>1, <2>2 DEF Led
      <4> QED BY <2>1, <3>2, <4>1
    <3> QED BY <2>1, <3>1, <3>2
  <2> QED BY <1>2, <2>2 DEF FromWasReached
<1>7. ReadStagesLed'
  BY <1>1, <1>2, <1>4 DEF Traced, ReadStagesLed, At
<1> QED BY <1>5, <1>6, <1>7 DEF Traced

(* The history of a new application tells how it began; no request that is *)
(* about to move an application knows it.                                  *)
LEMMA TraceAfterCreate ==
  ASSUME Typed, FreshIds, NEW r \in Requests, CreateApplication(r), ~Exists
  PROVE  Traced'
<1>1. /\ \A q \in Requests \ {r} : req'[q] = req[q]
      /\ app'.id = served /\ app'.stage = "APPLIED" /\ req'[r].pc = "created"
      /\ hist' = <<[from |-> NoStage, to |-> "APPLIED"]>>
  BY OthersWait, AtWork DEF Step, CreateApplication, Working
<1>2. served \in Ids /\ app.id = 0 /\ served # 0
  BY AtWork DEF CreateApplication, At, Owes, Exists
<1>3. \A q \in Requests : req[q].id # served
  BY <1>2, AppId DEF FreshIds, Unused
<1>4. Len(hist') = 1 /\ hist'[1].to = "APPLIED"
  BY <1>1
<1>5. TraceMatchesStage'
  BY <1>1, <1>4 DEF TraceMatchesStage, Last
<1>6. FromWasReached'
  BY <1>4 DEF FromWasReached
<1>7. ReadStagesLed'
  BY <1>1, <1>3 DEF ReadStagesLed, At
<1> QED BY <1>5, <1>6, <1>7 DEF Traced

LEMMA TraceAfterSync ==
  ASSUME Typed, Traced, NEW r \in Requests, SyncWrite(r) \/ SyncTrace(r)
  PROVE  Traced'
<1>1. /\ \A q \in Requests \ {r} : req'[q] = req[q]
      /\ Idle.pc = "idle" /\ req[r] \in Working /\ req \in [Requests -> Working]
      /\ Owes(req[r], synced, served)
  BY OthersWait, AtWork DEF Step, Idle
<1>2. CASE SyncWrite(r) /\ req'[r] # Idle
  <2>1. app'.id \in synced'
    <3>1. CASE Found(r)
      <4>1. app \in [id : Ids, stage : Stages]
        BY <3>1 DEF Typed, RowsTyped, Found, Exists, NoApp
      <4> QED BY <1>2, <3>1, <4>1 DEF SyncWrite, Found
    <3>2. CASE ~Found(r)
      <4>1. req' = [req EXCEPT ![r] = Idle] => req'[r] = Idle
        BY <1>1
      <4> QED BY <1>2, <3>2, <4>1 DEF SyncWrite, Done
    <3> QED BY <3>1, <3>2
  <2> QED BY <2>1 DEF Traced, TraceMatchesStage, FromWasReached, ReadStagesLed
<1>3. CASE SyncWrite(r) /\ req'[r] = Idle
  <2>1. app' = app /\ hist' = hist /\ synced' = synced
    BY <1>1, <1>3 DEF SyncWrite, GoTo, Working
  <2> QED BY <1>1, <1>3, <2>1, TraceKept
<1>4. CASE SyncTrace(r) /\ Found(r)
  <2>1. app'.id \in synced'
    BY <1>1, <1>4 DEF SyncTrace, Found, At, Owes
  <2> QED BY <2>1 DEF Traced, TraceMatchesStage, FromWasReached, ReadStagesLed
<1>5. CASE SyncTrace(r) /\ ~Found(r)
  <2>1. app' = app /\ hist' = hist /\ synced' = synced /\ req'[r].pc = "idle"
    BY <1>1, <1>5 DEF SyncTrace, Done
  <2> QED BY <1>1, <2>1, TraceKept
<1> QED BY <1>2, <1>3, <1>4, <1>5

LEMMA TraceAfterDelete ==
  ASSUME Typed, Traced, NEW r \in Requests, DeleteApplication(r)
  PROVE  Traced'
<1>1. /\ \A q \in Requests \ {r} : req'[q] = req[q] /\ Owes(req[q], synced, served)
      /\ req'[r].pc = "idle" /\ synced' = synced
  BY OthersWait, AtWork DEF Step, Idle, DeleteApplication, Done
<1>2. CASE Found(r)
  <2>1. app'.id = 0 /\ hist' = <<>> /\ 0 \notin Ids
    BY <1>2, AppId DEF DeleteApplication, NoApp
  <2>2. TraceMatchesStage'
    BY <2>1 DEF TraceMatchesStage, Exists
  <2>3. FromWasReached'
    BY <2>1 DEF FromWasReached
  <2>4. ReadStagesLed'
    BY <1>1, <2>1 DEF ReadStagesLed, At, Owes
  <2> QED BY <2>2, <2>3, <2>4 DEF Traced
<1>3. CASE ~Found(r)
  <2>1. app' = app /\ hist' = hist
    BY <1>3 DEF DeleteApplication
  <2> QED BY <1>1, <2>1, TraceKept
<1> QED BY <1>2, <1>3

LEMMA TraceAfterStep ==
  ASSUME Typed, FreshIds, Traced, NEW r \in Requests, Step(r) \/ RequestFails(r)
  PROVE  Traced'
<1>1. /\ \A q \in Requests \ {r} : req'[q] = req[q]
      /\ Idle.pc = "idle" /\ req[r] \in Working /\ req \in [Requests -> Working]
  BY OthersWait, AtWork DEF Idle
<1> USE DEF Done, GoTo, At, Working
<1>2. CASE CreateApplication(r) /\ Exists
  BY <1>1, <1>2, TraceKept DEF CreateApplication
<1>3. CASE WriteStage(r) /\ ~Found(r)
  BY <1>1, <1>3, TraceKept DEF WriteStage
<1>4. CASE ReadStage(r)
  <2>1. Found(r) /\ app.id \notin synced => Led(hist, app.stage)
    BY StageLed DEF Found, Traced
  <2> QED BY <1>1, <1>4, <2>1, TraceKept DEF ReadStage
<1>5. CASE RequestFails(r) \/ AnnounceCreated(r) \/ ChargeCreated(r)
  BY <1>1, <1>5, TraceKept DEF RequestFails, AnnounceCreated, ChargeCreated
<1>6. CASE AnnounceTransition(r) \/ Automate(r) \/ Recommend(r)
  <2>1. req'[r].pc # "write" /\ app' = app /\ hist' = hist /\ synced' = synced
    BY <1>1, <1>6 DEF AnnounceTransition, AfterAnnounce, Automate, Recommend
  <2> QED BY <1>1, <2>1, TraceKept
<1>7. CASE RecordApproval(r) \/ ClearForInterview(r) \/ Invite(r) \/ CreateSession(r)
  <2>1. req'[r].pc # "write" /\ app' = app /\ hist' = hist /\ synced' = synced
    BY <1>1, <1>7 DEF RecordApproval, ClearForInterview, Invite, CreateSession
  <2> QED BY <1>1, <2>1, TraceKept
<1> QED BY <1>2, <1>3, <1>4, <1>5, <1>6, <1>7, TraceAfterWrite, TraceAfterCreate,
           TraceAfterSync, TraceAfterDelete DEF Step

----------------------------------------------------------------------------
(* What a request owes, one count at a time: a step changes the set of the *)
(* requests that owe it by the one at work alone.                          *)

LEMMA SetsOfRequests ==
  ASSUME NEW i
  PROVE  /\ Deciding(i) \in SUBSET Requests /\ Deciding(i)' \in SUBSET Requests
         /\ Inviting(i) \in SUBSET Requests /\ Inviting(i)' \in SUBSET Requests
         /\ Announcing(i) \in SUBSET Requests /\ Announcing(i)' \in SUBSET Requests
         /\ Packing(i) \in SUBSET Requests /\ Packing(i)' \in SUBSET Requests
BY DEF Deciding, Inviting, Announcing, Packing

LEMMA OwedByOne ==
  ASSUME NEW r \in Requests, \A q \in Requests \ {r} : req'[q] = req[q], NEW i,
         NEW q \in Requests \ {r}
  PROVE  /\ q \in Deciding(i)' <=> q \in Deciding(i)
         /\ q \in Inviting(i)' <=> q \in Inviting(i)
         /\ q \in Announcing(i)' <=> q \in Announcing(i)
         /\ q \in Packing(i)' <=> q \in Packing(i)
BY DEF Deciding, Inviting, Announcing, Packing, At, NeedsReviewPack

(* Approvals, and decisions on the way to one.                             *)
LEMMA DecisionsStep ==
  ASSUME Typed, CountersTyped', DecisionsCounted, NEW r \in Requests,
         \A q \in Requests \ {r} : req'[q] = req[q],
         \A i \in Ids : approved'[i] + decided[i] + (IF r \in Deciding(i)' THEN 1 ELSE 0)
                          <= approved[i] + decided'[i] + (IF r \in Deciding(i) THEN 1 ELSE 0)
  PROVE  DecisionsCounted'
<1> SUFFICES ASSUME NEW i \in Ids
             PROVE  approved'[i] + Cardinality(Deciding(i)') <= decided'[i]
  BY DEF DecisionsCounted
<1>1. /\ Cardinality(Deciding(i)) \in Nat /\ Cardinality(Deciding(i)') \in Nat
      /\ Cardinality(Deciding(i)') + (IF r \in Deciding(i) THEN 1 ELSE 0)
           = Cardinality(Deciding(i)) + (IF r \in Deciding(i)' THEN 1 ELSE 0)
  <2>1. \A q \in Requests \ {r} : q \in Deciding(i)' <=> q \in Deciding(i)
    BY OwedByOne
  <2> QED BY <2>1, SetsOfRequests, CountStep
<1>2. approved[i] \in Nat /\ decided[i] \in Nat /\ approved'[i] \in Nat /\ decided'[i] \in Nat
  BY DEF Typed, CountersTyped
<1>3. approved[i] + Cardinality(Deciding(i)) <= decided[i]
  BY DEF DecisionsCounted
<1> QED BY <1>1, <1>2, <1>3

(* Sessions created after an approval, and approvals on the way to one.    *)
LEMMA InvitesStep ==
  ASSUME Typed, CountersTyped', InvitesCounted, NEW r \in Requests,
         \A q \in Requests \ {r} : req'[q] = req[q],
         \A i \in Ids : invited'[i] + cleared[i] + (IF r \in Inviting(i)' THEN 1 ELSE 0)
                          <= invited[i] + cleared'[i] + (IF r \in Inviting(i) THEN 1 ELSE 0)
  PROVE  InvitesCounted'
<1> SUFFICES ASSUME NEW i \in Ids
             PROVE  invited'[i] + Cardinality(Inviting(i)') <= cleared'[i]
  BY DEF InvitesCounted
<1>1. /\ Cardinality(Inviting(i)) \in Nat /\ Cardinality(Inviting(i)') \in Nat
      /\ Cardinality(Inviting(i)') + (IF r \in Inviting(i) THEN 1 ELSE 0)
           = Cardinality(Inviting(i)) + (IF r \in Inviting(i)' THEN 1 ELSE 0)
  <2>1. \A q \in Requests \ {r} : q \in Inviting(i)' <=> q \in Inviting(i)
    BY OwedByOne
  <2> QED BY <2>1, SetsOfRequests, CountStep
<1>2. invited[i] \in Nat /\ cleared[i] \in Nat /\ invited'[i] \in Nat /\ cleared'[i] \in Nat
  BY DEF Typed, CountersTyped
<1>3. invited[i] + Cardinality(Inviting(i)) <= cleared[i]
  BY DEF InvitesCounted
<1> QED BY <1>1, <1>2, <1>3

(* Events, and transitions on the way to one; only a cut-off loses one.    *)
LEMMA EventsStep ==
  ASSUME Typed, CountersTyped', EventsCounted, NEW r \in Requests,
         \A q \in Requests \ {r} : req'[q] = req[q], faults \in Nat, faults' \in Nat,
         \A i \in Ids :
           /\ announced'[i] + moved[i] + (IF r \in Announcing(i)' THEN 1 ELSE 0)
                <= announced[i] + moved'[i] + (IF r \in Announcing(i) THEN 1 ELSE 0)
           /\ announced[i] + moved'[i] + (IF r \in Announcing(i) THEN 1 ELSE 0) + faults
                <= announced'[i] + moved[i] + (IF r \in Announcing(i)' THEN 1 ELSE 0) + faults'
  PROVE  EventsCounted'
<1> SUFFICES ASSUME NEW i \in Ids
             PROVE  /\ announced'[i] + Cardinality(Announcing(i)') <= moved'[i]
                    /\ moved'[i] <= announced'[i] + Cardinality(Announcing(i)') + faults'
  BY DEF EventsCounted
<1>1. /\ Cardinality(Announcing(i)) \in Nat /\ Cardinality(Announcing(i)') \in Nat
      /\ Cardinality(Announcing(i)') + (IF r \in Announcing(i) THEN 1 ELSE 0)
           = Cardinality(Announcing(i)) + (IF r \in Announcing(i)' THEN 1 ELSE 0)
  <2>1. \A q \in Requests \ {r} : q \in Announcing(i)' <=> q \in Announcing(i)
    BY OwedByOne
  <2> QED BY <2>1, SetsOfRequests, CountStep
<1>2. announced[i] \in Nat /\ moved[i] \in Nat /\ announced'[i] \in Nat /\ moved'[i] \in Nat
  BY DEF Typed, CountersTyped
<1>3. /\ announced[i] + Cardinality(Announcing(i)) <= moved[i]
      /\ moved[i] <= announced[i] + Cardinality(Announcing(i)) + faults
  BY DEF EventsCounted
<1> QED BY <1>1, <1>2, <1>3

(* Review packs of an application that stays, and moves on the way to one. *)
LEMMA PacksStep ==
  ASSUME Typed, Typed', PacksCounted, NEW r \in Requests,
         \A q \in Requests \ {r} : req'[q] = req[q], app'.id = app.id,
         \A i \in Ids : app.id = i =>
           packs'[i] + Cardinality(Reviews(hist)) + (IF r \in Packing(i)' THEN 1 ELSE 0)
             <= packs[i] + Cardinality(Reviews(hist')) + (IF r \in Packing(i) THEN 1 ELSE 0)
  PROVE  PacksCounted'
<1> SUFFICES ASSUME NEW i \in Ids, app.id = i, Exists
             PROVE  packs'[i] + Cardinality(Packing(i)') <= Cardinality(Reviews(hist'))
  <2>1. Exists => app.id \in Ids
    BY AppId
  <2>2. PacksCounted' <=> (app'.id # 0 =>
          \A i \in {app'.id} : packs'[i] + Cardinality(Packing(i)') <= Cardinality(Reviews(hist')))
    BY DEF PacksCounted, Exists, Packing, NeedsReviewPack, Reviews
  <2> QED BY <2>1, <2>2 DEF Exists
<1>1. /\ Cardinality(Packing(i)) \in Nat /\ Cardinality(Packing(i)') \in Nat
      /\ Cardinality(Packing(i)') + (IF r \in Packing(i) THEN 1 ELSE 0)
           = Cardinality(Packing(i)) + (IF r \in Packing(i)' THEN 1 ELSE 0)
  <2>1. \A q \in Requests \ {r} : q \in Packing(i)' <=> q \in Packing(i)
    BY OwedByOne
  <2> QED BY <2>1, SetsOfRequests, CountStep
<1>2. packs[i] \in Nat /\ packs'[i] \in Nat
  BY DEF Typed, CountersTyped
<1>3. Cardinality(Reviews(hist)) \in Nat /\ Cardinality(Reviews(hist')) \in Nat
  BY ReviewsCount DEF Typed, RowsTyped
<1>4. packs[i] + Cardinality(Packing(i)) <= Cardinality(Reviews(hist))
  BY DEF PacksCounted
<1> QED BY <1>1, <1>2, <1>3, <1>4

----------------------------------------------------------------------------
(* Each step against each count.                                            *)

LEMMA DecisionsAfter ==
  ASSUME Typed, CountersTyped', DecisionsCounted, NEW r \in Requests,
         Ask(r) \/ Step(r) \/ RequestFails(r)
  PROVE  DecisionsCounted'
<1>1. /\ \A q \in Requests \ {r} : req'[q] = req[q]
      /\ CountersTyped /\ req[r] \in Working /\ req \in [Requests -> Working]
      /\ Idle.pc = "idle" /\ Owes(req[r], synced, served)
      /\ req[r].pc \notin {"idle", "create", "sync"} => req[r].id \in Ids
  BY OthersWait, AtWork DEF Idle, Typed
<1>2. Exists => app.id \in Ids
  BY AppId
<1> DEFINE Quiet == /\ approved' = approved /\ decided' = decided
                    /\ \A i \in Ids : r \in Deciding(i)' => r \in Deciding(i)
<1>3. CASE Quiet
  BY <1>1, <1>3, DecisionsStep DEF CountersTyped
<1> HIDE DEF Quiet
<1>4. CASE Ask(r)
  <2>1. PICK pc \in {"create", "write", "clear", "sync", "delete"}, kind \in Kinds,
            to \in Stages \union {NoStage} : Begin(r, pc, kind, to)
    BY <1>4, AskBegins
  <2>2. Quiet
    BY <1>1, <2>1 DEF Begin, Deciding, countVars, Quiet
  <2> QED BY <1>3, <2>2
<1> USE DEF Done, GoTo, At, countVars
<1>5. CASE WriteStage(r) /\ Found(r)
  <2>1. /\ approved' = approved /\ req'[r].pc = "announce"
        /\ req'[r].kind = req[r].kind /\ req'[r].id = req[r].id
        /\ decided' = IF IsDecision(r) THEN Counted(decided, req[r].id) ELSE decided
        /\ req[r].pc = "write" /\ req[r].id \in Ids
    BY <1>1, <1>5 DEF WriteStage, Working, Found
  <2>2. ASSUME NEW i \in Ids
        PROVE  approved'[i] + decided[i] + (IF r \in Deciding(i)' THEN 1 ELSE 0)
                 <= approved[i] + decided'[i] + (IF r \in Deciding(i) THEN 1 ELSE 0)
    <3>1. approved[i] \in Nat /\ decided[i] \in Nat /\ decided'[i] \in Nat
      BY <1>1 DEF CountersTyped
    <3>2. CASE IsDecision(r) /\ i = req[r].id
      <4>1. decided'[i] = decided[i] + 1
        BY <1>1, <2>1, <3>2, CountedTyped DEF CountersTyped
      <4> QED BY <2>1, <3>1, <4>1
    <3>3. CASE ~(IsDecision(r) /\ i = req[r].id)
      <4>1. decided'[i] = decided[i]
        <5>1. decided \in [Ids -> Nat] /\ req[r].id \in Ids /\ i \in Ids
          BY <1>1, <2>1 DEF CountersTyped
        <5>2. CASE ~IsDecision(r)
          BY <2>1, <5>2
        <5>3. CASE IsDecision(r) /\ i # req[r].id
          BY <2>1, <5>1, <5>3, CountedTyped
        <5> QED BY <3>3, <5>2, <5>3
      <4>2. r \notin Deciding(i)'
        BY <2>1, <3>3 DEF Deciding, IsDecision
      <4> QED BY <2>1, <3>1, <4>1, <4>2
    <3> QED BY <3>2, <3>3
  <2> QED BY <1>1, <2>2, DecisionsStep
<1>6. CASE RecordApproval(r)
  <2>1. /\ approved' = Counted(approved, req[r].id) /\ decided' = decided /\ req'[r].pc = "idle"
        /\ r \in Deciding(req[r].id) /\ req[r].id \in Ids
    BY <1>1, <1>6 DEF RecordApproval, Owes, Deciding
  <2>2. ASSUME NEW i \in Ids
        PROVE  approved'[i] + decided[i] + (IF r \in Deciding(i)' THEN 1 ELSE 0)
                 <= approved[i] + decided'[i] + (IF r \in Deciding(i) THEN 1 ELSE 0)
    <3>1. approved[i] \in Nat /\ decided[i] \in Nat /\ r \notin Deciding(i)'
      BY <1>1, <2>1 DEF CountersTyped, Deciding
    <3>2. approved'[i] = IF i = req[r].id THEN approved[i] + 1 ELSE approved[i]
      <4>1. approved \in [Ids -> Nat]
        BY <1>1 DEF CountersTyped
      <4> QED BY <2>1, <4>1 DEF Counted
    <3> QED BY <2>1, <3>1, <3>2
  <2> QED BY <1>1, <2>2, DecisionsStep
<1> USE DEF Quiet, Deciding
<1>7. CASE (WriteStage(r) /\ ~Found(r)) \/ AnnounceTransition(r) \/ Automate(r) \/ Recommend(r)
  <2>1. approved' = approved /\ decided' = decided
    BY <1>7 DEF WriteStage, AnnounceTransition, Automate, Recommend
  <2>2. \/ req'[r].pc = "idle"
        \/ /\ req[r].pc \in {"announce", "automate", "recommend"}
           /\ req'[r].kind = req[r].kind /\ req'[r].id = req[r].id
    BY <1>1, <1>7 DEF WriteStage, AnnounceTransition, Automate, Recommend, Working
  <2> QED BY <1>3, <2>1, <2>2
<1>8. CASE CreateApplication(r) \/ AnnounceCreated(r) \/ ChargeCreated(r) \/ RequestFails(r)
  BY <1>1, <1>3, <1>8 DEF CreateApplication, AnnounceCreated, ChargeCreated, RequestFails, Working
<1>9. CASE ClearForInterview(r) \/ Invite(r) \/ CreateSession(r) \/ ReadStage(r)
  <2>1. approved' = approved /\ decided' = decided
    BY <1>9 DEF ClearForInterview, Invite, CreateSession, ReadStage
  <2>2. req'[r].pc \in {"idle", "invite", "session", "stage", "write"}
    BY <1>1, <1>9 DEF ClearForInterview, Invite, CreateSession, ReadStage, Working
  <2> QED BY <1>3, <2>1, <2>2
<1>10. CASE SyncWrite(r) \/ SyncTrace(r) \/ DeleteApplication(r)
  BY <1>1, <1>3, <1>10 DEF SyncWrite, SyncTrace, DeleteApplication, Working
<1> QED BY <1>4, <1>5, <1>6, <1>7, <1>8, <1>9, <1>10 DEF Step

LEMMA InvitesAfter ==
  ASSUME Typed, CountersTyped', InvitesCounted, NEW r \in Requests,
         Ask(r) \/ Step(r) \/ RequestFails(r)
  PROVE  InvitesCounted'
<1>1. /\ \A q \in Requests \ {r} : req'[q] = req[q]
      /\ CountersTyped /\ req[r] \in Working /\ req \in [Requests -> Working]
      /\ Idle.pc = "idle" /\ Owes(req[r], synced, served)
      /\ req[r].pc \notin {"idle", "create", "sync"} => req[r].id \in Ids
  BY OthersWait, AtWork DEF Idle, Typed
<1>2. Exists => app.id \in Ids
  BY AppId
<1> DEFINE Quiet == /\ invited' = invited /\ cleared' = cleared
                    /\ \A i \in Ids : r \in Inviting(i)' => r \in Inviting(i)
<1>3. CASE Quiet
  BY <1>1, <1>3, InvitesStep DEF CountersTyped
<1> HIDE DEF Quiet
<1>4. CASE Ask(r)
  <2>1. PICK pc \in {"create", "write", "clear", "sync", "delete"}, kind \in Kinds,
            to \in Stages \union {NoStage} : Begin(r, pc, kind, to)
    BY <1>4, AskBegins
  <2>2. Quiet
    BY <1>1, <2>1 DEF Begin, Inviting, countVars, Quiet
  <2> QED BY <1>3, <2>2
<1> USE DEF Done, GoTo, At, countVars
<1>5. CASE ClearForInterview(r)
  <2>1. /\ invited' = invited /\ cleared' = Counted(cleared, req[r].id)
        /\ req'[r].id = req[r].id /\ req[r].pc = "clear" /\ req[r].id \in Ids
    BY <1>1, <1>5 DEF ClearForInterview, Working
  <2>2. ASSUME NEW i \in Ids
        PROVE  invited'[i] + cleared[i] + (IF r \in Inviting(i)' THEN 1 ELSE 0)
                 <= invited[i] + cleared'[i] + (IF r \in Inviting(i) THEN 1 ELSE 0)
    <3>1. invited[i] \in Nat /\ cleared[i] \in Nat /\ (r \in Inviting(i)' => i = req[r].id)
      BY <1>1, <2>1 DEF CountersTyped, Inviting
    <3>2. cleared'[i] = IF i = req[r].id THEN cleared[i] + 1 ELSE cleared[i]
      <4>1. cleared \in [Ids -> Nat] /\ req[r].id \in Ids
        BY <1>1, <2>1 DEF CountersTyped
      <4> QED BY <2>1, <4>1, CountedTyped
    <3> QED BY <2>1, <3>1, <3>2
  <2> QED BY <1>1, <2>2, InvitesStep
<1>6. CASE CreateSession(r) /\ Found(r)
  <2>1. /\ invited' = Counted(invited, req[r].id) /\ cleared' = cleared
        /\ req'[r].pc = "stage" /\ req[r].pc = "session" /\ req[r].id \in Ids
    BY <1>1, <1>6 DEF CreateSession, Working, Found
  <2>2. ASSUME NEW i \in Ids
        PROVE  invited'[i] + cleared[i] + (IF r \in Inviting(i)' THEN 1 ELSE 0)
                 <= invited[i] + cleared'[i] + (IF r \in Inviting(i) THEN 1 ELSE 0)
    <3>1. /\ invited[i] \in Nat /\ cleared[i] \in Nat /\ r \notin Inviting(i)'
          /\ (i = req[r].id => r \in Inviting(i))
      BY <1>1, <2>1 DEF CountersTyped, Inviting
    <3>2. invited'[i] = IF i = req[r].id THEN invited[i] + 1 ELSE invited[i]
      <4>1. invited \in [Ids -> Nat] /\ req[r].id \in Ids
        BY <1>1, <2>1 DEF CountersTyped
      <4> QED BY <2>1, <4>1, CountedTyped
    <3> QED BY <2>1, <3>1, <3>2
  <2> QED BY <1>1, <2>2, InvitesStep
<1> USE DEF Quiet, Inviting, Working
<1>7. CASE (CreateSession(r) /\ ~Found(r)) \/ Invite(r) \/ ReadStage(r)
  BY <1>1, <1>3, <1>7 DEF CreateSession, Invite, ReadStage
<1>8. CASE CreateApplication(r) \/ AnnounceCreated(r) \/ ChargeCreated(r) \/ RequestFails(r)
  BY <1>1, <1>3, <1>8 DEF CreateApplication, AnnounceCreated, ChargeCreated, RequestFails
<1>9. CASE WriteStage(r) \/ AnnounceTransition(r) \/ Automate(r)
  BY <1>1, <1>3, <1>9 DEF WriteStage, AnnounceTransition, AfterAnnounce, Automate
<1>10. CASE Recommend(r) \/ RecordApproval(r)
  BY <1>1, <1>3, <1>10 DEF Recommend, RecordApproval
<1>11. CASE SyncWrite(r) \/ SyncTrace(r) \/ DeleteApplication(r)
  BY <1>1, <1>3, <1>11 DEF SyncWrite, SyncTrace, DeleteApplication
<1> QED BY <1>4, <1>5, <1>6, <1>7, <1>8, <1>9, <1>10, <1>11 DEF Step

LEMMA EventsAfter ==
  ASSUME Typed, Typed', EventsCounted, NEW r \in Requests,
         Ask(r) \/ Step(r) \/ RequestFails(r)
  PROVE  EventsCounted'
<1>1. /\ \A q \in Requests \ {r} : req'[q] = req[q]
      /\ CountersTyped /\ req[r] \in Working /\ req \in [Requests -> Working]
      /\ Idle.pc = "idle" /\ Owes(req[r], synced, served)
      /\ req[r].pc \notin {"idle", "create", "sync"} => req[r].id \in Ids
  BY OthersWait, AtWork DEF Idle, Typed
<1>2. Exists => app.id \in Ids
  BY AppId
<1> DEFINE Quiet == /\ announced' = announced /\ moved' = moved /\ faults' = faults
                    /\ \A i \in Ids : r \in Announcing(i)' <=> r \in Announcing(i)
<1>3. faults \in Nat /\ faults' \in Nat /\ CountersTyped'
  BY DEF Typed, RowsTyped
<1>4. CASE Quiet
  BY <1>1, <1>3, <1>4, EventsStep DEF CountersTyped
<1> HIDE DEF Quiet
<1>5. CASE Ask(r)
  <2>1. PICK pc \in {"create", "write", "clear", "sync", "delete"}, kind \in Kinds,
            to \in Stages \union {NoStage} : Begin(r, pc, kind, to)
    BY <1>5, AskBegins
  <2>2. Quiet
    BY <1>1, <2>1 DEF Begin, Announcing, At, countVars, Quiet
  <2> QED BY <1>4, <2>2
<1> USE DEF Done, GoTo, At, countVars, boundVars
<1>6. CASE WriteStage(r) /\ Found(r)
  <2>1. /\ announced' = announced /\ moved' = Counted(moved, req[r].id) /\ faults' = faults
        /\ req'[r].pc = "announce" /\ req'[r].id = req[r].id
        /\ req[r].pc = "write" /\ req[r].id \in Ids
    BY <1>1, <1>6 DEF WriteStage, Working, Found
  <2>2. ASSUME NEW i \in Ids
        PROVE  /\ announced[i] \in Nat /\ moved[i] \in Nat /\ r \notin Announcing(i)
               /\ r \in Announcing(i)' <=> i = req[r].id
               /\ moved'[i] = IF i = req[r].id THEN moved[i] + 1 ELSE moved[i]
    BY <1>1, <2>1, CountedTyped DEF CountersTyped, Announcing
  <2> QED BY <1>1, <1>3, <2>1, <2>2, EventsStep
<1>7. CASE AnnounceTransition(r)
  <2>1. /\ announced' = Counted(announced, req[r].id) /\ moved' = moved /\ faults' = faults
        /\ req'[r].pc # "announce" /\ req[r].pc = "announce" /\ req[r].id \in Ids
    BY <1>1, <1>7 DEF AnnounceTransition, AfterAnnounce, Working
  <2>2. ASSUME NEW i \in Ids
        PROVE  /\ announced[i] \in Nat /\ moved[i] \in Nat /\ r \notin Announcing(i)'
               /\ r \in Announcing(i) <=> i = req[r].id
               /\ announced'[i] = IF i = req[r].id THEN announced[i] + 1 ELSE announced[i]
    BY <1>1, <2>1, CountedTyped DEF CountersTyped, Announcing
  <2> QED BY <1>1, <1>3, <2>1, <2>2, EventsStep
<1>8. CASE RequestFails(r)
  <2>1. announced' = announced /\ moved' = moved /\ faults' = faults + 1 /\ req'[r].pc = "idle"
    BY <1>1, <1>8 DEF RequestFails
  <2>2. ASSUME NEW i \in Ids
        PROVE  announced[i] \in Nat /\ moved[i] \in Nat /\ r \notin Announcing(i)'
    BY <1>1, <2>1 DEF CountersTyped, Announcing
  <2> QED BY <1>1, <1>3, <2>1, <2>2, EventsStep
<1> USE DEF Quiet, Announcing, Working
<1>9. CASE (WriteStage(r) /\ ~Found(r)) \/ Automate(r) \/ Recommend(r) \/ RecordApproval(r)
  BY <1>1, <1>4, <1>9 DEF WriteStage, Automate, Recommend, RecordApproval
<1>10. CASE CreateApplication(r) \/ AnnounceCreated(r) \/ ChargeCreated(r)
  BY <1>1, <1>4, <1>10 DEF CreateApplication, AnnounceCreated, ChargeCreated
<1>11. CASE ClearForInterview(r) \/ Invite(r) \/ CreateSession(r) \/ ReadStage(r)
  BY <1>1, <1>4, <1>11 DEF ClearForInterview, Invite, CreateSession, ReadStage
<1>12. CASE SyncWrite(r) \/ SyncTrace(r) \/ DeleteApplication(r)
  BY <1>1, <1>4, <1>12 DEF SyncWrite, SyncTrace, DeleteApplication
<1> QED BY <1>5, <1>6, <1>7, <1>8, <1>9, <1>10, <1>11, <1>12 DEF Step

(* A new application: nothing is counted for it yet.                       *)
LEMMA PacksOfNew ==
  ASSUME Typed, FreshIds, ~Exists, NEW r \in Requests, \A q \in Requests \ {r} : req'[q] = req[q],
         req'[r].pc \in {"created", "trace"}, packs' = packs, app'.id = served, served \in Ids,
         hist' \in Seq(Entries)
  PROVE  PacksCounted'
<1>1. packs[served] = 0 /\ \A q \in Requests : req[q].id # served
  BY AppId DEF FreshIds, Unused, Exists
<1>2. Cardinality(Reviews(hist')) \in Nat
  BY ReviewsCount
<1>3. PacksCounted' <=> (app'.id # 0 =>
        \A i \in {app'.id} : packs'[i] + Cardinality(Packing(i)') <= Cardinality(Reviews(hist')))
  BY DEF PacksCounted, Exists, Packing, NeedsReviewPack, Reviews
<1>4. \A i \in {app'.id} : packs'[i] + Cardinality(Packing(i)') <= Cardinality(Reviews(hist'))
  <2> SUFFICES ASSUME NEW i, i = served
               PROVE  packs'[i] + Cardinality(Packing(i)') <= Cardinality(Reviews(hist'))
    OBVIOUS
  <2>1. Packing(i)' = {}
    BY <1>1 DEF Packing
  <2> QED BY <1>1, <1>2, <2>1, FS_EmptySet
<1> QED BY <1>3, <1>4

LEMMA PacksAfter ==
  ASSUME Typed, Typed', FreshIds, PacksCounted, NEW r \in Requests,
         Ask(r) \/ Step(r) \/ RequestFails(r)
  PROVE  PacksCounted'
<1>1. /\ \A q \in Requests \ {r} : req'[q] = req[q]
      /\ CountersTyped /\ req[r] \in Working /\ req \in [Requests -> Working]
      /\ Idle.pc = "idle" /\ Owes(req[r], synced, served)
      /\ req[r].pc \notin {"idle", "create", "sync"} => req[r].id \in Ids
  BY OthersWait, AtWork DEF Idle, Typed
<1>2. Exists => app.id \in Ids
  BY AppId
<1>3. Cardinality(Reviews(hist)) \in Nat /\ hist \in Seq(Entries) /\ hist' \in Seq(Entries)
  BY ReviewsCount DEF Typed, RowsTyped
<1>4. req[r].pc = "created" => req[r].id \in Ids
  BY <1>1
<1> DEFINE Quiet == /\ app'.id = app.id /\ packs' = packs
                    /\ Cardinality(Reviews(hist)) <= Cardinality(Reviews(hist'))
                    /\ \A i \in Ids : r \in Packing(i)' => r \in Packing(i)
<1>5. CASE Quiet
  <2>1. Cardinality(Reviews(hist')) \in Nat
    BY <1>3, ReviewsCount
  <2>2. \A i \in Ids : packs[i] \in Nat
    BY <1>1 DEF CountersTyped
  <2> QED BY <1>1, <1>3, <1>5, <2>1, <2>2, PacksStep
<1> HIDE DEF Quiet
<1>6. CASE Ask(r)
  <2>1. PICK pc \in {"create", "write", "clear", "sync", "delete"}, kind \in Kinds,
            to \in Stages \union {NoStage} : Begin(r, pc, kind, to)
    BY <1>6, AskBegins
  <2>2. Quiet
    BY <1>1, <1>3, <2>1 DEF Begin, Packing, countVars, Quiet
  <2> QED BY <1>5, <2>2
<1> USE DEF Done, GoTo, At, countVars, boundVars
<1>7. CASE WriteStage(r) /\ Found(r)
  <2> DEFINE e == [from |-> req[r].from, to |-> req[r].to]
  <2>1. e \in Entries /\ app \in [id : Ids, stage : Stages]
    BY <1>1, <1>7 DEF WriteStage, Found, Exists, Working, Owes, Entries, Typed, RowsTyped, NoApp
  <2>2. /\ app'.id = app.id /\ packs' = packs /\ hist' = Append(hist, e) /\ req[r].pc = "write"
        /\ req'[r].from = req[r].from /\ req'[r].to = req[r].to
    BY <1>1, <1>7, <2>1 DEF WriteStage, Found, HistoryWith, Working
  <2>3. e = ToReview <=> (req[r].from = "INTERVIEW_COMPLETED" /\ req[r].to = "RECRUITER_REVIEW")
    BY DEF ToReview
  <2> HIDE DEF e
  <2>4. Cardinality(Reviews(hist')) = Cardinality(Reviews(hist)) + (IF e = ToReview THEN 1 ELSE 0)
    BY <1>3, <2>1, <2>2, ReviewsAppend
  <2>5. ASSUME NEW i \in Ids
        PROVE  packs[i] \in Nat /\ r \notin Packing(i) /\ (r \in Packing(i)' => e = ToReview)
    BY <1>1, <2>2, <2>3 DEF CountersTyped, Packing, NeedsReviewPack
  <2> QED BY <1>1, <1>3, <2>2, <2>4, <2>5, PacksStep
<1>8. CASE Automate(r)
  <2>1. app' = app /\ hist' = hist /\ req[r].pc = "automate" /\ req[r].id \in Ids
    BY <1>1, <1>8 DEF Automate
  <2>2. req'[r].pc \notin {"announce", "automate"}
    BY <1>1, <1>8 DEF Automate, Working
  <2>3. ASSUME NEW i \in Ids
        PROVE  packs'[i] + (IF r \in Packing(i)' THEN 1 ELSE 0)
                 <= packs[i] + (IF r \in Packing(i) THEN 1 ELSE 0)
    <3>1. packs[i] \in Nat /\ r \notin Packing(i)'
      BY <1>1, <2>2 DEF CountersTyped, Packing
    <3>2. CASE packs' = packs
      BY <3>1, <3>2
    <3>3. CASE NeedsReviewPack(r) /\ packs' = Counted(packs, req[r].id)
      <4>1. packs'[i] = IF i = req[r].id THEN packs[i] + 1 ELSE packs[i]
        <5>1. packs \in [Ids -> Nat]
          BY <1>1 DEF CountersTyped
        <5> QED BY <2>1, <3>3, <5>1 DEF Counted
      <4>2. i = req[r].id => r \in Packing(i)
        BY <2>1, <3>3 DEF Packing
      <4> QED BY <3>1, <4>1, <4>2
    <3> QED BY <1>8, <3>2, <3>3 DEF Automate
  <2>4. ASSUME NEW i \in Ids PROVE packs[i] \in Nat /\ packs'[i] \in Nat
    BY <1>1 DEF Typed, CountersTyped
  <2> QED BY <1>1, <1>3, <2>1, <2>3, <2>4, PacksStep
<1>9. CASE CreateApplication(r) /\ ~Exists
  <2>1. /\ req'[r].pc = "created" /\ packs' = packs /\ app'.id = served /\ served \in Ids
    BY <1>1, <1>9, AtWork DEF CreateApplication, Working, Owes
  <2> QED BY <1>1, <1>3, <1>9, <2>1, PacksOfNew
<1>10. CASE SyncWrite(r)
  <2>1. CASE Found(r)
    <3>1. app \in [id : Ids, stage : Stages]
      BY <2>1 DEF Found, Exists, Typed, RowsTyped, NoApp
    <3>2. /\ app'.id = app.id /\ packs' = packs /\ hist' = hist /\ req'[r].pc = "trace"
      BY <1>1, <1>10, <2>1, <3>1 DEF SyncWrite, Found, Working
    <3> QED BY <1>3, <1>5, <3>2 DEF Quiet, Packing
  <2>2. CASE ~Found(r) /\ (req[r].id = 0 => Exists)
    <3>1. app' = app /\ packs' = packs /\ hist' = hist /\ req'[r].pc = "idle"
      BY <1>1, <1>10, <2>2 DEF SyncWrite
    <3> QED BY <1>3, <1>5, <3>1 DEF Quiet, Packing
  <2>3. CASE req[r].id = 0 /\ ~Exists
    <3>1. /\ req'[r].pc = "trace" /\ packs' = packs /\ app'.id = served /\ served \in Ids
      BY <1>1, <1>10, <2>3, AtWork DEF SyncWrite, Working, Owes, Found
    <3> QED BY <1>1, <1>3, <2>3, <3>1, PacksOfNew
  <2> QED BY <2>1, <2>2, <2>3
<1>11. CASE SyncTrace(r)
  <2>1. app' = app /\ packs' = packs /\ req'[r].pc = "idle"
    BY <1>1, <1>11 DEF SyncTrace
  <2>2. Cardinality(Reviews(hist)) <= Cardinality(Reviews(hist'))
    <3>1. CASE hist' = hist
      BY <1>3, <3>1
    <3>2. CASE hist' = HistoryWith(r)
      <4>1. [from |-> req[r].from, to |-> req[r].to] \in Entries
        BY <1>1, <1>11 DEF SyncTrace, Working, Owes, Entries
      <4> QED BY <1>3, <3>2, <4>1, ReviewsAppend DEF HistoryWith
    <3> QED BY <1>11, <3>1, <3>2 DEF SyncTrace
  <2> QED BY <1>5, <2>1, <2>2 DEF Quiet, Packing
<1>12. CASE DeleteApplication(r)
  <2>1. CASE Found(r)
    BY <1>12, <2>1 DEF DeleteApplication, NoApp, PacksCounted, Exists
  <2>2. CASE ~Found(r)
    <3>1. app' = app /\ packs' = packs /\ hist' = hist /\ req'[r].pc = "idle"
      BY <1>1, <1>12, <2>2 DEF DeleteApplication
    <3> QED BY <1>3, <1>5, <3>1 DEF Quiet, Packing
  <2> QED BY <2>1, <2>2
<1>13. CASE AnnounceTransition(r)
  <2>1. app' = app /\ packs' = packs /\ hist' = hist
    BY <1>13 DEF AnnounceTransition
  <2>2. \/ req'[r].pc = "idle"
        \/ /\ req[r].pc = "announce" /\ req'[r].id = req[r].id
           /\ req'[r].from = req[r].from /\ req'[r].to = req[r].to
    BY <1>1, <1>13 DEF AnnounceTransition, AfterAnnounce, Working
  <2> QED BY <1>3, <1>5, <2>1, <2>2 DEF Quiet, Packing, NeedsReviewPack
<1>14. CASE (WriteStage(r) /\ ~Found(r)) \/ (CreateApplication(r) /\ Exists)
  BY <1>1, <1>3, <1>5, <1>14 DEF WriteStage, CreateApplication, Quiet, Packing
<1>15. CASE AnnounceCreated(r) \/ ChargeCreated(r) \/ RequestFails(r) \/ Recommend(r) \/ RecordApproval(r)
  <2>1. app' = app /\ packs' = packs /\ hist' = hist
    BY <1>15 DEF AnnounceCreated, ChargeCreated, RequestFails, Recommend, RecordApproval
  <2>2. req'[r].pc \in {"idle", "charge", "approve"}
    BY <1>1, <1>15 DEF AnnounceCreated, ChargeCreated, RequestFails, Recommend, RecordApproval, Working
  <2> QED BY <1>3, <1>5, <2>1, <2>2 DEF Quiet, Packing
<1>16. CASE ClearForInterview(r) \/ Invite(r) \/ CreateSession(r) \/ ReadStage(r)
  <2>1. app' = app /\ packs' = packs /\ hist' = hist
    BY <1>16 DEF ClearForInterview, Invite, CreateSession, ReadStage
  <2>2. req'[r].pc \in {"idle", "invite", "session", "stage", "write"}
    BY <1>1, <1>16 DEF ClearForInterview, Invite, CreateSession, ReadStage, Working
  <2> QED BY <1>3, <1>5, <2>1, <2>2 DEF Quiet, Packing
<1> QED BY <1>6, <1>7, <1>8, <1>9, <1>10, <1>11, <1>12, <1>13, <1>14, <1>15, <1>16 DEF Step

----------------------------------------------------------------------------
(* The invariant.                                                           *)

LEMMA InitInv == Init => Inv
<1> SUFFICES ASSUME Init PROVE Inv
  OBVIOUS
<1>1. Typed
  BY InitTyped
<1>2. /\ app.id = 0 /\ hist = <<>> /\ served = 0 /\ faults = 0 /\ Idle.pc = "idle" /\ Idle.id = 0
      /\ \A r \in Requests : req[r] = Idle
      /\ \A i \in Ids : /\ packs[i] = 0 /\ approved[i] = 0 /\ decided[i] = 0 /\ invited[i] = 0
                        /\ cleared[i] = 0 /\ announced[i] = 0 /\ moved[i] = 0
  BY DEF Init, NoApp, Idle, Zero
<1>3. FreshIds
  BY <1>2 DEF FreshIds, Unused, At, Ids
<1>4. TraceMatchesStage /\ FromWasReached /\ ReadStagesLed /\ PacksCounted
  BY <1>2 DEF TraceMatchesStage, FromWasReached, ReadStagesLed, PacksCounted, Exists, At
<1>5. \A i \in Ids : Deciding(i) = {} /\ Inviting(i) = {} /\ Announcing(i) = {}
  BY <1>2 DEF Deciding, Inviting, Announcing, At
<1>6. DecisionsCounted /\ InvitesCounted /\ EventsCounted
  <2>1. Cardinality({}) = 0
    BY FS_EmptySet
  <2>2. ASSUME NEW i \in Ids
        PROVE  /\ Cardinality(Deciding(i)) = 0 /\ Cardinality(Inviting(i)) = 0
               /\ Cardinality(Announcing(i)) = 0
    BY <1>5, <2>1
  <2> QED BY <1>2, <2>2 DEF DecisionsCounted, InvitesCounted, EventsCounted
<1> QED BY <1>1, <1>3, <1>4, <1>6 DEF Inv

LEMMA NextInv == Inv /\ [Next]_vars => Inv'
<1> SUFFICES ASSUME Inv, [Next]_vars PROVE Inv'
  OBVIOUS
<1>1. Typed'
  BY NextTyped DEF Inv
<1>2. CountersTyped' /\ Traced
  BY <1>1 DEF Typed, Inv, Traced
<1>3. ASSUME NEW r \in Requests, Ask(r) \/ Step(r) \/ RequestFails(r) PROVE Inv'
  <2>1. FreshIds'
    BY <1>3, FreshAfterAsk, FreshAfterStep DEF Inv
  <2>2. Traced'
    BY <1>2, <1>3, TraceAfterAsk, TraceAfterStep DEF Inv
  <2>3. DecisionsCounted' /\ InvitesCounted'
    BY <1>2, <1>3, DecisionsAfter, InvitesAfter DEF Inv
  <2>4. EventsCounted' /\ PacksCounted'
    BY <1>1, <1>3, EventsAfter, PacksAfter DEF Inv
  <2> QED BY <1>1, <2>1, <2>2, <2>3, <2>4 DEF Inv, Traced
<1>4. CASE UpdateJob
  <2>1. UNCHANGED <<app, hist, countVars, synced, req, faults>> /\ served' = served + 1
    BY <1>4 DEF UpdateJob
  <2>2. FreshIds'
    <3>1. app.id \in Nat /\ served \in Nat /\ Ids \subseteq Nat
      BY AppId DEF Inv
    <3>2. ASSUME NEW r \in Requests PROVE req[r].id \in Nat
      <4>1. req[r] \in Working
        BY DEF Inv, Typed, RequestsTyped
      <4>2. req[r].id \in Ids \union {0}
        BY <4>1 DEF Working
      <4> QED BY <4>2 DEF Ids
    <3> QED BY <2>1, <3>1, <3>2 DEF Inv, FreshIds, Unused, At, countVars
  <2>3. TraceMatchesStage' /\ FromWasReached' /\ ReadStagesLed'
    BY <2>1 DEF Inv, TraceMatchesStage, FromWasReached, ReadStagesLed, Exists, At, Last
  <2>4. DecisionsCounted' /\ InvitesCounted' /\ EventsCounted' /\ PacksCounted'
    BY <2>1 DEF Inv, DecisionsCounted, InvitesCounted, EventsCounted, PacksCounted, Deciding,
                Inviting, Announcing, Packing, NeedsReviewPack, Reviews, Exists, At, countVars
  <2> QED BY <1>1, <2>2, <2>3, <2>4 DEF Inv
<1>5. CASE UNCHANGED vars
  <2>1. UNCHANGED <<app, hist, countVars, synced, req, faults>> /\ served' = served
    BY <1>5 DEF vars, boundVars
  <2>2. FreshIds'
    BY <2>1 DEF Inv, FreshIds, Unused, At, countVars
  <2>3. TraceMatchesStage' /\ FromWasReached' /\ ReadStagesLed'
    BY <2>1 DEF Inv, TraceMatchesStage, FromWasReached, ReadStagesLed, Exists, At, Last
  <2>4. DecisionsCounted' /\ InvitesCounted' /\ EventsCounted' /\ PacksCounted'
    BY <2>1 DEF Inv, DecisionsCounted, InvitesCounted, EventsCounted, PacksCounted, Deciding,
                Inviting, Announcing, Packing, NeedsReviewPack, Reviews, Exists, At, countVars
  <2> QED BY <1>1, <2>2, <2>3, <2>4 DEF Inv
<1> QED BY <1>3, <1>4, <1>5 DEF Next

LEMMA Invariance == Spec => []Inv
BY InitInv, NextInv, PTL DEF Spec

(* The invariant says more than what the run checks of it.                 *)
LEMMA InvImplies == Inv => TypeOK /\ TraceIsTrue /\ ConsequencesFollow /\ InvitedIsCleared
<1> SUFFICES ASSUME Inv PROVE TypeOK /\ TraceIsTrue /\ ConsequencesFollow /\ InvitedIsCleared
  OBVIOUS
<1>1. TypeOK
  BY DEF Inv, Typed, RowsTyped, CountersTyped, RequestsTyped, Owes, Entries, Working, TypeOK
<1>2. ASSUME NEW i \in Ids
      PROVE  /\ Cardinality(Deciding(i)) \in Nat /\ Cardinality(Inviting(i)) \in Nat
             /\ Cardinality(Announcing(i)) \in Nat /\ Cardinality(Packing(i)) \in Nat
             /\ approved[i] \in Nat /\ decided[i] \in Nat /\ invited[i] \in Nat /\ cleared[i] \in Nat
             /\ announced[i] \in Nat /\ moved[i] \in Nat /\ packs[i] \in Nat
  <2>1. /\ IsFiniteSet(Deciding(i)) /\ IsFiniteSet(Inviting(i))
        /\ IsFiniteSet(Announcing(i)) /\ IsFiniteSet(Packing(i))
    BY SetsOfRequests, FS_Subset
  <2> QED BY <2>1, FS_CardinalityType DEF Inv, Typed, CountersTyped
<1>3. EventsTellTransitions
  BY <1>2 DEF Inv, EventsCounted, EventsTellTransitions
<1>4. PacksHaveTransitions
  <2>1. Exists => app.id \in Ids
    BY AppId DEF Inv
  <2>2. Cardinality(Reviews(hist)) \in Nat
    BY ReviewsCount DEF Inv, Typed, RowsTyped
  <2> QED BY <1>2, <2>1, <2>2 DEF Inv, PacksCounted, PacksHaveTransitions, Reviews, ToReview
<1>5. ApprovalsFollowDecisions /\ InvitedIsCleared
  BY <1>2 DEF Inv, DecisionsCounted, InvitesCounted, ApprovalsFollowDecisions, InvitedIsCleared
<1> QED BY <1>1, <1>3, <1>4, <1>5 DEF Inv, TraceIsTrue, ConsequencesFollow

(* The row, its history, the counts and the requests have their types.     *)
THEOREM TypeCorrect == Spec => []TypeOK
BY Invariance, InvImplies, PTL

(* The stage history of an application that no import has written tells    *)
(* the stage it is in and only stages it was in, however many requests     *)
(* read and move it at once and wherever they are cut off.                 *)
THEOREM HistoryIsReliable == Spec => []TraceIsTrue
BY Invariance, InvImplies, PTL

(* Every event, review pack and approval follows a transition of its own:  *)
(* none without, none twice, and an event is lost only by a cut-off.       *)
THEOREM ConsequencesAreEarned == Spec => []ConsequencesFollow
BY Invariance, InvImplies, PTL

(* An interview is set up through the approval action at most as often as  *)
(* a person's approval was put on record for that application.             *)
THEOREM InterviewsAreCleared == Spec => []InvitedIsCleared
BY Invariance, InvImplies, PTL

=============================================================================
