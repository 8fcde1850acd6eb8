---------------------------- MODULE OutboxProofs ----------------------------
(***************************************************************************)
(* Theorems about Outbox for any events, consumers, handlers and bounds:   *)
(* type correctness, the inductive invariant behind the safety properties  *)
(* the runs check, and the step simulation of EventDelivery.               *)
(***************************************************************************)
EXTENDS Outbox, FiniteSetTheorems, TLAPS

(* A row nobody appended was never claimed; a claimed or once dispatched   *)
(* row was.                                                                *)
ClaimsCounted ==
  /\ \A e \in Events : status[e] = "none" => attempts[e] = 0
  /\ \A c \in Consumers : pc[c] \in Holding => attempts[claimed[c]] > 0
  /\ \A c \in Consumers : \A s \in stray[c] : attempts[s[1]] > 0

(* During a dispatch the handlers no longer open have handled the event;   *)
(* markPublished starts when all of them have.                             *)
HandledSoFar ==
  /\ \A c \in Consumers : pc[c] = "dispatching" =>
        Handlers \ open[c] \subseteq handled[claimed[c]]
  /\ \A c \in Consumers : pc[c] = "publishing" => handled[claimed[c]] = Handlers

(* The attempts read back at a claim never exceed those of the row.        *)
SeenWithinAttempts ==
  \A c \in Consumers : pc[c] \in Holding => seen[c] <= attempts[claimed[c]]

(* A row whose lock was never recovered is not PENDING while it is held.   *)
HeldIsNotPending ==
  \A c \in Consumers, e \in Events :
    Holds(c, e) /\ recoveries[e] = 0 => status[e] # "PENDING"

(* The inductive invariant.  Facts about a consumer at work are tied to the*)
(* row it claimed, which it may have lost since.                           *)
IInv ==
  /\ TypeOK
  /\ ClaimsCounted
  /\ HandledSoFar
  /\ SeenWithinAttempts
  /\ HeldIsNotPending
  /\ PublishedMeansHandled
  /\ FailedMeansMaxAttempts
  /\ OneWorkerUnlessRecovered

USE DEF rowVars, procVars, histVars, Statuses, Points, Holding

LEMMA InitTypeOK == Init => TypeOK
BY OutboxAssumption DEF Init, TypeOK

(* Counting one more effect keeps the type of the counters.                *)
LEMMA BumpType ==
  ASSUME TypeOK, NEW e \in Events, NEW h \in Handlers
  PROVE  Bump(e, h) \in [Events -> [Handlers -> Nat]]
BY DEF Bump, TypeOK

(* Every step keeps the types and the columns that move together.          *)
LEMMA StepTypeOK == TypeOK /\ [Next]_vars => TypeOK'
<1> SUFFICES ASSUME TypeOK, [Next]_vars PROVE TypeOK'
  OBVIOUS
<1> USE OutboxAssumption
<1>1. ASSUME NEW e \in Events, Append(e) PROVE TypeOK'
  <2>1. Cardinality(Appended) \in Nat
    BY FS_Subset, FS_CardinalityType DEF Appended
  <2> QED BY <1>1, <2>1 DEF Append, TypeOK
<1>2. ASSUME NEW e \in Events, BackoffElapses(e) PROVE TypeOK'
  BY <1>2 DEF BackoffElapses, TypeOK
<1>3. ASSUME NEW e \in Events, LockExpires(e) PROVE TypeOK'
  BY <1>3 DEF LockExpires, Ages, TypeOK
<1>4. ASSUME NEW e \in Events, HolderOverruns(e) PROVE TypeOK'
  BY <1>4 DEF HolderOverruns, Ages, TypeOK
<1>5. ASSUME NEW c \in Consumers, Start(c) PROVE TypeOK'
  BY <1>5 DEF Start, TypeOK
<1>6. ASSUME NEW c \in Consumers, RecoverStaleProcessing(c) PROVE TypeOK'
  <2>1. due' \in [Events -> BOOLEAN] /\ stale' \in [Events -> BOOLEAN]
    BY <1>6 DEF RecoverStaleProcessing, StaleRows, TypeOK
  <2>2. \A e \in Events :
          /\ (status'[e] = "PROCESSING") <=> (lockedBy'[e] # NoOne)
          /\ stale'[e] => status'[e] = "PROCESSING"
    BY <1>6 DEF RecoverStaleProcessing, StaleRows, TypeOK
  <2>3. pc' \in [Consumers -> Points] /\ UNCHANGED claimed
        /\ \A d \in Consumers : (pc'[d] \in Holding) <=> (claimed'[d] # NoOne)
    BY <1>6 DEF RecoverStaleProcessing, TypeOK
  <2>4. /\ status' \in [Events -> Statuses]
        /\ lockedBy' \in [Events -> Consumers \union {NoOne}]
        /\ recoveries' \in [Events -> Nat]
    BY <1>6 DEF RecoverStaleProcessing, StaleRows, TypeOK
  <2> QED BY <1>6, <2>1, <2>2, <2>3, <2>4 DEF RecoverStaleProcessing, TypeOK
<1>7. ASSUME NEW c \in Consumers, ListDispatchable(c) PROVE TypeOK'
  BY <1>7 DEF ListDispatchable, IsBatch, Dispatchable, Resume, TypeOK
<1>8. ASSUME NEW c \in Consumers, Claim(c) PROVE TypeOK'
  <2> USE DEF Claimable, CountClaim, Dispatchable, Resume
  <2>1. PICK e \in batch[c] : Claim(c)!2!(e)
    BY <1>8 DEF Claim
  <2>2. e \in Events
    BY DEF TypeOK
  <2>3. CASE Claimable(e) /\ Claim(c)!2!(e)!3!1
    BY <1>8, <2>1, <2>2, <2>3 DEF Claim, TypeOK
  <2>4. CASE Claim(c)!2!(e)!3!2
    BY <1>8, <2>1, <2>2, <2>4 DEF Claim, TypeOK
  <2> QED BY <2>1, <2>3, <2>4
<1>9. ASSUME NEW c \in Consumers, ReadClaimed(c) PROVE TypeOK'
  BY <1>9 DEF ReadClaimed, TypeOK
<1>10. ASSUME NEW c \in Consumers, NEW h \in Handlers, HandlerResolves(c, h)
       PROVE TypeOK'
  BY <1>10 DEF HandlerResolves, AllResolved, Bump, TypeOK
<1>11. ASSUME NEW c \in Consumers, NEW h \in Handlers, HandlerRejects(c, h)
       PROVE TypeOK'
  <2>1. claimed[c] \in Events
    BY <1>11 DEF HandlerRejects, TypeOK
  <2>2. effects' \in [Events -> [Handlers -> Nat]]
    BY <1>11, <2>1, BumpType DEF HandlerRejects, TypeOK
  <2>3. stray' \in [Consumers -> SUBSET (Events \X Handlers \X Nat)]
    BY <1>11, <2>1 DEF HandlerRejects, TypeOK
  <2> QED BY <1>11, <2>1, <2>2, <2>3 DEF HandlerRejects, TypeOK
<1>12. ASSUME NEW c \in Consumers, NEW s \in stray[c], StraySettles(c, s)
       PROVE TypeOK'
  <2>1. s \in Events \X Handlers \X Nat
    BY DEF TypeOK
  <2>2. s[1] \in Events /\ s[2] \in Handlers
    BY <2>1
  <2>3. effects' \in [Events -> [Handlers -> Nat]]
    BY <1>12, <2>2, BumpType DEF StraySettles, TypeOK
  <2>4. handled' \in [Events -> SUBSET Handlers]
    <3>1. CASE UNCHANGED handled
      BY <3>1 DEF TypeOK
    <3>2. CASE handled' = [handled EXCEPT ![s[1]] = @ \union {s[2]}]
      BY <2>2, <3>2 DEF TypeOK
    <3> QED BY <1>12, <3>1, <3>2 DEF StraySettles
  <2>5. stray' \in [Consumers -> SUBSET (Events \X Handlers \X Nat)]
    BY <1>12 DEF StraySettles, TypeOK
  <2> QED BY <1>12, <2>3, <2>4, <2>5 DEF StraySettles, TypeOK
<1>13. ASSUME NEW c \in Consumers, MarkPublished(c) PROVE TypeOK'
  BY <1>13 DEF MarkPublished, Mark, Release, Resume, TypeOK
<1>14. ASSUME NEW c \in Consumers, MarkPublishedThrows(c) PROVE TypeOK'
  <2>1. CASE Mark(claimed[c], "PUBLISHED")
    <3>1. claimed[c] \in Events /\ pc[c] \in Holding
      BY <1>14 DEF MarkPublishedThrows, TypeOK
    <3>2. /\ status' \in [Events -> Statuses]
          /\ lockedBy' \in [Events -> Consumers \union {NoOne}]
          /\ stale' \in [Events -> BOOLEAN]
      BY <2>1, <3>1 DEF Mark, TypeOK
    <3>3. \A e \in Events :
            /\ (status'[e] = "PROCESSING") <=> (lockedBy'[e] # NoOne)
            /\ stale'[e] => status'[e] = "PROCESSING"
      BY <2>1, <3>1 DEF Mark, TypeOK
    <3>4. /\ pc' \in [Consumers -> Points]
          /\ \A d \in Consumers : (pc'[d] \in Holding) <=> (claimed'[d] # NoOne)
          /\ \A d \in Consumers : open'[d] # {} => pc'[d] = "dispatching"
      BY <1>14, <3>1 DEF MarkPublishedThrows, TypeOK
    <3>5. faults' \in 0..MaxFaults
      BY <1>14 DEF MarkPublishedThrows, TypeOK
    <3> QED BY <1>14, <3>2, <3>3, <3>4, <3>5 DEF MarkPublishedThrows, TypeOK
  <2>2. CASE UNCHANGED <<status, lockedBy, stale>>
    BY <1>14, <2>2 DEF MarkPublishedThrows, TypeOK
  <2> QED BY <1>14, <2>1, <2>2 DEF MarkPublishedThrows
<1>15. ASSUME NEW c \in Consumers, MarkFailedOrRetry(c) PROVE TypeOK'
  BY <1>15 DEF MarkFailedOrRetry, GivesUp, Mark, Release, Resume, TypeOK
<1>16. ASSUME NEW c \in Consumers, Crash(c) PROVE TypeOK'
  <2>1. open[c] # {} => claimed[c] \in Events
    BY DEF TypeOK
  <2>2. stray' \in [Consumers -> SUBSET (Events \X Handlers \X Nat)]
    BY <1>16, <2>1 DEF Crash, TypeOK
  <2> QED BY <1>16, <2>2 DEF Crash, Running, TypeOK
<1>17. CASE UNCHANGED vars
  BY <1>17 DEF vars, TypeOK
<1> QED
  BY <1>1, <1>2, <1>3, <1>4, <1>5, <1>6, <1>7, <1>8, <1>9, <1>10, <1>11,
     <1>12, <1>13, <1>14, <1>15, <1>16, <1>17 DEF Next, Tick, Dispatch

(* The types of the outbox hold in every reachable state.                  *)
THEOREM TypeCorrect == Spec => []TypeOK
BY InitTypeOK, StepTypeOK, PTL DEF Spec

(* A mark changes the status of one row, and only out of PROCESSING.       *)
LEMMA MarkEffect ==
  ASSUME TypeOK, NEW e \in Events, NEW s, Mark(e, s)
  PROVE  \A x \in Events :
           status'[x] = IF x = e /\ status[e] = "PROCESSING" THEN s ELSE status[x]
BY DEF Mark, TypeOK

(* The invariant holds initially and every step keeps it.                  *)
LEMMA InitIInv == Init => IInv
BY InitTypeOK, OutboxAssumption
   DEF Init, IInv, ClaimsCounted, HandledSoFar, SeenWithinAttempts,
       HeldIsNotPending, PublishedMeansHandled, FailedMeansMaxAttempts,
       OneWorkerUnlessRecovered, Holds

LEMMA StepIInv == IInv /\ [Next]_vars => IInv'
<1> SUFFICES ASSUME IInv, [Next]_vars PROVE IInv'
  OBVIOUS
<1> TypeOK /\ TypeOK'
  BY StepTypeOK DEF IInv
<1> USE OutboxAssumption
<1>a. \A c \in Consumers : pc[c] \in Holding => claimed[c] \in Events
  BY DEF TypeOK
<1>b. \A c \in Consumers : \A s \in stray[c] : s[1] \in Events /\ s[2] \in Handlers
  BY DEF TypeOK
<1>c. /\ \A e \in Events : attempts[e] \in Nat /\ recoveries[e] \in Nat
      /\ \A c \in Consumers : seen[c] \in Nat
  BY DEF TypeOK
<1> USE DEF IInv, ClaimsCounted, HandledSoFar, SeenWithinAttempts,
        HeldIsNotPending, PublishedMeansHandled, FailedMeansMaxAttempts,
        OneWorkerUnlessRecovered, Holds
<1>1. ASSUME NEW e \in Events, Append(e) PROVE IInv'
  BY <1>1 DEF Append, TypeOK
<1>2. ASSUME NEW e \in Events, BackoffElapses(e) PROVE IInv'
  BY <1>2 DEF BackoffElapses, TypeOK
<1>3. ASSUME NEW e \in Events, LockExpires(e) PROVE IInv'
  BY <1>3 DEF LockExpires, Ages, TypeOK
<1>4. ASSUME NEW e \in Events, HolderOverruns(e) PROVE IInv'
  BY <1>4 DEF HolderOverruns, Ages, TypeOK
<1>5. ASSUME NEW c \in Consumers, Start(c) PROVE IInv'
  BY <1>5 DEF Start, TypeOK
<1>6. ASSUME NEW c \in Consumers, RecoverStaleProcessing(c) PROVE IInv'
  BY <1>6 DEF RecoverStaleProcessing, StaleRows, TypeOK
<1>7. ASSUME NEW c \in Consumers, ListDispatchable(c) PROVE IInv'
  BY <1>7 DEF ListDispatchable, Resume, TypeOK
<1>8. ASSUME NEW c \in Consumers, Claim(c) PROVE IInv'
  <2> USE DEF Claimable, CountClaim, Dispatchable, Resume
  <2>1. PICK e \in batch[c] : Claim(c)!2!(e)
    BY <1>8 DEF Claim
  <2>2. e \in Events
    BY DEF TypeOK
  <2>3. CASE Claimable(e) /\ Claim(c)!2!(e)!3!1
    <3>0. seen[c] = 0
      BY <1>8 DEF Claim, TypeOK
    <3>1. status[e] = "PENDING" /\ attempts[e] >= 0 /\ pc[c] = "scanning"
      BY <1>8, <2>3 DEF Claim, TypeOK
    <3>2. \A d \in Consumers : d # c =>
            pc'[d] = pc[d] /\ claimed'[d] = claimed[d]
      BY <2>3 DEF TypeOK
    <3>3. \A d \in Consumers : recoveries[e] = 0 => ~Holds(d, e)
      BY <2>2, <3>1
    <3>4. pc'[c] = "claimed" /\ claimed'[c] = e
      BY <2>3 DEF TypeOK
    <3>5. \A x \in Events :
            /\ attempts'[x] = IF x = e THEN attempts[x] + 1 ELSE attempts[x]
            /\ status'[x] = IF x = e THEN "PROCESSING" ELSE status[x]
      BY <2>2, <2>3 DEF TypeOK
    <3>6. UNCHANGED <<seen, open, stray, handled, recoveries>>
      BY <1>8 DEF Claim
    <3>7. ClaimsCounted' /\ HandledSoFar' /\ SeenWithinAttempts'
      <4>1. \A x \in Events : attempts'[x] >= attempts[x]
        BY <1>c, <3>5
      <4>2. \A d \in Consumers : \A s \in stray'[d] : attempts'[s[1]] > 0
        <5> SUFFICES ASSUME NEW d \in Consumers, NEW s \in stray[d]
                     PROVE  attempts'[s[1]] > 0
          BY <3>6
        <5>1. s[1] \in Events /\ attempts[s[1]] > 0
          BY <1>b
        <5>2. attempts[s[1]] \in Nat /\ attempts'[s[1]] \in Nat
          BY <1>c, <3>5, <5>1
        <5> QED BY <4>1, <5>1, <5>2
      <4>3. \A x \in Events : status'[x] = "none" => attempts'[x] = 0
        BY <3>5
      <4>4. attempts'[e] > 0 /\ seen'[c] <= attempts'[e]
        BY <1>c, <2>2, <3>1, <3>5, <3>6, <3>0
      <4>5. \A d \in Consumers : pc'[d] \in Holding =>
              attempts'[claimed'[d]] > 0 /\ seen'[d] <= attempts'[claimed'[d]]
        <5> SUFFICES ASSUME NEW d \in Consumers, d # c, pc[d] \in Holding
                     PROVE  /\ attempts'[claimed[d]] > 0
                            /\ seen[d] <= attempts'[claimed[d]]
          BY <3>2, <3>4, <3>6, <4>4
        <5>1. claimed[d] \in Events /\ seen[d] \in Nat
          BY <1>a, <1>c
        <5>2. attempts[claimed[d]] > 0 /\ seen[d] <= attempts[claimed[d]]
          OBVIOUS
        <5> QED BY <1>c, <3>5, <5>1, <5>2
      <4>6. HandledSoFar'
        BY <3>2, <3>4, <3>6
      <4> QED BY <4>2, <4>3, <4>5, <4>6
    <3>8. HeldIsNotPending' /\ OneWorkerUnlessRecovered'
      BY <1>a, <2>2, <3>1, <3>2, <3>3, <3>4, <3>5, <3>6
    <3>9. PublishedMeansHandled' /\ FailedMeansMaxAttempts'
      BY <1>c, <3>1, <3>5, <3>6
    <3> QED BY <3>7, <3>8, <3>9
  <2>4. CASE Claim(c)!2!(e)!3!2
    BY <1>8, <2>1, <2>2, <2>4 DEF Claim, TypeOK
  <2> QED BY <2>1, <2>3, <2>4
<1>9. ASSUME NEW c \in Consumers, ReadClaimed(c) PROVE IInv'
  BY <1>9 DEF ReadClaimed, TypeOK
<1>10. ASSUME NEW c \in Consumers, NEW h \in Handlers, HandlerResolves(c, h) PROVE IInv'
  BY <1>10 DEF HandlerResolves, AllResolved, TypeOK
<1>11. ASSUME NEW c \in Consumers, NEW h \in Handlers, HandlerRejects(c, h) PROVE IInv'
  BY <1>11 DEF HandlerRejects, TypeOK
<1>12. ASSUME NEW c \in Consumers, NEW s \in stray[c], StraySettles(c, s) PROVE IInv'
  <2>1. s[1] \in Events /\ s[2] \in Handlers
    BY DEF TypeOK
  <2>2. \A x \in Events : handled[x] \subseteq handled'[x] /\ handled'[x] \subseteq Handlers
    <3>1. CASE UNCHANGED handled
      BY <3>1 DEF TypeOK
    <3>2. CASE handled' = [handled EXCEPT ![s[1]] = @ \union {s[2]}]
      BY <2>1, <3>2 DEF TypeOK
    <3> QED BY <1>12, <3>1, <3>2 DEF StraySettles
  <2>3. stray'[c] \subseteq stray[c] /\ \A d \in Consumers : d # c => stray'[d] = stray[d]
    BY <1>12 DEF StraySettles, TypeOK
  <2>4. UNCHANGED <<status, attempts, pc, claimed, seen, open, recoveries>>
    BY <1>12 DEF StraySettles
  <2>5. ClaimsCounted' /\ HandledSoFar' /\ SeenWithinAttempts'
    <3>1. \A d \in Consumers : stray'[d] \subseteq stray[d]
      BY <2>3
    <3>2. ClaimsCounted' /\ SeenWithinAttempts'
      BY <2>4, <3>1
    <3>3. ASSUME NEW d \in Consumers, pc[d] \in {"dispatching", "publishing"}
          PROVE  /\ claimed[d] \in Events
                 /\ handled[claimed[d]] \subseteq handled'[claimed[d]]
                 /\ handled'[claimed[d]] \subseteq Handlers
      BY <1>a, <2>2, <3>3
    <3>4. HandledSoFar'
      <4>1. ASSUME NEW d \in Consumers, pc[d] = "dispatching"
            PROVE  Handlers \ open[d] \subseteq handled'[claimed[d]]
        <5>1. Handlers \ open[d] \subseteq handled[claimed[d]]
          BY <4>1
        <5> QED BY <3>3, <4>1, <5>1
      <4>2. ASSUME NEW d \in Consumers, pc[d] = "publishing"
            PROVE  handled'[claimed[d]] = Handlers
        <5>1. handled[claimed[d]] = Handlers
          BY <4>2
        <5>2. /\ handled[claimed[d]] \subseteq handled'[claimed[d]]
              /\ handled'[claimed[d]] \subseteq Handlers
          BY <3>3, <4>2
        <5> QED BY <5>1, <5>2
      <4> QED BY <2>4, <4>1, <4>2
    <3> QED BY <3>2, <3>4
  <2>6. HeldIsNotPending' /\ OneWorkerUnlessRecovered'
    BY <2>4
  <2>7. PublishedMeansHandled' /\ FailedMeansMaxAttempts'
    <3>1. \A x \in Events : handled[x] = Handlers => handled'[x] = Handlers
      <4> SUFFICES ASSUME NEW x \in Events, handled[x] = Handlers
                   PROVE  handled'[x] = Handlers
        OBVIOUS
      <4>1. Handlers \subseteq handled'[x] /\ handled'[x] \subseteq Handlers
        BY <2>2
      <4> QED BY <4>1
    <3> QED BY <2>4, <3>1
  <2> QED BY <2>5, <2>6, <2>7
<1>13. ASSUME NEW c \in Consumers, MarkPublished(c) PROVE IInv'
  <2>1. claimed[c] \in Events /\ pc[c] \in Holding /\ Holds(c, claimed[c])
    BY <1>13 DEF MarkPublished, TypeOK
  <2>2. \A x \in Events : status'[x] =
          IF x = claimed[c] /\ status[x] = "PROCESSING" THEN "PUBLISHED" ELSE status[x]
    BY <1>13, <2>1, MarkEffect DEF MarkPublished
  <2>3. /\ pc'[c] \in {"idle", "scanning"}
        /\ \A d \in Consumers : d # c =>
             pc'[d] = pc[d] /\ claimed'[d] = claimed[d] /\ seen'[d] = seen[d]
        /\ UNCHANGED <<attempts, open, stray, handled, recoveries>>
    BY <1>13 DEF MarkPublished, Release, Resume, TypeOK
  <2>4. ClaimsCounted' /\ HandledSoFar' /\ SeenWithinAttempts'
    BY <1>a, <1>b, <1>c, <2>1, <2>2, <2>3
  <2>5. HeldIsNotPending' /\ OneWorkerUnlessRecovered'
    BY <1>a, <2>1, <2>2, <2>3
  <2>6. PublishedMeansHandled' /\ FailedMeansMaxAttempts'
    BY <1>13, <2>1, <2>2, <2>3 DEF MarkPublished, TypeOK
  <2> QED BY <2>4, <2>5, <2>6
<1>14. ASSUME NEW c \in Consumers, MarkPublishedThrows(c) PROVE IInv'
  <2>1. claimed[c] \in Events /\ pc[c] \in Holding /\ Holds(c, claimed[c])
    BY <1>14 DEF MarkPublishedThrows, TypeOK
  <2>2. \A x \in Events :
          \/ status'[x] = status[x]
          \/ x = claimed[c] /\ status'[x] = "PUBLISHED"
    <3>1. CASE Mark(claimed[c], "PUBLISHED")
      BY <2>1, <3>1, MarkEffect
    <3> QED BY <1>14, <3>1 DEF MarkPublishedThrows
  <2>3. /\ pc'[c] = "failing"
        /\ \A d \in Consumers : d # c => pc'[d] = pc[d]
        /\ UNCHANGED <<attempts, claimed, seen, open, stray, handled, recoveries>>
    BY <1>14 DEF MarkPublishedThrows, TypeOK
  <2>4. ClaimsCounted' /\ HandledSoFar' /\ SeenWithinAttempts'
    BY <1>a, <1>b, <1>c, <2>1, <2>2, <2>3
  <2>5. HeldIsNotPending' /\ OneWorkerUnlessRecovered'
    BY <1>a, <2>1, <2>2, <2>3
  <2>6. PublishedMeansHandled' /\ FailedMeansMaxAttempts'
    BY <1>14, <2>1, <2>2, <2>3 DEF MarkPublishedThrows, TypeOK
  <2> QED BY <2>4, <2>5, <2>6
<1>15. ASSUME NEW c \in Consumers, MarkFailedOrRetry(c) PROVE IInv'
  <2>1. claimed[c] \in Events /\ pc[c] \in Holding /\ Holds(c, claimed[c])
    BY <1>15 DEF MarkFailedOrRetry, TypeOK
  <2>2. \A x \in Events : status'[x] =
          IF x = claimed[c] /\ status[x] = "PROCESSING"
          THEN IF GivesUp(seen[c]) THEN "FAILED" ELSE "PENDING"
          ELSE status[x]
    BY <1>15, <2>1, MarkEffect DEF MarkFailedOrRetry
  <2>3. /\ pc'[c] \in {"idle", "scanning"}
        /\ \A d \in Consumers : d # c =>
             pc'[d] = pc[d] /\ claimed'[d] = claimed[d] /\ seen'[d] = seen[d]
        /\ UNCHANGED <<attempts, open, stray, handled, recoveries>>
    BY <1>15 DEF MarkFailedOrRetry, Release, Resume, TypeOK
  <2>4. ClaimsCounted' /\ HandledSoFar' /\ SeenWithinAttempts'
    BY <1>a, <1>b, <1>c, <2>1, <2>2, <2>3
  <2>5. HeldIsNotPending' /\ OneWorkerUnlessRecovered'
    BY <1>a, <2>1, <2>2, <2>3
  <2>6. PublishedMeansHandled' /\ FailedMeansMaxAttempts'
    BY <1>15, <2>1, <2>2, <2>3 DEF MarkFailedOrRetry, GivesUp, TypeOK
  <2> QED BY <2>4, <2>5, <2>6
<1>16. ASSUME NEW c \in Consumers, Crash(c) PROVE IInv'
  BY <1>16 DEF Crash, Running, TypeOK
<1>17. CASE UNCHANGED vars
  BY <1>17 DEF vars, TypeOK
<1> QED
  BY <1>1, <1>2, <1>3, <1>4, <1>5, <1>6, <1>7, <1>8, <1>9, <1>10, <1>11, <1>12, <1>13, <1>14, <1>15, <1>16, <1>17 DEF Next, Tick, Dispatch

LEMMA InvariantHolds == Spec => []IInv
BY InitIInv, StepIInv, PTL DEF Spec

(* An event is PUBLISHED only when both handlers completed for it,         *)
(* whichever consumer marked it and whether or not it held the lock.       *)
THEOREM PublishedOnlyWhenHandled == Spec => []PublishedMeansHandled
BY InvariantHolds, PTL DEF IInv

(* An event is FAILED only after MaxAttempts claims.                       *)
THEOREM FailedOnlyAfterMaxAttempts == Spec => []FailedMeansMaxAttempts
BY InvariantHolds, PTL DEF IInv

(* Two consumers hold one event only after its lock was recovered.         *)
THEOREM MutualExclusion == Spec => []OneWorkerUnlessRecovered
BY InvariantHolds, PTL DEF IInv

-----------------------------------------------------------------------------
(* No step takes a row out of PUBLISHED or FAILED.                         *)
LEMMA StepKeepsTerminal ==
  ASSUME TypeOK, [Next]_vars, NEW e \in Events, status[e] \in Terminal
  PROVE  status'[e] = status[e]
<1> USE DEF TypeOK, Terminal
<1>1. ASSUME NEW d \in Events,
             Append(d) \/ BackoffElapses(d) \/ LockExpires(d) \/ HolderOverruns(d)
      PROVE  status'[e] = status[e]
  BY <1>1 DEF Append, BackoffElapses, LockExpires, HolderOverruns, Ages
<1>2. ASSUME NEW c \in Consumers,
             \/ Start(c) \/ ListDispatchable(c) \/ ReadClaimed(c) \/ Crash(c)
             \/ Dispatch(c) \/ \E s \in stray[c] : StraySettles(c, s)
      PROVE  status'[e] = status[e]
  BY <1>2 DEF Start, ListDispatchable, ReadClaimed, Crash, Dispatch,
     HandlerResolves, HandlerRejects, StraySettles
<1>3. ASSUME NEW c \in Consumers, RecoverStaleProcessing(c)
      PROVE  status'[e] = status[e]
  BY <1>3 DEF RecoverStaleProcessing, StaleRows
<1>4. ASSUME NEW c \in Consumers, Claim(c) PROVE status'[e] = status[e]
  BY <1>4 DEF Claim, Claimable, Dispatchable
<1>5. ASSUME NEW c \in Consumers,
             MarkPublished(c) \/ MarkPublishedThrows(c) \/ MarkFailedOrRetry(c)
      PROVE  status'[e] = status[e]
  <2>1. claimed[c] \in Events
    BY <1>5 DEF MarkPublished, MarkPublishedThrows, MarkFailedOrRetry
  <2>2. \A s : Mark(claimed[c], s) => status'[e] = status[e]
    BY <2>1, MarkEffect
  <2> QED BY <1>5, <2>2 DEF MarkPublished, MarkPublishedThrows, MarkFailedOrRetry
<1>6. CASE UNCHANGED vars
  BY <1>6 DEF vars
<1> QED BY <1>1, <1>2, <1>3, <1>4, <1>5, <1>6 DEF Next, Tick

(* PUBLISHED and FAILED are final.                                         *)
THEOREM TerminalStaysFinal == Spec => TerminalIsFinal
<1>1. TypeOK /\ [Next]_vars =>
        [\A e \in Events : status[e] \in Terminal => status'[e] = status[e]]_vars
  BY StepKeepsTerminal
<1> QED BY <1>1, TypeCorrect, PTL DEF Spec, TerminalIsFinal

-----------------------------------------------------------------------------
(* The outbox implements EventDelivery: each step is a step of it or       *)
(* leaves phase, tries and handled as they are.                            *)
Phase == [e \in Events |-> PhaseOf(status[e])]

LEMMA PhaseValues ==
  /\ PhaseOf("none") = "none"
  /\ PhaseOf("PENDING") = "open"
  /\ PhaseOf("PROCESSING") = "open"
  /\ PhaseOf("PUBLISHED") = "published"
  /\ PhaseOf("FAILED") = "failed"
BY DEF PhaseOf

LEMMA InitPromised == Init => Delivery!AInit
BY PhaseValues DEF Init, Delivery!AInit

(* Steps that change no phase, no attempts and no completion are stutters. *)
LEMMA SamePhase ==
  ASSUME \A e \in Events : PhaseOf(status'[e]) = PhaseOf(status[e]),
         UNCHANGED <<attempts, handled>>
  PROVE  UNCHANGED Delivery!avars
BY DEF Delivery!avars

LEMMA MarkPromised ==
  ASSUME TypeOK, NEW e \in Events, NEW s \in {"PENDING", "PUBLISHED", "FAILED"},
         Mark(e, s), UNCHANGED <<attempts, handled>>,
         s = "PUBLISHED" => handled[e] = Handlers,
         s = "FAILED" => attempts[e] >= MaxAttempts
  PROVE  [Delivery!ANext]_Delivery!avars
<1>1. \A x \in Events :
        status'[x] = IF x = e /\ status[e] = "PROCESSING" THEN s ELSE status[x]
  BY MarkEffect
<1>2. CASE status[e] # "PROCESSING" \/ s = "PENDING"
  BY <1>1, <1>2, PhaseValues, SamePhase
<1>3. CASE status[e] = "PROCESSING" /\ s = "PUBLISHED"
  <2>1. Phase' = [Phase EXCEPT ![e] = "published"]
    BY <1>1, <1>3, PhaseValues DEF Phase
  <2>2. Delivery!APublish(e)
    BY <1>3, <2>1, PhaseValues DEF Delivery!APublish, Phase
  <2> QED BY <2>2 DEF Delivery!ANext
<1>4. CASE status[e] = "PROCESSING" /\ s = "FAILED"
  <2>1. Phase' = [Phase EXCEPT ![e] = "failed"]
    BY <1>1, <1>4, PhaseValues DEF Phase
  <2>2. Delivery!AGiveUp(e)
    BY <1>4, <2>1, PhaseValues DEF Delivery!AGiveUp, Phase
  <2> QED BY <2>2 DEF Delivery!ANext
<1> QED BY <1>2, <1>3, <1>4

LEMMA StepPromised ==
  ASSUME IInv, [Next]_vars
  PROVE  [Delivery!ANext]_Delivery!avars
<1> TypeOK /\ ClaimsCounted
  BY DEF IInv
<1>1. ASSUME NEW e \in Events, Append(e) PROVE Delivery!AAppend(e)
  <2>1. Phase' = [Phase EXCEPT ![e] = "open"]
    BY <1>1, PhaseValues DEF Append, Phase, TypeOK
  <2> QED BY <1>1, <2>1, PhaseValues DEF Append, Delivery!AAppend, Phase
<1>2. ASSUME NEW e \in Events,
             BackoffElapses(e) \/ LockExpires(e) \/ HolderOverruns(e)
      PROVE  UNCHANGED Delivery!avars
  BY <1>2 DEF BackoffElapses, LockExpires, HolderOverruns, Ages, Delivery!avars
<1>3. ASSUME NEW c \in Consumers,
             Start(c) \/ ListDispatchable(c) \/ ReadClaimed(c) \/ Crash(c)
      PROVE  UNCHANGED Delivery!avars
  BY <1>3 DEF Start, ListDispatchable, ReadClaimed, Crash, Delivery!avars
<1>4. ASSUME NEW c \in Consumers, RecoverStaleProcessing(c)
      PROVE  UNCHANGED Delivery!avars
  <2>1. \A e \in Events : PhaseOf(status'[e]) = PhaseOf(status[e])
    BY <1>4, PhaseValues DEF RecoverStaleProcessing, StaleRows, TypeOK
  <2> QED BY <1>4, <2>1, SamePhase DEF RecoverStaleProcessing
<1>5. ASSUME NEW c \in Consumers, Claim(c)
      PROVE  [Delivery!ANext]_Delivery!avars
  <2>1. PICK e \in batch[c] : Claim(c)!2!(e)
    BY <1>5 DEF Claim
  <2>2. e \in Events
    BY DEF TypeOK
  <2>3. CASE Claimable(e) /\ Claim(c)!2!(e)!3!1
    <3>1. UNCHANGED Phase
      BY <2>2, <2>3, PhaseValues DEF Claimable, Dispatchable, Phase, TypeOK
    <3>2. Phase[e] = "open"
      BY <2>2, <2>3, PhaseValues DEF Claimable, Dispatchable, Phase
    <3>3. Delivery!AAttempt(e)
      BY <1>5, <2>3, <3>1, <3>2 DEF Claim, CountClaim, Delivery!AAttempt, Phase
    <3> QED BY <2>2, <3>3 DEF Delivery!ANext
  <2>4. CASE Claim(c)!2!(e)!3!2
    BY <1>5, <2>4 DEF Claim, Delivery!avars
  <2> QED BY <2>1, <2>3, <2>4
<1>6. ASSUME NEW c \in Consumers, NEW h \in Handlers, HandlerResolves(c, h)
      PROVE  Delivery!ANext
  <2>1. claimed[c] \in Events /\ attempts[claimed[c]] > 0
    BY <1>6 DEF HandlerResolves, TypeOK, ClaimsCounted
  <2>2. Delivery!AHandle(claimed[c], h)
    BY <1>6, <2>1 DEF HandlerResolves, Delivery!AHandle
  <2> QED BY <2>1, <2>2 DEF Delivery!ANext
<1>7. ASSUME NEW c \in Consumers, NEW h \in Handlers, HandlerRejects(c, h)
      PROVE  UNCHANGED Delivery!avars
  BY <1>7 DEF HandlerRejects, Delivery!avars
<1>8. ASSUME NEW c \in Consumers, NEW s \in stray[c], StraySettles(c, s)
      PROVE  [Delivery!ANext]_Delivery!avars
  <2>1. s[1] \in Events /\ s[2] \in Handlers /\ attempts[s[1]] > 0
    BY DEF TypeOK, ClaimsCounted
  <2>2. CASE UNCHANGED handled
    BY <1>8, <2>2 DEF StraySettles, Delivery!avars
  <2>3. CASE handled' = [handled EXCEPT ![s[1]] = @ \union {s[2]}]
    <3>1. Delivery!AHandle(s[1], s[2])
      BY <1>8, <2>1, <2>3 DEF StraySettles, Delivery!AHandle
    <3> QED BY <2>1, <3>1 DEF Delivery!ANext
  <2> QED BY <1>8, <2>2, <2>3 DEF StraySettles
<1>9. ASSUME NEW c \in Consumers, MarkPublished(c)
      PROVE  [Delivery!ANext]_Delivery!avars
  <2>1. claimed[c] \in Events /\ handled[claimed[c]] = Handlers
    BY <1>9 DEF MarkPublished, TypeOK, IInv, HandledSoFar
  <2> QED BY <1>9, <2>1, MarkPromised DEF MarkPublished
<1>10. ASSUME NEW c \in Consumers, MarkPublishedThrows(c)
       PROVE  [Delivery!ANext]_Delivery!avars
  <2>1. claimed[c] \in Events /\ handled[claimed[c]] = Handlers
    BY <1>10 DEF MarkPublishedThrows, TypeOK, IInv, HandledSoFar
  <2>2. CASE Mark(claimed[c], "PUBLISHED")
    BY <1>10, <2>1, <2>2, MarkPromised DEF MarkPublishedThrows
  <2>3. CASE UNCHANGED <<status, lockedBy, stale>>
    BY <1>10, <2>3 DEF MarkPublishedThrows, Delivery!avars
  <2> QED BY <1>10, <2>2, <2>3 DEF MarkPublishedThrows
<1>11. ASSUME NEW c \in Consumers, MarkFailedOrRetry(c)
       PROVE  [Delivery!ANext]_Delivery!avars
  <2>1. claimed[c] \in Events /\ seen[c] <= attempts[claimed[c]]
    BY <1>11 DEF MarkFailedOrRetry, TypeOK, IInv, SeenWithinAttempts
  <2>2. GivesUp(seen[c]) => attempts[claimed[c]] >= MaxAttempts
    BY <2>1, OutboxAssumption DEF GivesUp, TypeOK
  <2> QED BY <1>11, <2>1, <2>2, MarkPromised DEF MarkFailedOrRetry
<1>12. CASE UNCHANGED vars
  BY <1>12 DEF vars, Delivery!avars
<1> QED
  BY <1>1, <1>2, <1>3, <1>4, <1>5, <1>6, <1>7, <1>8, <1>9, <1>10, <1>11,
     <1>12 DEF Next, Tick, Dispatch, Delivery!ANext

(* Outbox implements EventDelivery under the mapping of PhaseOf.           *)
THEOREM ImplementsEventDelivery == Spec => Promise
<1>1. IInv /\ [Next]_vars => [Delivery!ANext]_Delivery!avars
  BY StepPromised
<1> QED
  BY <1>1, InitPromised, InvariantHolds, PTL DEF Spec, Promise, Delivery!ASpec

-----------------------------------------------------------------------------
(* The work done for an event.  A claim makes an event PROCESSING; to be    *)
(* claimed again the row must come back, by a stale recovery or by a holder *)
(* that read fewer than MaxAttempts.  So claims are paid by recoveries and  *)
(* by the holders that may still retry, of which each claim below the       *)
(* limit made one.  A claim also makes one call of each handler, which      *)
(* takes effect once at most, awaited or left behind.                       *)

\* The holders of e that would put the row back if a handler rejected now.
MayRetry(e) ==
  {c \in Consumers : Holds(c, e) /\ (IF pc[c] = "claimed" THEN attempts[e] < MaxAttempts
                                                          ELSE seen[c] < MaxAttempts)}

\* Claims of e, whether it may be claimed, holders that may retry, recoveries.
Paid(claims, open1, retries, recovered) ==
  claims + (IF open1 THEN 1 ELSE 0) + retries
    <= recovered + 1 + (IF claims < MaxAttempts THEN claims ELSE MaxAttempts - 1)

ClaimsPaid(e) ==
  /\ IsFiniteSet(MayRetry(e))
  /\ Paid(attempts[e], status[e] = "PENDING", Cardinality(MayRetry(e)), recoveries[e])

\* Calls of h for e that are made or to be made, and those left behind.
Awaited(e, h) == {c \in Consumers : Holds(c, e) /\ (pc[c] = "claimed" \/ h \in open[c])}
LeftBehind(e, h) == {x \in Consumers \X Nat : <<e, h, x[2]>> \in stray[x[1]]}

CallsPaid(e, h) ==
  /\ IsFiniteSet(Awaited(e, h)) /\ IsFiniteSet(LeftBehind(e, h))
  /\ effects[e][h] + Cardinality(Awaited(e, h)) + Cardinality(LeftBehind(e, h)) <= attempts[e]

WorkInv == \A e \in Events : ClaimsPaid(e) /\ \A h \in Handlers : CallsPaid(e, h)

\* The sizes of a set grown or shrunk by an element.
LEMMA Sizes ==
  ASSUME NEW S, IsFiniteSet(S), NEW T
  PROVE  /\ Cardinality(S) \in Nat
         /\ T \subseteq S => IsFiniteSet(T) /\ Cardinality(T) \in Nat /\ Cardinality(T) <= Cardinality(S)
         /\ \A x : T \subseteq S \union {x} =>
              IsFiniteSet(T) /\ Cardinality(T) \in Nat /\ Cardinality(T) <= Cardinality(S) + 1
         /\ \A x \in S : T \subseteq S \ {x} =>
              IsFiniteSet(T) /\ Cardinality(T) \in Nat /\ Cardinality(T) <= Cardinality(S) - 1
<1>1. Cardinality(S) \in Nat
  BY FS_CardinalityType
<1>2. ASSUME T \subseteq S
      PROVE  IsFiniteSet(T) /\ Cardinality(T) \in Nat /\ Cardinality(T) <= Cardinality(S)
  BY <1>2, FS_Subset, FS_CardinalityType
<1>3. ASSUME NEW x, T \subseteq S \union {x}
      PROVE  IsFiniteSet(T) /\ Cardinality(T) \in Nat /\ Cardinality(T) <= Cardinality(S) + 1
  <2>1. IsFiniteSet(S \union {x}) /\ Cardinality(S \union {x}) <= Cardinality(S) + 1
    BY <1>1, FS_AddElement
  <2>2. IsFiniteSet(T) /\ Cardinality(T) <= Cardinality(S \union {x})
    BY <1>3, <2>1, FS_Subset
  <2> QED BY <1>1, <2>1, <2>2, FS_CardinalityType
<1>4. ASSUME NEW x \in S, T \subseteq S \ {x}
      PROVE  IsFiniteSet(T) /\ Cardinality(T) \in Nat /\ Cardinality(T) <= Cardinality(S) - 1
  <2>1. IsFiniteSet(S \ {x}) /\ Cardinality(S \ {x}) = Cardinality(S) - 1
    BY FS_RemoveElement
  <2>2. IsFiniteSet(T) /\ Cardinality(T) <= Cardinality(S \ {x})
    BY <1>4, <2>1, FS_Subset
  <2> QED BY <2>1, <2>2, FS_CardinalityType
<1> QED BY <1>1, <1>2, <1>3, <1>4

\* What a step leaves of the claims of e: fewer or the same holders may
\* retry, and the row comes back by an append, a recovery or a retry.
KeepsClaims(e) ==
  /\ attempts'[e] = attempts[e] /\ MayRetry(e)' \subseteq MayRetry(e)
  /\ \/ recoveries'[e] = recoveries[e] /\ (status'[e] = "PENDING" => status[e] = "PENDING")
     \/ recoveries'[e] = recoveries[e] + 1
     \/ recoveries'[e] = recoveries[e] /\ \E c \in MayRetry(e) : c \notin MayRetry(e)'
     \/ recoveries'[e] = recoveries[e] /\ attempts[e] = 0 /\ MayRetry(e) = {}

LEMMA ClaimsKept ==
  ASSUME TypeOK, NEW e \in Events, ClaimsPaid(e), KeepsClaims(e)
  PROVE  ClaimsPaid(e)'
<1> USE OutboxAssumption
<1>1. /\ attempts[e] \in Nat /\ recoveries[e] \in Nat /\ attempts'[e] = attempts[e]
      /\ status[e] \in Statuses
  BY DEF TypeOK, KeepsClaims
<1>2. PICK S : S = MayRetry(e)
  OBVIOUS
<1>3. PICK T : T = MayRetry(e)'
  OBVIOUS
<1>4. IsFiniteSet(S) /\ Paid(attempts[e], status[e] = "PENDING", Cardinality(S), recoveries[e])
  BY <1>2 DEF ClaimsPaid
<1>5. T \subseteq S
  BY <1>2, <1>3 DEF KeepsClaims
<1>6. IsFiniteSet(T) /\ Cardinality(T) <= Cardinality(S) /\ Cardinality(T) \in Nat /\ Cardinality(S) \in Nat
  BY <1>4, <1>5, FS_Subset, FS_CardinalityType
<1>7. Paid(attempts[e], status'[e] = "PENDING", Cardinality(T), recoveries'[e])
  <2>1. CASE recoveries'[e] = recoveries[e] /\ (status'[e] = "PENDING" => status[e] = "PENDING")
    BY <1>1, <1>4, <1>6, <2>1 DEF Paid
  <2>2. CASE recoveries'[e] = recoveries[e] + 1
    BY <1>1, <1>4, <1>6, <2>2 DEF Paid
  <2>3. CASE recoveries'[e] = recoveries[e] /\ \E c \in S : c \notin T
    <3>1. PICK c \in S : c \notin T
      BY <2>3
    <3>2. T \subseteq S \ {c} /\ IsFiniteSet(S \ {c}) /\ Cardinality(S \ {c}) = Cardinality(S) - 1
      BY <1>4, <1>5, <3>1, FS_RemoveElement
    <3>3. Cardinality(T) <= Cardinality(S) - 1
      BY <3>2, FS_Subset
    <3> QED BY <1>1, <1>4, <1>6, <2>3, <3>3 DEF Paid
  <2>4. CASE recoveries'[e] = recoveries[e] /\ attempts[e] = 0 /\ S = {}
    <3>1. T = {} /\ Cardinality(T) = 0
      BY <1>5, <2>4, FS_EmptySet
    <3> QED BY <1>1, <2>4, <3>1 DEF Paid
  <2> QED BY <1>2, <1>3, <2>1, <2>2, <2>3, <2>4 DEF KeepsClaims
<1> QED BY <1>1, <1>3, <1>6, <1>7 DEF ClaimsPaid

\* A claim of e by c.
LEMMA ClaimPaid ==
  ASSUME TypeOK, NEW e \in Events, ClaimsPaid(e), NEW c \in Consumers,
         status[e] = "PENDING", status'[e] # "PENDING",
         attempts'[e] = attempts[e] + 1, recoveries'[e] = recoveries[e],
         MayRetry(e)' \subseteq MayRetry(e) \union {c},
         attempts[e] + 1 >= MaxAttempts => MayRetry(e)' \subseteq MayRetry(e)
  PROVE  ClaimsPaid(e)'
<1> USE OutboxAssumption
<1>1. attempts[e] \in Nat /\ recoveries[e] \in Nat
  BY DEF TypeOK
<1>2. PICK S : S = MayRetry(e)
  OBVIOUS
<1>3. PICK T : T = MayRetry(e)'
  OBVIOUS
<1>4. IsFiniteSet(S) /\ Paid(attempts[e], TRUE, Cardinality(S), recoveries[e])
  BY <1>2 DEF ClaimsPaid
<1>5. /\ T \subseteq S \union {c}
      /\ attempts[e] + 1 >= MaxAttempts => T \subseteq S
  BY <1>2, <1>3
<1>6. Cardinality(S) \in Nat
  BY <1>4, FS_CardinalityType
<1>7. IsFiniteSet(T) /\ Cardinality(T) \in Nat /\ Cardinality(T) <= Cardinality(S) + 1
  BY <1>4, <1>5, Sizes, Zenon
<1>8. attempts[e] + 1 >= MaxAttempts => Cardinality(T) <= Cardinality(S)
  BY <1>4, <1>5, FS_Subset
<1>9. Paid(attempts[e] + 1, FALSE, Cardinality(T), recoveries[e])
  BY <1>1, <1>4, <1>6, <1>7, <1>8 DEF Paid
<1>10. Paid(attempts'[e], status'[e] = "PENDING", Cardinality(T), recoveries'[e])
  BY <1>9 DEF Paid
<1> QED BY <1>3, <1>7, <1>10 DEF ClaimsPaid

\* A call of h for e is made at a claim; a call that settles, or is left
\* behind, is no longer what it was.
KeepsCalls(e, h) ==
  \/ /\ effects'[e][h] = effects[e][h] /\ attempts'[e] = attempts[e]
     /\ Awaited(e, h)' \subseteq Awaited(e, h) /\ LeftBehind(e, h)' \subseteq LeftBehind(e, h)
  \/ /\ effects'[e][h] = effects[e][h] /\ attempts'[e] = attempts[e] + 1
     /\ \E c \in Consumers : Awaited(e, h)' \subseteq Awaited(e, h) \union {c}
     /\ LeftBehind(e, h)' \subseteq LeftBehind(e, h)
  \/ /\ effects'[e][h] \in {effects[e][h], effects[e][h] + 1} /\ attempts'[e] = attempts[e]
     /\ \E c \in Awaited(e, h) : Awaited(e, h)' \subseteq Awaited(e, h) \ {c}
     /\ LeftBehind(e, h)' \subseteq LeftBehind(e, h)
  \/ /\ effects'[e][h] = effects[e][h] /\ attempts'[e] = attempts[e]
     /\ \E c \in Awaited(e, h) : Awaited(e, h)' \subseteq Awaited(e, h) \ {c}
     /\ \E x : LeftBehind(e, h)' \subseteq LeftBehind(e, h) \union {x}
  \/ /\ effects'[e][h] \in {effects[e][h], effects[e][h] + 1} /\ attempts'[e] = attempts[e]
     /\ Awaited(e, h)' \subseteq Awaited(e, h)
     /\ \E x \in LeftBehind(e, h) : LeftBehind(e, h)' \subseteq LeftBehind(e, h) \ {x}

LEMMA CallsKept ==
  ASSUME TypeOK, NEW e \in Events, NEW h \in Handlers, CallsPaid(e, h), KeepsCalls(e, h)
  PROVE  CallsPaid(e, h)'
<1>1. PICK A : A = Awaited(e, h)
  OBVIOUS
<1>2. PICK B : B = Awaited(e, h)'
  OBVIOUS
<1>3. PICK L : L = LeftBehind(e, h)
  OBVIOUS
<1>4. PICK M : M = LeftBehind(e, h)'
  OBVIOUS
<1>5. /\ IsFiniteSet(A) /\ IsFiniteSet(L) /\ effects[e][h] \in Nat /\ attempts[e] \in Nat
      /\ effects[e][h] + Cardinality(A) + Cardinality(L) <= attempts[e]
  BY <1>1, <1>3 DEF CallsPaid, TypeOK
<1>6. /\ Cardinality(A) \in Nat
      /\ B \subseteq A => IsFiniteSet(B) /\ Cardinality(B) \in Nat /\ Cardinality(B) <= Cardinality(A)
      /\ \A x : B \subseteq A \union {x} =>
              IsFiniteSet(B) /\ Cardinality(B) \in Nat /\ Cardinality(B) <= Cardinality(A) + 1
      /\ \A x \in A : B \subseteq A \ {x} =>
              IsFiniteSet(B) /\ Cardinality(B) \in Nat /\ Cardinality(B) <= Cardinality(A) - 1
  BY <1>5, Sizes, Zenon
<1>7. /\ Cardinality(L) \in Nat
      /\ M \subseteq L => IsFiniteSet(M) /\ Cardinality(M) \in Nat /\ Cardinality(M) <= Cardinality(L)
      /\ \A x : M \subseteq L \union {x} =>
              IsFiniteSet(M) /\ Cardinality(M) \in Nat /\ Cardinality(M) <= Cardinality(L) + 1
      /\ \A x \in L : M \subseteq L \ {x} =>
              IsFiniteSet(M) /\ Cardinality(M) \in Nat /\ Cardinality(M) <= Cardinality(L) - 1
  BY <1>5, Sizes, Zenon
<1>8. /\ IsFiniteSet(B) /\ IsFiniteSet(M)
      /\ effects'[e][h] + Cardinality(B) + Cardinality(M) <= attempts'[e]
  <2>1. CASE /\ effects'[e][h] = effects[e][h] /\ attempts'[e] = attempts[e]
             /\ B \subseteq A /\ M \subseteq L
    BY <1>5, <1>6, <1>7, <2>1
  <2>2. CASE /\ effects'[e][h] = effects[e][h] /\ attempts'[e] = attempts[e] + 1
             /\ \E c \in Consumers : B \subseteq A \union {c}
             /\ M \subseteq L
    <3>1. /\ IsFiniteSet(B) /\ Cardinality(B) \in Nat /\ Cardinality(B) <= Cardinality(A) + 1
          /\ IsFiniteSet(M) /\ Cardinality(M) \in Nat /\ Cardinality(M) <= Cardinality(L)
      BY <1>6, <1>7, <2>2, Zenon
    <3> QED BY <1>5, <1>6, <1>7, <2>2, <3>1
  <2>3. CASE /\ effects'[e][h] \in {effects[e][h], effects[e][h] + 1} /\ attempts'[e] = attempts[e]
             /\ \E c \in A : B \subseteq A \ {c}
             /\ M \subseteq L
    BY <1>5, <1>6, <1>7, <2>3
  <2>4. CASE /\ effects'[e][h] = effects[e][h] /\ attempts'[e] = attempts[e]
             /\ \E c \in A : B \subseteq A \ {c}
             /\ \E x : M \subseteq L \union {x}
    BY <1>5, <1>6, <1>7, <2>4
  <2>5. CASE /\ effects'[e][h] \in {effects[e][h], effects[e][h] + 1} /\ attempts'[e] = attempts[e]
             /\ B \subseteq A
             /\ \E x \in L : M \subseteq L \ {x}
    BY <1>5, <1>6, <1>7, <2>5
  <2> QED BY <1>1, <1>2, <1>3, <1>4, <2>1, <2>2, <2>3, <2>4, <2>5 DEF KeepsCalls
<1> QED BY <1>2, <1>4, <1>8 DEF CallsPaid

\* Nobody holds e who did not, or has read another number since.
HeldAsBefore(e) ==
  \A d \in Consumers : Holds(d, e)' =>
     /\ Holds(d, e) /\ seen'[d] = seen[d]
     /\ (pc'[d] = "claimed") <=> (pc[d] = "claimed")

LEMMA ClaimsStill ==
  ASSUME NEW e \in Events, HeldAsBefore(e), attempts'[e] = attempts[e],
         recoveries'[e] = recoveries[e], status'[e] = "PENDING" => status[e] = "PENDING"
  PROVE  KeepsClaims(e)
<1>1. MayRetry(e)' \subseteq MayRetry(e)
  BY DEF MayRetry, HeldAsBefore
<1> QED BY <1>1 DEF KeepsClaims

LEMMA StepClaims ==
  ASSUME IInv, [Next]_vars, NEW e \in Events, ClaimsPaid(e)
  PROVE  ClaimsPaid(e)'
<1> USE OutboxAssumption
<1>a. TypeOK /\ ClaimsCounted
  BY DEF IInv
<1> SUFFICES KeepsClaims(e) \/ ClaimsPaid(e)'
  BY <1>a, ClaimsKept
<1>1. ASSUME NEW d \in Events, Append(d) PROVE KeepsClaims(e)
  <2>1. HeldAsBefore(e) /\ attempts'[e] = attempts[e] /\ recoveries'[e] = recoveries[e]
    BY <1>1 DEF Append, HeldAsBefore, Holds
  <2>2. CASE d # e
    <3>1. status'[e] = status[e]
      BY <1>a, <1>1, <2>2 DEF Append, TypeOK
    <3> QED BY <2>1, <3>1, ClaimsStill
  <2>3. CASE d = e
    <3>1. attempts[e] = 0
      BY <1>a, <1>1, <2>3 DEF Append, ClaimsCounted
    <3>2. MayRetry(e) = {}
      BY <1>a, <3>1 DEF MayRetry, Holds, ClaimsCounted
    <3>3. MayRetry(e)' \subseteq MayRetry(e)
      BY <2>1 DEF MayRetry, HeldAsBefore
    <3> QED BY <2>1, <3>1, <3>2, <3>3 DEF KeepsClaims
  <2> QED BY <2>2, <2>3
<1>2. ASSUME NEW d \in Events, BackoffElapses(d) \/ LockExpires(d) \/ HolderOverruns(d)
      PROVE  KeepsClaims(e)
  <2>1. /\ HeldAsBefore(e) /\ attempts'[e] = attempts[e] /\ recoveries'[e] = recoveries[e]
        /\ status'[e] = status[e]
    BY <1>2 DEF BackoffElapses, LockExpires, HolderOverruns, Ages, HeldAsBefore, Holds
  <2> QED BY <2>1, ClaimsStill
<1>3. ASSUME NEW c \in Consumers,
             \/ Start(c) \/ ListDispatchable(c) \/ Crash(c) \/ Dispatch(c)
             \/ \E s \in stray[c] : StraySettles(c, s)
      PROVE  KeepsClaims(e)
  <2>1. attempts'[e] = attempts[e] /\ recoveries'[e] = recoveries[e] /\ status'[e] = status[e]
    BY <1>3 DEF Start, ListDispatchable, Crash, Dispatch, HandlerResolves, HandlerRejects, StraySettles
  <2>2. HeldAsBefore(e)
    <3>1. CASE Start(c)
      BY <1>a, <3>1 DEF Start, HeldAsBefore, Holds, TypeOK
    <3>2. CASE ListDispatchable(c)
      BY <1>a, <3>2 DEF ListDispatchable, Resume, HeldAsBefore, Holds, TypeOK
    <3>3. CASE Crash(c)
      BY <1>a, <3>3 DEF Crash, HeldAsBefore, Holds, TypeOK
    <3>4. ASSUME NEW h \in Handlers, HandlerResolves(c, h) PROVE HeldAsBefore(e)
      BY <1>a, <3>4 DEF HandlerResolves, HeldAsBefore, Holds, TypeOK
    <3>5. ASSUME NEW h \in Handlers, HandlerRejects(c, h) PROVE HeldAsBefore(e)
      BY <1>a, <3>5 DEF HandlerRejects, HeldAsBefore, Holds, TypeOK
    <3>6. CASE \E s \in stray[c] : StraySettles(c, s)
      BY <3>6 DEF StraySettles, HeldAsBefore, Holds
    <3> QED BY <1>3, <3>1, <3>2, <3>3, <3>4, <3>5, <3>6 DEF Dispatch
  <2> QED BY <2>1, <2>2, ClaimsStill
<1>4. ASSUME NEW c \in Consumers, RecoverStaleProcessing(c) PROVE KeepsClaims(e)
  <2>1. attempts'[e] = attempts[e] /\ HeldAsBefore(e)
    BY <1>a, <1>4 DEF RecoverStaleProcessing, HeldAsBefore, Holds, TypeOK
  <2>2. MayRetry(e)' \subseteq MayRetry(e)
    BY <2>1 DEF MayRetry, HeldAsBefore
  <2>3. \/ recoveries'[e] = recoveries[e] + 1
        \/ recoveries'[e] = recoveries[e] /\ status'[e] = status[e]
    BY <1>4 DEF RecoverStaleProcessing
  <2> QED BY <2>1, <2>2, <2>3 DEF KeepsClaims
<1>5. ASSUME NEW c \in Consumers, ReadClaimed(c) PROVE KeepsClaims(e)
  <2>1. attempts'[e] = attempts[e] /\ recoveries'[e] = recoveries[e] /\ status'[e] = status[e]
    BY <1>5 DEF ReadClaimed
  <2>2. MayRetry(e)' \subseteq MayRetry(e)
    <3>1. ASSUME NEW d \in MayRetry(e)' PROVE d \in MayRetry(e)
      <4>1. CASE d # c
        BY <1>a, <1>5, <3>1, <4>1 DEF ReadClaimed, MayRetry, Holds, TypeOK
      <4>2. CASE d = c
        <5>1. /\ d \in Consumers /\ pc[c] = "claimed" /\ pc'[c] = "dispatching" /\ claimed'[c] = claimed[c]
              /\ seen'[c] = attempts[claimed[c]]
          BY <1>a, <1>5, <4>2 DEF ReadClaimed, MayRetry, TypeOK
        <5> QED BY <3>1, <4>2, <5>1 DEF MayRetry, Holds
      <4> QED BY <4>1, <4>2
    <3> QED BY <3>1
  <2> QED BY <2>1, <2>2 DEF KeepsClaims
<1>6. ASSUME NEW c \in Consumers, Claim(c) PROVE KeepsClaims(e) \/ ClaimsPaid(e)'
  <2> USE DEF Claimable, CountClaim, Dispatchable, Resume
  <2>1. PICK d \in batch[c] : Claim(c)!2!(d)
    BY <1>6 DEF Claim
  <2>2. d \in Events /\ pc[c] = "scanning" /\ recoveries' = recoveries /\ seen' = seen
    BY <1>a, <1>6 DEF Claim, TypeOK
  <2>3. CASE Claimable(d) /\ Claim(c)!2!(d)!3!1
    <3>1. /\ status' = [status EXCEPT ![d] = "PROCESSING"]
          /\ attempts' = [attempts EXCEPT ![d] = attempts[d] + 1]
          /\ claimed' = [claimed EXCEPT ![c] = d] /\ pc' = [pc EXCEPT ![c] = "claimed"]
          /\ status[d] = "PENDING"
      BY <2>3
    <3>2. \A b \in Consumers \ {c} : Holds(b, e)' =>
            Holds(b, e) /\ (pc'[b] = "claimed" <=> pc[b] = "claimed") /\ seen'[b] = seen[b]
      BY <1>a, <2>2, <3>1 DEF Holds, TypeOK
    <3>3. CASE d # e
      <4>1. HeldAsBefore(e)
        BY <1>a, <2>2, <3>1, <3>2, <3>3 DEF HeldAsBefore, Holds, TypeOK
      <4>2. attempts'[e] = attempts[e] /\ status'[e] = status[e]
        BY <1>a, <3>1, <3>3 DEF TypeOK
      <4> QED BY <2>2, <4>1, <4>2, ClaimsStill
    <3>4. CASE d = e
      <4>1. /\ attempts'[e] = attempts[e] + 1 /\ status'[e] = "PROCESSING" /\ status[e] = "PENDING"
            /\ attempts[e] \in Nat /\ pc'[c] = "claimed"
        BY <1>a, <2>2, <3>1, <3>4 DEF TypeOK
      <4>2. MayRetry(e)' \subseteq MayRetry(e) \union {c}
        BY <3>2, <4>1 DEF MayRetry
      <4>3. attempts[e] + 1 >= MaxAttempts => c \notin MayRetry(e)'
        BY <4>1 DEF MayRetry
      <4>4. ClaimsPaid(e)'
        BY <1>a, <2>2, <4>1, <4>2, <4>3, ClaimPaid
      <4> QED BY <4>4
    <3> QED BY <3>3, <3>4
  <2>4. CASE Claim(c)!2!(d)!3!2
    <3>1. attempts'[e] = attempts[e] /\ status'[e] = status[e]
      BY <2>4
    <3>2. HeldAsBefore(e)
      BY <1>a, <2>2, <2>4 DEF HeldAsBefore, Holds, TypeOK
    <3> QED BY <2>2, <3>1, <3>2, ClaimsStill
  <2> QED BY <2>1, <2>3, <2>4
<1>7. ASSUME NEW c \in Consumers, MarkPublished(c) \/ MarkPublishedThrows(c) PROVE KeepsClaims(e)
  <2>1. claimed[c] \in Events
    BY <1>a, <1>7 DEF MarkPublished, MarkPublishedThrows, TypeOK
  <2>2. attempts'[e] = attempts[e] /\ recoveries'[e] = recoveries[e]
    BY <1>7 DEF MarkPublished, MarkPublishedThrows
  <2>3. status'[e] = "PENDING" => status[e] = "PENDING"
    BY <1>a, <1>7, <2>1 DEF MarkPublished, MarkPublishedThrows, Mark, TypeOK
  <2>4. HeldAsBefore(e)
    <3>1. CASE MarkPublished(c)
      BY <1>a, <3>1 DEF MarkPublished, Release, Resume, HeldAsBefore, Holds, TypeOK
    <3>2. CASE MarkPublishedThrows(c)
      BY <1>a, <3>2 DEF MarkPublishedThrows, HeldAsBefore, Holds, TypeOK
    <3> QED BY <1>7, <3>1, <3>2
  <2> QED BY <2>2, <2>3, <2>4, ClaimsStill
<1>8. ASSUME NEW c \in Consumers, MarkFailedOrRetry(c) PROVE KeepsClaims(e)
  <2>1. claimed[c] \in Events /\ pc[c] = "failing" /\ seen[c] \in Nat
    BY <1>a, <1>8 DEF MarkFailedOrRetry, TypeOK
  <2>2. attempts'[e] = attempts[e] /\ recoveries'[e] = recoveries[e]
    BY <1>8 DEF MarkFailedOrRetry
  <2>3. HeldAsBefore(e) /\ ~Holds(c, e)'
    BY <1>a, <1>8 DEF MarkFailedOrRetry, Release, Resume, HeldAsBefore, Holds, TypeOK
  <2>4. CASE status'[e] = "PENDING" => status[e] = "PENDING"
    BY <2>2, <2>3, <2>4, ClaimsStill
  <2>5. CASE status'[e] = "PENDING" /\ status[e] # "PENDING"
    <3>1. claimed[c] = e /\ seen[c] < MaxAttempts
      BY <1>a, <1>8, <2>1, <2>5 DEF MarkFailedOrRetry, Mark, GivesUp, TypeOK
    <3>2. c \in MayRetry(e) /\ c \notin MayRetry(e)'
      BY <2>1, <2>3, <3>1 DEF MayRetry, Holds
    <3>3. MayRetry(e)' \subseteq MayRetry(e)
      BY <2>2, <2>3 DEF MayRetry, HeldAsBefore
    <3> QED BY <2>2, <3>2, <3>3 DEF KeepsClaims
  <2> QED BY <2>4, <2>5
<1>9. CASE UNCHANGED vars
  <2>1. HeldAsBefore(e) /\ attempts'[e] = attempts[e] /\ recoveries'[e] = recoveries[e] /\ status'[e] = status[e]
    BY <1>9 DEF vars, HeldAsBefore, Holds
  <2> QED BY <2>1, ClaimsStill
<1> QED
  BY <1>1, <1>2, <1>3, <1>4, <1>5, <1>6, <1>7, <1>8, <1>9 DEF Next, Tick

\* Nobody awaits a handler for e that nobody awaited.
AwaitedAsBefore(e) ==
  \A d \in Consumers : Holds(d, e)' =>
     /\ Holds(d, e) /\ open'[d] \subseteq open[d]
     /\ pc'[d] = "claimed" => pc[d] = "claimed"

LEMMA CallsStill ==
  ASSUME NEW e \in Events, NEW h \in Handlers, AwaitedAsBefore(e),
         attempts'[e] = attempts[e], effects'[e][h] = effects[e][h], stray' = stray
  PROVE  KeepsCalls(e, h)
<1>1. Awaited(e, h)' \subseteq Awaited(e, h)
  BY DEF Awaited, AwaitedAsBefore
<1>2. LeftBehind(e, h)' \subseteq LeftBehind(e, h)
  BY DEF LeftBehind
<1> QED BY <1>1, <1>2 DEF KeepsCalls

LEMMA BumpFacts ==
  ASSUME TypeOK, NEW d \in Events, NEW k \in Handlers, NEW e \in Events, NEW h \in Handlers
  PROVE  Bump(d, k)[e][h] = IF d = e /\ k = h THEN effects[e][h] + 1 ELSE effects[e][h]
BY DEF Bump, TypeOK

LEMMA StepCalls ==
  ASSUME IInv, [Next]_vars, NEW e \in Events, NEW h \in Handlers, CallsPaid(e, h)
  PROVE  CallsPaid(e, h)'
<1>a. TypeOK
  BY DEF IInv
<1> SUFFICES KeepsCalls(e, h)
  BY <1>a, CallsKept
<1>1. ASSUME NEW d \in Events, Append(d) \/ BackoffElapses(d) \/ LockExpires(d) \/ HolderOverruns(d)
      PROVE  KeepsCalls(e, h)
  <2>1. AwaitedAsBefore(e) /\ attempts' = attempts /\ effects' = effects /\ stray' = stray
    BY <1>1 DEF Append, BackoffElapses, LockExpires, HolderOverruns, Ages, AwaitedAsBefore, Holds
  <2> QED BY <2>1, CallsStill
<1>2. ASSUME NEW c \in Consumers,
             \/ Start(c) \/ ListDispatchable(c) \/ RecoverStaleProcessing(c)
             \/ MarkPublished(c) \/ MarkPublishedThrows(c) \/ MarkFailedOrRetry(c)
      PROVE  KeepsCalls(e, h)
  <2>1. attempts' = attempts /\ effects' = effects /\ stray' = stray /\ open' = open
    BY <1>2 DEF Start, ListDispatchable, RecoverStaleProcessing, MarkPublished, MarkPublishedThrows, MarkFailedOrRetry
  <2>2. AwaitedAsBefore(e)
    <3>1. CASE Start(c) \/ ListDispatchable(c) \/ RecoverStaleProcessing(c)
      BY <1>a, <3>1 DEF Start, ListDispatchable, RecoverStaleProcessing, Resume, AwaitedAsBefore, Holds, TypeOK
    <3>2. CASE MarkPublished(c) \/ MarkFailedOrRetry(c)
      BY <1>a, <3>2 DEF MarkPublished, MarkFailedOrRetry, Release, Resume, AwaitedAsBefore, Holds, TypeOK
    <3>3. CASE MarkPublishedThrows(c)
      BY <1>a, <3>3 DEF MarkPublishedThrows, AwaitedAsBefore, Holds, TypeOK
    <3> QED BY <1>2, <3>1, <3>2, <3>3
  <2> QED BY <2>1, <2>2, CallsStill
<1>3. ASSUME NEW c \in Consumers, Claim(c) PROVE KeepsCalls(e, h)
  <2> USE DEF Claimable, CountClaim, Dispatchable, Resume
  <2>1. PICK d \in batch[c] : Claim(c)!2!(d)
    BY <1>3 DEF Claim
  <2>2. d \in Events /\ pc[c] = "scanning" /\ effects' = effects /\ open' = open /\ stray' = stray
    BY <1>a, <1>3 DEF Claim, TypeOK
  <2>3. CASE Claimable(d) /\ Claim(c)!2!(d)!3!1
    <3>1. /\ attempts' = [attempts EXCEPT ![d] = attempts[d] + 1]
          /\ claimed' = [claimed EXCEPT ![c] = d] /\ pc' = [pc EXCEPT ![c] = "claimed"]
      BY <2>3
    <3>2. CASE d # e
      <4>1. AwaitedAsBefore(e) /\ attempts'[e] = attempts[e]
        BY <1>a, <2>2, <3>1, <3>2 DEF AwaitedAsBefore, Holds, TypeOK
      <4> QED BY <2>2, <4>1, CallsStill
    <3>3. CASE d = e
      <4>1. attempts'[e] = attempts[e] + 1
        BY <1>a, <2>2, <3>1, <3>3 DEF TypeOK
      <4>2. Awaited(e, h)' \subseteq Awaited(e, h) \union {c}
        <5>1. ASSUME NEW b \in Consumers, b # c, b \in Awaited(e, h)'
              PROVE  b \in Awaited(e, h)
          BY <1>a, <2>2, <3>1, <5>1 DEF Awaited, Holds, TypeOK
        <5> QED BY <5>1 DEF Awaited
      <4>3. LeftBehind(e, h)' = LeftBehind(e, h)
        BY <2>2 DEF LeftBehind
      <4> QED BY <2>2, <4>1, <4>2, <4>3 DEF KeepsCalls
    <3> QED BY <3>2, <3>3
  <2>4. CASE Claim(c)!2!(d)!3!2
    <3>1. AwaitedAsBefore(e) /\ attempts' = attempts
      BY <1>a, <2>2, <2>4 DEF AwaitedAsBefore, Holds, TypeOK
    <3> QED BY <2>2, <3>1, CallsStill
  <2> QED BY <2>1, <2>3, <2>4
<1>4. ASSUME NEW c \in Consumers, ReadClaimed(c) PROVE KeepsCalls(e, h)
  <2>1. attempts' = attempts /\ effects' = effects /\ stray' = stray
    BY <1>4 DEF ReadClaimed
  <2>2. Awaited(e, h)' \subseteq Awaited(e, h)
    <3>1. ASSUME NEW b \in Consumers, b \in Awaited(e, h)'
          PROVE  b \in Awaited(e, h)
      <4>1. CASE b = c
        <5>1. pc[c] = "claimed" /\ claimed' = claimed
          BY <1>4 DEF ReadClaimed
        <5> QED BY <3>1, <4>1, <5>1 DEF Awaited, Holds
      <4>2. CASE b # c
        BY <1>a, <1>4, <3>1, <4>2 DEF ReadClaimed, Awaited, Holds, TypeOK
      <4> QED BY <4>1, <4>2
    <3> QED BY <3>1 DEF Awaited
  <2>3. LeftBehind(e, h)' = LeftBehind(e, h)
    BY <2>1 DEF LeftBehind
  <2> QED BY <2>1, <2>2, <2>3 DEF KeepsCalls
<1>5. ASSUME NEW c \in Consumers, NEW k \in Handlers, HandlerResolves(c, k) PROVE KeepsCalls(e, h)
  <2>1. /\ claimed[c] \in Events /\ pc[c] = "dispatching" /\ k \in open[c]
        /\ open' = [open EXCEPT ![c] = open[c] \ {k}] /\ effects' = Bump(claimed[c], k)
        /\ attempts' = attempts /\ stray' = stray /\ claimed' = claimed
    BY <1>a, <1>5 DEF HandlerResolves, TypeOK
  <2>2. AwaitedAsBefore(e)
    BY <1>a, <1>5 DEF HandlerResolves, AwaitedAsBefore, Holds, TypeOK
  <2>3. effects'[e][h] = IF claimed[c] = e /\ k = h THEN effects[e][h] + 1 ELSE effects[e][h]
    BY <1>a, <2>1, BumpFacts
  <2>4. CASE claimed[c] = e /\ k = h
    <3>1. c \in Awaited(e, h)
      BY <2>1, <2>4 DEF Awaited, Holds
    <3>2. c \notin Awaited(e, h)'
      BY <1>a, <1>5, <2>1, <2>4 DEF HandlerResolves, Awaited, TypeOK
    <3>3. Awaited(e, h)' \subseteq Awaited(e, h) \ {c}
      BY <2>2, <3>2 DEF Awaited, AwaitedAsBefore
    <3>4. LeftBehind(e, h)' = LeftBehind(e, h)
      BY <2>1 DEF LeftBehind
    <3> QED BY <2>1, <2>3, <2>4, <3>1, <3>3, <3>4 DEF KeepsCalls
  <2>5. CASE ~(claimed[c] = e /\ k = h)
    BY <2>1, <2>2, <2>3, <2>5, CallsStill
  <2> QED BY <2>4, <2>5
\* The handlers still open are left behind when one rejects or the process dies.
<1>6. ASSUME NEW c \in Consumers, NEW K, K \subseteq open[c], attempts' = attempts,
             open' = [open EXCEPT ![c] = {}],
             stray' = [stray EXCEPT ![c] = stray[c] \union {<<claimed[c], k, seen[c]>> : k \in K}],
             AwaitedAsBefore(e), pc'[c] # "claimed",
             \/ effects'[e][h] = effects[e][h]
             \/ effects'[e][h] = effects[e][h] + 1 /\ claimed[c] = e /\ h \in open[c] \ K
      PROVE  KeepsCalls(e, h)
  <2>1. Awaited(e, h)' \subseteq Awaited(e, h) /\ c \notin Awaited(e, h)'
    <3>1. c \notin Awaited(e, h)'
      BY <1>a, <1>6 DEF Awaited, TypeOK
    <3> QED BY <1>6, <3>1 DEF Awaited, AwaitedAsBefore
  <2>2. /\ \A d \in Consumers \ {c} : stray'[d] = stray[d]
        /\ stray'[c] = stray[c] \union {<<claimed[c], k, seen[c]>> : k \in K}
    BY <1>a, <1>6 DEF TypeOK
  <2>3. h \in open[c] /\ claimed[c] = e => c \in Awaited(e, h)
    BY <1>a DEF Awaited, Holds, TypeOK
  <2>4. CASE h \in K /\ claimed[c] = e
    <3>1. LeftBehind(e, h)' \subseteq LeftBehind(e, h) \union {<<c, seen[c]>>}
      <4>1. ASSUME NEW x \in Consumers \X Nat, <<e, h, x[2]>> \in stray'[x[1]]
            PROVE  <<e, h, x[2]>> \in stray[x[1]] \/ x = <<c, seen[c]>>
        <5>1. x = <<x[1], x[2]>> /\ x[1] \in Consumers
          OBVIOUS
        <5>2. CASE x[1] # c
          BY <2>2, <4>1, <5>1, <5>2
        <5>3. CASE x[1] = c
          BY <2>2, <4>1, <5>1, <5>3
        <5> QED BY <5>2, <5>3
      <4> QED BY <4>1 DEF LeftBehind
    <3> QED BY <1>6, <2>1, <2>3, <2>4, <3>1 DEF KeepsCalls
  <2>5. CASE ~(h \in K /\ claimed[c] = e)
    <3>1. LeftBehind(e, h)' \subseteq LeftBehind(e, h)
      <4>1. ASSUME NEW x \in Consumers \X Nat, <<e, h, x[2]>> \in stray'[x[1]]
            PROVE  <<e, h, x[2]>> \in stray[x[1]]
        <5>1. x = <<x[1], x[2]>> /\ x[1] \in Consumers
          OBVIOUS
        <5>2. CASE x[1] # c
          BY <2>2, <4>1, <5>1, <5>2
        <5>3. CASE x[1] = c
          BY <2>2, <2>5, <4>1, <5>1, <5>3
        <5> QED BY <5>2, <5>3
      <4> QED BY <4>1 DEF LeftBehind
    <3>2. CASE effects'[e][h] = effects[e][h]
      BY <1>6, <2>1, <3>1, <3>2 DEF KeepsCalls
    <3>3. CASE effects'[e][h] = effects[e][h] + 1 /\ claimed[c] = e /\ h \in open[c] \ K
      BY <1>6, <2>1, <2>3, <3>1, <3>3 DEF KeepsCalls
    <3> QED BY <1>6, <3>2, <3>3
  <2> QED BY <2>4, <2>5
<1>7. ASSUME NEW c \in Consumers, NEW k \in Handlers, HandlerRejects(c, k) PROVE KeepsCalls(e, h)
  <2>1. /\ claimed[c] \in Events /\ pc[c] = "dispatching" /\ k \in open[c]
        /\ open' = [open EXCEPT ![c] = {}] /\ effects' \in {effects, Bump(claimed[c], k)}
        /\ attempts' = attempts /\ pc'[c] = "failing"
        /\ stray' = [stray EXCEPT ![c] = stray[c] \union {<<claimed[c], j, seen[c]>> : j \in open[c] \ {k}}]
    BY <1>a, <1>7 DEF HandlerRejects, TypeOK
  <2>2. AwaitedAsBefore(e)
    BY <1>a, <1>7 DEF HandlerRejects, AwaitedAsBefore, Holds, TypeOK
  <2>3. \/ effects'[e][h] = effects[e][h]
        \/ effects'[e][h] = effects[e][h] + 1 /\ claimed[c] = e /\ h \in open[c] \ (open[c] \ {k})
    <3>1. Bump(claimed[c], k)[e][h] = IF claimed[c] = e /\ k = h THEN effects[e][h] + 1 ELSE effects[e][h]
      BY <1>a, <2>1, BumpFacts
    <3> QED BY <2>1, <3>1
  <2>4. open[c] \ {k} \subseteq open[c] /\ pc'[c] # "claimed"
    BY <2>1
  <2> HIDE <1>7
  <2> QED BY <1>6, <2>1, <2>2, <2>3, <2>4
<1>8. ASSUME NEW c \in Consumers, Crash(c) PROVE KeepsCalls(e, h)
  <2>1. /\ open' = [open EXCEPT ![c] = {}] /\ effects' = effects
        /\ attempts' = attempts /\ pc'[c] # "claimed"
        /\ stray' = [stray EXCEPT ![c] = stray[c] \union {<<claimed[c], j, seen[c]>> : j \in open[c]}]
    BY <1>a, <1>8 DEF Crash, TypeOK
  <2>2. AwaitedAsBefore(e)
    BY <1>a, <1>8 DEF Crash, AwaitedAsBefore, Holds, TypeOK
  <2>3. open[c] \subseteq open[c] /\ effects'[e][h] = effects[e][h]
    BY <2>1
  <2> QED BY <1>6, <2>1, <2>2, <2>3
<1>9. ASSUME NEW c \in Consumers, NEW s \in stray[c], StraySettles(c, s) PROVE KeepsCalls(e, h)
  <2>1. s \in Events \X Handlers \X Nat
    BY <1>a DEF TypeOK
  <2>2. s[1] \in Events /\ s[2] \in Handlers /\ s[3] \in Nat /\ s = <<s[1], s[2], s[3]>>
    BY <2>1
  <2>3. /\ stray' = [stray EXCEPT ![c] = stray[c] \ {s}] /\ attempts' = attempts
        /\ pc' = pc /\ claimed' = claimed /\ open' = open
        /\ effects' = effects \/ effects' = Bump(s[1], s[2])
    BY <1>9 DEF StraySettles
  <2>4. effects'[e][h] = effects[e][h]
        \/ (effects'[e][h] = effects[e][h] + 1 /\ s[1] = e /\ s[2] = h)
    <3>1. Bump(s[1], s[2])[e][h] = IF s[1] = e /\ s[2] = h THEN effects[e][h] + 1 ELSE effects[e][h]
      BY <1>a, <2>2, BumpFacts
    <3> QED BY <2>3, <3>1
  <2>5. \A d \in Consumers : stray'[d] = IF d = c THEN stray[c] \ {s} ELSE stray[d]
    BY <1>a, <2>3 DEF TypeOK
  <2>6. LeftBehind(e, h)' \subseteq LeftBehind(e, h)
    <3>1. \A x \in Consumers \X Nat : x[1] \in Consumers
      OBVIOUS
    <3> QED BY <2>5, <3>1 DEF LeftBehind
  <2>7. Awaited(e, h)' = Awaited(e, h)
    BY <2>3 DEF Awaited, Holds
  <2>8. CASE effects'[e][h] = effects[e][h]
    BY <2>3, <2>6, <2>7, <2>8 DEF KeepsCalls
  <2>9. CASE effects'[e][h] = effects[e][h] + 1 /\ s[1] = e /\ s[2] = h
    <3> DEFINE x == <<c, s[3]>>
    <3>1. x \in Consumers \X Nat /\ x[1] = c /\ x[2] = s[3]
      BY <2>2
    <3>2. <<e, h, x[2]>> = s
      BY <2>2, <2>9, <3>1
    <3>3. x \in LeftBehind(e, h) /\ x \notin LeftBehind(e, h)'
      BY <2>5, <3>1, <3>2 DEF LeftBehind
    <3> QED BY <2>3, <2>6, <2>7, <2>9, <3>3 DEF KeepsCalls
  <2> QED BY <2>4, <2>8, <2>9
<1>10. CASE UNCHANGED vars
  <2>1. AwaitedAsBefore(e) /\ attempts' = attempts /\ effects' = effects /\ stray' = stray
    BY <1>10 DEF vars, AwaitedAsBefore, Holds
  <2> QED BY <2>1, CallsStill
<1> QED
  BY <1>1, <1>2, <1>3, <1>4, <1>5, <1>7, <1>8, <1>9, <1>10 DEF Next, Tick, Dispatch

LEMMA InitWork == Init => WorkInv
<1> SUFFICES ASSUME Init PROVE WorkInv
  OBVIOUS
<1>1. ASSUME NEW e \in Events PROVE ClaimsPaid(e)
  <2>1. MayRetry(e) = {}
    BY <1>1 DEF Init, MayRetry, Holds
  <2>2. Cardinality(MayRetry(e)) = 0 /\ IsFiniteSet(MayRetry(e))
    BY <2>1, FS_EmptySet
  <2> QED BY <2>2, OutboxAssumption DEF Init, ClaimsPaid, Paid
<1>2. ASSUME NEW e \in Events, NEW h \in Handlers PROVE CallsPaid(e, h)
  <2>1. Awaited(e, h) = {} /\ LeftBehind(e, h) = {}
    BY DEF Init, Awaited, Holds, LeftBehind
  <2>2. /\ Cardinality(Awaited(e, h)) = 0 /\ Cardinality(LeftBehind(e, h)) = 0
        /\ IsFiniteSet(Awaited(e, h)) /\ IsFiniteSet(LeftBehind(e, h))
    BY <2>1, FS_EmptySet
  <2> QED BY <2>2 DEF Init, CallsPaid
<1> QED BY <1>1, <1>2 DEF WorkInv

LEMMA WorkInvHolds == Spec => []WorkInv
<1>1. IInv /\ WorkInv /\ [Next]_vars => WorkInv'
  BY StepClaims, StepCalls DEF WorkInv
<1> QED BY <1>1, InitWork, InvariantHolds, PTL DEF Spec

(* Whatever crashes, overrun locks, late marks and calls left behind there *)
(* are, an event is claimed at most MaxAttempts times and once more per    *)
(* stale recovery, and a handler takes effect at most once per claim.      *)
THEOREM WorkIsBounded == Spec => []WorkBounded
<1>1. TypeOK /\ WorkInv => WorkBounded
  <2> SUFFICES ASSUME TypeOK, WorkInv, NEW e \in Events
               PROVE  /\ attempts[e] <= MaxAttempts + recoveries[e]
                      /\ \A h \in Handlers : effects[e][h] <= attempts[e]
    BY DEF WorkBounded, AttemptBudget, EffectsWithinAttempts
  <2>1. attempts[e] <= MaxAttempts + recoveries[e]
    <3>1. Cardinality(MayRetry(e)) \in Nat
      BY FS_CardinalityType DEF WorkInv, ClaimsPaid
    <3>2. attempts[e] \in Nat /\ recoveries[e] \in Nat
      BY DEF TypeOK
    <3>3. Paid(attempts[e], status[e] = "PENDING", Cardinality(MayRetry(e)), recoveries[e])
      BY DEF WorkInv, ClaimsPaid
    <3> QED BY <3>1, <3>2, <3>3, OutboxAssumption DEF Paid
  <2>2. ASSUME NEW h \in Handlers PROVE effects[e][h] <= attempts[e]
    <3>1. Cardinality(Awaited(e, h)) \in Nat /\ Cardinality(LeftBehind(e, h)) \in Nat
      BY FS_CardinalityType DEF WorkInv, CallsPaid
    <3>2. attempts[e] \in Nat /\ effects[e][h] \in Nat
      BY DEF TypeOK
    <3>3. effects[e][h] + Cardinality(Awaited(e, h)) + Cardinality(LeftBehind(e, h)) <= attempts[e]
      BY DEF WorkInv, CallsPaid
    <3> QED BY <3>1, <3>2, <3>3
  <2> QED BY <2>1, <2>2
<1> QED BY <1>1, TypeCorrect, WorkInvHolds, PTL
=============================================================================
