----------------------- MODULE InterviewSessionProofs -----------------------
(***************************************************************************)
(* Theorems about InterviewSession for any sessions, requests, monitors and*)
(* bounds: types, stale writes, reminders, the stage a cancellation takes  *)
(* back, and of operations that do not overlap the life cycle they keep.   *)
(***************************************************************************)
EXTENDS InterviewSession, FiniteSetTheorems, TLAPS

USE DEF rowVars, requestVars, monitorVars, historyVars, countVars, NotRows
USE DEF AllKinds, Statuses, Active, Invitations, Stages, Reminders, Points

(* A request at work has a session, but for a change of the stage.         *)
WellFormed ==
  \A p \in Requests :
    /\ pc[p] # "idle" /\ op[p] # "stageTransition" => sess[p] \in Sessions
    /\ op[p] = "stageTransition" => pc[p] = "moveWrite"
    /\ pc[p] \in {"move", "moveWrite"} => aim[p] \in Stages
    /\ pc[p] = "expire" => sess[p] \in Invites

LEMMA AdmittedPoints ==
  ASSUME NEW k, NEW s
  PROVE  /\ Admitted(k, s) \in {"idle", "timeout", "abandon", "open"}
         /\ Admitted(k, s) = "timeout" => status[s] = "RUNNING"
         /\ Admitted(k, s) = "open" => status[s] \in Active
         /\ Admitted(k, s) = "abandon" =>
              /\ k = "abandon" /\ ~Refused(k, s)
              /\ status[s] \notin {"CANCELLED", "COMPLETED", "FAILED"}
BY DEF Admitted, TimedOut

LEMMA TaskTypes ==
  ASSUME NEW s PROVE Task(s) \in {"none", "expire", "remind1", "remind2"}
BY DEF Task

LEMMA InitTypes == Init => TypeOK /\ WellFormed
<1> SUFFICES ASSUME Init PROVE TypeOK /\ WellFormed
  OBVIOUS
<1> USE InterviewAssumption
<1>1. unbacked \in BOOLEAN
  BY DEF Init
<1>2. WellFormed
  BY DEF Init, WellFormed
<1> QED BY <1>1, <1>2 DEF Init, TypeOK

(* The part of the types that concerns the requests.                       *)
RequestTypes ==
  /\ pc \in [Requests -> Points]
  /\ op \in [Requests -> AllKinds \union {"none"}]
  /\ sess \in [Requests -> Sessions \union {NoSession}]
  /\ seen \in [Requests -> Statuses]
  /\ aim \in [Requests -> Stages \union {"none", "first", "second", "neither"}]
  /\ begun \in Nat
  /\ faults \in Nat
  /\ \A p \in Requests :
       pc[p] \notin {"idle", "moveWrite"} => sess[p] \in Sessions
  /\ WellFormed

RowTypes ==
  /\ status \in [Sessions -> Statuses]
  /\ invitation \in [Sessions -> Invitations]
  /\ expiry \in [Sessions -> {"far", "near", "past"}]
  /\ due \in [Sessions -> BOOLEAN]
  /\ reminded \in [Sessions -> SUBSET Reminders]
  /\ activity \in [Sessions -> {"none", "recent", "old"}]
  /\ stage \in Stages

LEMMA TypeParts ==
  TypeOK /\ WellFormed <=>
    /\ RowTypes
    /\ RequestTypes
    /\ todo \in [Monitors -> SUBSET (Invites \X {"expire", "remind1", "remind2"})]
    /\ sending \in [Monitors -> SUBSET (Invites \X Reminders)]
    /\ reminders \in [Sessions -> [Reminders -> Nat]]
    /\ packs \in [Sessions -> Nat]
    /\ requested \in [Sessions -> Nat]
    /\ unbacked \in BOOLEAN
BY DEF TypeOK, RowTypes, RequestTypes

LEMMA EndsTypes ==
  ASSUME RequestTypes, NEW p \in Requests, Ends(p) PROVE RequestTypes'
BY DEF Ends, RequestTypes, WellFormed

LEMMA GoesTypes ==
  ASSUME RequestTypes, NEW p \in Requests, NEW l \in Points, Goes(p, l),
         sess[p] \in Sessions, op[p] # "stageTransition",
         l = "expire" => sess[p] \in Invites,
         l \in {"move", "moveWrite"} => aim[p] \in Stages
  PROVE  RequestTypes'
BY DEF Goes, RequestTypes, WellFormed

LEMMA MovesTypes ==
  ASSUME RequestTypes, NEW p \in Requests, NEW t \in Stages, Moves(p, t),
         sess[p] \in Sessions, op[p] # "stageTransition"
  PROVE  RequestTypes'
BY DEF Moves, RequestTypes, WellFormed

LEMMA StepTypes ==
  TypeOK /\ WellFormed /\ [Next]_vars => TypeOK' /\ WellFormed'
<1> SUFFICES ASSUME TypeOK, WellFormed, [Next]_vars
             PROVE  TypeOK' /\ WellFormed'
  OBVIOUS
<1> USE InterviewAssumption
<1>1. ASSUME NEW p \in Requests, StageTransition(p)
      PROVE  TypeOK' /\ WellFormed'
  BY <1>1
  DEF StageTransition, Begins, TypeOK, WellFormed
<1>2. ASSUME NEW p \in Requests, NEW s \in Sessions, CreateBegins(p, s)
      PROVE  TypeOK' /\ WellFormed'
  BY <1>2
  DEF CreateBegins, Begins, TypeOK, WellFormed
<1>3. ASSUME NEW p \in Requests, NEW s \in Sessions, ReadForReschedule(p, s)
      PROVE  TypeOK' /\ WellFormed'
  BY <1>3
  DEF ReadForReschedule, Reads, Begins, MayReschedule, TypeOK, WellFormed
<1>4. ASSUME NEW p \in Requests, NEW s \in Sessions, ReadForStart(p, s)
      PROVE  TypeOK' /\ WellFormed'
  BY <1>4
  DEF ReadForStart, Reads, Begins, MayStart, TypeOK, WellFormed
<1>5. ASSUME NEW p \in Requests, NEW s \in Sessions, ReadForCancel(p, s)
      PROVE  TypeOK' /\ WellFormed'
  BY <1>5
  DEF ReadForCancel, Reads, Begins, MayCancel, TypeOK, WellFormed
<1>6. ASSUME NEW p \in Requests, NEW s \in Sessions, ReadForComplete(p, s)
      PROVE  TypeOK' /\ WellFormed'
  BY <1>6
  DEF ReadForComplete, Reads, Begins, MayComplete, Active, TypeOK, WellFormed
<1>7. ASSUME NEW p \in Requests, NEW s \in Sessions, Resolve(p, s)
      PROVE  TypeOK' /\ WellFormed'
  BY <1>7, AdmittedPoints
  DEF Resolve, Reads, Begins, TypeOK, WellFormed
<1>8. ASSUME NEW p \in Requests, NEW s \in Sessions, ReadForRemind(p, s)
      PROVE  TypeOK' /\ WellFormed'
  BY <1>8
  DEF ReadForRemind, Reads, Begins, TypeOK, WellFormed
<1>39. ASSUME NEW p \in Requests, NEW s \in Sessions, ReadForReviewPack(p, s)
      PROVE  TypeOK' /\ WellFormed'
  BY <1>39
  DEF ReadForReviewPack, Reads, Begins, TypeOK, WellFormed
<1>9. ASSUME NEW p \in Requests, CheckStage(p)
      PROVE  TypeOK' /\ WellFormed'
  <2>1. pc[p] # "idle" /\ RequestTypes /\ RowTypes
    BY <1>9, TypeParts DEF CheckStage
  <2>2. RequestTypes'
    BY <1>9, <2>1, EndsTypes, GoesTypes
    DEF CheckStage, RequestTypes, WellFormed
  <2>3. RowTypes'
    BY <1>9, <2>1 DEF CheckStage, RequestTypes, WellFormed, RowTypes
  <2> QED BY <1>9, <2>1, <2>2, <2>3 DEF CheckStage, TypeOK, RowTypes, RequestTypes
<1>10. ASSUME NEW p \in Requests, CheckActive(p)
      PROVE  TypeOK' /\ WellFormed'
  <2>1. pc[p] # "idle" /\ RequestTypes /\ RowTypes
    BY <1>10, TypeParts DEF CheckActive
  <2>2. RequestTypes'
    BY <1>10, <2>1, EndsTypes, GoesTypes
    DEF CheckActive, RequestTypes, WellFormed
  <2>3. RowTypes'
    BY <1>10, <2>1 DEF CheckActive, RequestTypes, WellFormed, RowTypes
  <2> QED BY <1>10, <2>1, <2>2, <2>3 DEF CheckActive, TypeOK, RowTypes, RequestTypes
<1>11. ASSUME NEW p \in Requests, CreateSession(p)
      PROVE  TypeOK' /\ WellFormed'
  <2>1. pc[p] # "idle" /\ RequestTypes /\ RowTypes
    BY <1>11, TypeParts DEF CreateSession
  <2>2. RequestTypes'
    BY <1>11, <2>1, MovesTypes
    DEF CreateSession, RequestTypes, WellFormed
  <2>3. RowTypes'
    BY <1>11, <2>1 DEF CreateSession, Status, Invitation, RequestTypes, WellFormed, RowTypes
  <2> QED BY <1>11, <2>1, <2>2, <2>3 DEF CreateSession, TypeOK, RowTypes, RequestTypes
<1>12. ASSUME NEW p \in Requests, MoveRead(p)
      PROVE  TypeOK' /\ WellFormed'
  <2>1. pc[p] # "idle" /\ RequestTypes /\ RowTypes
    BY <1>12, TypeParts DEF MoveRead
  <2>2. RequestTypes'
    BY <1>12, <2>1, EndsTypes, GoesTypes
    DEF MoveRead, AfterMove, RequestTypes, WellFormed
  <2>3. RowTypes'
    BY <1>12, <2>1 DEF MoveRead, RequestTypes, WellFormed, RowTypes
  <2> QED BY <1>12, <2>1, <2>2, <2>3 DEF MoveRead, TypeOK, RowTypes, RequestTypes
<1>13. ASSUME NEW p \in Requests, MoveWrite(p)
      PROVE  TypeOK' /\ WellFormed'
  <2>1. pc[p] # "idle" /\ RequestTypes /\ RowTypes
    BY <1>13, TypeParts DEF MoveWrite
  <2>2. RequestTypes'
    BY <1>13, <2>1, EndsTypes, GoesTypes
    DEF MoveWrite, AfterMove, RequestTypes, WellFormed
  <2>3. RowTypes'
    BY <1>13, <2>1 DEF MoveWrite, RequestTypes, WellFormed, RowTypes
  <2> QED BY <1>13, <2>1, <2>2, <2>3 DEF MoveWrite, TypeOK, RowTypes, RequestTypes
<1>14. ASSUME NEW p \in Requests, Reschedule(p)
      PROVE  TypeOK' /\ WellFormed'
  <2>1. pc[p] # "idle" /\ RequestTypes /\ RowTypes
    BY <1>14, TypeParts DEF Reschedule
  <2>2. RequestTypes'
    BY <1>14, <2>1, MovesTypes
    DEF Reschedule, RequestTypes, WellFormed
  <2>3. RowTypes'
    BY <1>14, <2>1 DEF Reschedule, Status, Invitation, RequestTypes, WellFormed, RowTypes
  <2> QED BY <1>14, <2>1, <2>2, <2>3 DEF Reschedule, TypeOK, RowTypes, RequestTypes
<1>15. ASSUME NEW p \in Requests, Start(p)
      PROVE  TypeOK' /\ WellFormed'
  <2>1. pc[p] # "idle" /\ RequestTypes /\ RowTypes
    BY <1>15, TypeParts DEF Start
  <2>2. RequestTypes'
    BY <1>15, <2>1, EndsTypes
    DEF Start, RequestTypes, WellFormed
  <2>3. RowTypes'
    BY <1>15, <2>1 DEF Start, Status, Invitation, RequestTypes, WellFormed, RowTypes
  <2> QED BY <1>15, <2>1, <2>2, <2>3 DEF Start, TypeOK, RowTypes, RequestTypes
<1>16. ASSUME NEW p \in Requests, Cancel(p)
      PROVE  TypeOK' /\ WellFormed'
  <2>1. pc[p] # "idle" /\ RequestTypes /\ RowTypes
    BY <1>16, TypeParts DEF Cancel
  <2>2. RequestTypes'
    BY <1>16, <2>1, GoesTypes
    DEF Cancel, RequestTypes, WellFormed
  <2>3. RowTypes'
    BY <1>16, <2>1 DEF Cancel, Status, Invitation, RequestTypes, WellFormed, RowTypes
  <2> QED BY <1>16, <2>1, <2>2, <2>3 DEF Cancel, TypeOK, RowTypes, RequestTypes
<1>17. ASSUME NEW p \in Requests, RollbackStage(p)
      PROVE  TypeOK' /\ WellFormed'
  <2>1. pc[p] # "idle" /\ RequestTypes /\ RowTypes
    BY <1>17, TypeParts DEF RollbackStage
  <2>2. RequestTypes'
    BY <1>17, <2>1, EndsTypes, GoesTypes, MovesTypes
    DEF RollbackStage, RequestTypes, WellFormed
  <2>3. RowTypes'
    BY <1>17, <2>1 DEF RollbackStage, RequestTypes, WellFormed, RowTypes
  <2> QED BY <1>17, <2>1, <2>2, <2>3 DEF RollbackStage, TypeOK, RowTypes, RequestTypes
<1>18. ASSUME NEW p \in Requests, RollbackActive(p)
      PROVE  TypeOK' /\ WellFormed'
  <2>1. pc[p] # "idle" /\ RequestTypes /\ RowTypes
    BY <1>18, TypeParts DEF RollbackActive
  <2>2. RequestTypes'
    BY <1>18, <2>1, EndsTypes, GoesTypes, MovesTypes
    DEF RollbackActive, RequestTypes, WellFormed
  <2>3. RowTypes'
    BY <1>18, <2>1 DEF RollbackActive, RequestTypes, WellFormed, RowTypes
  <2> QED BY <1>18, <2>1, <2>2, <2>3 DEF RollbackActive, TypeOK, RowTypes, RequestTypes
<1>19. ASSUME NEW p \in Requests, Complete(p)
      PROVE  TypeOK' /\ WellFormed'
  <2>1. pc[p] # "idle" /\ RequestTypes /\ RowTypes
    BY <1>19, TypeParts DEF Complete
  <2>2. RequestTypes'
    BY <1>19, <2>1, MovesTypes
    DEF Complete, RequestTypes, WellFormed
  <2>3. RowTypes'
    BY <1>19, <2>1 DEF Complete, Status, Invitation, RequestTypes, WellFormed, RowTypes
  <2> QED BY <1>19, <2>1, <2>2, <2>3 DEF Complete, TypeOK, RowTypes, RequestTypes
<1>20. ASSUME NEW p \in Requests, AutomationRead(p)
      PROVE  TypeOK' /\ WellFormed'
  <2>1. pc[p] # "idle" /\ RequestTypes /\ RowTypes
    BY <1>20, TypeParts DEF AutomationRead
  <2>2. RequestTypes'
    BY <1>20, <2>1, EndsTypes, GoesTypes
    DEF AutomationRead, RequestTypes, WellFormed
  <2>3. RowTypes'
    BY <1>20, <2>1 DEF AutomationRead, RequestTypes, WellFormed, RowTypes
  <2> QED BY <1>20, <2>1, <2>2, <2>3 DEF AutomationRead, TypeOK, RowTypes, RequestTypes
<1>21. ASSUME NEW p \in Requests, AutomationOff(p)
      PROVE  TypeOK' /\ WellFormed'
  <2>1. pc[p] # "idle" /\ RequestTypes /\ RowTypes
    BY <1>21, TypeParts DEF AutomationOff
  <2>2. RequestTypes'
    BY <1>21, <2>1, EndsTypes
    DEF AutomationOff, RequestTypes, WellFormed
  <2>3. RowTypes'
    BY <1>21, <2>1 DEF AutomationOff, RequestTypes, WellFormed, RowTypes
  <2> QED BY <1>21, <2>1, <2>2, <2>3 DEF AutomationOff, TypeOK, RowTypes, RequestTypes
<1>22. ASSUME NEW p \in Requests, RequestReviewPack(p)
      PROVE  TypeOK' /\ WellFormed'
  <2>1. pc[p] # "idle" /\ RequestTypes /\ sess[p] \in Sessions
    BY <1>22, TypeParts DEF RequestReviewPack, RequestTypes
  <2>2. RequestTypes'
    BY <1>22, <2>1, EndsTypes DEF RequestReviewPack
  <2>3. packs' \in [Sessions -> Nat] /\ requested' \in [Sessions -> Nat]
    <3>1. packs \in [Sessions -> Nat] /\ requested \in [Sessions -> Nat]
      BY DEF TypeOK
    <3>2. packs[sess[p]] + 1 \in Nat /\ requested[sess[p]] + 1 \in Nat
      BY <3>1, <2>1
    <3>3. CASE op[p] = "reviewPack"
      BY <1>22, <3>1, <3>2, <3>3 DEF RequestReviewPack
    <3>4. CASE op[p] # "reviewPack"
      BY <1>22, <3>1, <3>2, <3>4 DEF RequestReviewPack
    <3> QED BY <3>3, <3>4
  <2>4. UNCHANGED <<rowVars, stage, monitorVars, reminders, unbacked>>
    BY <1>22 DEF RequestReviewPack
  <2>5. RowTypes' /\ unbacked' \in BOOLEAN
    BY <2>4 DEF RowTypes, TypeOK
  <2>6. /\ todo' \in [Monitors -> SUBSET (Invites \X {"expire", "remind1", "remind2"})]
        /\ sending' \in [Monitors -> SUBSET (Invites \X Reminders)]
        /\ reminders' \in [Sessions -> [Reminders -> Nat]]
    BY <2>4 DEF TypeOK
  <2> QED BY <2>2, <2>3, <2>5, <2>6 DEF TypeOK, RowTypes, RequestTypes
<1>23. ASSUME NEW p \in Requests, ExpireOnVisit(p)
      PROVE  TypeOK' /\ WellFormed'
  <2>1. pc[p] # "idle" /\ RequestTypes /\ RowTypes
    BY <1>23, TypeParts DEF ExpireOnVisit
  <2>2. RequestTypes'
    BY <1>23, <2>1, GoesTypes
    DEF ExpireOnVisit, RequestTypes, WellFormed
  <2>3. RowTypes'
    BY <1>23, <2>1 DEF ExpireOnVisit, Expires, MayExpire, Status, RequestTypes, WellFormed, RowTypes
  <2> QED BY <1>23, <2>1, <2>2, <2>3 DEF ExpireOnVisit, TypeOK, RowTypes, RequestTypes
<1>24. ASSUME NEW p \in Requests, Refresh(p)
      PROVE  TypeOK' /\ WellFormed'
  <2>1. pc[p] # "idle" /\ RequestTypes /\ RowTypes
    BY <1>24, TypeParts DEF Refresh
  <2>2. sess[p] \in Sessions /\ op[p] # "stageTransition" /\ status[sess[p]] \in Statuses
    BY <1>24, <2>1 DEF Refresh, RequestTypes, WellFormed, RowTypes
  <2>3. RequestTypes'
    <3>1. CASE Admitted(op[p], sess[p]) = "idle"
      BY <1>24, <2>1, <3>1, EndsTypes DEF Refresh
    <3>2. CASE ~(Admitted(op[p], sess[p]) = "idle")
      BY <1>24, <2>1, <2>2, <3>2, AdmittedPoints DEF Refresh, RequestTypes, WellFormed
    <3> QED BY <3>1, <3>2
  <2> QED BY <1>24, <2>1, <2>3 DEF Refresh, TypeOK, RowTypes, RequestTypes
<1>25. ASSUME NEW p \in Requests, OpenPublic(p)
      PROVE  TypeOK' /\ WellFormed'
  <2>1. pc[p] # "idle" /\ RequestTypes /\ RowTypes
    BY <1>25, TypeParts DEF OpenPublic
  <2>2. RequestTypes'
    BY <1>25, <2>1, EndsTypes, GoesTypes
    DEF OpenPublic, RequestTypes, WellFormed
  <2>3. RowTypes'
    BY <1>25, <2>1 DEF OpenPublic, Status, Invitation, RequestTypes, WellFormed, RowTypes
  <2> QED BY <1>25, <2>1, <2>2, <2>3 DEF OpenPublic, TypeOK, RowTypes, RequestTypes
<1>26. ASSUME NEW p \in Requests, ReadForPublicComplete(p)
      PROVE  TypeOK' /\ WellFormed'
  <2>1. pc[p] # "idle" /\ RequestTypes /\ RowTypes
    BY <1>26, TypeParts DEF ReadForPublicComplete
  <2>2. sess[p] \in Sessions /\ op[p] # "stageTransition" /\ status[sess[p]] \in Statuses
    BY <1>26, <2>1 DEF ReadForPublicComplete, RequestTypes, WellFormed, RowTypes
  <2>3. RequestTypes'
    <3>1. CASE ~MayComplete(sess[p])
      BY <1>26, <2>1, <3>1, EndsTypes DEF ReadForPublicComplete
    <3>2. CASE ~(~MayComplete(sess[p]))
      BY <1>26, <2>1, <2>2, <3>2 DEF ReadForPublicComplete, RequestTypes, WellFormed
    <3> QED BY <3>1, <3>2
  <2> QED BY <1>26, <2>1, <2>3 DEF ReadForPublicComplete, TypeOK, RowTypes, RequestTypes
<1>27. ASSUME NEW p \in Requests, FailPublic(p)
      PROVE  TypeOK' /\ WellFormed'
  <2>1. pc[p] # "idle" /\ RequestTypes /\ RowTypes
    BY <1>27, TypeParts DEF FailPublic
  <2>2. RequestTypes'
    BY <1>27, <2>1, EndsTypes
    DEF FailPublic, RequestTypes, WellFormed
  <2>3. RowTypes'
    BY <1>27, <2>1 DEF FailPublic, Status, Invitation, RequestTypes, WellFormed, RowTypes
  <2> QED BY <1>27, <2>1, <2>2, <2>3 DEF FailPublic, TypeOK, RowTypes, RequestTypes
<1>28. ASSUME NEW p \in Requests, RemindManually(p)
      PROVE  TypeOK' /\ WellFormed'
  <2>1. pc[p] # "idle" /\ RequestTypes /\ RowTypes
    BY <1>28, TypeParts DEF RemindManually
  <2>2. RequestTypes'
    BY <1>28, <2>1, EndsTypes
    DEF RemindManually, RequestTypes, WellFormed
  <2>3. RowTypes'
    BY <1>28, <2>1 DEF RemindManually, Column, RequestTypes, WellFormed, RowTypes
  <2> QED BY <1>28, <2>1, <2>2, <2>3 DEF RemindManually, TypeOK, RowTypes, RequestTypes
<1>29. ASSUME NEW p \in Requests, RequestFails(p)
      PROVE  TypeOK' /\ WellFormed'
  BY <1>29
  DEF RequestFails, Fault, TypeOK, WellFormed
<1>30. ASSUME NEW m \in Monitors, Tick(m)
      PROVE  TypeOK' /\ WellFormed'
  BY <1>30, TaskTypes
  DEF Tick, TypeOK, WellFormed
<1>31. ASSUME NEW m \in Monitors, TickFails(m)
      PROVE  TypeOK' /\ WellFormed'
  BY <1>31
  DEF TickFails, Fault, TypeOK, WellFormed
<1>32. ASSUME NEW m \in Monitors, NEW s \in Sessions, ExpireInvitation(m, s)
      PROVE  TypeOK' /\ WellFormed'
  <2>1. /\ s \in Invites
        /\ status \in [Sessions -> Statuses]
        /\ invitation \in [Sessions -> Invitations]
    BY <1>32 DEF ExpireInvitation, Done, TypeOK
  <2>2. /\ status' \in [Sessions -> Statuses]
        /\ invitation' \in [Sessions -> Invitations]
    <3>1. CASE MayExpire(s)
      BY <1>32, <2>1, <3>1 DEF ExpireInvitation, Expires, Status
    <3>2. CASE ~MayExpire(s)
      BY <1>32, <2>1, <3>2 DEF ExpireInvitation, Expires
    <3> QED BY <3>1, <3>2
  <2>3. todo' \in [Monitors -> SUBSET (Invites \X {"expire", "remind1", "remind2"})]
    BY <1>32 DEF ExpireInvitation, Done, TypeOK
  <2> QED BY <1>32, <2>2, <2>3 DEF ExpireInvitation, TypeOK, WellFormed
<1>33. ASSUME NEW m \in Monitors, NEW s \in Sessions, NEW n \in Reminders,
             RecordReminder(m, s, n)
      PROVE  TypeOK' /\ WellFormed'
  <2>1. /\ s \in Invites
        /\ invitation \in [Sessions -> Invitations]
        /\ reminded \in [Sessions -> SUBSET Reminders]
        /\ sending \in [Monitors -> SUBSET (Invites \X Reminders)]
    BY <1>33 DEF RecordReminder, Done, TypeOK
  <2>2. /\ invitation' \in [Sessions -> Invitations]
        /\ reminded' \in [Sessions -> SUBSET Reminders]
    <3>1. CASE MayRemind(s, n)
      BY <1>33, <2>1, <3>1 DEF RecordReminder
    <3>2. CASE ~MayRemind(s, n)
      BY <1>33, <2>1, <3>2 DEF RecordReminder
    <3> QED BY <3>1, <3>2
  <2>3. todo' \in [Monitors -> SUBSET (Invites \X {"expire", "remind1", "remind2"})]
    BY <1>33 DEF RecordReminder, Done, TypeOK
  <2>4. sending' \in [Monitors -> SUBSET (Invites \X Reminders)]
    <3>1. CASE MayRemind(s, n)
      BY <1>33, <2>1, <3>1 DEF RecordReminder
    <3>2. CASE ~MayRemind(s, n)
      BY <1>33, <2>1, <3>2 DEF RecordReminder
    <3> QED BY <3>1, <3>2
  <2> QED BY <1>33, <2>2, <2>3, <2>4 DEF RecordReminder, TypeOK, WellFormed
<1>34. ASSUME NEW m \in Monitors, NEW s \in Sessions, NEW n \in Reminders,
             AppendReminder(m, s, n)
      PROVE  TypeOK' /\ WellFormed'
  BY <1>34
  DEF AppendReminder, TypeOK, WellFormed
<1>35. ASSUME NEW s \in Sessions, ExpiryNears(s)
      PROVE  TypeOK' /\ WellFormed'
  BY <1>35
  DEF ExpiryNears, TypeOK, WellFormed
<1>36. ASSUME NEW s \in Sessions, ReminderDue(s)
      PROVE  TypeOK' /\ WellFormed'
  BY <1>36
  DEF ReminderDue, TypeOK, WellFormed
<1>37. ASSUME NEW s \in Sessions, CandidateSilent(s)
      PROVE  TypeOK' /\ WellFormed'
  BY <1>37
  DEF CandidateSilent, TypeOK, WellFormed
<1>38. CASE UNCHANGED vars
  BY <1>38 DEF vars, countVars, requestVars, TypeOK, WellFormed
<1> QED
  BY <1>1, <1>2, <1>3, <1>4, <1>5, <1>6, <1>7, <1>8, <1>9, <1>10, <1>11,
     <1>12, <1>13, <1>14, <1>15, <1>16, <1>17, <1>18, <1>19, <1>20, <1>21,
     <1>22, <1>23, <1>24, <1>25, <1>26, <1>27, <1>28, <1>29, <1>30, <1>31,
     <1>32, <1>33, <1>34, <1>35, <1>36, <1>37, <1>38, <1>39
     DEF Next, Arrive, Proceed, Monitor, Clock

(* The types of the interview sessions hold in every reachable state.      *)
THEOREM TypeCorrect == Spec => []TypeOK
<1>1. Spec => [](TypeOK /\ WellFormed)
  BY InitTypes, StepTypes, PTL DEF Spec
<1> QED BY <1>1, PTL

-----------------------------------------------------------------------------
(* Stale writes.                                                           *)

(* What a request knows at each point.  A write by id alone is preceded by *)
(* a read that found a status the write may follow; a session about to be  *)
(* created does not exist and is no other request's.                       *)
Creating(p) == pc[p] \in {"check", "checkStage", "checkActive", "create"}

Held ==
  \A p \in Requests :
    /\ pc[p] = "reschedule" => seen[p] \in {"SCHEDULED", "FAILED", "NO_SHOW"}
    /\ pc[p] = "start" => seen[p] = "SCHEDULED"
    /\ pc[p] = "cancel" =>
         seen[p] \in {"SCHEDULED", "RUNNING", "FAILED", "NO_SHOW"}
    /\ pc[p] \in {"complete", "open"} => seen[p] \in Active
    /\ pc[p] = "timeout" => seen[p] = "RUNNING"
    /\ pc[p] = "abandon" => seen[p] \in {"SCHEDULED", "RUNNING", "NO_SHOW"}
    /\ pc[p] \in {"expire", "refresh"} => status[sess[p]] # "none"
    /\ Creating(p) => /\ status[sess[p]] = "none"
                      /\ \A q \in Requests \ {p} : sess[q] # sess[p]

(* The types these proofs use.                                             *)
RequestParts ==
  /\ status \in [Sessions -> Statuses]
  /\ pc \in [Requests -> Points]
  /\ sess \in [Requests -> Sessions \union {NoSession}]
  /\ seen \in [Requests -> Statuses]
  /\ \A p \in Requests :
       pc[p] \notin {"idle", "moveWrite"} => sess[p] \in Sessions

LEMMA InitHeld == Init => Held
BY DEF Init, Held, Creating

LEMMA StepHeld ==
  TypeOK /\ Held /\ [Next]_vars => Held'
<1> SUFFICES ASSUME TypeOK, Held, [Next]_vars PROVE Held'
  OBVIOUS
<1> USE InterviewAssumption
<1>0. RequestParts
  BY DEF TypeOK, RequestParts
<1>1. ASSUME NEW p \in Requests, StageTransition(p)
      PROVE  Held'
  BY <1>1, <1>0
  DEF StageTransition, Begins, Held, Creating, RequestParts
<1>2. ASSUME NEW p \in Requests, NEW s \in Sessions, CreateBegins(p, s)
      PROVE  Held'
  BY <1>2, <1>0
  DEF CreateBegins, Begins, Held, Creating, RequestParts
<1>3. ASSUME NEW p \in Requests, NEW s \in Sessions, ReadForReschedule(p, s)
      PROVE  Held'
  BY <1>3, <1>0
  DEF ReadForReschedule, Reads, Begins, MayReschedule, Held, Creating,
       RequestParts
<1>4. ASSUME NEW p \in Requests, NEW s \in Sessions, ReadForStart(p, s)
      PROVE  Held'
  BY <1>4, <1>0
  DEF ReadForStart, Reads, Begins, MayStart, Held, Creating, RequestParts
<1>5. ASSUME NEW p \in Requests, NEW s \in Sessions, ReadForCancel(p, s)
      PROVE  Held'
  BY <1>5, <1>0
  DEF ReadForCancel, Reads, Begins, MayCancel, Held, Creating, RequestParts
<1>6. ASSUME NEW p \in Requests, NEW s \in Sessions, ReadForComplete(p, s)
      PROVE  Held'
  BY <1>6, <1>0
  DEF ReadForComplete, Reads, Begins, MayComplete, Active, Held, Creating,
       RequestParts
<1>7. ASSUME NEW p \in Requests, NEW s \in Sessions, Resolve(p, s)
      PROVE  Held'
  BY <1>7, <1>0, AdmittedPoints
  DEF Resolve, Reads, Begins, Held, Creating, RequestParts
<1>8. ASSUME NEW p \in Requests, NEW s \in Sessions, ReadForRemind(p, s)
      PROVE  Held'
  BY <1>8, <1>0
  DEF ReadForRemind, Reads, Begins, Held, Creating, RequestParts
<1>39. ASSUME NEW p \in Requests, NEW s \in Sessions, ReadForReviewPack(p, s)
      PROVE  Held'
  BY <1>39, <1>0
  DEF ReadForReviewPack, Reads, Begins, Held, Creating, RequestParts
<1>9. ASSUME NEW p \in Requests, CheckStage(p)
      PROVE  Held'
  BY <1>9, <1>0
  DEF CheckStage, Ends, Goes, Held, Creating, RequestParts
<1>10. ASSUME NEW p \in Requests, CheckActive(p)
      PROVE  Held'
  BY <1>10, <1>0
  DEF CheckActive, Ends, Goes, Held, Creating, RequestParts
<1>11. ASSUME NEW p \in Requests, CreateSession(p)
      PROVE  Held'
  BY <1>11, <1>0
  DEF CreateSession, Moves, Status, Invitation, Held, Creating, RequestParts
<1>12. ASSUME NEW p \in Requests, MoveRead(p)
      PROVE  Held'
  BY <1>12, <1>0
  DEF MoveRead, AfterMove, Ends, Goes, Held, Creating, RequestParts
<1>13. ASSUME NEW p \in Requests, MoveWrite(p)
      PROVE  Held'
  BY <1>13, <1>0
  DEF MoveWrite, AfterMove, Ends, Goes, Held, Creating, RequestParts
<1>14. ASSUME NEW p \in Requests, Reschedule(p)
      PROVE  Held'
  BY <1>14, <1>0
  DEF Reschedule, Moves, Status, Invitation, Held, Creating, RequestParts
<1>15. ASSUME NEW p \in Requests, Start(p)
      PROVE  Held'
  BY <1>15, <1>0
  DEF Start, Ends, Status, Invitation, Held, Creating, RequestParts
<1>16. ASSUME NEW p \in Requests, Cancel(p)
      PROVE  Held'
  BY <1>16, <1>0
  DEF Cancel, Goes, Status, Invitation, Held, Creating, RequestParts
<1>17. ASSUME NEW p \in Requests, RollbackStage(p)
      PROVE  Held'
  BY <1>17, <1>0
  DEF RollbackStage, Ends, Goes, Moves, Held, Creating, RequestParts
<1>18. ASSUME NEW p \in Requests, RollbackActive(p)
      PROVE  Held'
  BY <1>18, <1>0
  DEF RollbackActive, Ends, Goes, Moves, Held, Creating, RequestParts
<1>19. ASSUME NEW p \in Requests, Complete(p)
      PROVE  Held'
  BY <1>19, <1>0
  DEF Complete, Moves, Status, Invitation, Held, Creating, RequestParts
<1>20. ASSUME NEW p \in Requests, AutomationRead(p)
      PROVE  Held'
  BY <1>20, <1>0
  DEF AutomationRead, Ends, Goes, Held, Creating, RequestParts
<1>21. ASSUME NEW p \in Requests, AutomationOff(p)
      PROVE  Held'
  BY <1>21, <1>0
  DEF AutomationOff, Ends, Held, Creating, RequestParts
<1>22. ASSUME NEW p \in Requests, RequestReviewPack(p)
      PROVE  Held'
  BY <1>22, <1>0
  DEF RequestReviewPack, Ends, Held, Creating, RequestParts
<1>23. ASSUME NEW p \in Requests, ExpireOnVisit(p)
      PROVE  Held'
  BY <1>23, <1>0
  DEF ExpireOnVisit, Expires, MayExpire, Goes, Status, Held, Creating,
       RequestParts
<1>24. ASSUME NEW p \in Requests, Refresh(p)
      PROVE  Held'
  BY <1>24, <1>0, AdmittedPoints
  DEF Refresh, Ends, Held, Creating, RequestParts
<1>25. ASSUME NEW p \in Requests, OpenPublic(p)
      PROVE  Held'
  BY <1>25, <1>0
  DEF OpenPublic, Ends, Goes, Status, Invitation, Held, Creating, RequestParts
<1>26. ASSUME NEW p \in Requests, ReadForPublicComplete(p)
      PROVE  Held'
  BY <1>26, <1>0
  DEF ReadForPublicComplete, Ends, MayComplete, Active, Held, Creating,
       RequestParts
<1>27. ASSUME NEW p \in Requests, FailPublic(p)
      PROVE  Held'
  BY <1>27, <1>0
  DEF FailPublic, Ends, Status, Invitation, Held, Creating, RequestParts
<1>28. ASSUME NEW p \in Requests, RemindManually(p)
      PROVE  Held'
  BY <1>28, <1>0
  DEF RemindManually, Ends, Column, Held, Creating, RequestParts
<1>29. ASSUME NEW p \in Requests, RequestFails(p)
      PROVE  Held'
  BY <1>29, <1>0
  DEF RequestFails, Fault, Held, Creating, RequestParts
<1>30. ASSUME NEW m \in Monitors, Tick(m)
      PROVE  Held'
  BY <1>30, <1>0
  DEF Tick, Held, Creating, RequestParts
<1>31. ASSUME NEW m \in Monitors, TickFails(m)
      PROVE  Held'
  BY <1>31, <1>0
  DEF TickFails, Fault, Held, Creating, RequestParts
<1>32. ASSUME NEW m \in Monitors, NEW s \in Sessions, ExpireInvitation(m, s)
      PROVE  Held'
  BY <1>32, <1>0
  DEF ExpireInvitation, Done, Expires, MayExpire, Status, Held, Creating,
       RequestParts
<1>33. ASSUME NEW m \in Monitors, NEW s \in Sessions, NEW n \in Reminders,
             RecordReminder(m, s, n)
      PROVE  Held'
  BY <1>33, <1>0
  DEF RecordReminder, Done, MayRemind, Held, Creating, RequestParts
<1>34. ASSUME NEW m \in Monitors, NEW s \in Sessions, NEW n \in Reminders,
             AppendReminder(m, s, n)
      PROVE  Held'
  BY <1>34, <1>0
  DEF AppendReminder, Held, Creating, RequestParts
<1>35. ASSUME NEW s \in Sessions, ExpiryNears(s)
      PROVE  Held'
  BY <1>35, <1>0
  DEF ExpiryNears, Held, Creating, RequestParts
<1>36. ASSUME NEW s \in Sessions, ReminderDue(s)
      PROVE  Held'
  BY <1>36, <1>0
  DEF ReminderDue, Held, Creating, RequestParts
<1>37. ASSUME NEW s \in Sessions, CandidateSilent(s)
      PROVE  Held'
  BY <1>37, <1>0
  DEF CandidateSilent, Held, Creating, RequestParts
<1>38. CASE UNCHANGED vars
  BY <1>38, <1>0 DEF vars, countVars, requestVars, Held, Creating, RequestParts
<1> QED
  BY <1>1, <1>2, <1>3, <1>4, <1>5, <1>6, <1>7, <1>8, <1>9, <1>10, <1>11,
     <1>12, <1>13, <1>14, <1>15, <1>16, <1>17, <1>18, <1>19, <1>20, <1>21,
     <1>22, <1>23, <1>24, <1>25, <1>26, <1>27, <1>28, <1>29, <1>30, <1>31,
     <1>32, <1>33, <1>34, <1>35, <1>36, <1>37, <1>38, <1>39
     DEF Next, Arrive, Proceed, Monitor, Clock

LEMMA HeldAlways == Spec => [](TypeOK /\ Held)
<1>1. Spec => [](TypeOK /\ WellFormed)
  BY InitTypes, StepTypes, PTL DEF Spec
<1> QED BY <1>1, InitHeld, StepHeld, PTL DEF Spec

(* The body of StaleWritesOnly.                                            *)
StaleStep ==
  \A s \in Sessions :
    status'[s] # status[s] =>
      \/ <<status[s], status'[s]>> \in
           Cycle!Allowed \union {<<"NO_SHOW", "FAILED">>}
      \/ \E p \in Requests : /\ pc[p] \in BlindPoints
                             /\ sess[p] = s
                             /\ seen[p] # status[s]

LEMMA StepStale ==
  TypeOK /\ Held /\ [Next]_vars => StaleStep
<1> SUFFICES ASSUME TypeOK, Held, [Next]_vars PROVE StaleStep
  OBVIOUS
<1> USE InterviewAssumption
<1>0. RequestParts
  BY DEF TypeOK, RequestParts
<1>1. ASSUME NEW p \in Requests, StageTransition(p)
      PROVE  StaleStep
  BY <1>1, <1>0
  DEF StageTransition, Begins, Held, Creating, RequestParts, StaleStep,
       Cycle!Allowed, BlindPoints
<1>2. ASSUME NEW p \in Requests, NEW s \in Sessions, CreateBegins(p, s)
      PROVE  StaleStep
  BY <1>2, <1>0
  DEF CreateBegins, Begins, Held, Creating, RequestParts, StaleStep,
       Cycle!Allowed, BlindPoints
<1>3. ASSUME NEW p \in Requests, NEW s \in Sessions, ReadForReschedule(p, s)
      PROVE  StaleStep
  BY <1>3, <1>0
  DEF ReadForReschedule, Reads, Begins, MayReschedule, Held, Creating,
       RequestParts, StaleStep, Cycle!Allowed, BlindPoints
<1>4. ASSUME NEW p \in Requests, NEW s \in Sessions, ReadForStart(p, s)
      PROVE  StaleStep
  BY <1>4, <1>0
  DEF ReadForStart, Reads, Begins, MayStart, Held, Creating, RequestParts,
       StaleStep, Cycle!Allowed, BlindPoints
<1>5. ASSUME NEW p \in Requests, NEW s \in Sessions, ReadForCancel(p, s)
      PROVE  StaleStep
  BY <1>5, <1>0
  DEF ReadForCancel, Reads, Begins, MayCancel, Held, Creating, RequestParts,
       StaleStep, Cycle!Allowed, BlindPoints
<1>6. ASSUME NEW p \in Requests, NEW s \in Sessions, ReadForComplete(p, s)
      PROVE  StaleStep
  BY <1>6, <1>0
  DEF ReadForComplete, Reads, Begins, MayComplete, Active, Held, Creating,
       RequestParts, StaleStep, Cycle!Allowed, BlindPoints
<1>7. ASSUME NEW p \in Requests, NEW s \in Sessions, Resolve(p, s)
      PROVE  StaleStep
  BY <1>7, <1>0
  DEF Resolve, Reads, Begins, Held, Creating, RequestParts, StaleStep,
       Cycle!Allowed, BlindPoints
<1>8. ASSUME NEW p \in Requests, NEW s \in Sessions, ReadForRemind(p, s)
      PROVE  StaleStep
  BY <1>8, <1>0
  DEF ReadForRemind, Reads, Begins, Held, Creating, RequestParts, StaleStep,
       Cycle!Allowed, BlindPoints
<1>39. ASSUME NEW p \in Requests, NEW s \in Sessions, ReadForReviewPack(p, s)
      PROVE  StaleStep
  BY <1>39, <1>0
  DEF ReadForReviewPack, Reads, Begins, Held, Creating, RequestParts, StaleStep,
       Cycle!Allowed, BlindPoints
<1>9. ASSUME NEW p \in Requests, CheckStage(p)
      PROVE  StaleStep
  BY <1>9, <1>0
  DEF CheckStage, Ends, Goes, Held, Creating, RequestParts, StaleStep,
       Cycle!Allowed, BlindPoints
<1>10. ASSUME NEW p \in Requests, CheckActive(p)
      PROVE  StaleStep
  BY <1>10, <1>0
  DEF CheckActive, Ends, Goes, Held, Creating, RequestParts, StaleStep,
       Cycle!Allowed, BlindPoints
<1>11. ASSUME NEW p \in Requests, CreateSession(p)
      PROVE  StaleStep
  BY <1>11, <1>0
  DEF CreateSession, Moves, Status, Invitation, Held, Creating, RequestParts,
       StaleStep, Cycle!Allowed, BlindPoints
<1>12. ASSUME NEW p \in Requests, MoveRead(p)
      PROVE  StaleStep
  BY <1>12, <1>0
  DEF MoveRead, AfterMove, Ends, Goes, Held, Creating, RequestParts,
       StaleStep, Cycle!Allowed, BlindPoints
<1>13. ASSUME NEW p \in Requests, MoveWrite(p)
      PROVE  StaleStep
  BY <1>13, <1>0
  DEF MoveWrite, AfterMove, Ends, Goes, Held, Creating, RequestParts,
       StaleStep, Cycle!Allowed, BlindPoints
<1>14. ASSUME NEW p \in Requests, Reschedule(p)
      PROVE  StaleStep
  BY <1>14, <1>0
  DEF Reschedule, Moves, Status, Invitation, Held, Creating, RequestParts,
       StaleStep, Cycle!Allowed, BlindPoints
<1>15. ASSUME NEW p \in Requests, Start(p)
      PROVE  StaleStep
  BY <1>15, <1>0
  DEF Start, Ends, Status, Invitation, Held, Creating, RequestParts,
       StaleStep, Cycle!Allowed, BlindPoints
<1>16. ASSUME NEW p \in Requests, Cancel(p)
      PROVE  StaleStep
  BY <1>16, <1>0
  DEF Cancel, Goes, Status, Invitation, Held, Creating, RequestParts,
       StaleStep, Cycle!Allowed, BlindPoints
<1>17. ASSUME NEW p \in Requests, RollbackStage(p)
      PROVE  StaleStep
  BY <1>17, <1>0
  DEF RollbackStage, Ends, Goes, Moves, Held, Creating, RequestParts,
       StaleStep, Cycle!Allowed, BlindPoints
<1>18. ASSUME NEW p \in Requests, RollbackActive(p)
      PROVE  StaleStep
  BY <1>18, <1>0
  DEF RollbackActive, Ends, Goes, Moves, Held, Creating, RequestParts,
       StaleStep, Cycle!Allowed, BlindPoints
<1>19. ASSUME NEW p \in Requests, Complete(p)
      PROVE  StaleStep
  BY <1>19, <1>0
  DEF Complete, Moves, Status, Invitation, Held, Creating, RequestParts,
       StaleStep, Cycle!Allowed, BlindPoints
<1>20. ASSUME NEW p \in Requests, AutomationRead(p)
      PROVE  StaleStep
  BY <1>20, <1>0
  DEF AutomationRead, Ends, Goes, Held, Creating, RequestParts, StaleStep,
       Cycle!Allowed, BlindPoints
<1>21. ASSUME NEW p \in Requests, AutomationOff(p)
      PROVE  StaleStep
  BY <1>21, <1>0
  DEF AutomationOff, Ends, Held, Creating, RequestParts, StaleStep,
       Cycle!Allowed, BlindPoints
<1>22. ASSUME NEW p \in Requests, RequestReviewPack(p)
      PROVE  StaleStep
  BY <1>22, <1>0
  DEF RequestReviewPack, Ends, Held, Creating, RequestParts, StaleStep,
       Cycle!Allowed, BlindPoints
<1>23. ASSUME NEW p \in Requests, ExpireOnVisit(p)
      PROVE  StaleStep
  BY <1>23, <1>0
  DEF ExpireOnVisit, Expires, MayExpire, Goes, Status, Held, Creating,
       RequestParts, StaleStep, Cycle!Allowed, BlindPoints
<1>24. ASSUME NEW p \in Requests, Refresh(p)
      PROVE  StaleStep
  BY <1>24, <1>0
  DEF Refresh, Ends, Held, Creating, RequestParts, StaleStep, Cycle!Allowed,
       BlindPoints
<1>25. ASSUME NEW p \in Requests, OpenPublic(p)
      PROVE  StaleStep
  BY <1>25, <1>0
  DEF OpenPublic, Ends, Goes, Status, Invitation, Held, Creating,
       RequestParts, StaleStep, Cycle!Allowed, BlindPoints
<1>26. ASSUME NEW p \in Requests, ReadForPublicComplete(p)
      PROVE  StaleStep
  BY <1>26, <1>0
  DEF ReadForPublicComplete, Ends, MayComplete, Active, Held, Creating,
       RequestParts, StaleStep, Cycle!Allowed, BlindPoints
<1>27. ASSUME NEW p \in Requests, FailPublic(p)
      PROVE  StaleStep
  BY <1>27, <1>0
  DEF FailPublic, Ends, Status, Invitation, Held, Creating, RequestParts,
       StaleStep, Cycle!Allowed, BlindPoints
<1>28. ASSUME NEW p \in Requests, RemindManually(p)
      PROVE  StaleStep
  BY <1>28, <1>0
  DEF RemindManually, Ends, Column, Held, Creating, RequestParts, StaleStep,
       Cycle!Allowed, BlindPoints
<1>29. ASSUME NEW p \in Requests, RequestFails(p)
      PROVE  StaleStep
  BY <1>29, <1>0
  DEF RequestFails, Fault, Held, Creating, RequestParts, StaleStep,
       Cycle!Allowed, BlindPoints
<1>30. ASSUME NEW m \in Monitors, Tick(m)
      PROVE  StaleStep
  BY <1>30, <1>0
  DEF Tick, Held, Creating, RequestParts, StaleStep, Cycle!Allowed,
       BlindPoints
<1>31. ASSUME NEW m \in Monitors, TickFails(m)
      PROVE  StaleStep
  BY <1>31, <1>0
  DEF TickFails, Fault, Held, Creating, RequestParts, StaleStep,
       Cycle!Allowed, BlindPoints
<1>32. ASSUME NEW m \in Monitors, NEW s \in Sessions, ExpireInvitation(m, s)
      PROVE  StaleStep
  BY <1>32, <1>0
  DEF ExpireInvitation, Done, Expires, MayExpire, Status, Held, Creating,
       RequestParts, StaleStep, Cycle!Allowed, BlindPoints
<1>33. ASSUME NEW m \in Monitors, NEW s \in Sessions, NEW n \in Reminders,
             RecordReminder(m, s, n)
      PROVE  StaleStep
  BY <1>33, <1>0
  DEF RecordReminder, Done, MayRemind, Held, Creating, RequestParts,
       StaleStep, Cycle!Allowed, BlindPoints
<1>34. ASSUME NEW m \in Monitors, NEW s \in Sessions, NEW n \in Reminders,
             AppendReminder(m, s, n)
      PROVE  StaleStep
  BY <1>34, <1>0
  DEF AppendReminder, Held, Creating, RequestParts, StaleStep, Cycle!Allowed,
       BlindPoints
<1>35. ASSUME NEW s \in Sessions, ExpiryNears(s)
      PROVE  StaleStep
  BY <1>35, <1>0
  DEF ExpiryNears, Held, Creating, RequestParts, StaleStep, Cycle!Allowed,
       BlindPoints
<1>36. ASSUME NEW s \in Sessions, ReminderDue(s)
      PROVE  StaleStep
  BY <1>36, <1>0
  DEF ReminderDue, Held, Creating, RequestParts, StaleStep, Cycle!Allowed,
       BlindPoints
<1>37. ASSUME NEW s \in Sessions, CandidateSilent(s)
      PROVE  StaleStep
  BY <1>37, <1>0
  DEF CandidateSilent, Held, Creating, RequestParts, StaleStep, Cycle!Allowed,
       BlindPoints
<1>38. CASE UNCHANGED vars
  BY <1>38, <1>0 DEF vars, countVars, requestVars, Held, Creating, RequestParts, StaleStep, Cycle!Allowed, BlindPoints
<1> QED
  BY <1>1, <1>2, <1>3, <1>4, <1>5, <1>6, <1>7, <1>8, <1>9, <1>10, <1>11,
     <1>12, <1>13, <1>14, <1>15, <1>16, <1>17, <1>18, <1>19, <1>20, <1>21,
     <1>22, <1>23, <1>24, <1>25, <1>26, <1>27, <1>28, <1>29, <1>30, <1>31,
     <1>32, <1>33, <1>34, <1>35, <1>36, <1>37, <1>38, <1>39
     DEF Next, Arrive, Proceed, Monitor, Clock

(* StaleWritesOnly: only a request that read the row before it took its    *)
(* present status writes a status out of the session's life cycle.         *)
THEOREM StaleWrites == Spec => StaleWritesOnly
<1>1. TypeOK /\ Held /\ [Next]_vars =>
        [\A s \in Sessions :
           status'[s] # status[s] =>
             \/ <<status[s], status'[s]>> \in
                  Cycle!Allowed \union {<<"NO_SHOW", "FAILED">>}
             \/ \E p \in Requests : /\ pc[p] \in BlindPoints
                                    /\ sess[p] = s
                                    /\ seen[p] # status[s]]_vars
  BY StepStale DEF StaleStep
<1> QED BY <1>1, HeldAlways, PTL DEF Spec, StaleWritesOnly

-----------------------------------------------------------------------------
(* Reminders.                                                              *)

(* The column is written before the event, by one monitor.                 *)
Recorded ==
  \A s \in Sessions, n \in Reminders :
    /\ reminders[s][n] \in {0, 1}
    /\ reminders[s][n] = 1 => n \in reminded[s]
    /\ \A m \in Monitors :
         <<s, n>> \in sending[m] =>
           /\ n \in reminded[s] /\ reminders[s][n] = 0
           /\ \A k \in Monitors : <<s, n>> \in sending[k] => k = m

ReminderTypes ==
  /\ reminded \in [Sessions -> SUBSET Reminders]
  /\ sending \in [Monitors -> SUBSET (Invites \X Reminders)]
  /\ reminders \in [Sessions -> [Reminders -> Nat]]

LEMMA InitRecorded == Init => Recorded
BY DEF Init, Recorded

LEMMA StepRecorded ==
  TypeOK /\ Recorded /\ [Next]_vars => Recorded'
<1> SUFFICES ASSUME TypeOK, Recorded, [Next]_vars PROVE Recorded'
  OBVIOUS
<1> USE InterviewAssumption
<1>0. ReminderTypes
  BY DEF TypeOK, ReminderTypes
<1>a. ASSUME UNCHANGED <<reminded, sending, reminders>> PROVE Recorded'
  BY <1>a DEF Recorded
<1> HIDE DEF Recorded, Reminders
<1>1. ASSUME NEW p \in Requests, StageTransition(p)
      PROVE  Recorded'
  BY <1>1, <1>a
  DEF StageTransition, Begins
<1>2. ASSUME NEW p \in Requests, NEW s \in Sessions, CreateBegins(p, s)
      PROVE  Recorded'
  BY <1>2, <1>a
  DEF CreateBegins, Begins
<1>3. ASSUME NEW p \in Requests, NEW s \in Sessions, ReadForReschedule(p, s)
      PROVE  Recorded'
  BY <1>3, <1>a
  DEF ReadForReschedule, Reads, Begins, MayReschedule
<1>4. ASSUME NEW p \in Requests, NEW s \in Sessions, ReadForStart(p, s)
      PROVE  Recorded'
  BY <1>4, <1>a
  DEF ReadForStart, Reads, Begins, MayStart
<1>5. ASSUME NEW p \in Requests, NEW s \in Sessions, ReadForCancel(p, s)
      PROVE  Recorded'
  BY <1>5, <1>a
  DEF ReadForCancel, Reads, Begins, MayCancel
<1>6. ASSUME NEW p \in Requests, NEW s \in Sessions, ReadForComplete(p, s)
      PROVE  Recorded'
  BY <1>6, <1>a
  DEF ReadForComplete, Reads, Begins, MayComplete, Active
<1>7. ASSUME NEW p \in Requests, NEW s \in Sessions, Resolve(p, s)
      PROVE  Recorded'
  BY <1>7, <1>a
  DEF Resolve, Reads, Begins
<1>8. ASSUME NEW p \in Requests, NEW s \in Sessions, ReadForRemind(p, s)
      PROVE  Recorded'
  BY <1>8, <1>a
  DEF ReadForRemind, Reads, Begins
<1>39. ASSUME NEW p \in Requests, NEW s \in Sessions, ReadForReviewPack(p, s)
      PROVE  Recorded'
  BY <1>39, <1>a
  DEF ReadForReviewPack, Reads, Begins
<1>9. ASSUME NEW p \in Requests, CheckStage(p)
      PROVE  Recorded'
  BY <1>9, <1>a
  DEF CheckStage, Ends, Goes
<1>10. ASSUME NEW p \in Requests, CheckActive(p)
      PROVE  Recorded'
  BY <1>10, <1>a
  DEF CheckActive, Ends, Goes
<1>11. ASSUME NEW p \in Requests, CreateSession(p)
      PROVE  Recorded'
  BY <1>11, <1>a
  DEF CreateSession, Moves, Status, Invitation
<1>12. ASSUME NEW p \in Requests, MoveRead(p)
      PROVE  Recorded'
  BY <1>12, <1>a
  DEF MoveRead, AfterMove, Ends, Goes
<1>13. ASSUME NEW p \in Requests, MoveWrite(p)
      PROVE  Recorded'
  BY <1>13, <1>a
  DEF MoveWrite, AfterMove, Ends, Goes
<1>14. ASSUME NEW p \in Requests, Reschedule(p)
      PROVE  Recorded'
  BY <1>14, <1>a
  DEF Reschedule, Moves, Status, Invitation
<1>15. ASSUME NEW p \in Requests, Start(p)
      PROVE  Recorded'
  BY <1>15, <1>a
  DEF Start, Ends, Status, Invitation
<1>16. ASSUME NEW p \in Requests, Cancel(p)
      PROVE  Recorded'
  BY <1>16, <1>a
  DEF Cancel, Goes, Status, Invitation
<1>17. ASSUME NEW p \in Requests, RollbackStage(p)
      PROVE  Recorded'
  BY <1>17, <1>a
  DEF RollbackStage, Ends, Goes, Moves
<1>18. ASSUME NEW p \in Requests, RollbackActive(p)
      PROVE  Recorded'
  BY <1>18, <1>a
  DEF RollbackActive, Ends, Goes, Moves
<1>19. ASSUME NEW p \in Requests, Complete(p)
      PROVE  Recorded'
  BY <1>19, <1>a
  DEF Complete, Moves, Status, Invitation
<1>20. ASSUME NEW p \in Requests, AutomationRead(p)
      PROVE  Recorded'
  BY <1>20, <1>a
  DEF AutomationRead, Ends, Goes
<1>21. ASSUME NEW p \in Requests, AutomationOff(p)
      PROVE  Recorded'
  BY <1>21, <1>a
  DEF AutomationOff, Ends
<1>22. ASSUME NEW p \in Requests, RequestReviewPack(p)
      PROVE  Recorded'
  BY <1>22, <1>a
  DEF RequestReviewPack, Ends
<1>23. ASSUME NEW p \in Requests, ExpireOnVisit(p)
      PROVE  Recorded'
  BY <1>23, <1>a
  DEF ExpireOnVisit, Expires, MayExpire, Goes, Status
<1>24. ASSUME NEW p \in Requests, Refresh(p)
      PROVE  Recorded'
  BY <1>24, <1>a
  DEF Refresh, Ends
<1>25. ASSUME NEW p \in Requests, OpenPublic(p)
      PROVE  Recorded'
  BY <1>25, <1>a
  DEF OpenPublic, Ends, Goes, Status, Invitation
<1>26. ASSUME NEW p \in Requests, ReadForPublicComplete(p)
      PROVE  Recorded'
  BY <1>26, <1>a
  DEF ReadForPublicComplete, Ends, MayComplete, Active
<1>27. ASSUME NEW p \in Requests, FailPublic(p)
      PROVE  Recorded'
  BY <1>27, <1>a
  DEF FailPublic, Ends, Status, Invitation
<1>28. ASSUME NEW p \in Requests, RemindManually(p)
      PROVE  Recorded'
  <2>1. /\ UNCHANGED <<sending, reminders>>
        /\ \A s \in Sessions : reminded[s] \subseteq reminded'[s]
    BY <1>28, <1>0 DEF RemindManually, ReminderTypes
  <2> QED BY <2>1 DEF Recorded
<1>29. ASSUME NEW p \in Requests, RequestFails(p)
      PROVE  Recorded'
  BY <1>29, <1>a
  DEF RequestFails, Fault
<1>30. ASSUME NEW m \in Monitors, Tick(m)
      PROVE  Recorded'
  BY <1>30, <1>a
  DEF Tick
<1>31. ASSUME NEW m \in Monitors, TickFails(m)
      PROVE  Recorded'
  <2>1. /\ UNCHANGED <<reminded, reminders>>
        /\ \A k \in Monitors : sending'[k] \subseteq sending[k]
    BY <1>31, <1>0 DEF TickFails, ReminderTypes
  <2> QED BY <2>1 DEF Recorded
<1>32. ASSUME NEW m \in Monitors, NEW s \in Sessions, ExpireInvitation(m, s)
      PROVE  Recorded'
  BY <1>32, <1>a
  DEF ExpireInvitation, Done, Expires, MayExpire, Status
<1>33. ASSUME NEW m \in Monitors, NEW s \in Sessions, NEW n \in Reminders,
             RecordReminder(m, s, n)
      PROVE  Recorded'
  <2>1. CASE ~MayRemind(s, n)
    BY <1>33, <2>1, <1>a DEF RecordReminder
  <2>2. CASE MayRemind(s, n)
    <3>1. /\ UNCHANGED reminders
          /\ n \notin reminded[s]
          /\ reminded'[s] = reminded[s] \union {n}
          /\ \A t \in Sessions \ {s} : reminded'[t] = reminded[t]
          /\ sending'[m] = {<<s, n>>}
          /\ \A k \in Monitors \ {m} : sending'[k] = sending[k]
      BY <1>33, <2>2, <1>0 DEF RecordReminder, MayRemind, ReminderTypes
    <3> QED BY <3>1 DEF Recorded
  <2> QED BY <2>1, <2>2
<1>34. ASSUME NEW m \in Monitors, NEW s \in Sessions, NEW n \in Reminders,
             AppendReminder(m, s, n)
      PROVE  Recorded'
  <2>1. /\ UNCHANGED reminded
        /\ <<s, n>> \in sending[m]
        /\ sending'[m] = {}
        /\ \A k \in Monitors \ {m} : sending'[k] = sending[k]
        /\ reminders'[s][n] = reminders[s][n] + 1
        /\ \A t \in Sessions, i \in Reminders :
             <<t, i>> # <<s, n>> => reminders'[t][i] = reminders[t][i]
    BY <1>34, <1>0 DEF AppendReminder, ReminderTypes
  <2> QED BY <2>1 DEF Recorded
<1>35. ASSUME NEW s \in Sessions, ExpiryNears(s)
      PROVE  Recorded'
  BY <1>35, <1>a
  DEF ExpiryNears
<1>36. ASSUME NEW s \in Sessions, ReminderDue(s)
      PROVE  Recorded'
  BY <1>36, <1>a
  DEF ReminderDue
<1>37. ASSUME NEW s \in Sessions, CandidateSilent(s)
      PROVE  Recorded'
  BY <1>37, <1>a
  DEF CandidateSilent
<1>38. CASE UNCHANGED vars
  BY <1>38, <1>a DEF vars, countVars, requestVars
<1> QED
  BY <1>1, <1>2, <1>3, <1>4, <1>5, <1>6, <1>7, <1>8, <1>9, <1>10, <1>11,
     <1>12, <1>13, <1>14, <1>15, <1>16, <1>17, <1>18, <1>19, <1>20, <1>21,
     <1>22, <1>23, <1>24, <1>25, <1>26, <1>27, <1>28, <1>29, <1>30, <1>31,
     <1>32, <1>33, <1>34, <1>35, <1>36, <1>37, <1>38, <1>39
     DEF Next, Arrive, Proceed, Monitor, Clock

(* RemindedOnce: whatever the monitors, the requests and the failures do,  *)
(* each automatic reminder of a session is sent at most once.              *)
THEOREM Reminding == Spec => []RemindedOnce
<1> HIDE DEF Reminders
<1>1. Recorded => RemindedOnce
  <2> SUFFICES ASSUME Recorded, NEW s \in Sessions, NEW n \in Reminders
               PROVE  reminders[s][n] <= 1
    BY DEF RemindedOnce
  <2>1. reminders[s][n] = 0 \/ reminders[s][n] = 1
    BY DEF Recorded
  <2> QED BY <2>1
<1> QED BY <1>1, InitRecorded, StepRecorded, TypeCorrect, PTL DEF Spec

----------------------------------------------------------------------------
(* InterviewSession implements SessionLifecycle when no two operations      *)
(* overlap.                                                                 *)

HIDE DEF AllKinds, Statuses, Invitations, Stages, Reminders, Points

(* Requests and ticks one after the other: a request at work is the only   *)
(* one, and no tick has anything left to do.                               *)
Alone ==
  \A p \in Requests :
    pc[p] # "idle" =>
      /\ \A q \in Requests : pc[q] # "idle" => q = p
      /\ \A m \in Monitors : todo[m] = {} /\ sending[m] = {}

(* A request between the completion of its session and the review pack.    *)
Reviewing(p) ==
  \/ pc[p] = "automate" \/ (pc[p] = "pack" /\ op[p] # "reviewPack")
  \/ pc[p] \in {"move", "moveWrite"} /\ op[p] \in {"complete", "publicComplete"}

(* Of the request at work: what it read is still so when it writes, the    *)
(* link of a session not attended has not admitted it, and the pack it will*)
(* ask for has not been asked for.                                         *)
Local(p) ==
  /\ pc[p] \in BlindPoints => seen[p] = status[sess[p]]
  /\ pc[p] = "abandon" => seen[p] # "NO_SHOW"
  /\ pc[p] = "reschedule" => op[p] = "reschedule"
  /\ Creating(p) => op[p] \in {"invite", "schedule"}
  /\ pc[p] \in {"cancel", "rollback", "rollbackStage", "rollbackActive"} =>
       op[p] = "cancel"
  /\ Reviewing(p) => status[sess[p]] = "COMPLETED" /\ packs[sess[p]] = 0
  /\ pc[p] = "pack" => status[sess[p]] = "COMPLETED"

(* Only an invitation is closed as not attended; one pack at most by the   *)
(* completion, and for a completed session.                                *)
Rows ==
  \A s \in Sessions :
    /\ status[s] = "NO_SHOW" => s \in Invites /\ invitation[s] = "EXPIRED"
    /\ packs[s] = 0 \/ (packs[s] = 1 /\ status[s] = "COMPLETED")

Sequential == Alone /\ Rows /\ \A p \in Requests : Local(p)

SequentialTypes ==
  /\ status \in [Sessions -> Statuses]
  /\ invitation \in [Sessions -> Invitations]
  /\ packs \in [Sessions -> Nat]
  /\ pc \in [Requests -> Points]
  /\ op \in [Requests -> AllKinds \union {"none"}]
  /\ sess \in [Requests -> Sessions \union {NoSession}]
  /\ seen \in [Requests -> Statuses]
  /\ todo \in [Monitors -> SUBSET (Invites \X {"expire", "remind1", "remind2"})]
  /\ sending \in [Monitors -> SUBSET (Invites \X Reminders)]
  /\ \A p \in Requests :
       pc[p] \notin {"idle", "moveWrite"} => sess[p] \in Sessions
  /\ WellFormed

(* Nobody but request p is at work, before the step and after it.          *)
Turn(p) ==
  /\ \A q \in Requests \ {p} : pc[q] = "idle" /\ pc'[q] = "idle"
  /\ \A m \in Monitors : /\ todo[m] = {} /\ todo'[m] = {}
                         /\ sending[m] = {} /\ sending'[m] = {}

(* With at most one at a time, a request or a tick begins when all is idle.*)
LEMMA NobodyBusy ==
  ASSUME Overlap = 1, Cardinality(Busy) < Overlap
  PROVE  /\ \A p \in Requests : pc[p] = "idle"
         /\ \A m \in Monitors : todo[m] = {} /\ sending[m] = {}
<1>1. IsFiniteSet(Busy)
  <2>1. IsFiniteSet(Requests \union Monitors)
    BY InterviewAssumption, FS_Union
  <2>2. Busy \subseteq Requests \union Monitors
    BY DEF Busy
  <2> QED BY <2>1, <2>2, FS_Subset
<1>2. Cardinality(Busy) = 0
  BY <1>1, FS_CardinalityType
<1>3. Busy = {}
  BY <1>1, <1>2, FS_EmptySet
<1> QED BY <1>3 DEF Busy

LEMMA TurnTaken ==
  ASSUME NEW p \in Requests, Turn(p), Local(p)', Rows' PROVE Sequential'
BY DEF Turn, Local, Sequential, Alone, Reviewing, Creating, BlindPoints

LEMMA AllIdle ==
  ASSUME \A p \in Requests : pc[p] = "idle", pc' = pc, Rows' PROVE Sequential'
BY DEF Local, Sequential, Alone, Reviewing, Creating, BlindPoints

(* A status written by id, but for a completed session, and an expiry.     *)
LEMMA RowWritten ==
  ASSUME SequentialTypes, Rows, NEW x \in Sessions, status[x] # "COMPLETED",
         status'[x] # "NO_SHOW", UNCHANGED packs,
         \A s \in Sessions \ {x} : /\ status'[s] = status[s]
                                   /\ invitation'[s] = invitation[s]
  PROVE  Rows'
BY DEF Rows, SequentialTypes

LEMMA RowExpired ==
  ASSUME SequentialTypes, Rows, NEW x \in Sessions, x \in Invites, Expires(x),
         UNCHANGED packs
  PROVE  Rows'
<1>1. CASE MayExpire(x)
  BY <1>1 DEF Rows, SequentialTypes, Expires, MayExpire, Status
<1>2. CASE ~MayExpire(x)
  BY <1>2 DEF Rows, Expires
<1> QED BY <1>1, <1>2

(* The link of a session not attended is refused.                          *)
LEMMA Admittance ==
  ASSUME NEW k, NEW s \in Sessions, Rows
  PROVE  /\ Admitted(k, s) \in {"idle", "timeout", "abandon", "open"}
         /\ Admitted(k, s) = "abandon" => status[s] # "NO_SHOW"
<1>1. Admitted(k, s) = "abandon" => k = "abandon" /\ ~Refused(k, s)
  BY AdmittedPoints
<1>2. k = "abandon" /\ status[s] = "NO_SHOW" => Refused(k, s)
  BY DEF Rows, Refused, LinkExpired
<1> QED BY <1>1, <1>2, AdmittedPoints

LEMMA InitSequential == Init => Sequential
BY DEF Init, Sequential, Alone, Local, Rows, Reviewing, Creating, BlindPoints

LEMMA StepSequential ==
  ASSUME Overlap = 1
  PROVE  TypeOK /\ WellFormed /\ Held /\ Sequential /\ [Next]_vars =>
           Sequential'
<1> SUFFICES ASSUME TypeOK, WellFormed, Held, Sequential, [Next]_vars
             PROVE  Sequential'
  OBVIOUS
<1> USE InterviewAssumption
<1>0. /\ SequentialTypes /\ Rows
      /\ \A p \in Requests : Local(p)
  BY DEF TypeOK, SequentialTypes, Sequential
<1>b. ASSUME Cardinality(Busy) < Overlap
      PROVE  /\ \A p \in Requests : pc[p] = "idle"
             /\ \A m \in Monitors : todo[m] = {} /\ sending[m] = {}
  BY <1>b, NobodyBusy
<1>c. ASSUME NEW p \in Requests, pc[p] # "idle"
      PROVE  /\ \A q \in Requests \ {p} : pc[q] = "idle"
             /\ \A m \in Monitors : todo[m] = {} /\ sending[m] = {}
  BY <1>c DEF Sequential, Alone
<1>d. ASSUME UNCHANGED <<status, invitation, packs>> PROVE Rows'
  BY <1>0, <1>d DEF Rows
<1>e. ASSUME NEW m \in Monitors, todo[m] # {} \/ sending[m] # {}
      PROVE  \A p \in Requests : pc[p] = "idle"
  BY <1>e DEF Sequential, Alone
<1>f. ASSUME UNCHANGED <<status, invitation, packs, requestVars, monitorVars>>
      PROVE  Sequential'
  BY <1>f DEF Sequential, Alone, Rows, Local, Reviewing, Creating
<1> HIDE DEF Sequential, Rows
<1>1. ASSUME NEW p \in Requests, StageTransition(p)
      PROVE  Sequential'
  <2>1. Turn(p)
    BY <1>1, <1>0, <1>b DEF StageTransition, Begins, Turn, SequentialTypes
  <2>2. Local(p)'
    BY <1>1, <1>0
    DEF StageTransition, Begins, Local, Reviewing, Creating, BlindPoints,
        SequentialTypes
  <2>3. Rows'
    BY <1>1, <1>d DEF StageTransition
  <2> QED BY <2>1, <2>2, <2>3, TurnTaken
<1>2. ASSUME NEW p \in Requests, NEW s \in Sessions, CreateBegins(p, s)
      PROVE  Sequential'
  <2>1. Turn(p)
    BY <1>2, <1>0, <1>b DEF CreateBegins, Begins, Turn, SequentialTypes
  <2>2. Local(p)'
    BY <1>2, <1>0
    DEF CreateBegins, Begins, Local, Reviewing, Creating, BlindPoints,
        SequentialTypes
  <2>3. Rows'
    BY <1>2, <1>d DEF CreateBegins
  <2> QED BY <2>1, <2>2, <2>3, TurnTaken
<1>3. ASSUME NEW p \in Requests, NEW s \in Sessions, ReadForReschedule(p, s)
      PROVE  Sequential'
  <2>1. Turn(p)
    BY <1>3, <1>0, <1>b
    DEF ReadForReschedule, Reads, Begins, Turn, SequentialTypes
  <2>2. Local(p)'
    BY <1>3, <1>0
    DEF ReadForReschedule, Reads, Begins, MayReschedule, Local, Reviewing,
        Creating, BlindPoints, SequentialTypes
  <2>3. Rows'
    BY <1>3, <1>d DEF ReadForReschedule
  <2> QED BY <2>1, <2>2, <2>3, TurnTaken
<1>4. ASSUME NEW p \in Requests, NEW s \in Sessions, ReadForStart(p, s)
      PROVE  Sequential'
  <2>1. Turn(p)
    BY <1>4, <1>0, <1>b DEF ReadForStart, Reads, Begins, Turn, SequentialTypes
  <2>2. Local(p)'
    BY <1>4, <1>0
    DEF ReadForStart, Reads, Begins, MayStart, Local, Reviewing, Creating,
        BlindPoints, SequentialTypes
  <2>3. Rows'
    BY <1>4, <1>d DEF ReadForStart
  <2> QED BY <2>1, <2>2, <2>3, TurnTaken
<1>5. ASSUME NEW p \in Requests, NEW s \in Sessions, ReadForCancel(p, s)
      PROVE  Sequential'
  <2>1. Turn(p)
    BY <1>5, <1>0, <1>b DEF ReadForCancel, Reads, Begins, Turn, SequentialTypes
  <2>2. Local(p)'
    BY <1>5, <1>0
    DEF ReadForCancel, Reads, Begins, MayCancel, Local, Reviewing,
        Creating, BlindPoints, SequentialTypes
  <2>3. Rows'
    BY <1>5, <1>d DEF ReadForCancel
  <2> QED BY <2>1, <2>2, <2>3, TurnTaken
<1>6. ASSUME NEW p \in Requests, NEW s \in Sessions, ReadForComplete(p, s)
      PROVE  Sequential'
  <2>1. Turn(p)
    BY <1>6, <1>0, <1>b
    DEF ReadForComplete, Reads, Begins, Turn, SequentialTypes
  <2>2. Local(p)'
    BY <1>6, <1>0
    DEF ReadForComplete, Reads, Begins, MayComplete, Active, Local,
        Reviewing, Creating, BlindPoints, SequentialTypes
  <2>3. Rows'
    BY <1>6, <1>d DEF ReadForComplete
  <2> QED BY <2>1, <2>2, <2>3, TurnTaken
<1>7. ASSUME NEW p \in Requests, NEW s \in Sessions, Resolve(p, s)
      PROVE  Sequential'
  <2>1. Turn(p)
    BY <1>7, <1>0, <1>b DEF Resolve, Reads, Begins, Turn, SequentialTypes
  <2>2. Local(p)'
    BY <1>7, <1>0, Admittance
    DEF Resolve, Reads, Begins, Local, Reviewing, Creating, BlindPoints,
        SequentialTypes
  <2>3. Rows'
    BY <1>7, <1>d DEF Resolve
  <2> QED BY <2>1, <2>2, <2>3, TurnTaken
<1>8. ASSUME NEW p \in Requests, NEW s \in Sessions, ReadForRemind(p, s)
      PROVE  Sequential'
  <2>1. Turn(p)
    BY <1>8, <1>0, <1>b DEF ReadForRemind, Reads, Begins, Turn, SequentialTypes
  <2>2. Local(p)'
    BY <1>8, <1>0
    DEF ReadForRemind, Reads, Begins, Local, Reviewing, Creating,
        BlindPoints, SequentialTypes
  <2>3. Rows'
    BY <1>8, <1>d DEF ReadForRemind
  <2> QED BY <2>1, <2>2, <2>3, TurnTaken
<1>39. ASSUME NEW p \in Requests, NEW s \in Sessions, ReadForReviewPack(p, s)
      PROVE  Sequential'
  <2>1. Turn(p)
    BY <1>39, <1>0, <1>b DEF ReadForReviewPack, Reads, Begins, Turn, SequentialTypes
  <2>2. Local(p)'
    BY <1>39, <1>0
    DEF ReadForReviewPack, Reads, Begins, Local, Reviewing, Creating,
        BlindPoints, SequentialTypes
  <2>3. Rows'
    BY <1>39, <1>d DEF ReadForReviewPack
  <2> QED BY <2>1, <2>2, <2>3, TurnTaken
<1>9. ASSUME NEW p \in Requests, CheckStage(p)
      PROVE  Sequential'
  <2>1. Turn(p)
    BY <1>9, <1>0, <1>c DEF CheckStage, Ends, Goes, Turn, SequentialTypes
  <2>2. Local(p)'
    BY <1>9, <1>0
    DEF CheckStage, Ends, Goes, Local, Reviewing, Creating, BlindPoints,
        SequentialTypes
  <2>3. Rows'
    BY <1>9, <1>d DEF CheckStage
  <2> QED BY <2>1, <2>2, <2>3, TurnTaken
<1>10. ASSUME NEW p \in Requests, CheckActive(p)
      PROVE  Sequential'
  <2>1. Turn(p)
    BY <1>10, <1>0, <1>c DEF CheckActive, Ends, Goes, Turn, SequentialTypes
  <2>2. Local(p)'
    BY <1>10, <1>0
    DEF CheckActive, Ends, Goes, Local, Reviewing, Creating, BlindPoints,
        SequentialTypes
  <2>3. Rows'
    BY <1>10, <1>d DEF CheckActive
  <2> QED BY <2>1, <2>2, <2>3, TurnTaken
<1>11. ASSUME NEW p \in Requests, CreateSession(p)
      PROVE  Sequential'
  <2>1. Turn(p)
    BY <1>11, <1>0, <1>c DEF CreateSession, Moves, Turn, SequentialTypes
  <2>2. Local(p)'
    BY <1>11, <1>0
    DEF CreateSession, Moves, Status, Invitation, Local, Reviewing,
        Creating, BlindPoints, SequentialTypes
  <2>0. sess[p] \in Sessions /\ status[sess[p]] # "COMPLETED"
    BY <1>11, <1>0
    DEF CreateSession, SequentialTypes, Local, BlindPoints, Held, Creating
  <2>3. Rows'
    BY <1>11, <1>0, <2>0, RowWritten
    DEF CreateSession, Status, Invitation, SequentialTypes
  <2> QED BY <2>1, <2>2, <2>3, TurnTaken
<1>12. ASSUME NEW p \in Requests, MoveRead(p)
      PROVE  Sequential'
  <2>1. Turn(p)
    BY <1>12, <1>0, <1>c
    DEF MoveRead, AfterMove, Ends, Goes, Turn, SequentialTypes
  <2>2. Local(p)'
    BY <1>12, <1>0
    DEF MoveRead, AfterMove, Ends, Goes, Local, Reviewing, Creating,
        BlindPoints, SequentialTypes
  <2>3. Rows'
    BY <1>12, <1>d DEF MoveRead
  <2> QED BY <2>1, <2>2, <2>3, TurnTaken
<1>13. ASSUME NEW p \in Requests, MoveWrite(p)
      PROVE  Sequential'
  <2>1. Turn(p)
    BY <1>13, <1>0, <1>c
    DEF MoveWrite, AfterMove, Ends, Goes, Turn, SequentialTypes
  <2>2. Local(p)'
    BY <1>13, <1>0
    DEF MoveWrite, AfterMove, Ends, Goes, Local, Reviewing, Creating,
        BlindPoints, SequentialTypes
  <2>3. Rows'
    BY <1>13, <1>d DEF MoveWrite
  <2> QED BY <2>1, <2>2, <2>3, TurnTaken
<1>14. ASSUME NEW p \in Requests, Reschedule(p)
      PROVE  Sequential'
  <2>1. Turn(p)
    BY <1>14, <1>0, <1>c DEF Reschedule, Moves, Turn, SequentialTypes
  <2>2. Local(p)'
    BY <1>14, <1>0
    DEF Reschedule, Moves, Status, Invitation, Local, Reviewing, Creating,
        BlindPoints, SequentialTypes
  <2>0. sess[p] \in Sessions /\ status[sess[p]] # "COMPLETED"
    BY <1>14, <1>0
    DEF Reschedule, SequentialTypes, Local, BlindPoints, Held, Creating
  <2>3. Rows'
    BY <1>14, <1>0, <2>0, RowWritten
    DEF Reschedule, Status, Invitation, SequentialTypes
  <2> QED BY <2>1, <2>2, <2>3, TurnTaken
<1>15. ASSUME NEW p \in Requests, Start(p)
      PROVE  Sequential'
  <2>1. Turn(p)
    BY <1>15, <1>0, <1>c DEF Start, Ends, Turn, SequentialTypes
  <2>2. Local(p)'
    BY <1>15, <1>0
    DEF Start, Ends, Status, Invitation, Local, Reviewing, Creating,
        BlindPoints, SequentialTypes
  <2>0. sess[p] \in Sessions /\ status[sess[p]] # "COMPLETED"
    BY <1>15, <1>0 DEF Start, SequentialTypes, Local, BlindPoints, Held, Creating
  <2>3. Rows'
    BY <1>15, <1>0, <2>0, RowWritten
    DEF Start, Status, Invitation, SequentialTypes
  <2> QED BY <2>1, <2>2, <2>3, TurnTaken
<1>16. ASSUME NEW p \in Requests, Cancel(p)
      PROVE  Sequential'
  <2>1. Turn(p)
    BY <1>16, <1>0, <1>c DEF Cancel, Goes, Turn, SequentialTypes
  <2>2. Local(p)'
    BY <1>16, <1>0
    DEF Cancel, Goes, Status, Invitation, Local, Reviewing, Creating,
        BlindPoints, SequentialTypes
  <2>0. sess[p] \in Sessions /\ status[sess[p]] # "COMPLETED"
    BY <1>16, <1>0
    DEF Cancel, SequentialTypes, Local, BlindPoints, Held, Creating
  <2>3. Rows'
    BY <1>16, <1>0, <2>0, RowWritten
    DEF Cancel, Status, Invitation, SequentialTypes
  <2> QED BY <2>1, <2>2, <2>3, TurnTaken
<1>17. ASSUME NEW p \in Requests, RollbackStage(p)
      PROVE  Sequential'
  <2>1. Turn(p)
    BY <1>17, <1>0, <1>c
    DEF RollbackStage, Ends, Goes, Moves, Turn, SequentialTypes
  <2>2. Local(p)'
    BY <1>17, <1>0
    DEF RollbackStage, Ends, Goes, Moves, Local, Reviewing, Creating,
        BlindPoints, SequentialTypes
  <2>3. Rows'
    BY <1>17, <1>d DEF RollbackStage
  <2> QED BY <2>1, <2>2, <2>3, TurnTaken
<1>18. ASSUME NEW p \in Requests, RollbackActive(p)
      PROVE  Sequential'
  <2>1. Turn(p)
    BY <1>18, <1>0, <1>c
    DEF RollbackActive, Ends, Goes, Moves, Turn, SequentialTypes
  <2>2. Local(p)'
    BY <1>18, <1>0
    DEF RollbackActive, Ends, Goes, Moves, Local, Reviewing, Creating,
        BlindPoints, SequentialTypes
  <2>3. Rows'
    BY <1>18, <1>d DEF RollbackActive
  <2> QED BY <2>1, <2>2, <2>3, TurnTaken
<1>19. ASSUME NEW p \in Requests, Complete(p)
      PROVE  Sequential'
  <2>1. Turn(p)
    BY <1>19, <1>0, <1>c DEF Complete, Moves, Turn, SequentialTypes
  <2>0. sess[p] \in Sessions /\ status[sess[p]] # "COMPLETED"
    BY <1>19, <1>0 DEF Complete, SequentialTypes, Local, BlindPoints, Held
  <2>2. Local(p)'
    BY <1>19, <1>0, <2>0
    DEF Complete, Moves, Status, Invitation, Local, Reviewing, Creating,
        BlindPoints, Rows, SequentialTypes
  <2>3. Rows'
    BY <1>19, <1>0, <2>0, RowWritten
    DEF Complete, Status, Invitation, SequentialTypes
  <2> QED BY <2>1, <2>2, <2>3, TurnTaken
<1>20. ASSUME NEW p \in Requests, AutomationRead(p)
      PROVE  Sequential'
  <2>1. Turn(p)
    BY <1>20, <1>0, <1>c DEF AutomationRead, Ends, Goes, Turn, SequentialTypes
  <2>2. Local(p)'
    BY <1>20, <1>0
    DEF AutomationRead, Ends, Goes, Local, Reviewing, Creating,
        BlindPoints, SequentialTypes
  <2>3. Rows'
    BY <1>20, <1>d DEF AutomationRead
  <2> QED BY <2>1, <2>2, <2>3, TurnTaken
<1>21. ASSUME NEW p \in Requests, AutomationOff(p)
      PROVE  Sequential'
  <2>1. Turn(p)
    BY <1>21, <1>0, <1>c DEF AutomationOff, Ends, Turn, SequentialTypes
  <2>2. Local(p)'
    BY <1>21, <1>0
    DEF AutomationOff, Ends, Local, Reviewing, Creating, BlindPoints,
        SequentialTypes
  <2>3. Rows'
    BY <1>21, <1>d DEF AutomationOff
  <2> QED BY <2>1, <2>2, <2>3, TurnTaken
<1>22. ASSUME NEW p \in Requests, RequestReviewPack(p)
      PROVE  Sequential'
  <2>1. Turn(p)
    BY <1>22, <1>0, <1>c DEF RequestReviewPack, Ends, Turn, SequentialTypes
  <2>2. Local(p)'
    BY <1>22, <1>0
    DEF RequestReviewPack, Ends, Local, Reviewing, Creating, BlindPoints,
        SequentialTypes
  <2>3. Rows'
    BY <1>22, <1>0
    DEF RequestReviewPack, Local, Reviewing, Creating, BlindPoints, Rows,
        SequentialTypes
  <2> QED BY <2>1, <2>2, <2>3, TurnTaken
<1>23. ASSUME NEW p \in Requests, ExpireOnVisit(p)
      PROVE  Sequential'
  <2>1. Turn(p)
    BY <1>23, <1>0, <1>c DEF ExpireOnVisit, Goes, Turn, SequentialTypes
  <2>2. Local(p)'
    BY <1>23, <1>0
    DEF ExpireOnVisit, Expires, MayExpire, Goes, Status, Local, Reviewing,
        Creating, BlindPoints, SequentialTypes
  <2>3. Rows'
    BY <1>23, <1>0, RowExpired DEF ExpireOnVisit, SequentialTypes, WellFormed
  <2> QED BY <2>1, <2>2, <2>3, TurnTaken
<1>24. ASSUME NEW p \in Requests, Refresh(p)
      PROVE  Sequential'
  <2>1. Turn(p)
    BY <1>24, <1>0, <1>c DEF Refresh, Ends, Turn, SequentialTypes
  <2>2. Local(p)'
    BY <1>24, <1>0, Admittance
    DEF Refresh, Ends, Local, Reviewing, Creating, BlindPoints,
        SequentialTypes, Held
  <2>3. Rows'
    BY <1>24, <1>d DEF Refresh
  <2> QED BY <2>1, <2>2, <2>3, TurnTaken
<1>25. ASSUME NEW p \in Requests, OpenPublic(p)
      PROVE  Sequential'
  <2>1. Turn(p)
    BY <1>25, <1>0, <1>c DEF OpenPublic, Ends, Goes, Turn, SequentialTypes
  <2>2. Local(p)'
    BY <1>25, <1>0
    DEF OpenPublic, Ends, Goes, Status, Invitation, Local, Reviewing,
        Creating, BlindPoints, SequentialTypes
  <2>0. sess[p] \in Sessions /\ status[sess[p]] # "COMPLETED"
    BY <1>25, <1>0
    DEF OpenPublic, SequentialTypes, Local, BlindPoints, Held, Creating
  <2>4. /\ status' = [status EXCEPT ![sess[p]] =
                           IF seen[p] = "SCHEDULED" THEN "RUNNING" ELSE @]
        /\ seen[p] = status[sess[p]] /\ seen[p] \in Active
    BY <1>25, <1>0 DEF OpenPublic, Local, BlindPoints, Held
  <2>3. Rows'
    BY <1>25, <1>0, <2>0, <2>4, RowWritten
    DEF OpenPublic, Invitation, SequentialTypes
  <2> QED BY <2>1, <2>2, <2>3, TurnTaken
<1>26. ASSUME NEW p \in Requests, ReadForPublicComplete(p)
      PROVE  Sequential'
  <2>1. Turn(p)
    BY <1>26, <1>0, <1>c DEF ReadForPublicComplete, Ends, Turn, SequentialTypes
  <2>2. Local(p)'
    BY <1>26, <1>0
    DEF ReadForPublicComplete, Ends, MayComplete, Active, Local,
        Reviewing, Creating, BlindPoints, SequentialTypes
  <2>3. Rows'
    BY <1>26, <1>d DEF ReadForPublicComplete
  <2> QED BY <2>1, <2>2, <2>3, TurnTaken
<1>27. ASSUME NEW p \in Requests, FailPublic(p)
      PROVE  Sequential'
  <2>1. Turn(p)
    BY <1>27, <1>0, <1>c DEF FailPublic, Ends, Turn, SequentialTypes
  <2>2. Local(p)'
    BY <1>27, <1>0
    DEF FailPublic, Ends, Status, Invitation, Local, Reviewing, Creating,
        BlindPoints, SequentialTypes
  <2>0. sess[p] \in Sessions /\ status[sess[p]] # "COMPLETED"
    BY <1>27, <1>0
    DEF FailPublic, SequentialTypes, Local, BlindPoints, Held, Creating
  <2>3. Rows'
    BY <1>27, <1>0, <2>0, RowWritten
    DEF FailPublic, Status, Invitation, SequentialTypes
  <2> QED BY <2>1, <2>2, <2>3, TurnTaken
<1>28. ASSUME NEW p \in Requests, RemindManually(p)
      PROVE  Sequential'
  <2>1. Turn(p)
    BY <1>28, <1>0, <1>c DEF RemindManually, Ends, Turn, SequentialTypes
  <2>2. Local(p)'
    BY <1>28, <1>0
    DEF RemindManually, Ends, Column, Local, Reviewing, Creating,
        BlindPoints, SequentialTypes
  <2>3. Rows'
    BY <1>28, <1>0
    DEF RemindManually, Column, Local, Reviewing, Creating, BlindPoints,
        Rows, SequentialTypes
  <2> QED BY <2>1, <2>2, <2>3, TurnTaken
<1>29. ASSUME NEW p \in Requests, RequestFails(p)
      PROVE  Sequential'
  <2>1. Turn(p)
    BY <1>29, <1>0, <1>c DEF RequestFails, Fault, Turn, SequentialTypes
  <2>2. Local(p)'
    BY <1>29, <1>0
    DEF RequestFails, Fault, Local, Reviewing, Creating, BlindPoints,
        SequentialTypes
  <2>3. Rows'
    BY <1>29, <1>d DEF RequestFails
  <2> QED BY <2>1, <2>2, <2>3, TurnTaken
<1>30. ASSUME NEW m \in Monitors, Tick(m)
      PROVE  Sequential'
  <2>1. \A p \in Requests : pc[p] = "idle"
    BY <1>30, <1>b DEF Tick
  <2>2. Rows'
    BY <1>30, <1>d DEF Tick
  <2> QED BY <1>30, <2>1, <2>2, AllIdle DEF Tick
<1>31. ASSUME NEW m \in Monitors, TickFails(m)
      PROVE  Sequential'
  <2>1. \A p \in Requests : pc[p] = "idle"
    BY <1>31, <1>e DEF TickFails
  <2>2. Rows'
    BY <1>31, <1>d DEF TickFails
  <2> QED BY <1>31, <2>1, <2>2, AllIdle DEF TickFails
<1>32. ASSUME NEW m \in Monitors, NEW s \in Sessions, ExpireInvitation(m, s)
      PROVE  Sequential'
  <2>1. \A p \in Requests : pc[p] = "idle"
    BY <1>32, <1>e DEF ExpireInvitation, Done
  <2>2. Rows'
    BY <1>32, <1>0, RowExpired DEF ExpireInvitation, Done, SequentialTypes
  <2> QED BY <1>32, <2>1, <2>2, AllIdle DEF ExpireInvitation
<1>33. ASSUME NEW m \in Monitors, NEW s \in Sessions, NEW n \in Reminders,
             RecordReminder(m, s, n)
      PROVE  Sequential'
  <2>1. \A p \in Requests : pc[p] = "idle"
    BY <1>33, <1>e DEF RecordReminder, Done
  <2>2. Rows'
    <3>1. status[s] = "SCHEDULED" \/ UNCHANGED invitation
      BY <1>33 DEF RecordReminder, MayRemind
    <3> QED BY <1>33, <1>0, <3>1 DEF RecordReminder, Rows, SequentialTypes
  <2> QED BY <1>33, <2>1, <2>2, AllIdle DEF RecordReminder
<1>34. ASSUME NEW m \in Monitors, NEW s \in Sessions, NEW n \in Reminders,
             AppendReminder(m, s, n)
      PROVE  Sequential'
  <2>1. \A p \in Requests : pc[p] = "idle"
    BY <1>34, <1>e DEF AppendReminder
  <2>2. Rows'
    BY <1>34, <1>d DEF AppendReminder
  <2> QED BY <1>34, <2>1, <2>2, AllIdle DEF AppendReminder
<1>35. ASSUME NEW s \in Sessions, ExpiryNears(s)
      PROVE  Sequential'
  BY <1>35, <1>f DEF ExpiryNears
<1>36. ASSUME NEW s \in Sessions, ReminderDue(s)
      PROVE  Sequential'
  BY <1>36, <1>f DEF ReminderDue
<1>37. ASSUME NEW s \in Sessions, CandidateSilent(s)
      PROVE  Sequential'
  BY <1>37, <1>f DEF CandidateSilent
<1>38. CASE UNCHANGED vars
  BY <1>38, <1>f DEF vars, countVars, requestVars
<1> QED
  BY <1>1, <1>2, <1>3, <1>4, <1>5, <1>6, <1>7, <1>8, <1>9, <1>10, <1>11,
     <1>12, <1>13, <1>14, <1>15, <1>16, <1>17, <1>18, <1>19, <1>20, <1>21,
     <1>22, <1>23, <1>24, <1>25, <1>26, <1>27, <1>28, <1>29, <1>30, <1>31,
     <1>32, <1>33, <1>34, <1>35, <1>36, <1>37, <1>38, <1>39
     DEF Next, Arrive, Proceed, Monitor, Clock

-----------------------------------------------------------------------------
(* Every step is a step of SessionLifecycle or leaves the sessions alone.  *)
LEMMA InitLifecycle == Init => Cycle!LInit
BY DEF Init, Cycle!LInit

LEMMA StepLifecycle ==
  TypeOK /\ WellFormed /\ Held /\ Sequential /\ [Next]_vars =>
    [Cycle!LNext]_(Cycle!lvars)
<1> SUFFICES ASSUME TypeOK, WellFormed, Held, Sequential, [Next]_vars
             PROVE  [Cycle!LNext]_(Cycle!lvars)
  OBVIOUS
<1> USE InterviewAssumption
<1>0. /\ SequentialTypes /\ Rows
      /\ \A p \in Requests : Local(p)
  BY DEF TypeOK, SequentialTypes, Sequential
<1>u. ASSUME UNCHANGED <<status, packs, requested>>
      PROVE  [Cycle!LNext]_(Cycle!lvars)
  BY <1>u DEF Cycle!lvars
<1>m. ASSUME NEW x \in Sessions, NEW t \in Statuses \ {"none"},
             Cycle!LMove(x, t)
      PROVE  Cycle!LNext
  BY <1>m DEF Cycle!LNext, Statuses
<1>x. ASSUME NEW x \in Sessions, UNCHANGED <<packs, requested>>, Expires(x)
      PROVE  [Cycle!LNext]_(Cycle!lvars)
  <2>1. CASE MayExpire(x)
    <3>1. Cycle!LMove(x, "NO_SHOW")
      BY <1>x, <2>1 DEF Expires, MayExpire, Status, Cycle!LMove, Cycle!Allowed
    <3> QED BY <3>1, <1>m DEF Statuses
  <2>2. CASE ~MayExpire(x)
    BY <1>x, <2>2, <1>u DEF Expires
  <2> QED BY <2>1, <2>2
<1>1. ASSUME NEW p \in Requests, StageTransition(p)
      PROVE  [Cycle!LNext]_(Cycle!lvars)
  BY <1>1, <1>u
  DEF StageTransition, Begins
<1>2. ASSUME NEW p \in Requests, NEW s \in Sessions, CreateBegins(p, s)
      PROVE  [Cycle!LNext]_(Cycle!lvars)
  BY <1>2, <1>u
  DEF CreateBegins, Begins
<1>3. ASSUME NEW p \in Requests, NEW s \in Sessions, ReadForReschedule(p, s)
      PROVE  [Cycle!LNext]_(Cycle!lvars)
  BY <1>3, <1>u
  DEF ReadForReschedule, Reads, Begins, MayReschedule
<1>4. ASSUME NEW p \in Requests, NEW s \in Sessions, ReadForStart(p, s)
      PROVE  [Cycle!LNext]_(Cycle!lvars)
  BY <1>4, <1>u
  DEF ReadForStart, Reads, Begins, MayStart
<1>5. ASSUME NEW p \in Requests, NEW s \in Sessions, ReadForCancel(p, s)
      PROVE  [Cycle!LNext]_(Cycle!lvars)
  BY <1>5, <1>u
  DEF ReadForCancel, Reads, Begins, MayCancel
<1>6. ASSUME NEW p \in Requests, NEW s \in Sessions, ReadForComplete(p, s)
      PROVE  [Cycle!LNext]_(Cycle!lvars)
  BY <1>6, <1>u
  DEF ReadForComplete, Reads, Begins, MayComplete, Active
<1>7. ASSUME NEW p \in Requests, NEW s \in Sessions, Resolve(p, s)
      PROVE  [Cycle!LNext]_(Cycle!lvars)
  BY <1>7, <1>u
  DEF Resolve, Reads, Begins
<1>8. ASSUME NEW p \in Requests, NEW s \in Sessions, ReadForRemind(p, s)
      PROVE  [Cycle!LNext]_(Cycle!lvars)
  BY <1>8, <1>u
  DEF ReadForRemind, Reads, Begins
<1>39. ASSUME NEW p \in Requests, NEW s \in Sessions, ReadForReviewPack(p, s)
      PROVE  [Cycle!LNext]_(Cycle!lvars)
  BY <1>39, <1>u
  DEF ReadForReviewPack, Reads, Begins
<1>9. ASSUME NEW p \in Requests, CheckStage(p)
      PROVE  [Cycle!LNext]_(Cycle!lvars)
  BY <1>9, <1>u
  DEF CheckStage, Ends, Goes
<1>10. ASSUME NEW p \in Requests, CheckActive(p)
      PROVE  [Cycle!LNext]_(Cycle!lvars)
  BY <1>10, <1>u
  DEF CheckActive, Ends, Goes
<1>11. ASSUME NEW p \in Requests, CreateSession(p)
      PROVE  [Cycle!LNext]_(Cycle!lvars)
  <2>1. sess[p] \in Sessions /\ <<status[sess[p]], "SCHEDULED">> \in Cycle!Allowed
    BY <1>11, <1>0
    DEF CreateSession, SequentialTypes, Local, BlindPoints, Held, Creating, Cycle!Allowed
  <2>2. Cycle!LMove(sess[p], "SCHEDULED")
    BY <1>11, <2>1 DEF CreateSession, Status, Cycle!LMove
  <2> QED BY <2>1, <2>2, <1>m DEF Statuses
<1>12. ASSUME NEW p \in Requests, MoveRead(p)
      PROVE  [Cycle!LNext]_(Cycle!lvars)
  BY <1>12, <1>u
  DEF MoveRead, AfterMove, Ends, Goes
<1>13. ASSUME NEW p \in Requests, MoveWrite(p)
      PROVE  [Cycle!LNext]_(Cycle!lvars)
  BY <1>13, <1>u
  DEF MoveWrite, AfterMove, Ends, Goes
<1>14. ASSUME NEW p \in Requests, Reschedule(p)
      PROVE  [Cycle!LNext]_(Cycle!lvars)
  <2>1. sess[p] \in Sessions /\ <<status[sess[p]], "SCHEDULED">> \in Cycle!Allowed
    BY <1>14, <1>0
    DEF Reschedule, SequentialTypes, Local, BlindPoints, Held, Creating, Cycle!Allowed
  <2>2. Cycle!LMove(sess[p], "SCHEDULED")
    BY <1>14, <2>1 DEF Reschedule, Status, Cycle!LMove
  <2> QED BY <2>1, <2>2, <1>m DEF Statuses
<1>15. ASSUME NEW p \in Requests, Start(p)
      PROVE  [Cycle!LNext]_(Cycle!lvars)
  <2>1. sess[p] \in Sessions /\ <<status[sess[p]], "RUNNING">> \in Cycle!Allowed
    BY <1>15, <1>0
    DEF Start, SequentialTypes, Local, BlindPoints, Held, Creating, Cycle!Allowed
  <2>2. Cycle!LMove(sess[p], "RUNNING")
    BY <1>15, <2>1 DEF Start, Status, Cycle!LMove
  <2> QED BY <2>1, <2>2, <1>m DEF Statuses
<1>16. ASSUME NEW p \in Requests, Cancel(p)
      PROVE  [Cycle!LNext]_(Cycle!lvars)
  <2>1. sess[p] \in Sessions /\ <<status[sess[p]], "CANCELLED">> \in Cycle!Allowed
    BY <1>16, <1>0
    DEF Cancel, SequentialTypes, Local, BlindPoints, Held, Creating, Cycle!Allowed
  <2>2. Cycle!LMove(sess[p], "CANCELLED")
    BY <1>16, <2>1 DEF Cancel, Status, Cycle!LMove
  <2> QED BY <2>1, <2>2, <1>m DEF Statuses
<1>17. ASSUME NEW p \in Requests, RollbackStage(p)
      PROVE  [Cycle!LNext]_(Cycle!lvars)
  BY <1>17, <1>u
  DEF RollbackStage, Ends, Goes, Moves
<1>18. ASSUME NEW p \in Requests, RollbackActive(p)
      PROVE  [Cycle!LNext]_(Cycle!lvars)
  BY <1>18, <1>u
  DEF RollbackActive, Ends, Goes, Moves
<1>19. ASSUME NEW p \in Requests, Complete(p)
      PROVE  [Cycle!LNext]_(Cycle!lvars)
  <2>1. sess[p] \in Sessions /\ <<status[sess[p]], "COMPLETED">> \in Cycle!Allowed
    BY <1>19, <1>0
    DEF Complete, SequentialTypes, Local, BlindPoints, Held, Creating, Cycle!Allowed
  <2>2. Cycle!LMove(sess[p], "COMPLETED")
    BY <1>19, <2>1 DEF Complete, Status, Cycle!LMove
  <2> QED BY <2>1, <2>2, <1>m DEF Statuses
<1>20. ASSUME NEW p \in Requests, AutomationRead(p)
      PROVE  [Cycle!LNext]_(Cycle!lvars)
  BY <1>20, <1>u
  DEF AutomationRead, Ends, Goes
<1>21. ASSUME NEW p \in Requests, AutomationOff(p)
      PROVE  [Cycle!LNext]_(Cycle!lvars)
  BY <1>21, <1>u
  DEF AutomationOff, Ends
<1>22. ASSUME NEW p \in Requests, RequestReviewPack(p)
      PROVE  [Cycle!LNext]_(Cycle!lvars)
  <2>1. sess[p] \in Sessions /\ status[sess[p]] = "COMPLETED" /\ UNCHANGED status
    BY <1>22, <1>0 DEF RequestReviewPack, SequentialTypes, Local
  <2>2. CASE op[p] = "reviewPack"
    <3>1. Cycle!LAsk(sess[p])
      BY <1>22, <2>1, <2>2 DEF RequestReviewPack, Cycle!LAsk
    <3> QED BY <2>1, <3>1 DEF Cycle!LNext
  <2>3. CASE op[p] # "reviewPack"
    <3>1. packs[sess[p]] = 0
      BY <1>22, <1>0, <2>3 DEF RequestReviewPack, Local, Reviewing
    <3>2. Cycle!LReview(sess[p])
      BY <1>22, <2>1, <2>3, <3>1 DEF RequestReviewPack, Cycle!LReview
    <3> QED BY <2>1, <3>2 DEF Cycle!LNext
  <2> QED BY <2>2, <2>3
<1>23. ASSUME NEW p \in Requests, ExpireOnVisit(p)
      PROVE  [Cycle!LNext]_(Cycle!lvars)
  <2>1. sess[p] \in Sessions
    BY <1>23, <1>0 DEF ExpireOnVisit, SequentialTypes
  <2>2. UNCHANGED <<packs, requested>> /\ Expires(sess[p])
    BY <1>23 DEF ExpireOnVisit
  <2> QED BY <2>1, <2>2, <1>x
<1>24. ASSUME NEW p \in Requests, Refresh(p)
      PROVE  [Cycle!LNext]_(Cycle!lvars)
  BY <1>24, <1>u
  DEF Refresh, Ends
<1>25. ASSUME NEW p \in Requests, OpenPublic(p)
      PROVE  [Cycle!LNext]_(Cycle!lvars)
  <2>1. /\ sess[p] \in Sessions /\ UNCHANGED <<packs, requested>>
        /\ seen[p] = status[sess[p]] /\ seen[p] \in Active
    BY <1>25, <1>0 DEF OpenPublic, SequentialTypes, Local, BlindPoints, Held
  <2>2. CASE seen[p] = "SCHEDULED"
    <3>1. Cycle!LMove(sess[p], "RUNNING")
      BY <1>25, <2>1, <2>2 DEF OpenPublic, Cycle!LMove, Cycle!Allowed
    <3> QED BY <3>1, <2>1, <1>m DEF Statuses
  <2>3. CASE seen[p] = "RUNNING"
    BY <1>25, <1>0, <2>1, <2>3, <1>u DEF OpenPublic, SequentialTypes
  <2> QED BY <2>1, <2>2, <2>3
<1>26. ASSUME NEW p \in Requests, ReadForPublicComplete(p)
      PROVE  [Cycle!LNext]_(Cycle!lvars)
  BY <1>26, <1>u
  DEF ReadForPublicComplete, Ends, MayComplete, Active
<1>27. ASSUME NEW p \in Requests, FailPublic(p)
      PROVE  [Cycle!LNext]_(Cycle!lvars)
  <2>1. sess[p] \in Sessions /\ <<status[sess[p]], "FAILED">> \in Cycle!Allowed
    BY <1>27, <1>0
    DEF FailPublic, SequentialTypes, Local, BlindPoints, Held, Creating, Cycle!Allowed
  <2>2. Cycle!LMove(sess[p], "FAILED")
    BY <1>27, <2>1 DEF FailPublic, Status, Cycle!LMove
  <2> QED BY <2>1, <2>2, <1>m DEF Statuses
<1>28. ASSUME NEW p \in Requests, RemindManually(p)
      PROVE  [Cycle!LNext]_(Cycle!lvars)
  BY <1>28, <1>u
  DEF RemindManually, Ends, Column
<1>29. ASSUME NEW p \in Requests, RequestFails(p)
      PROVE  [Cycle!LNext]_(Cycle!lvars)
  BY <1>29, <1>u
  DEF RequestFails, Fault
<1>30. ASSUME NEW m \in Monitors, Tick(m)
      PROVE  [Cycle!LNext]_(Cycle!lvars)
  BY <1>30, <1>u
  DEF Tick
<1>31. ASSUME NEW m \in Monitors, TickFails(m)
      PROVE  [Cycle!LNext]_(Cycle!lvars)
  BY <1>31, <1>u
  DEF TickFails, Fault
<1>32. ASSUME NEW m \in Monitors, NEW s \in Sessions, ExpireInvitation(m, s)
      PROVE  [Cycle!LNext]_(Cycle!lvars)
  <2>1. s \in Sessions
    BY <1>32, <1>0 DEF ExpireInvitation, Done, SequentialTypes
  <2>2. UNCHANGED <<packs, requested>> /\ Expires(s)
    BY <1>32 DEF ExpireInvitation
  <2> QED BY <2>1, <2>2, <1>x
<1>33. ASSUME NEW m \in Monitors, NEW s \in Sessions, NEW n \in Reminders,
             RecordReminder(m, s, n)
      PROVE  [Cycle!LNext]_(Cycle!lvars)
  BY <1>33, <1>u
  DEF RecordReminder, Done, MayRemind
<1>34. ASSUME NEW m \in Monitors, NEW s \in Sessions, NEW n \in Reminders,
             AppendReminder(m, s, n)
      PROVE  [Cycle!LNext]_(Cycle!lvars)
  BY <1>34, <1>u
  DEF AppendReminder
<1>35. ASSUME NEW s \in Sessions, ExpiryNears(s)
      PROVE  [Cycle!LNext]_(Cycle!lvars)
  BY <1>35, <1>u
  DEF ExpiryNears
<1>36. ASSUME NEW s \in Sessions, ReminderDue(s)
      PROVE  [Cycle!LNext]_(Cycle!lvars)
  BY <1>36, <1>u
  DEF ReminderDue
<1>37. ASSUME NEW s \in Sessions, CandidateSilent(s)
      PROVE  [Cycle!LNext]_(Cycle!lvars)
  BY <1>37, <1>u
  DEF CandidateSilent
<1>38. CASE UNCHANGED vars
  BY <1>38, <1>u DEF vars, countVars, requestVars
<1> QED
  BY <1>1, <1>2, <1>3, <1>4, <1>5, <1>6, <1>7, <1>8, <1>9, <1>10, <1>11,
     <1>12, <1>13, <1>14, <1>15, <1>16, <1>17, <1>18, <1>19, <1>20, <1>21,
     <1>22, <1>23, <1>24, <1>25, <1>26, <1>27, <1>28, <1>29, <1>30, <1>31,
     <1>32, <1>33, <1>34, <1>35, <1>36, <1>37, <1>38, <1>39
     DEF Next, Arrive, Proceed, Monitor, Clock

(* Lifecycle: operations that do not overlap implement SessionLifecycle,   *)
(* whatever the sessions, the requests and the failures.                   *)
THEOREM LifecycleKept ==
  ASSUME Overlap = 1 PROVE Spec => Lifecycle
<1>1. TypeOK /\ WellFormed /\ Held /\ Sequential /\ [Next]_vars => Sequential'
  BY StepSequential
<1> QED
  BY <1>1, InitTypes, StepTypes, InitHeld, StepHeld, InitSequential,
     InitLifecycle, StepLifecycle, PTL
     DEF Spec, Lifecycle, Cycle!LSpec
-----------------------------------------------------------------------------
(* A cancellation takes the stage of the application back.                  *)

CancelPoints == {"cancel", "rollback", "rollbackStage", "rollbackActive"}

(* A cancellation keeps to its points and aims at SCREENING; a request on  *)
(* its way to write that an interview is scheduled has created the session.*)
Course(p) ==
  /\ pc[p] \in CancelPoints => op[p] = "cancel"
  /\ op[p] = "cancel" =>
       \/ pc[p] \in CancelPoints
       \/ pc[p] \in {"move", "moveWrite"} /\ aim[p] = "SCREENING"
  /\ /\ pc[p] \in {"move", "moveWrite"}
     /\ aim[p] = "INTERVIEW_SCHEDULED"
     /\ op[p] # "stageTransition"
     => status[sess[p]] # "none"

(* Every session is cancelled, the stage still waits for one, and neither  *)
(* a recruiter's choice, a late write nor a rollback cut short made it.    *)
Waiting ==
  /\ \A s \in Sessions : status[s] \in {"none", "CANCELLED"}
  /\ stage = "INTERVIEW_SCHEDULED"
  /\ ~unbacked

(* The application waits only for as long as some cancellation is at work. *)
Awaited == Waiting => \E p \in Requests : RollingBack(p)

CourseTypes ==
  /\ status \in [Sessions -> Statuses]
  /\ pc \in [Requests -> Points]
  /\ op \in [Requests -> AllKinds \union {"none"}]
  /\ sess \in [Requests -> Sessions \union {NoSession}]
  /\ aim \in [Requests -> Stages \union {"none", "first", "second", "neither"}]
  /\ unbacked \in BOOLEAN
  /\ \A p \in Requests :
       pc[p] \notin {"idle", "moveWrite"} => sess[p] \in Sessions
  /\ WellFormed

LEMMA InitAwaited == Init => Awaited /\ \A p \in Requests : Course(p)
BY DEF Init, Awaited, Waiting, Course, CancelPoints

LEMMA StepCourse ==
  TypeOK /\ WellFormed /\ (\A p \in Requests : Course(p)) /\ [Next]_vars =>
    \A p \in Requests : Course(p)'
<1> SUFFICES ASSUME TypeOK, WellFormed, \A p \in Requests : Course(p),
                    [Next]_vars
             PROVE  \A p \in Requests : Course(p)'
  OBVIOUS
<1> USE InterviewAssumption
<1>0. CourseTypes
  BY DEF TypeOK, CourseTypes
<1>1. ASSUME NEW p \in Requests, StageTransition(p)
      PROVE  \A q \in Requests : Course(q)'
  BY <1>1, <1>0
  DEF StageTransition, Begins, Course, CancelPoints, CourseTypes,
      WellFormed
<1>2. ASSUME NEW p \in Requests, NEW s \in Sessions, CreateBegins(p, s)
      PROVE  \A q \in Requests : Course(q)'
  BY <1>2, <1>0
  DEF CreateBegins, Begins, Course, CancelPoints, CourseTypes,
      WellFormed
<1>3. ASSUME NEW p \in Requests, NEW s \in Sessions, ReadForReschedule(p, s)
      PROVE  \A q \in Requests : Course(q)'
  BY <1>3, <1>0
  DEF ReadForReschedule, Reads, Begins, MayReschedule, Course, CancelPoints, CourseTypes,
      WellFormed
<1>4. ASSUME NEW p \in Requests, NEW s \in Sessions, ReadForStart(p, s)
      PROVE  \A q \in Requests : Course(q)'
  BY <1>4, <1>0
  DEF ReadForStart, Reads, Begins, Course, CancelPoints, CourseTypes,
      WellFormed
<1>5. ASSUME NEW p \in Requests, NEW s \in Sessions, ReadForCancel(p, s)
      PROVE  \A q \in Requests : Course(q)'
  BY <1>5, <1>0
  DEF ReadForCancel, Reads, Begins, Course, CancelPoints, CourseTypes,
      WellFormed
<1>6. ASSUME NEW p \in Requests, NEW s \in Sessions, ReadForComplete(p, s)
      PROVE  \A q \in Requests : Course(q)'
  BY <1>6, <1>0
  DEF ReadForComplete, Reads, Begins, Course, CancelPoints, CourseTypes,
      WellFormed
<1>7. ASSUME NEW p \in Requests, NEW s \in Sessions, Resolve(p, s)
      PROVE  \A q \in Requests : Course(q)'
  BY <1>7, <1>0, AdmittedPoints
  DEF Resolve, Reads, Begins, Course, CancelPoints, CourseTypes,
      WellFormed
<1>8. ASSUME NEW p \in Requests, NEW s \in Sessions, ReadForRemind(p, s)
      PROVE  \A q \in Requests : Course(q)'
  BY <1>8, <1>0
  DEF ReadForRemind, Reads, Begins, Course, CancelPoints, CourseTypes,
      WellFormed
<1>9. ASSUME NEW p \in Requests, NEW s \in Sessions, ReadForReviewPack(p, s)
      PROVE  \A q \in Requests : Course(q)'
  BY <1>9, <1>0
  DEF ReadForReviewPack, Reads, Begins, Course, CancelPoints, CourseTypes,
      WellFormed
<1>10. ASSUME NEW p \in Requests, CheckStage(p)
      PROVE  \A q \in Requests : Course(q)'
  BY <1>10, <1>0
  DEF CheckStage, Ends, Goes, Course, CancelPoints, CourseTypes,
      WellFormed
<1>11. ASSUME NEW p \in Requests, CheckActive(p)
      PROVE  \A q \in Requests : Course(q)'
  BY <1>11, <1>0
  DEF CheckActive, Ends, Goes, Course, CancelPoints, CourseTypes,
      WellFormed
<1>12. ASSUME NEW p \in Requests, CreateSession(p)
      PROVE  \A q \in Requests : Course(q)'
  BY <1>12, <1>0
  DEF CreateSession, Moves, Status, Course, CancelPoints, CourseTypes,
      WellFormed
<1>13. ASSUME NEW p \in Requests, MoveRead(p)
      PROVE  \A q \in Requests : Course(q)'
  BY <1>13, <1>0
  DEF MoveRead, AfterMove, Ends, Goes, Course, CancelPoints, CourseTypes,
      WellFormed
<1>14. ASSUME NEW p \in Requests, MoveWrite(p)
      PROVE  \A q \in Requests : Course(q)'
  BY <1>14, <1>0
  DEF MoveWrite, AfterMove, Ends, Goes, Course, CancelPoints, CourseTypes,
      WellFormed
<1>15. ASSUME NEW p \in Requests, Reschedule(p)
      PROVE  \A q \in Requests : Course(q)'
  BY <1>15, <1>0
  DEF Reschedule, Moves, Status, Course, CancelPoints, CourseTypes,
      WellFormed
<1>16. ASSUME NEW p \in Requests, Start(p)
      PROVE  \A q \in Requests : Course(q)'
  BY <1>16, <1>0
  DEF Start, Ends, Status, Course, CancelPoints, CourseTypes,
      WellFormed
<1>17. ASSUME NEW p \in Requests, Cancel(p)
      PROVE  \A q \in Requests : Course(q)'
  BY <1>17, <1>0
  DEF Cancel, Goes, Status, Course, CancelPoints, CourseTypes,
      WellFormed
<1>18. ASSUME NEW p \in Requests, RollbackStage(p)
      PROVE  \A q \in Requests : Course(q)'
  BY <1>18, <1>0
  DEF RollbackStage, Ends, Goes, Moves, Course, CancelPoints, CourseTypes,
      WellFormed
<1>19. ASSUME NEW p \in Requests, RollbackActive(p)
      PROVE  \A q \in Requests : Course(q)'
  BY <1>19, <1>0
  DEF RollbackActive, Ends, Goes, Moves, Course, CancelPoints, CourseTypes,
      WellFormed
<1>20. ASSUME NEW p \in Requests, Complete(p)
      PROVE  \A q \in Requests : Course(q)'
  BY <1>20, <1>0
  DEF Complete, Moves, Status, Course, CancelPoints, CourseTypes,
      WellFormed
<1>21. ASSUME NEW p \in Requests, AutomationRead(p)
      PROVE  \A q \in Requests : Course(q)'
  BY <1>21, <1>0
  DEF AutomationRead, Ends, Goes, Course, CancelPoints, CourseTypes,
      WellFormed
<1>22. ASSUME NEW p \in Requests, AutomationOff(p)
      PROVE  \A q \in Requests : Course(q)'
  BY <1>22, <1>0
  DEF AutomationOff, Ends, Course, CancelPoints, CourseTypes,
      WellFormed
<1>23. ASSUME NEW p \in Requests, RequestReviewPack(p)
      PROVE  \A q \in Requests : Course(q)'
  BY <1>23, <1>0
  DEF RequestReviewPack, Ends, Course, CancelPoints, CourseTypes,
      WellFormed
<1>24. ASSUME NEW p \in Requests, ExpireOnVisit(p)
      PROVE  \A q \in Requests : Course(q)'
  BY <1>24, <1>0
  DEF ExpireOnVisit, Expires, MayExpire, Goes, Status, Course, CancelPoints, CourseTypes,
      WellFormed
<1>25. ASSUME NEW p \in Requests, Refresh(p)
      PROVE  \A q \in Requests : Course(q)'
  BY <1>25, <1>0, AdmittedPoints
  DEF Refresh, Ends, Course, CancelPoints, CourseTypes,
      WellFormed
<1>26. ASSUME NEW p \in Requests, OpenPublic(p)
      PROVE  \A q \in Requests : Course(q)'
  BY <1>26, <1>0
  DEF OpenPublic, Ends, Goes, Course, CancelPoints, CourseTypes,
      WellFormed
<1>27. ASSUME NEW p \in Requests, ReadForPublicComplete(p)
      PROVE  \A q \in Requests : Course(q)'
  BY <1>27, <1>0
  DEF ReadForPublicComplete, Ends, Course, CancelPoints, CourseTypes,
      WellFormed
<1>28. ASSUME NEW p \in Requests, FailPublic(p)
      PROVE  \A q \in Requests : Course(q)'
  BY <1>28, <1>0
  DEF FailPublic, Ends, Status, Course, CancelPoints, CourseTypes,
      WellFormed
<1>29. ASSUME NEW p \in Requests, RemindManually(p)
      PROVE  \A q \in Requests : Course(q)'
  BY <1>29, <1>0
  DEF RemindManually, Ends, Course, CancelPoints, CourseTypes,
      WellFormed
<1>30. ASSUME NEW p \in Requests, RequestFails(p)
      PROVE  \A q \in Requests : Course(q)'
  BY <1>30, <1>0
  DEF RequestFails, Fault, Course, CancelPoints, CourseTypes,
      WellFormed
<1>31. ASSUME UNCHANGED <<status, requestVars>>
      PROVE  \A q \in Requests : Course(q)'
  BY <1>31 DEF Course
<1>32. ASSUME NEW m \in Monitors, NEW s \in Sessions, ExpireInvitation(m, s)
      PROVE  \A q \in Requests : Course(q)'
  <2>1. \A x \in Sessions : status[x] # "none" => status'[x] # "none"
    BY <1>32, <1>0
    DEF ExpireInvitation, Expires, MayExpire, Status, CourseTypes
  <2>2. \A q \in Requests :
          pc[q] \in {"move", "moveWrite"} /\ op[q] # "stageTransition" =>
            sess[q] \in Sessions
    BY <1>0 DEF CourseTypes, WellFormed
  <2> QED BY <1>32, <2>1, <2>2 DEF ExpireInvitation, Course
<1>33. ASSUME NEW m \in Monitors,
             \/ Tick(m) \/ TickFails(m)
             \/ \E s \in Sessions, n \in Reminders :
                  RecordReminder(m, s, n) \/ AppendReminder(m, s, n)
      PROVE  \A q \in Requests : Course(q)'
  BY <1>31, <1>33 DEF Tick, TickFails, RecordReminder, AppendReminder
<1>34. ASSUME NEW s \in Sessions, Clock(s)
      PROVE  \A q \in Requests : Course(q)'
  BY <1>31, <1>34 DEF Clock, ExpiryNears, ReminderDue, CandidateSilent
<1>35. CASE UNCHANGED vars
  BY <1>31, <1>35 DEF vars
<1> QED
  BY <1>1, <1>2, <1>3, <1>4, <1>5, <1>6, <1>7, <1>8, <1>9, <1>10, <1>11, <1>12, <1>13, <1>14, <1>15, <1>16, <1>17, <1>18, <1>19, <1>20, <1>21, <1>22, <1>23, <1>24, <1>25, <1>26, <1>27, <1>28, <1>29, <1>30, <1>31, <1>32, <1>33, <1>34, <1>35
     DEF Next, Arrive, Proceed, Monitor

LEMMA StepAwaited ==
  /\ TypeOK /\ WellFormed /\ \A p \in Requests : Course(p)
  /\ Awaited /\ [Next]_vars
  => Awaited'
<1> SUFFICES ASSUME TypeOK, WellFormed, \A p \in Requests : Course(p),
                    Awaited, [Next]_vars
             PROVE  Awaited'
  OBVIOUS
<1> USE InterviewAssumption
<1>0. CourseTypes
  BY DEF TypeOK, CourseTypes
<1>w. ASSUME UNCHANGED <<status, stage, unbacked>> PROVE Waiting' => Waiting
  BY <1>w DEF Waiting
<1>a. ASSUME NEW s \in Sessions, status'[s] \notin {"none", "CANCELLED"}
      PROVE  ~Waiting'
  BY <1>a DEF Waiting
(* A step of a request with no stage to take back, and one with it.        *)
<1>o. ASSUME NEW p \in Requests, ~RollingBack(p), Waiting' => Waiting,
             \A q \in Requests \ {p} : pc'[q] = pc[q] /\ op'[q] = op[q]
      PROVE  Awaited'
  BY <1>o DEF Awaited, RollingBack
<1>r. ASSUME NEW p \in Requests, RollingBack(p)' PROVE Awaited'
  BY <1>r DEF Awaited
<1>i. ASSUME NEW p \in Requests, pc[p] \notin CancelPoints \union {"move", "moveWrite"}
      PROVE  ~RollingBack(p)
  BY <1>i DEF RollingBack, Course
<1>u. ASSUME UNCHANGED <<status, stage, unbacked, requestVars>> PROVE Awaited'
  BY <1>u DEF Awaited, Waiting, RollingBack
<1>x. ASSUME NEW s \in Sessions, Expires(s), UNCHANGED <<stage, unbacked>>
      PROVE  Waiting' => Waiting
  <2>1. CASE MayExpire(s)
    BY <1>0, <1>x, <2>1, <1>a DEF Expires, Status, CourseTypes
  <2>2. CASE ~MayExpire(s)
    BY <1>x, <2>2, <1>w DEF Expires
  <2> QED BY <2>1, <2>2
<1>1. ASSUME NEW p \in Requests, Arrive(p)
      PROVE  Awaited'
  <2>1. /\ pc[p] = "idle" /\ UNCHANGED <<status, stage, unbacked>>
        /\ \A q \in Requests \ {p} : pc'[q] = pc[q] /\ op'[q] = op[q]
    BY <1>1, <1>0
    DEF Arrive, StageTransition, CreateBegins, ReadForReschedule, ReadForStart,
        ReadForCancel, ReadForComplete, Resolve, ReadForRemind,
        ReadForReviewPack, Reads, Begins, CourseTypes
  <2> QED BY <2>1, <1>i, <1>o, <1>w DEF CancelPoints
<1>2. ASSUME NEW p \in Requests,
             \/ CheckStage(p) \/ CheckActive(p) \/ AutomationRead(p)
             \/ AutomationOff(p) \/ RequestReviewPack(p) \/ Refresh(p)
             \/ ReadForPublicComplete(p) \/ RemindManually(p)
      PROVE  Awaited'
  <2>1. UNCHANGED <<status, stage, unbacked>>
    BY <1>2 DEF CheckStage, CheckActive, AutomationRead, AutomationOff,
                RequestReviewPack, Refresh, ReadForPublicComplete, RemindManually
  <2>2. pc[p] \notin CancelPoints \union {"move", "moveWrite"}
    BY <1>2 DEF CheckStage, CheckActive, AutomationRead, AutomationOff,
                RequestReviewPack, Refresh, ReadForPublicComplete, RemindManually,
                CancelPoints
  <2>3. \A q \in Requests \ {p} : pc'[q] = pc[q] /\ op'[q] = op[q]
    BY <1>2, <1>0
    DEF CheckStage, CheckActive, AutomationRead, AutomationOff,
        RequestReviewPack, Refresh, ReadForPublicComplete, RemindManually,
        Ends, Goes, CourseTypes
  <2> QED BY <2>1, <2>2, <2>3, <1>i, <1>o, <1>w
<1>3. ASSUME NEW p \in Requests,
             \/ CreateSession(p) \/ Reschedule(p) \/ Complete(p)
             \/ Start(p) \/ FailPublic(p)
      PROVE  Awaited'
  <2>1. PICK t \in Active \union {"COMPLETED", "FAILED"} :
          status' = [status EXCEPT ![sess[p]] = t]
    BY <1>3 DEF CreateSession, Reschedule, Complete, Start, FailPublic, Status
  <2>2. /\ sess[p] \in Sessions
        /\ pc[p] \notin CancelPoints \union {"move", "moveWrite"}
    BY <1>3, <1>0
    DEF CreateSession, Reschedule, Complete, Start, FailPublic, CancelPoints,
        CourseTypes
  <2>3. \A q \in Requests \ {p} : pc'[q] = pc[q] /\ op'[q] = op[q]
    BY <1>3, <1>0
    DEF CreateSession, Reschedule, Complete, Start, FailPublic, Ends, Moves,
        CourseTypes
  <2>4. ~Waiting'
    BY <2>1, <2>2, <1>a, <1>0 DEF CourseTypes
  <2> QED BY <2>2, <2>3, <2>4, <1>i, <1>o
<1>4. ASSUME NEW p \in Requests, OpenPublic(p)
      PROVE  Awaited'
  <2>1. /\ sess[p] \in Sessions /\ UNCHANGED <<stage, unbacked>>
        /\ pc[p] \notin CancelPoints \union {"move", "moveWrite"}
        /\ \A q \in Requests \ {p} : pc'[q] = pc[q] /\ op'[q] = op[q]
    BY <1>4, <1>0 DEF OpenPublic, Ends, Goes, CancelPoints, CourseTypes
  <2>2. status'[sess[p]] = "RUNNING" \/ UNCHANGED status
    BY <1>4, <1>0, <2>1 DEF OpenPublic, CourseTypes
  <2> QED BY <2>1, <2>2, <1>a, <1>w, <1>i, <1>o
<1>5. ASSUME NEW p \in Requests, ExpireOnVisit(p)
      PROVE  Awaited'
  <2>1. /\ sess[p] \in Sessions /\ UNCHANGED <<stage, unbacked>> /\ Expires(sess[p])
        /\ pc[p] \notin CancelPoints \union {"move", "moveWrite"}
        /\ \A q \in Requests \ {p} : pc'[q] = pc[q] /\ op'[q] = op[q]
    BY <1>5, <1>0 DEF ExpireOnVisit, Goes, CancelPoints, CourseTypes
  <2> QED BY <2>1, <1>x, <1>i, <1>o
<1>6. ASSUME NEW p \in Requests, MoveRead(p)
      PROVE  Awaited'
  <2>1. /\ UNCHANGED <<status, stage, unbacked>>
        /\ \A q \in Requests \ {p} : pc'[q] = pc[q] /\ op'[q] = op[q]
    BY <1>6, <1>0 DEF MoveRead, AfterMove, Ends, Goes, CourseTypes
  <2>2. CASE ~RollingBack(p)
    BY <2>1, <2>2, <1>o, <1>w
  <2>3. CASE RollingBack(p) /\ stage = aim[p]
    <3>1. stage # "INTERVIEW_SCHEDULED"
      BY <1>6, <2>3 DEF MoveRead, RollingBack, Course, CancelPoints
    <3> QED BY <2>1, <3>1 DEF Awaited, Waiting
  <2>4. CASE RollingBack(p) /\ stage # aim[p]
    <3>1. RollingBack(p)'
      BY <1>6, <1>0, <2>4 DEF MoveRead, Goes, RollingBack, CourseTypes
    <3> QED BY <3>1, <1>r
  <2> QED BY <2>2, <2>3, <2>4
<1>7. ASSUME NEW p \in Requests, MoveWrite(p)
      PROVE  Awaited'
  <2>1. /\ stage' = aim[p] /\ UNCHANGED status
        /\ unbacked' = (/\ aim[p] = "INTERVIEW_SCHEDULED"
                        /\ \/ op[p] = "stageTransition"
                           \/ status[sess[p]] = "CANCELLED")
    BY <1>7 DEF MoveWrite
  <2>2. CASE aim[p] # "INTERVIEW_SCHEDULED" \/ op[p] = "stageTransition"
    BY <2>1, <2>2 DEF Awaited, Waiting
  <2>3. CASE aim[p] = "INTERVIEW_SCHEDULED" /\ op[p] # "stageTransition"
    <3>1. sess[p] \in Sessions /\ status[sess[p]] # "none"
      BY <1>7, <1>0, <2>3 DEF MoveWrite, Course, CourseTypes, WellFormed
    <3>2. ~Waiting'
      BY <2>1, <2>3, <3>1 DEF Waiting
    <3> QED BY <3>2 DEF Awaited
  <2> QED BY <2>2, <2>3
<1>8. ASSUME NEW p \in Requests, Cancel(p)
      PROVE  Awaited'
  <2>1. op[p] = "cancel"
    BY <1>8 DEF Cancel, Course, CancelPoints
  <2>2. RollingBack(p)'
    BY <1>8, <1>0, <2>1 DEF Cancel, Goes, RollingBack, CourseTypes
  <2> QED BY <2>2, <1>r
<1>9. ASSUME NEW p \in Requests, RollbackStage(p) \/ RollbackActive(p)
      PROVE  Awaited'
  <2>1. op[p] = "cancel" /\ UNCHANGED <<status, stage, unbacked>>
    BY <1>9 DEF RollbackStage, RollbackActive, Course, CancelPoints
  <2>2. \/ Ends(p) /\ ~Waiting
        \/ \E l \in {"rollbackStage", "rollbackActive"} : Goes(p, l)
        \/ Moves(p, "SCREENING")
    <3>1. CASE RollbackStage(p)
      BY <3>1 DEF RollbackStage, Waiting
    <3>2. CASE RollbackActive(p)
      BY <3>2 DEF RollbackActive, Waiting
    <3> QED BY <1>9, <3>1, <3>2
  <2>3. CASE Ends(p) /\ ~Waiting
    BY <2>1, <2>3, <1>w DEF Awaited
  <2>4. CASE \/ \E l \in {"rollbackStage", "rollbackActive"} : Goes(p, l)
             \/ Moves(p, "SCREENING")
    <3>1. RollingBack(p)'
      BY <1>0, <2>1, <2>4 DEF Goes, Moves, RollingBack, CourseTypes
    <3> QED BY <3>1, <1>r
  <2> QED BY <2>2, <2>3, <2>4
<1>10. ASSUME NEW p \in Requests, RequestFails(p)
      PROVE  Awaited'
  <2>1. CASE RollingBack(p)
    BY <1>10, <2>1 DEF RequestFails, Awaited, Waiting
  <2>2. CASE ~RollingBack(p)
    <3>1. \A q \in Requests \ {p} : pc'[q] = pc[q] /\ op'[q] = op[q]
      BY <1>10, <1>0 DEF RequestFails, CourseTypes
    <3>2. Waiting' => Waiting
      BY <1>10, <2>2 DEF RequestFails, Waiting
    <3> QED BY <2>2, <3>1, <3>2, <1>o
  <2> QED BY <2>1, <2>2
<1>11. ASSUME NEW m \in Monitors, NEW s \in Sessions, ExpireInvitation(m, s)
      PROVE  Awaited'
  <2>1. Waiting' => Waiting
    BY <1>11, <1>x DEF ExpireInvitation
  <2> QED BY <1>11, <2>1 DEF ExpireInvitation, Awaited, RollingBack
<1>12. ASSUME NEW m \in Monitors,
             \/ Tick(m) \/ TickFails(m)
             \/ \E s \in Sessions, n \in Reminders :
                  RecordReminder(m, s, n) \/ AppendReminder(m, s, n)
      PROVE  Awaited'
  BY <1>12, <1>u DEF Tick, TickFails, RecordReminder, AppendReminder
<1>13. ASSUME NEW s \in Sessions, Clock(s)
      PROVE  Awaited'
  BY <1>13, <1>u DEF Clock, ExpiryNears, ReminderDue, CandidateSilent
<1>14. CASE UNCHANGED vars
  BY <1>14, <1>u DEF vars
<1> QED
  BY <1>1, <1>2, <1>3, <1>4, <1>5, <1>6, <1>7, <1>8, <1>9, <1>10, <1>11,
     <1>12, <1>13, <1>14
     DEF Next, Proceed, Monitor

(* CancellationRollsBack: for any requests, however they overlap and       *)
(* whichever are cut short.  The rollback is a second step behind the      *)
(* cancellation and in no transaction with it, and reads the sessions and  *)
(* the stage one after the other: what keeps it right is that every        *)
(* cancellation is followed by a rollback of its own.                      *)
THEOREM CancellationsRollBack == Spec => []CancellationRollsBack
<1>1. Awaited /\ (\A p \in Requests : Course(p)) => CancellationRollsBack
  BY DEF Awaited, Waiting, RollingBack, Course, CancelPoints,
         CancellationRollsBack
<1>2. Init => \A p \in Requests : Course(p)
  BY InitAwaited
<1>3. Init => Awaited
  BY InitAwaited
<1>4. Spec => [](\A p \in Requests : Course(p))
  <2>1. (\A p \in Requests : Course(p))' <=> \A p \in Requests : Course(p)'
    OBVIOUS
  <2> QED BY <1>2, <2>1, InitTypes, StepTypes, StepCourse, PTL DEF Spec
<1> QED
  BY <1>1, <1>3, <1>4, InitTypes, StepTypes, StepAwaited, PTL DEF Spec
=============================================================================
