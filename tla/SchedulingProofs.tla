-------------------------- MODULE SchedulingProofs --------------------------
(***************************************************************************)
(* Theorems about Scheduling for any slots, availabilities, number of      *)
(* requests, sessions and faults.  One invariant serves them all: what     *)
(* holds of every request in flight (Fine), of the slots, and of the       *)
(* sessions a booking has made.                                            *)
(***************************************************************************)
EXTENDS Scheduling, FiniteSetTheorems, TLAPS

Kinds == {"none", "constraints", "availability", "propose", "select", "cancel", "reschedule", "book"}
Early == {"none", "COLLECTING_RECRUITER_AVAILABILITY", "COLLECTING_CANDIDATE_AVAILABILITY",
          "SLOT_PROPOSAL_READY"}

WfRow == [state : States, status : {"ACTIVE", "COMPLETED", "CANCELLED"},
          recruiter : SUBSET Slots, candidate : SUBSET Slots, proposed : SUBSET Slots,
          selected : Slots \union {NoSlot}, session : Sessions \union {None}]
SessRow == [status : {"none", "SCHEDULED", "RUNNING", "MISSED", "CLOSED"},
            at : Slots \union {NoSlot}, by : {"booking", "recruiter"}]
ReqRow == [pc : {"idle", "write", "look", "create", "check", "update"}, kind : Kinds,
           slots : SUBSET Slots, slot : Slots \union {NoSlot},
           session : Sessions \union {None}, stale : BOOLEAN]

IsSession(i) == i \in Sessions /\ sess[i].status # "none"

Typed ==
  /\ wf \in WfRow /\ (wf.session # None => IsSession(wf.session))
  /\ sess \in [Sessions -> SessRow]
  /\ req \in [Requests -> ReqRow]
  /\ common \subseteq Slots /\ overlaps \in Nat /\ served \in 0..MaxRequests
  /\ faults \in 0..MaxFaults

(* The states in which a request of the kind is accepted.                  *)
Allowed(kind) ==
  /\ kind \in {"constraints", "availability", "propose", "select"} => wf.state \in Early
  /\ kind = "reschedule" => wf.state \in {"BOOKED", "SLOT_SELECTED"}
  /\ kind = "book" => wf.state \in {"SLOT_SELECTED", "RESCHEDULE_PENDING"}

(* What is true of a request in flight.  One that is not stale has read    *)
(* the row as it is now.                                                   *)
Fine(q) ==
  /\ (q.pc = "idle") <=> (q.kind = "none")
  /\ q.pc \in {"look", "create", "check", "update"} => q.kind = "book"
  /\ (q.kind = "book" /\ q.pc \in {"check", "update", "write"}) => IsSession(q.session)
  /\ q.kind = "propose" => q.slots \subseteq common
  /\ q.kind = "select" => q.slot \in common
  /\ (q.kind = "book" /\ overlaps = 0) => wf.state \notin Early /\ q.slot = wf.selected
  /\ q.stale \/ Allowed(q.kind)
  /\ q.stale \/ ((q.kind = "book") => (wf.session = None \/ (q.pc \notin {"look", "create"} /\ wf.session = q.session)))

RequestsFine == \A r \in Requests : Fine(req[r])

SlotsCommon ==
  /\ wf.recruiter \intersect wf.candidate \subseteq common
  /\ wf.proposed \subseteq common
  /\ wf.selected # NoSlot => wf.selected \in common

(* Without overlapping requests every session a booking has made is at the *)
(* selected slot, which is then no longer changed.                         *)
MadeAtSelected ==
  overlaps = 0 =>
    /\ \A i \in Sessions : IsSession(i) /\ sess[i].by = "booking" =>
         wf.state \notin Early /\ sess[i].at = wf.selected
    /\ wf.state = "BOOKED" => wf.session # None

Books(r, i) == req[r].pc = "write" /\ req[r].kind = "book" /\ req[r].session = i

(* Few of them are neither the workflow's own nor about to be, as the      *)
(* property has it, which is inductive with the rest.                      *)
Inv == Typed /\ RequestsFine /\ SlotsCommon /\ MadeAtSelected /\ NoOrphanSession

USE SchedulingAssumption DEF None, Sessions

LEMMA InitInv == Init => Inv
<1> SUFFICES ASSUME Init PROVE Inv
  OBVIOUS
<1>1. Typed
  <2>1. wf \in WfRow /\ wf.session = None
    BY DEF Init, WfRow, NoWorkflow, States
  <2>2. sess \in [Sessions -> SessRow]
    BY DEF Init, SessRow, NoSession
  <2>3. req \in [Requests -> ReqRow]
    BY DEF Init, ReqRow, Kinds, Idle
  <2>4. overlaps \in Nat
    BY DEF Init
  <2>5. common \subseteq Slots /\ served \in 0..MaxRequests /\ faults \in 0..MaxFaults
    BY DEF Init
  <2> QED BY <2>1, <2>2, <2>3, <2>4, <2>5 DEF Typed
<1>2. RequestsFine
  BY DEF Init, RequestsFine, Fine, Allowed, Idle, NoWorkflow
<1>3. SlotsCommon
  BY DEF Init, SlotsCommon, NoWorkflow
<1>4. MadeAtSelected
  BY DEF Init, MadeAtSelected, IsSession, NoSession, NoWorkflow
<1>5. NoOrphanSession
  <2>1. Lost = {} /\ faults = 0 /\ overlaps = 0
    BY DEF Init, Lost, NoSession
  <2>2. Cardinality({}) = 0
    BY FS_EmptySet
  <2> QED BY <2>1, <2>2 DEF NoOrphanSession
<1> QED BY <1>1, <1>2, <1>3, <1>4, <1>5 DEF Inv

LEMMA LostCounted ==
  ASSUME NEW A \in SUBSET Sessions, NEW B \in SUBSET Sessions, NEW x
  PROVE  /\ Cardinality(A) \in Nat /\ Cardinality(B) \in Nat
         /\ B \subseteq A => Cardinality(B) <= Cardinality(A)
         /\ B \subseteq A \union {x} => Cardinality(B) <= Cardinality(A) + 1
<1>1. IsFiniteSet(1..MaxSessions)
  BY FS_Interval
<1>2. IsFiniteSet(A) /\ IsFiniteSet(B)
  BY <1>1, FS_Subset
<1>3. Cardinality(A) \in Nat /\ Cardinality(B) \in Nat
  BY <1>2, FS_CardinalityType
<1>4. B \subseteq A => Cardinality(B) <= Cardinality(A)
  BY <1>2, FS_Subset
<1>5. /\ IsFiniteSet(A \union {x})
      /\ Cardinality(A \union {x}) = Cardinality(A) \/ Cardinality(A \union {x}) = Cardinality(A) + 1
  BY <1>2, FS_AddElement
<1>6. B \subseteq A \union {x} => Cardinality(B) <= Cardinality(A \union {x})
  BY <1>5, FS_Subset
<1> QED BY <1>3, <1>4, <1>5, <1>6

(* No session more is lost, or one more by a cut-off or an overlap.        *)
LEMMA LostKept ==
  ASSUME Inv, Lost' \subseteq Lost, faults' >= faults, overlaps' >= overlaps,
         faults' \in Nat, overlaps' \in Nat
  PROVE  NoOrphanSession'
<1>1. Lost \in SUBSET Sessions /\ Lost' \in SUBSET Sessions
  BY DEF Lost
<1>2. Cardinality(Lost') <= Cardinality(Lost) /\ Cardinality(Lost) \in Nat /\ Cardinality(Lost') \in Nat
  BY <1>1, LostCounted
<1>3. Cardinality(Lost) <= faults + overlaps /\ faults \in Nat /\ overlaps \in Nat
  BY DEF Inv, Typed, NoOrphanSession
<1>4. Cardinality(Lost') <= faults' + overlaps'
  BY <1>2, <1>3
<1> QED BY <1>4 DEF NoOrphanSession

LEMMA LostOne ==
  ASSUME Inv, NEW x, Lost' \subseteq Lost \union {x}, faults' \in Nat, overlaps' \in Nat,
         faults' + overlaps' = faults + overlaps + 1
  PROVE  NoOrphanSession'
<1>1. Lost \in SUBSET Sessions /\ Lost' \in SUBSET Sessions
  BY DEF Lost
<1>2. Cardinality(Lost') <= Cardinality(Lost) + 1 /\ Cardinality(Lost) \in Nat
      /\ Cardinality(Lost') \in Nat
  BY <1>1, LostCounted
<1>3. PICK old \in Nat, new \in Nat : old = Cardinality(Lost) /\ new = Cardinality(Lost')
  BY <1>2
<1>4. PICK f \in Nat, o \in Nat : f = faults /\ o = overlaps
  BY DEF Inv, Typed
<1>5. PICK f1 \in Nat, o1 \in Nat : f1 = faults' /\ o1 = overlaps'
  OBVIOUS
<1>6. old <= f + o
  BY <1>3, <1>4 DEF Inv, NoOrphanSession
<1>7. new <= old + 1
  BY <1>2, <1>3
<1>8. f1 + o1 = f + o + 1
  BY <1>4, <1>5
<1>9. new <= f1 + o1
  BY <1>6, <1>7, <1>8
<1> QED BY <1>3, <1>5, <1>9 DEF NoOrphanSession

(* A step that changes nothing but one request.                            *)
LEMMA ReqStep ==
  ASSUME Inv, UNCHANGED <<wf, sess, common, overlaps>>, NEW r \in Requests, NEW q \in ReqRow,
         req' = [req EXCEPT ![r] = q], Fine(q), served' \in 0..MaxRequests,
         faults' \in 0..MaxFaults,
         \/ faults' = faults /\ \A i \in Sessions : ~Books(r, i)
         \/ faults' = faults + 1
  PROVE  Inv'
<1>1. req'[r] = q /\ \A s \in Requests \ {r} : req'[s] = req[s]
  BY DEF Inv, Typed
<1>2. Typed'
  BY DEF Inv, Typed, IsSession
<1>3. RequestsFine'
  <2> SUFFICES ASSUME NEW s \in Requests PROVE Fine(req[s])'
    BY DEF RequestsFine
  <2>1. Fine(req'[s])
    BY <1>1 DEF Inv, RequestsFine
  <2> QED BY <2>1 DEF Fine, Allowed, IsSession
<1>4. SlotsCommon' /\ MadeAtSelected'
  BY DEF Inv, SlotsCommon, MadeAtSelected, IsSession
<1>5. NoOrphanSession'
  <2>n. faults \in Nat /\ overlaps \in Nat /\ faults' \in Nat /\ overlaps' \in Nat
    BY DEF Inv, Typed
  <2>1. CASE faults' = faults /\ \A i \in Sessions : ~Books(r, i)
    <3>1. \A i \in Sessions : AboutToBook(i) => AboutToBook(i)'
      BY <1>1, <2>1 DEF AboutToBook, Books, At
    <3>2. Lost' \subseteq Lost
      BY <3>1 DEF Lost
    <3> QED BY <2>1, <2>n, <3>2, LostKept
  <2>2. CASE faults' = faults + 1
    <3>1. \A i \in Sessions : AboutToBook(i) => AboutToBook(i)' \/ i = req[r].session
      BY <1>1 DEF AboutToBook, At
    <3>2. Lost' \subseteq Lost \union {req[r].session}
      BY <3>1 DEF Lost
    <3> QED BY <2>2, <2>n, <3>2, LostOne
  <2> QED BY <2>1, <2>2
<1> QED BY <1>2, <1>3, <1>4, <1>5 DEF Inv

(* Reading the row: the request says what the row allows.                  *)
LEMMA BeginInv ==
  ASSUME Inv, NEW r \in Requests, NEW pc \in {"write", "look", "check"},
         NEW kind \in Kinds \ {"none"}, NEW slots \in SUBSET Slots,
         NEW slot \in Slots \union {NoSlot}, NEW session \in Sessions \union {None},
         Begin(r, pc, kind, slots, slot, session), Allowed(kind),
         kind = "propose" => slots \subseteq common,
         kind = "select" => slot \in common,
         pc # "write" => kind = "book",
         kind = "book" =>
           /\ slot = wf.selected
           /\ (pc = "look" /\ wf.session = None) \/ (pc = "check" /\ session = wf.session /\ IsSession(session))
  PROVE  Inv'
<1> DEFINE q == [pc |-> pc, kind |-> kind, slots |-> slots, slot |-> slot,
                 session |-> session, stale |-> FALSE]
<1>1. q \in ReqRow
  BY DEF ReqRow
<1>2. q.pc = pc /\ q.kind = kind /\ q.slots = slots /\ q.slot = slot /\ q.session = session
  OBVIOUS
<1>3. kind = "book" => wf.state \notin Early
  BY DEF Allowed, Early
<1>4. Fine(q)
  BY <1>2, <1>3 DEF Fine, Kinds
<1>5. req' = [req EXCEPT ![r] = q] /\ served' = served + 1 /\ served < MaxRequests
      /\ UNCHANGED <<wf, sess, common, overlaps, faults>> /\ req[r].pc = "idle"
  BY DEF Begin, At
<1>6. \A i \in Sessions : ~Books(r, i)
  BY <1>5 DEF Books
<1>7. served' \in 0..MaxRequests /\ faults' \in 0..MaxFaults
  BY <1>5 DEF Inv, Typed
<1> HIDE DEF q
<1> QED BY <1>1, <1>4, <1>5, <1>6, <1>7, ReqStep

LEMMA ReadInv ==
  ASSUME Inv, NEW r \in Requests, Read(r)
  PROVE  Inv'
<1>t. wf \in WfRow
  BY DEF Inv, Typed
<1>1. CASE BeginConstraints(r)
  <2>1. PICK slots \in Windows : Begin(r, "write", "constraints", slots, NoSlot, None)
    BY <1>1 DEF BeginConstraints, Ask
  <2>2. slots \in SUBSET Slots
    OBVIOUS
  <2>3. Allowed("constraints")
    BY <1>1 DEF BeginConstraints, Allowed, In, Early
  <2> QED BY <2>1, <2>2, <2>3, BeginInv DEF Kinds
<1>2. CASE BeginAvailability(r)
  <2>1. PICK slots \in Windows : Begin(r, "write", "availability", slots, NoSlot, None)
    BY <1>2 DEF BeginAvailability, Ask
  <2>2. slots \in SUBSET Slots
    OBVIOUS
  <2>3. Allowed("availability")
    BY <1>2 DEF BeginAvailability, Allowed, In, Early
  <2> QED BY <2>1, <2>2, <2>3, BeginInv DEF Kinds
<1>3. CASE BeginPropose(r)
  <2>1. PICK slots \in SUBSET BothAvailable : Begin(r, "write", "propose", slots, NoSlot, None)
    BY <1>3 DEF BeginPropose, Ask
  <2>2. slots \in SUBSET Slots /\ slots \subseteq common
    BY <1>t DEF BothAvailable, WfRow, Inv, SlotsCommon
  <2>3. Allowed("propose")
    BY <1>3 DEF BeginPropose, Allowed, In, Early
  <2> QED BY <2>1, <2>2, <2>3, BeginInv DEF Kinds
<1>4. CASE BeginSelect(r)
  <2>1. PICK slot \in wf.proposed : Begin(r, "write", "select", {}, slot, None)
    BY <1>4 DEF BeginSelect, Ask
  <2>2. slot \in Slots \union {NoSlot} /\ slot \in common
    BY <1>t DEF WfRow, Inv, SlotsCommon
  <2>3. Allowed("select")
    BY <1>4 DEF BeginSelect, Allowed, In, Early
  <2> QED BY <2>1, <2>2, <2>3, BeginInv DEF Kinds
<1>5. CASE BeginCancel(r)
  <2>1. Begin(r, "write", "cancel", {}, NoSlot, None)
    BY <1>5 DEF BeginCancel, Ask
  <2>2. Allowed("cancel")
    BY DEF Allowed
  <2> QED BY <2>1, <2>2, BeginInv DEF Kinds
<1>6. CASE BeginReschedule(r)
  <2>1. Begin(r, "write", "reschedule", {}, NoSlot, None)
    BY <1>6 DEF BeginReschedule, Ask
  <2>2. Allowed("reschedule")
    BY <1>6 DEF BeginReschedule, MayReschedule, Allowed, In
  <2> QED BY <2>1, <2>2, BeginInv DEF Kinds
<1>7. CASE BeginBook(r)
  <2>1. Begin(r, IF wf.session = None THEN "look" ELSE "check", "book", {}, wf.selected, wf.session)
    BY <1>7 DEF BeginBook
  <2>2. Allowed("book")
    BY <1>7 DEF BeginBook, Allowed, In
  <2>3. wf.selected \in Slots \union {NoSlot} /\ wf.session \in Sessions \union {None}
        /\ (wf.session # None => IsSession(wf.session))
    BY <1>t DEF WfRow, Inv, Typed
  <2>4. CASE wf.session = None
    <3>1. Begin(r, "look", "book", {}, wf.selected, wf.session)
      BY <2>1, <2>4
    <3> QED BY <2>2, <2>3, <2>4, <3>1, BeginInv DEF Kinds
  <2>5. CASE wf.session # None
    <3>1. Begin(r, "check", "book", {}, wf.selected, wf.session)
      BY <2>1, <2>5
    <3> QED BY <2>2, <2>3, <2>5, <3>1, BeginInv DEF Kinds
  <2> QED BY <2>4, <2>5
<1> QED BY <1>1, <1>2, <1>3, <1>4, <1>5, <1>6, <1>7 DEF Read

(* Looking at the sessions before one is written.                          *)
LEMMA LookInv ==
  ASSUME Inv, NEW r \in Requests, LookForActive(r) \/ CheckSession(r) \/ RequestFails(r)
  PROVE  Inv'
<1>r. req[r] \in ReqRow /\ Fine(req[r])
  BY DEF Inv, Typed, RequestsFine
<1>i. Idle \in ReqRow /\ Fine(Idle)
  BY DEF Idle, ReqRow, Kinds, Fine, Allowed
<1>1. CASE LookForActive(r)
  <2> DEFINE q == [req[r] EXCEPT !.pc = "create"]
  <2>1. req[r].pc = "look" /\ UNCHANGED <<wf, sess, common, overlaps, served, faults>>
        /\ (req' = [req EXCEPT ![r] = q] \/ req' = [req EXCEPT ![r] = Idle])
    BY <1>1 DEF LookForActive, At
  <2>2. q \in ReqRow /\ q.pc = "create" /\ q.kind = req[r].kind /\ q.slot = req[r].slot
        /\ q.stale = req[r].stale /\ q.slots = req[r].slots /\ q.session = req[r].session
    BY <1>r DEF ReqRow
  <2>3. Fine(q)
    BY <1>r, <2>1, <2>2 DEF Fine
  <2>4. \A i \in Sessions : ~Books(r, i)
    BY <2>1 DEF Books
  <2>5. served' \in 0..MaxRequests /\ faults' \in 0..MaxFaults
    BY <2>1 DEF Inv, Typed
  <2> HIDE DEF q
  <2> QED BY <1>i, <2>1, <2>2, <2>3, <2>4, <2>5, ReqStep
<1>2. CASE CheckSession(r)
  <2> DEFINE q == [req[r] EXCEPT !.pc = "update"]
  <2>1. req[r].pc = "check" /\ UNCHANGED <<wf, sess, common, overlaps, served, faults>>
        /\ (req' = [req EXCEPT ![r] = q] \/ req' = [req EXCEPT ![r] = Idle])
    BY <1>2 DEF CheckSession, At
  <2>2. q \in ReqRow /\ q.pc = "update" /\ q.kind = req[r].kind /\ q.slot = req[r].slot
        /\ q.stale = req[r].stale /\ q.slots = req[r].slots /\ q.session = req[r].session
    BY <1>r DEF ReqRow
  <2>3. Fine(q)
    BY <1>r, <2>1, <2>2 DEF Fine
  <2>4. \A i \in Sessions : ~Books(r, i)
    BY <2>1 DEF Books
  <2>5. served' \in 0..MaxRequests /\ faults' \in 0..MaxFaults
    BY <2>1 DEF Inv, Typed
  <2> HIDE DEF q
  <2> QED BY <1>i, <2>1, <2>2, <2>3, <2>4, <2>5, ReqStep
<1>3. CASE RequestFails(r)
  <2>1. UNCHANGED <<wf, sess, common, overlaps, served>> /\ req' = [req EXCEPT ![r] = Idle]
        /\ faults' = faults + 1 /\ faults < MaxFaults
    BY <1>3 DEF RequestFails
  <2>2. served' \in 0..MaxRequests /\ faults' \in 0..MaxFaults /\ faults' # 0
    BY <2>1 DEF Inv, Typed
  <2> QED BY <1>i, <2>1, <2>2, ReqStep
<1> QED BY <1>1, <1>2, <1>3

(* A booking writes the session it has made or found.                      *)
LEMMA BookSession ==
  ASSUME Inv, NEW r \in Requests, NEW i \in Sessions,
         UNCHANGED <<wf, common, overlaps, served, faults>>,
         sess'[i] \in SessRow, sess'[i].status = "SCHEDULED", sess'[i].by = "booking",
         sess'[i].at = req[r].slot,
         sess' \in [Sessions -> SessRow], req' \in [Requests -> ReqRow],
         \A j \in Sessions \ {i} : sess'[j] = sess[j],
         \A s \in Requests \ {r} : req'[s] = req[s],
         req[r].pc \in {"create", "update"},
         req'[r].pc = "write", req'[r].session = i, req'[r].kind = req[r].kind,
         req'[r].slot = req[r].slot, req'[r].slots = req[r].slots,
         req'[r].stale <=> req[r].stale,
         req[r].stale \/ wf.session \in {None, i}
  PROVE  Inv'
<1>r. Fine(req[r]) /\ req[r].kind = "book"
  BY DEF Inv, RequestsFine, Fine
<1>0. \A j \in Sessions : IsSession(j) => IsSession(j)'
  BY DEF IsSession
<1>1. Typed'
  BY <1>0 DEF Inv, Typed, IsSession
<1>2. RequestsFine'
  <2> SUFFICES ASSUME NEW s \in Requests PROVE Fine(req[s])'
    BY DEF RequestsFine
  <2>1. Fine(req[s])
    BY DEF Inv, RequestsFine
  <2>2. CASE s = r
    BY <2>1, <2>2, <1>r DEF Fine, Allowed, IsSession
  <2>3. CASE s # r
    BY <2>1, <2>3, <1>0 DEF Fine, Allowed, IsSession
  <2> QED BY <2>2, <2>3
<1>3. SlotsCommon'
  BY DEF Inv, SlotsCommon
<1>4. MadeAtSelected'
  <2> SUFFICES ASSUME overlaps = 0
               PROVE  /\ \A j \in Sessions : IsSession(j)' /\ sess'[j].by = "booking" =>
                           wf.state \notin Early /\ sess'[j].at = wf.selected
                      /\ wf.state = "BOOKED" => wf.session # None
    BY DEF MadeAtSelected
  <2>1. wf.state \notin Early /\ req[r].slot = wf.selected
    BY <1>r DEF Fine
  <2> QED BY <2>1 DEF Inv, MadeAtSelected, IsSession
<1>5. NoOrphanSession'
  <2>1. AboutToBook(i)'
    BY <1>r DEF AboutToBook, At
  <2>2. \A j \in Sessions : AboutToBook(j) => AboutToBook(j)'
    BY DEF AboutToBook, At
  <2>3. Lost' \subseteq Lost
    BY <2>1, <2>2 DEF Lost
  <2> QED BY <2>3, LostKept DEF Inv, Typed
<1> QED BY <1>1, <1>2, <1>3, <1>4, <1>5 DEF Inv

LEMMA CreateInv ==
  ASSUME Inv, NEW r \in Requests, CreateSession(r)
  PROVE  Inv'
<1>r. req \in [Requests -> ReqRow] /\ sess \in [Sessions -> SessRow] /\ Fine(req[r])
  BY DEF Inv, Typed, RequestsFine
<1>1. PICK i \in Sessions :
        /\ sess' = [sess EXCEPT ![i] = [status |-> "SCHEDULED", at |-> req[r].slot, by |-> "booking"]]
        /\ req' = [req EXCEPT ![r].pc = "write", ![r].session = i]
        /\ req[r].pc = "create" /\ UNCHANGED <<wf, common, overlaps, served, faults>>
  BY DEF CreateSession, NewSession, SlotToBook, At
<1>2. [status |-> "SCHEDULED", at |-> req[r].slot, by |-> "booking"] \in SessRow
  BY <1>r DEF SessRow, ReqRow
<1>3. /\ sess' \in [Sessions -> SessRow]
      /\ sess'[i] = [status |-> "SCHEDULED", at |-> req[r].slot, by |-> "booking"]
      /\ \A j \in Sessions \ {i} : sess'[j] = sess[j]
  BY <1>1, <1>2, <1>r
<1> DEFINE w == [req[r] EXCEPT !.pc = "write"]
           q == [w EXCEPT !.session = i]
<1>4. req' = [req EXCEPT ![r] = q]
  BY <1>1, <1>r
<1>5. w \in ReqRow /\ w.pc = "write" /\ w.kind = req[r].kind
      /\ w.slot = req[r].slot /\ w.slots = req[r].slots /\ w.stale = req[r].stale
  BY <1>r DEF ReqRow
<1> HIDE DEF w
<1>6. q \in ReqRow /\ q.pc = "write" /\ q.session = i /\ q.kind = w.kind
      /\ q.slot = w.slot /\ q.slots = w.slots /\ q.stale = w.stale
  BY <1>5 DEF ReqRow
<1> HIDE DEF q
<1>7. /\ req' \in [Requests -> ReqRow] /\ req'[r] = q
      /\ \A s \in Requests \ {r} : req'[s] = req[s]
  BY <1>4, <1>6, <1>r
<1>8. req[r].stale \/ wf.session \in {None, i}
  BY <1>1, <1>r DEF Fine
<1>9. sess'[i].status = "SCHEDULED" /\ sess'[i].by = "booking" /\ sess'[i].at = req[r].slot
  BY <1>3
<1> QED BY <1>1, <1>3, <1>5, <1>6, <1>7, <1>8, <1>9, BookSession

LEMMA UpdateInv ==
  ASSUME Inv, NEW r \in Requests, UpdateSession(r)
  PROVE  Inv'
<1>r. req \in [Requests -> ReqRow] /\ sess \in [Sessions -> SessRow] /\ Fine(req[r])
  BY DEF Inv, Typed, RequestsFine
<1> DEFINE i == req[r].session
<1>1. req' = [req EXCEPT ![r].pc = "write"] /\ req[r].pc = "update"
      /\ UNCHANGED <<wf, common, overlaps, served, faults>>
      /\ sess' = [sess EXCEPT ![i].status = "SCHEDULED", ![i].at = req[r].slot, ![i].by = "booking"]
  BY DEF UpdateSession, SlotToBook, At
<1>2. i \in Sessions /\ req[r].slot \in Slots \union {NoSlot}
  BY <1>1, <1>r DEF Fine, IsSession, ReqRow
<1> DEFINE w == [[[sess[i] EXCEPT !.status = "SCHEDULED"] EXCEPT !.at = req[r].slot] EXCEPT !.by = "booking"]
<1>3. sess' = [sess EXCEPT ![i] = w]
  BY <1>1, <1>2, <1>r
<1>4. [sess[i] EXCEPT !.status = "SCHEDULED"] \in SessRow
  BY <1>2, <1>r DEF SessRow
<1>5. [[sess[i] EXCEPT !.status = "SCHEDULED"] EXCEPT !.at = req[r].slot] \in SessRow
  BY <1>2, <1>4 DEF SessRow
<1>6. w \in SessRow /\ w.status = "SCHEDULED" /\ w.by = "booking" /\ w.at = req[r].slot
  BY <1>2, <1>4, <1>5, <1>r DEF SessRow
<1> HIDE DEF w
<1>7. /\ sess' \in [Sessions -> SessRow] /\ sess'[i] = w
      /\ \A j \in Sessions \ {i} : sess'[j] = sess[j]
  BY <1>2, <1>3, <1>6, <1>r
<1> DEFINE q == [req[r] EXCEPT !.pc = "write"]
<1>8. q \in ReqRow /\ q.pc = "write" /\ q.session = i /\ q.kind = req[r].kind
      /\ q.slot = req[r].slot /\ q.slots = req[r].slots /\ q.stale = req[r].stale
  BY <1>r DEF ReqRow
<1>9. req' = [req EXCEPT ![r] = q]
  BY <1>1, <1>r
<1> HIDE DEF q
<1>10. /\ req' \in [Requests -> ReqRow] /\ req'[r] = q
       /\ \A s \in Requests \ {r} : req'[s] = req[s]
  BY <1>8, <1>9, <1>r
<1>11. req[r].stale \/ wf.session \in {None, i}
  BY <1>1, <1>r DEF Fine
<1> QED BY <1>1, <1>2, <1>6, <1>7, <1>8, <1>10, <1>11, BookSession

(* The recruiter's own steps make no session a booking's.                  *)
LEMMA RecruiterInv ==
  ASSUME Inv, Recruiter
  PROVE  Inv'
<1>r. sess \in [Sessions -> SessRow]
  BY DEF Inv, Typed
<1>1. UNCHANGED <<wf, req, common, overlaps, served, faults>>
  BY DEF Recruiter
<1>2. PICK i \in Sessions, w \in SessRow :
        /\ sess' = [sess EXCEPT ![i] = w] /\ w.status # "none"
        /\ w.by = "booking" =>
             /\ sess[i].by = "booking" /\ sess[i].at = w.at /\ sess[i].status # "none"
  <2>1. PICK i \in Sessions :
          \/ StartSession(i) \/ CloseSession(i) \/ MissSession(i) \/ MoveSession(i)
         \/ ScheduleSession(i)
    BY DEF Recruiter
  <2>2. CASE StartSession(i)
    <3> DEFINE w == [sess[i] EXCEPT !.status = "RUNNING"]
    <3>1. w \in SessRow /\ w.status = "RUNNING" /\ w.by = sess[i].by /\ w.at = sess[i].at
      BY <1>r DEF SessRow
    <3>2. sess' = [sess EXCEPT ![i] = w] /\ sess[i].status = "SCHEDULED"
      BY <2>2, <1>r DEF StartSession
    <3> HIDE DEF w
    <3> QED BY <3>1, <3>2
  <2>3. CASE CloseSession(i)
    <3> DEFINE w == [sess[i] EXCEPT !.status = "CLOSED"]
    <3>1. w \in SessRow /\ w.status = "CLOSED" /\ w.by = sess[i].by /\ w.at = sess[i].at
      BY <1>r DEF SessRow
    <3>2. sess' = [sess EXCEPT ![i] = w] /\ sess[i].status # "none"
      BY <2>3, <1>r DEF CloseSession
    <3> HIDE DEF w
    <3> QED BY <3>1, <3>2
  <2>4. CASE MissSession(i)
    <3> DEFINE w == [sess[i] EXCEPT !.status = "MISSED"]
    <3>1. w \in SessRow /\ w.status = "MISSED" /\ w.by = sess[i].by /\ w.at = sess[i].at
      BY <1>r DEF SessRow
    <3>2. sess' = [sess EXCEPT ![i] = w] /\ sess[i].status # "none"
      BY <2>4, <1>r DEF MissSession, ActiveSessions
    <3> HIDE DEF w
    <3> QED BY <3>1, <3>2
  <2>5. CASE MoveSession(i) \/ ScheduleSession(i)
    <3>1. sess' = [sess EXCEPT ![i] = OwnTime]
      BY <2>5 DEF MoveSession, ScheduleSession
    <3>2. OwnTime \in SessRow /\ OwnTime.status = "SCHEDULED" /\ OwnTime.by = "recruiter"
      BY DEF OwnTime, SessRow
    <3> QED BY <3>1, <3>2
  <2> QED BY <2>1, <2>2, <2>3, <2>4, <2>5
<1>3. /\ sess' \in [Sessions -> SessRow] /\ sess'[i] = w
      /\ \A j \in Sessions \ {i} : sess'[j] = sess[j]
  BY <1>2, <1>r
<1>4. \A j \in Sessions :
        /\ sess[j].status # "none" => sess'[j].status # "none"
        /\ sess'[j].by = "booking" /\ sess'[j].status # "none" =>
             /\ sess[j].by = "booking" /\ sess[j].at = sess'[j].at /\ sess[j].status # "none"
  BY <1>2, <1>3
<1>5. Typed'
  BY <1>1, <1>3, <1>4 DEF Inv, Typed, IsSession
<1>6. RequestsFine' /\ SlotsCommon'
  BY <1>1, <1>4 DEF Inv, RequestsFine, SlotsCommon, Fine, IsSession, Allowed
<1>7. MadeAtSelected'
  BY <1>1, <1>4 DEF Inv, MadeAtSelected, IsSession
<1>8. NoOrphanSession'
  <2>1. Lost' \subseteq Lost
    BY <1>1, <1>4 DEF Lost, AboutToBook, At
  <2> QED BY <1>1, <2>1, LostKept DEF Inv, Typed
<1> QED BY <1>5, <1>6, <1>7, <1>8 DEF Inv

LEMMA CreateWorkflowInv ==
  ASSUME Inv, CreateWorkflow
  PROVE  Inv'
<1> DEFINE w == [wf EXCEPT !.state = "COLLECTING_RECRUITER_AVAILABILITY"]
<1>1. wf' = w /\ wf.state = "none" /\ UNCHANGED <<sess, req, common, overlaps, served, faults>>
  BY DEF CreateWorkflow, In
<1>2. /\ w \in WfRow /\ w.state = "COLLECTING_RECRUITER_AVAILABILITY" /\ w.session = wf.session
      /\ w.selected = wf.selected /\ w.proposed = wf.proposed
      /\ w.recruiter = wf.recruiter /\ w.candidate = wf.candidate
  BY DEF Inv, Typed, WfRow, States
<1> HIDE DEF w
<1>3. Typed'
  BY <1>1, <1>2 DEF Inv, Typed, IsSession
<1>4. RequestsFine'
  <2> SUFFICES ASSUME NEW s \in Requests PROVE Fine(req[s])'
    BY DEF RequestsFine
  <2>1. Fine(req[s])
    BY DEF Inv, RequestsFine
  <2> QED BY <2>1, <1>1, <1>2 DEF Fine, Allowed, IsSession, Early
<1>5. SlotsCommon' /\ MadeAtSelected'
  BY <1>1, <1>2 DEF Inv, SlotsCommon, MadeAtSelected, IsSession, Early
<1>6. NoOrphanSession'
  <2>1. Lost' \subseteq Lost
    BY <1>1, <1>2 DEF Lost, AboutToBook, At
  <2> QED BY <1>1, <2>1, LostKept DEF Inv, Typed
<1> QED BY <1>3, <1>4, <1>5, <1>6 DEF Inv

(* What a request of each kind leaves in the row.                          *)
LEMMA WrittenFields ==
  ASSUME NEW q \in ReqRow, wf \in WfRow, q.kind # "none", NEW w, w = Written(q)
  PROVE  /\ w \in WfRow
         /\ w.session = wf.session \/ q.kind = "book"
         /\ q.kind = "book" => w.session = q.session
         /\ w.selected = wf.selected \/ (q.kind = "select" /\ w.selected = q.slot)
         /\ w.proposed = wf.proposed \/ (q.kind = "propose" /\ w.proposed = q.slots)
         /\ q.kind \in {"constraints", "availability", "propose"} => w.state \in Early
         /\ q.kind = "select" => w.state = "SLOT_SELECTED"
         /\ q.kind = "cancel" => w.state = "CANCELLED"
         /\ q.kind = "reschedule" => w.state = "RESCHEDULE_PENDING"
         /\ q.kind = "book" => w.state = "BOOKED"
<1>1. CASE q.kind = "constraints"
  <2>1. w = [wf EXCEPT !.recruiter = q.slots, !.state = "COLLECTING_CANDIDATE_AVAILABILITY"]
    BY <1>1, Zenon DEF Written
  <2> QED BY <1>1, <2>1 DEF WfRow, ReqRow, States, Early
<1>2. CASE q.kind = "availability"
  <2>1. w = [wf EXCEPT !.candidate = q.slots, !.state = "SLOT_PROPOSAL_READY"]
    BY <1>2, Zenon DEF Written
  <2> QED BY <1>2, <2>1 DEF WfRow, ReqRow, States, Early
<1>3. CASE q.kind = "propose"
  <2>1. w = [wf EXCEPT !.proposed = q.slots, !.state = "SLOT_PROPOSAL_READY"]
    BY <1>3, Zenon DEF Written
  <2> QED BY <1>3, <2>1 DEF WfRow, ReqRow, States, Early
<1>4. CASE q.kind = "select"
  <2>1. w = [wf EXCEPT !.selected = q.slot, !.state = "SLOT_SELECTED"]
    BY <1>4, Zenon DEF Written
  <2> QED BY <1>4, <2>1 DEF WfRow, ReqRow, States, Early
<1>5. CASE q.kind = "cancel"
  <2>1. w = [wf EXCEPT !.state = "CANCELLED", !.status = "CANCELLED"]
    BY <1>5, Zenon DEF Written, Cancelled
  <2> QED BY <1>5, <2>1 DEF WfRow, ReqRow, States, Early
<1>6. CASE q.kind = "reschedule"
  <2>1. w = [wf EXCEPT !.state = "RESCHEDULE_PENDING", !.status = "ACTIVE"]
    BY <1>6, Zenon DEF Written
  <2> QED BY <1>6, <2>1 DEF WfRow, ReqRow, States, Early
<1>7. CASE q.kind = "book"
  <2>1. w = [wf EXCEPT !.session = q.session, !.state = "BOOKED", !.status = "COMPLETED"]
    BY <1>7, Zenon DEF Written, Booked
  <2> DEFINE x == [wf EXCEPT !.session = q.session]
             y == [x EXCEPT !.state = "BOOKED"]
  <2>2. x \in WfRow /\ x.session = q.session /\ x.selected = wf.selected /\ x.proposed = wf.proposed
    BY DEF WfRow, ReqRow
  <2>3. w = [y EXCEPT !.status = "COMPLETED"]
    BY <2>1
  <2> HIDE DEF x
  <2>4. y \in WfRow /\ y.session = x.session /\ y.selected = x.selected /\ y.proposed = x.proposed
        /\ y.state = "BOOKED"
    BY <2>2 DEF WfRow, States
  <2> HIDE DEF y
  <2> QED BY <1>7, <2>2, <2>3, <2>4 DEF WfRow
<1> QED BY <1>1, <1>2, <1>3, <1>4, <1>5, <1>6, <1>7 DEF ReqRow, Kinds

LEMMA WriteInv ==
  ASSUME Inv, NEW r \in Requests, WriteWorkflow(r)
  PROVE  Inv' /\ (wf.state = "CANCELLED" /\ overlaps' = overlaps => wf'.state = "CANCELLED")
<1> DEFINE q == req[r]
<1>1. /\ wf' = Written(q) /\ q.pc = "write" /\ UNCHANGED <<sess, served, faults>>
      /\ common' = common \union (wf'.recruiter \intersect wf'.candidate)
  BY DEF WriteWorkflow, At
<1>n. overlaps \in Nat /\ faults \in Nat
  BY DEF Inv, Typed
<1>o. /\ overlaps' = overlaps => ~q.stale
      /\ overlaps' # overlaps => overlaps' = overlaps + 1
      /\ overlaps' = 0 => overlaps = 0 /\ overlaps' = overlaps
      /\ overlaps' \in Nat
  BY <1>n DEF WriteWorkflow
<1>2. q \in ReqRow /\ Fine(q) /\ q.kind # "none"
  BY <1>1 DEF Inv, Typed, RequestsFine, Fine
<1>3. /\ wf' \in WfRow
      /\ wf'.session = wf.session \/ q.kind = "book"
      /\ q.kind = "book" => wf'.session = q.session
      /\ wf'.selected = wf.selected \/ (q.kind = "select" /\ wf'.selected = q.slot)
      /\ wf'.proposed = wf.proposed \/ (q.kind = "propose" /\ wf'.proposed = q.slots)
      /\ q.kind \in {"constraints", "availability", "propose"} => wf'.state \in Early
      /\ q.kind = "select" => wf'.state = "SLOT_SELECTED"
      /\ q.kind = "cancel" => wf'.state = "CANCELLED"
      /\ q.kind = "reschedule" => wf'.state = "RESCHEDULE_PENDING"
      /\ q.kind = "book" => wf'.state = "BOOKED"
  BY <1>1, <1>2, WrittenFields DEF Inv, Typed
<1>4. /\ req' \in [Requests -> ReqRow] /\ req'[r] = Idle
      /\ \A s \in Requests \ {r} : req[s].pc = "idle" => req'[s] = req[s]
      /\ \A s \in Requests \ {r} : req[s].pc # "idle" =>
           /\ req'[s].stale /\ req'[s].pc = req[s].pc /\ req'[s].kind = req[s].kind
           /\ req'[s].slot = req[s].slot /\ req'[s].slots = req[s].slots
           /\ req'[s].session = req[s].session
  <2> DEFINE late(s) == [req[s] EXCEPT !.stale = TRUE]
             new(s) == IF s = r THEN Idle ELSE IF req[s].pc = "idle" THEN req[s] ELSE late(s)
  <2>1. req' = [s \in Requests |-> new(s)]
    BY DEF WriteWorkflow, At
  <2>2. \A s \in Requests :
          /\ late(s) \in ReqRow
          /\ late(s).stale /\ late(s).pc = req[s].pc /\ late(s).kind = req[s].kind
          /\ late(s).slot = req[s].slot /\ late(s).slots = req[s].slots
          /\ late(s).session = req[s].session
    BY DEF ReqRow, Inv, Typed
  <2>3. Idle \in ReqRow
    BY DEF Idle, ReqRow, Kinds
  <2> HIDE DEF late
  <2>4. \A s \in Requests : new(s) \in ReqRow
    BY <2>2, <2>3 DEF Inv, Typed
  <2> QED BY <2>1, <2>2, <2>4
<1> HIDE DEF q
<1>5. Typed'
  <2>1. wf'.session # None => IsSession(wf'.session)
    BY <1>1, <1>2, <1>3 DEF Inv, Typed, Fine, IsSession
  <2>2. common' \subseteq Slots
    BY <1>1, <1>3 DEF Inv, Typed, WfRow
  <2> QED BY <1>1, <1>3, <1>4, <1>o, <2>1, <2>2 DEF Inv, Typed, IsSession
<1>6. SlotsCommon'
  BY <1>1, <1>2, <1>3 DEF Inv, SlotsCommon, Fine
<1>7. overlaps' = overlaps => Fine(q) /\ Allowed(q.kind)
        /\ (q.kind = "book" => wf.session = None \/ wf.session = q.session)
  BY <1>o, <1>2 DEF Fine
<1>8. overlaps' = overlaps /\ wf.state \notin Early => wf'.state \notin Early /\ wf'.selected = wf.selected
  BY <1>2, <1>3, <1>7 DEF Allowed, Early, ReqRow, Kinds
<1>9. RequestsFine'
  <2> SUFFICES ASSUME NEW s \in Requests PROVE Fine(req[s])'
    BY DEF RequestsFine
  <2>1. Fine(req[s])
    BY DEF Inv, RequestsFine
  <2>2. CASE req'[s].pc = "idle"
    BY <1>4, <2>1, <2>2 DEF Fine, Allowed, Idle
  <2>3. CASE req'[s].pc # "idle"
    <3>1. s # r /\ req[s].pc # "idle"
      BY <1>4, <2>3 DEF Idle
    <3> QED BY <1>1, <1>4, <1>8, <1>o, <2>1, <3>1 DEF Fine, IsSession
  <2> QED BY <2>2, <2>3
<1>10. MadeAtSelected'
  <2> SUFFICES ASSUME overlaps' = 0
               PROVE  /\ \A i \in Sessions : IsSession(i) /\ sess[i].by = "booking" =>
                           wf'.state \notin Early /\ sess[i].at = wf'.selected
                      /\ wf'.state = "BOOKED" => wf'.session # None
    BY <1>1 DEF MadeAtSelected, IsSession
  <2>1. \A i \in Sessions : IsSession(i) /\ sess[i].by = "booking" =>
          wf'.state \notin Early /\ sess[i].at = wf'.selected
    BY <1>8, <1>o DEF Inv, MadeAtSelected
  <2>2. wf'.state = "BOOKED" => q.kind = "book"
    BY <1>2, <1>3 DEF Early, ReqRow, Kinds
  <2>3. wf'.state = "BOOKED" => wf'.session # None
    BY <2>2, <1>1, <1>2, <1>3 DEF Fine, IsSession
  <2> QED BY <2>1, <2>3
<1>11. NoOrphanSession'
  <2>1. \A i \in Sessions : AboutToBook(i) => AboutToBook(i)' \/ (q.kind = "book" /\ i = q.session)
    BY <1>4 DEF AboutToBook, At, q
  <2>2. Lost' \subseteq Lost \union {wf.session}
    BY <1>1, <1>3, <2>1 DEF Lost
  <2>3. CASE overlaps' = overlaps
    <3>1. None \notin Sessions
      OBVIOUS
    <3>2. wf'.session = wf.session \/ wf.session = None
      BY <1>3, <1>7, <2>3
    <3>3. Lost' \subseteq Lost
      BY <1>1, <1>3, <2>1, <2>2, <3>1, <3>2 DEF Lost
    <3> QED BY <1>1, <1>n, <1>o, <2>3, <3>3, LostKept
  <2>4. CASE overlaps' # overlaps
    BY <1>1, <1>n, <1>o, <2>2, <2>4, LostOne
  <2> QED BY <2>3, <2>4
<1>12. wf.state = "CANCELLED" /\ overlaps' = overlaps => wf'.state = "CANCELLED"
  BY <1>2, <1>3, <1>7 DEF Allowed, Early, ReqRow, Kinds
<1> QED BY <1>5, <1>6, <1>9, <1>10, <1>11, <1>12 DEF Inv

LEMMA NextInv == Inv /\ [Next]_vars => Inv'
<1> SUFFICES ASSUME Inv, [Next]_vars PROVE Inv'
  OBVIOUS
<1>1. CASE CreateWorkflow
  BY <1>1, CreateWorkflowInv
<1>2. CASE Recruiter
  BY <1>2, RecruiterInv
<1>3. ASSUME NEW r \in Requests, Read(r) PROVE Inv'
  BY <1>3, ReadInv
<1>4. ASSUME NEW r \in Requests, Step(r) \/ RequestFails(r) PROVE Inv'
  BY <1>4, LookInv, CreateInv, UpdateInv, WriteInv DEF Step
<1>5. CASE UNCHANGED vars
  BY <1>5 DEF vars, Inv, Typed, RequestsFine, Fine, Allowed, IsSession, SlotsCommon,
              MadeAtSelected, NoOrphanSession, Lost, AboutToBook, At
<1> QED BY <1>1, <1>2, <1>3, <1>4, <1>5 DEF Next

LEMMA InvHolds == Spec => []Inv
BY InitInv, NextInv, PTL DEF Spec

(* The rows have their types in every reachable state.                     *)
THEOREM TypeCorrect == Spec => []TypeOK
<1>1. Inv => TypeOK
  BY DEF Inv, Typed, RequestsFine, Fine, IsSession, TypeOK, At, WfRow, SessRow, ReqRow, Kinds
<1> QED BY <1>1, InvHolds, PTL

(* A selected slot was at some time available to both sides.               *)
THEOREM SelectedIsCommon == Spec => []SelectedWasCommon
<1>1. Inv => SelectedWasCommon
  BY DEF Inv, SlotsCommon, SelectedWasCommon
<1> QED BY <1>1, InvHolds, PTL

(* A booked workflow has its session at the selected slot, until requests  *)
(* overlap or the recruiter moves the session.                             *)
THEOREM BookedIsAtSelected == Spec => []BookedAtSelected
<1>1. Inv => BookedAtSelected
  BY DEF Inv, Typed, MadeAtSelected, BookedAtSelected, IsSession
<1> QED BY <1>1, InvHolds, PTL

(* No booking leaves a session of its own behind, but for one that is cut  *)
(* off and one that writes the workflow over another.                      *)
THEOREM SessionsAreOwned == Spec => []NoOrphanSession
<1>1. Inv => NoOrphanSession
  BY DEF Inv
<1> QED BY <1>1, InvHolds, PTL

(* Only an overlapping request takes a workflow out of CANCELLED.          *)
THEOREM CancelledIsFinal == Spec => CancelledStays
<1> DEFINE Stays == wf.state = "CANCELLED" /\ overlaps' = overlaps => wf'.state = "CANCELLED"
<1>1. Inv /\ [Next]_vars => Stays
  <2> SUFFICES ASSUME Inv, [Next]_vars, wf.state = "CANCELLED", overlaps' = overlaps
               PROVE  wf'.state = "CANCELLED"
    OBVIOUS
  <2>1. ASSUME NEW r \in Requests, WriteWorkflow(r) PROVE wf'.state = "CANCELLED"
    BY <2>1, WriteInv
  <2>2. CASE UNCHANGED wf
    BY <2>2
  <2>3. ~CreateWorkflow
    BY DEF CreateWorkflow, In
  <2>4. (\E r \in Requests : WriteWorkflow(r)) \/ UNCHANGED wf
    BY <2>3 DEF Next, Recruiter, Read, Step, RequestFails, vars, BeginConstraints,
                BeginAvailability, BeginPropose, BeginSelect, BeginCancel, BeginReschedule,
                BeginBook, Ask, Begin, LookForActive, CreateSession, CheckSession, UpdateSession
  <2> QED BY <2>1, <2>2, <2>4
<1> QED BY <1>1, InvHolds, PTL DEF Spec, CancelledStays

=============================================================================
