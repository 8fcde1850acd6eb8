------------------------- MODULE ConversationProofs -------------------------
(***************************************************************************)
(* Theorems about InterviewConversation for any template, any number of    *)
(* overlapping requests and any cuts.  The invariant says what a request   *)
(* that has decided to ask or to close may still rely on although its view *)
(* is out of date: turns are only added and answered (Grows), so what was  *)
(* answered in the view still is, and the unique number of a turn tells    *)
(* whether anything was added since.  How often a question can be asked is *)
(* bounded by counting, level by level, the questions asked together with  *)
(* the requests and the open questions that may still lead to one more.    *)
(***************************************************************************)
EXTENDS InterviewConversation, FiniteSetTheorems, TLAPS, WellFoundedInduction

USE ConversationAssumption DEF None

Statuses == {"SCHEDULED", "RUNNING", "COMPLETED", "ENDED"}
Engines == {"initial", "awaiting", "confirmed"}
TurnRow == [block : 1..Blocks, depth : Nat, asked : BOOLEAN]
Answers == {"answer", "record", "route"}
PCs == {"idle", "start", "deliver", "look", "replace", "prompt", "answer", "reply", "classify",
        "record", "route", "await", "ask", "complete", "finish"}
ReqRow == [pc : PCs, view : Views, block : 0..Blocks, depth : Nat,
           then : {"idle", "await", "ask", "complete"}]

Typed ==
  /\ status \in Statuses /\ engine \in Engines /\ turns \in Seq(TurnRow)
  /\ req \in [Requests -> ReqRow]
  /\ transcript \in BOOLEAN /\ closed \in BOOLEAN
  /\ overlaps \in 0..MaxOverlaps /\ cuts \in 0..MaxCuts

IsPrimary(ts, j, b) == ts[j].depth = 0 /\ ts[j].block = b

(* The first n turns are answered, and are those of the blocks before b.   *)
Behind(ts, b, n) == \A i \in 1..n : ~ts[i].asked /\ ts[i].block < b
Led(ts, b, n) == \A c \in 1..(b - 1) : \E j \in 1..n : IsPrimary(ts, j, c)
Ahead(ts, b, n) == Behind(ts, b, n) /\ Led(ts, b, n)

Answered(ts, b) == \E i \in 1..Len(ts) : ~ts[i].asked /\ ts[i].block = b
AllAnswered(ts) == \A b \in 1..Blocks : Answered(ts, b)

(* What is true of a request in flight.                                    *)
Fine(ts, q) ==
  /\ q.pc \in Answers => q.view.open \in 1..Len(ts) /\ q.then = "idle"
  /\ q.then = "complete" => AllAnswered(ts)
  /\ q.then = "ask" =>
       /\ q.view.len <= Len(ts) /\ q.block \in 1..Blocks
       /\ q.depth = 0 => Ahead(ts, q.block, q.view.len)
       /\ q.depth # 0 => \E j \in 1..q.view.len : IsPrimary(ts, j, q.block)
  /\ q.pc = "ask" => q.then = "ask"

RequestsFine == \A r \in Requests : Fine(turns, req[r])
HasPrimary(ts) == \A i \in 1..Len(ts) : \E j \in 1..i : IsPrimary(ts, j, ts[i].block)
InOrder(ts) == \A i \in 1..Len(ts) : ts[i].depth = 0 => Ahead(ts, ts[i].block, i - 1)
ClosedAnswered == closed => AllAnswered(turns)

Inv == Typed /\ RequestsFine /\ HasPrimary(turns) /\ InOrder(turns) /\ ClosedAnswered

LEMMA InitInv == Init => Inv
<1> SUFFICES ASSUME Init PROVE Inv
  OBVIOUS
<1>1. Typed
  <2>1. status \in Statuses /\ engine \in Engines /\ turns \in Seq(TurnRow)
    BY DEF Init, Statuses, Engines, TurnRow
  <2>2. req \in [Requests -> ReqRow]
    <3>1. Idle \in ReqRow
      BY DEF Idle, NoView, Views, ReqRow, PCs
    <3> QED BY <3>1 DEF Init
  <2>3. transcript \in BOOLEAN /\ closed \in BOOLEAN
    BY Zenon DEF Init
  <2>4. overlaps \in 0..MaxOverlaps /\ cuts \in 0..MaxCuts
    BY DEF Init
  <2> QED BY <2>1, <2>2, <2>3, <2>4 DEF Typed
<1>2. RequestsFine
  BY DEF Init, RequestsFine, Fine, Idle, Answers
<1>3. HasPrimary(turns) /\ InOrder(turns) /\ ClosedAnswered
  BY DEF Init, HasPrimary, InOrder, ClosedAnswered
<1> QED BY <1>1, <1>2, <1>3 DEF Inv

----------------------------------------------------------------------------
(* Least picks the smallest of a set of positive numbers, None of none.    *)
LEMMA LeastIsLeast ==
  ASSUME NEW S \in SUBSET (Nat \ {0})
  PROVE  /\ Least(S) \in Nat
         /\ Least(S) = None <=> S = {}
         /\ S # {} => Least(S) \in S /\ \A j \in S : Least(S) <= j
<1>1. CASE S = {}
  BY <1>1 DEF Least
<1>2. CASE S # {}
  <2> DEFINE R == OpToRel(<, Nat)
  <2>1. IsWellFoundedOn(R, Nat)
    BY NatLessThanWellFounded
  <2>2. S \subseteq Nat
    OBVIOUS
  <2>3. \A x, y \in Nat : y < x => <<y, x>> \in R
    BY Zenon DEF OpToRel
  <2> HIDE DEF R
  <2>4. PICK x \in S : \A y \in S : ~ (<<y, x>> \in R)
    BY <1>2, <2>1, <2>2, WFMin, Zenon
  <2>5. \A y \in S : ~ (y < x)
    BY Zenon, <2>4, <2>2, <2>3
  <2>6. \A y \in S : x <= y
    BY <2>2, <2>5
  <2>7. \E i \in S : \A j \in S : i <= j
    BY <2>6
  <2> DEFINE l == CHOOSE i \in S : \A j \in S : i <= j
  <2>8. l \in S /\ \A j \in S : l <= j
    BY <2>7
  <2>9. Least(S) = l
    BY <1>2 DEF Least
  <2> QED BY <1>2, <2>8, <2>9
<1> QED BY <1>1, <1>2

(* What a request knows of the turns when it has just read them.           *)
LEMMA FreshView ==
  ASSUME Inv, NEW s \in Statuses, NEW e \in Engines
  PROVE  /\ ViewWith(s, e) \in Views
         /\ ViewWith(s, e).len = Len(turns)
         /\ ViewWith(s, e).open # None => ViewWith(s, e).open \in 1..Len(turns)
         /\ ViewWith(s, e).open = None => \A i \in DOMAIN turns : ~turns[i].asked
         /\ ViewWith(s, e).next = None => AllAnswered(turns)
         /\ ViewWith(s, e).next # None =>
              /\ ViewWith(s, e).next \in 1..Blocks /\ ~Answered(turns, ViewWith(s, e).next)
              /\ \A c \in 1..(ViewWith(s, e).next - 1) : Answered(turns, c)
<1> DEFINE v == ViewWith(s, e)
           rest == 1..Blocks \ AnsweredBlocks
<1>1. turns \in Seq(TurnRow) /\ DOMAIN turns = 1..Len(turns) /\ Len(turns) \in Nat
  BY DEF Inv, Typed
<1>2. OpenTurns \in SUBSET (Nat \ {0}) /\ rest \in SUBSET (Nat \ {0})
  BY <1>1 DEF OpenTurns
<1>3. /\ Least(OpenTurns) \in Nat /\ (Least(OpenTurns) = None <=> OpenTurns = {})
      /\ OpenTurns # {} => Least(OpenTurns) \in OpenTurns
  BY <1>2, LeastIsLeast
<1>4. /\ Least(rest) \in Nat /\ (Least(rest) = None <=> rest = {})
      /\ rest # {} => Least(rest) \in rest /\ \A j \in rest : Least(rest) <= j
  BY <1>2, LeastIsLeast
<1>5. \A b : b \in AnsweredBlocks <=> Answered(turns, b)
  BY DEF AnsweredBlocks, OpenTurns, Answered
<1>6. v.len = Len(turns) /\ v.open = Least(OpenTurns) /\ v.next = Least(rest)
  BY DEF ViewWith
<1>7. v \in Views
  <2>1. Least(rest) \in 0..Blocks
    BY <1>4
  <2>2. transcript \in BOOLEAN
    BY DEF Inv, Typed
  <2> QED BY <1>1, <1>3, <2>1, <2>2 DEF ViewWith, Views, Statuses, Engines
<1>8. v.open # None => v.open \in 1..Len(turns)
  BY <1>1, <1>3, <1>6 DEF OpenTurns
<1>9. v.open = None => \A i \in DOMAIN turns : ~turns[i].asked
  BY <1>3, <1>6 DEF OpenTurns
<1>10. v.next = None => AllAnswered(turns)
  BY <1>4, <1>5, <1>6 DEF AllAnswered
<1>11. v.next # None => v.next \in 1..Blocks /\ ~Answered(turns, v.next)
  BY <1>4, <1>5, <1>6
<1>12. v.next # None => \A c \in 1..(v.next - 1) : Answered(turns, c)
  <2> SUFFICES ASSUME v.next # None, NEW c \in 1..(v.next - 1) PROVE Answered(turns, c)
    OBVIOUS
  <2>1. v.next \in 1..Blocks
    BY <1>11
  <2>2. c \in 1..Blocks
    BY <2>1
  <2>3. c \notin rest
    <3> SUFFICES ASSUME c \in rest PROVE FALSE
      OBVIOUS
    <3>1. Least(rest) <= c
      BY <1>4
    <3> QED BY <1>6, <2>1, <3>1
  <2> QED BY <1>5, <2>2, <2>3
<1> QED BY <1>6, <1>7, <1>8, <1>9, <1>10, <1>11, <1>12

(* The next block of a fresh view without an open question is ahead of all *)
(* turns there are.                                                        *)
LEMMA NextIsAhead ==
  ASSUME Inv, NEW b \in 1..Blocks, ~Answered(turns, b), \A c \in 1..(b - 1) : Answered(turns, c),
         \A i \in DOMAIN turns : ~turns[i].asked
  PROVE  Ahead(turns, b, Len(turns))
<1>1. turns \in Seq(TurnRow) /\ DOMAIN turns = 1..Len(turns) /\ Len(turns) \in Nat
  BY DEF Inv, Typed
<1>2. \A i \in 1..Len(turns) : turns[i].block \in 1..Blocks
  <2>1. \A i \in 1..Len(turns) : turns[i] \in TurnRow
    BY <1>1
  <2> QED BY <2>1 DEF TurnRow
<1>3. \A c \in 1..(b - 1) : \E j \in 1..Len(turns) : IsPrimary(turns, j, c)
  <2> SUFFICES ASSUME NEW c \in 1..(b - 1) PROVE \E j \in 1..Len(turns) : IsPrimary(turns, j, c)
    OBVIOUS
  <2>1. PICK i \in 1..Len(turns) : turns[i].block = c
    BY <1>1 DEF Answered
  <2>2. PICK j \in 1..i : IsPrimary(turns, j, c)
    BY <1>1, <2>1 DEF Inv, HasPrimary
  <2> QED BY <1>1, <2>1, <2>2
<1>4. \A i \in 1..Len(turns) : turns[i].block < b
  <2> SUFFICES ASSUME NEW i \in 1..Len(turns), ~(turns[i].block < b) PROVE FALSE
    OBVIOUS
  <2>1. turns[i].block # b
    BY <1>1 DEF Answered
  <2>2. turns[i].block \in 1..Blocks /\ b \in 1..(turns[i].block - 1)
    BY <1>2, <2>1
  <2>3. PICK j \in 1..i : IsPrimary(turns, j, turns[i].block)
    BY <1>1 DEF Inv, HasPrimary
  <2>4. j \in 1..Len(turns) /\ j - 1 \in Nat /\ j - 1 <= Len(turns)
    BY <1>1, <2>3
  <2>5. Ahead(turns, turns[i].block, j - 1)
    BY <1>1, <2>3, <2>4 DEF Inv, InOrder, IsPrimary
  <2>6. PICK k \in 1..(j - 1) : IsPrimary(turns, k, b)
    BY <2>2, <2>5 DEF Ahead, Led
  <2>7. k \in DOMAIN turns
    BY <1>1, <2>4, <2>6
  <2> QED BY <2>6, <2>7 DEF Answered, IsPrimary
<1> QED BY <1>1, <1>3, <1>4 DEF Ahead, Behind, Led

(* What the engine decides on a fresh view is fine.                        *)
LEMMA EnsureFine ==
  ASSUME Inv, NEW s \in Statuses, NEW e \in Engines
  PROVE  EnsurePrompt(ViewWith(s, e)) \in ReqRow /\ Fine(turns, EnsurePrompt(ViewWith(s, e)))
<1> DEFINE v == ViewWith(s, e)
<1>1. /\ v \in Views /\ v.len = Len(turns)
      /\ v.open = None => \A i \in DOMAIN turns : ~turns[i].asked
      /\ v.next = None => AllAnswered(turns)
      /\ v.next # None => v.next \in 1..Blocks /\ ~Answered(turns, v.next)
                          /\ \A c \in 1..(v.next - 1) : Answered(turns, c)
  BY FreshView
<1>2. Len(turns) \in Nat
  BY DEF Inv, Typed
<1> HIDE DEF v
<1>3. Idle \in ReqRow /\ Fine(turns, Idle)
  BY DEF Idle, NoView, Views, ReqRow, PCs, Fine, Answers
<1>4. Prompt(v, None, 0, "await") \in ReqRow /\ Fine(turns, Prompt(v, None, 0, "await"))
  BY <1>1 DEF Prompt, ReqRow, PCs, Fine, Answers
<1>5. v.next = None => Prompt(v, None, 0, "complete") \in ReqRow /\ Fine(turns, Prompt(v, None, 0, "complete"))
  BY <1>1 DEF Prompt, ReqRow, PCs, Fine, Answers
<1>6. v.open = None /\ v.next # None =>
        Prompt(v, v.next, 0, "ask") \in ReqRow /\ Fine(turns, Prompt(v, v.next, 0, "ask"))
  <2> SUFFICES ASSUME v.open = None, v.next # None
               PROVE  Prompt(v, v.next, 0, "ask") \in ReqRow /\ Fine(turns, Prompt(v, v.next, 0, "ask"))
    OBVIOUS
  <2>1. v.next \in 1..Blocks /\ Ahead(turns, v.next, v.len)
    BY <1>1, NextIsAhead
  <2> QED BY <1>1, <1>2, <2>1 DEF Prompt, ReqRow, PCs, Fine, Answers
<1>7. EnsurePrompt(v) \in ReqRow /\ Fine(turns, EnsurePrompt(v))
  BY <1>3, <1>4, <1>5, <1>6 DEF EnsurePrompt
<1> QED BY <1>7 DEF v

----------------------------------------------------------------------------
(* A step that leaves the turns alone and sets one request to a fine one.  *)
LEMMA ReqStep ==
  ASSUME Inv, NEW r \in Requests, NEW q \in ReqRow, Fine(turns, q), req' = [req EXCEPT ![r] = q],
         UNCHANGED turns, status' \in Statuses, engine' \in Engines, transcript' \in BOOLEAN,
         closed' \in BOOLEAN, closed' => closed \/ AllAnswered(turns),
         overlaps' \in 0..MaxOverlaps, cuts' \in 0..MaxCuts
  PROVE  Inv'
<1>1. Typed'
  BY DEF Inv, Typed
<1>2. RequestsFine'
  <2> SUFFICES ASSUME NEW s \in Requests PROVE Fine(turns, req[s])'
    BY DEF RequestsFine
  <2>1. Fine(turns, req'[s])
    BY DEF Inv, Typed, RequestsFine
  <2> QED BY <2>1
<1>3. HasPrimary(turns)' /\ InOrder(turns)'
  BY DEF Inv
<1>4. ClosedAnswered'
  BY DEF Inv, ClosedAnswered
<1> QED BY <1>1, <1>2, <1>3, <1>4 DEF Inv

LEMMA IdleFine == Idle \in ReqRow /\ (Inv => Fine(turns, Idle))
BY DEF Idle, NoView, Views, ReqRow, PCs, Fine, Answers

LEMMA ReqTyped ==
  ASSUME Inv, NEW r \in Requests
  PROVE  /\ req[r] \in ReqRow /\ Fine(turns, req[r])
         /\ status \in Statuses /\ engine \in Engines /\ transcript \in BOOLEAN
         /\ closed \in BOOLEAN /\ overlaps \in 0..MaxOverlaps /\ cuts \in 0..MaxCuts
BY DEF Inv, Typed, RequestsFine

(* A request that moves on keeps what it knows.                            *)
LEMMA MovedFine ==
  ASSUME Inv, NEW r \in Requests, NEW pc \in PCs, pc = "ask" => req[r].then = "ask",
         pc \in Answers => req[r].pc \in Answers
  PROVE  [req[r] EXCEPT !.pc = pc] \in ReqRow /\ Fine(turns, [req[r] EXCEPT !.pc = pc])
<1> DEFINE q == [req[r] EXCEPT !.pc = pc]
<1>1. req[r] \in ReqRow /\ Fine(turns, req[r])
  BY ReqTyped
<1>2. /\ q \in ReqRow /\ q.pc = pc /\ q.view = req[r].view /\ q.block = req[r].block
      /\ q.depth = req[r].depth /\ q.then = req[r].then
  BY <1>1 DEF ReqRow
<1> HIDE DEF q
<1>3. Fine(turns, q)
  BY <1>1, <1>2 DEF Fine
<1> QED BY <1>2, <1>3 DEF q

----------------------------------------------------------------------------
LEMMA BeginInv ==
  ASSUME Inv, NEW r \in Requests, NEW q \in ReqRow, Fine(turns, q), Begin(r, q)
  PROVE  Inv'
<1>1. overlaps' \in 0..MaxOverlaps
  BY ReqTyped DEF Begin
<1> QED BY <1>1, ReqStep, ReqTyped DEF Begin

LEMMA ReadsFine ==
  ASSUME Inv, NEW pc \in PCs, pc # "ask", pc \in Answers => View.open # None
  PROVE  Reads(pc) \in ReqRow /\ Fine(turns, Reads(pc))
<1>1. status \in Statuses /\ engine \in Engines
  BY DEF Inv, Typed
<1>2. View \in Views /\ (View.open # None => View.open \in 1..Len(turns))
  BY <1>1, FreshView DEF View
<1> DEFINE q == Reads(pc)
<1>3. /\ Idle \in ReqRow /\ Idle.block = None /\ Idle.depth = 0 /\ Idle.then = "idle"
  BY IdleFine DEF Idle
<1>4. /\ q \in ReqRow /\ q.pc = pc /\ q.view = View /\ q.then = "idle"
  BY <1>2, <1>3 DEF Reads, ReqRow
<1> HIDE DEF q
<1>5. Fine(turns, q)
  BY <1>2, <1>4 DEF Fine
<1> QED BY <1>4, <1>5 DEF q

LEMMA BeginsInv ==
  ASSUME Inv, NEW r \in Requests, BeginStart(r) \/ BeginSubmit(r) \/ BeginComplete(r)
  PROVE  Inv'
<1>1. CASE BeginStart(r)
  <2>1. Reads("start") \in ReqRow /\ Fine(turns, Reads("start"))
    BY ReadsFine DEF PCs, Answers
  <2> QED BY <1>1, <2>1, BeginInv DEF BeginStart
<1>2. CASE BeginSubmit(r)
  <2>1. View.open # None => Reads("answer") \in ReqRow /\ Fine(turns, Reads("answer"))
    BY ReadsFine DEF PCs, Answers
  <2>2. Reads("reply") \in ReqRow /\ Fine(turns, Reads("reply"))
    BY ReadsFine DEF PCs, Answers
  <2>3. EnsurePrompt(View) \in ReqRow /\ Fine(turns, EnsurePrompt(View))
    BY EnsureFine, ReqTyped DEF View
  <2>4. CASE View.open # None
    BY <1>2, <2>1, <2>4, BeginInv DEF BeginSubmit
  <2>5. CASE View.open = None /\ NotReady(View)
    BY <1>2, <2>2, <2>5, BeginInv DEF BeginSubmit
  <2>6. CASE View.open = None /\ ~NotReady(View)
    BY <1>2, <2>3, <2>6, BeginInv DEF BeginSubmit
  <2> QED BY <2>4, <2>5, <2>6
<1>3. CASE BeginComplete(r)
  <2>1. Reads("deliver") \in ReqRow /\ Fine(turns, Reads("deliver"))
    BY ReadsFine DEF PCs, Answers
  <2> QED BY <1>3, <2>1, BeginInv DEF BeginComplete
<1> QED BY <1>1, <1>2, <1>3

----------------------------------------------------------------------------
LEMMA TranscriptInv ==
  ASSUME Inv, NEW r \in Requests, NEW q \in ReqRow, Fine(turns, q), WithTranscript(r, q)
  PROVE  Inv'
<1>1. CASE HasTranscript(req[r].view) \/ ~transcript
  <2>1. req' = [req EXCEPT ![r] = q]
    BY <1>1 DEF WithTranscript, Goes
  <2> QED BY <2>1, ReqStep, ReqTyped DEF WithTranscript
<1>2. CASE ~(HasTranscript(req[r].view) \/ ~transcript)
  <2>1. req' = [req EXCEPT ![r] = Idle]
    BY <1>2 DEF WithTranscript, Goes
  <2> QED BY <2>1, ReqStep, ReqTyped, IdleFine DEF WithTranscript
<1> QED BY <1>1, <1>2

LEMMA AppendsInv ==
  ASSUME Inv, NEW r \in Requests,
         AppendPrompt(r) \/ AppendAnswer(r) \/ AppendReply(r) \/ ReplaceTranscript(r)
  PROVE  Inv'
<1>1. CASE AppendPrompt(r)
  <2>1. req[r].then \in PCs \ Answers
    BY ReqTyped DEF ReqRow, PCs, Answers
  <2>2. [req[r] EXCEPT !.pc = req[r].then] \in ReqRow /\ Fine(turns, [req[r] EXCEPT !.pc = req[r].then])
    BY <2>1, MovedFine
  <2> QED BY <1>1, <2>2, TranscriptInv DEF AppendPrompt
<1>2. CASE AppendAnswer(r)
  <2>1. [req[r] EXCEPT !.pc = "record"] \in ReqRow /\ Fine(turns, [req[r] EXCEPT !.pc = "record"])
    BY <1>2, MovedFine DEF PCs, Answers, AppendAnswer, At
  <2> QED BY <1>2, <2>1, TranscriptInv DEF AppendAnswer
<1>3. CASE AppendReply(r)
  <2>1. [req[r] EXCEPT !.pc = "classify"] \in ReqRow /\ Fine(turns, [req[r] EXCEPT !.pc = "classify"])
    BY MovedFine DEF PCs, Answers
  <2> QED BY <1>3, <2>1, TranscriptInv DEF AppendReply
<1>4. CASE ReplaceTranscript(r)
  <2>1. [req[r] EXCEPT !.pc = "complete"] \in ReqRow /\ Fine(turns, [req[r] EXCEPT !.pc = "complete"])
    BY MovedFine DEF PCs, Answers
  <2> QED BY <1>4, <2>1, TranscriptInv DEF ReplaceTranscript
<1> QED BY <1>1, <1>2, <1>3, <1>4

LEMMA MarkRunningInv ==
  ASSUME Inv, NEW r \in Requests, MarkRunning(r) PROVE Inv'
<1>1. status' \in Statuses
  BY ReqTyped DEF MarkRunning, Statuses
<1>2. EnsurePrompt(ViewWith(status', engine)) \in ReqRow /\ Fine(turns, EnsurePrompt(ViewWith(status', engine)))
  BY <1>1, ReqTyped, EnsureFine
<1> DEFINE q == [Idle EXCEPT !.pc = "look"]
<1>3. q \in ReqRow /\ Fine(turns, q)
  <2>1. Idle \in ReqRow /\ Idle.then = "idle"
    BY IdleFine DEF Idle
  <2>2. q \in ReqRow /\ q.pc = "look" /\ q.then = "idle"
    BY <2>1 DEF ReqRow, PCs
  <2> HIDE DEF q
  <2> QED BY <2>2 DEF Fine, Answers
<1>4. CASE At(r, "start")
  <2>1. req' = [req EXCEPT ![r] = EnsurePrompt(ViewWith(status', engine))]
    BY <1>4 DEF MarkRunning, Goes
  <2> QED BY <1>1, <1>2, <2>1, ReqStep, ReqTyped DEF MarkRunning
<1>5. CASE ~At(r, "start")
  <2>1. req' = [req EXCEPT ![r] = [Idle EXCEPT !.pc = "look"]]
    BY <1>5 DEF MarkRunning, Goes
  <2> QED BY <1>1, <1>3, <2>1, ReqStep, ReqTyped DEF MarkRunning
<1> QED BY <1>4, <1>5

LEMMA LookAgainInv ==
  ASSUME Inv, NEW r \in Requests, LookAgain(r) PROVE Inv'
<1>1. PICK pc \in {"replace", "complete"} : Goes(r, Reads(pc))
  BY DEF LookAgain, Reads
<1>2. Reads(pc) \in ReqRow /\ Fine(turns, Reads(pc))
  BY ReadsFine DEF PCs, Answers
<1> QED BY <1>1, <1>2, ReqStep, ReqTyped DEF LookAgain, Goes

LEMMA ReadinessInv ==
  ASSUME Inv, NEW r \in Requests,
         AwaitReadiness(r) \/ ConfirmReadiness(r) \/ AskReadinessAgain(r)
  PROVE  Inv'
<1>1. CASE AwaitReadiness(r) \/ AskReadinessAgain(r)
  BY <1>1, IdleFine, ReqStep, ReqTyped DEF AwaitReadiness, AskReadinessAgain, Goes, Engines
<1>2. CASE ConfirmReadiness(r)
  <2>1. /\ EnsurePrompt(ViewWith(status, "confirmed")) \in ReqRow
        /\ Fine(turns, EnsurePrompt(ViewWith(status, "confirmed")))
    BY ReqTyped, EnsureFine DEF Engines
  <2> QED BY <1>2, <2>1, ReqStep, ReqTyped DEF ConfirmReadiness, Goes, Engines
<1> QED BY <1>1, <1>2

LEMMA TurnFields ==
  ASSUME NEW ts \in Seq(TurnRow), NEW i \in 1..Len(ts)
  PROVE  ts[i] \in TurnRow /\ ts[i].block \in 1..Blocks /\ ts[i].depth \in Nat /\ ts[i].asked \in BOOLEAN
<1>1. ts[i] \in TurnRow
  OBVIOUS
<1>2. \A t \in TurnRow : t.block \in 1..Blocks /\ t.depth \in Nat /\ t.asked \in BOOLEAN
  BY DEF TurnRow
<1> QED BY <1>1, <1>2, Zenon

LEMMA RouteInv ==
  ASSUME Inv, NEW r \in Requests, FollowUp(r) \/ Advance(r)
  PROVE  Inv'
<1>1. CASE FollowUp(r)
  <2> DEFINE i == req[r].view.open
             t == turns[i]
             q == Prompt(View, t.block, t.depth + 1, "ask")
  <2>1. turns \in Seq(TurnRow) /\ i \in 1..Len(turns)
    BY <1>1, ReqTyped DEF Inv, Typed, FollowUp, At, Fine, Answers
  <2> HIDE DEF i
  <2>2. t.block \in 1..Blocks /\ t.depth + 1 \in Nat /\ t.depth + 1 # 0
    <3>1. t.block \in 1..Blocks /\ t.depth \in Nat
      BY <2>1, TurnFields
    <3> HIDE DEF t
    <3> QED BY <3>1
  <2>3. View \in Views /\ View.len = Len(turns)
    BY FreshView, ReqTyped DEF View
  <2>4. \E j \in 1..Len(turns) : IsPrimary(turns, j, t.block)
    <3>1. \A k \in 1..Len(turns) : \E j \in 1..k : IsPrimary(turns, j, turns[k].block)
      BY DEF Inv, HasPrimary
    <3>2. PICK j \in 1..i : IsPrimary(turns, j, t.block)
      BY <2>1, <3>1, Zenon
    <3>3. j \in 1..Len(turns)
      BY <2>1
    <3> QED BY <3>2, <3>3, Zenon
  <2>5. req' = [req EXCEPT ![r] = q]
    BY <1>1 DEF FollowUp, Goes, i
  <2> HIDE DEF t
  <2>6. /\ q.pc = "prompt" /\ q.then = "ask" /\ q.view = View /\ q.block = t.block
        /\ q.depth = t.depth + 1
    BY DEF Prompt
  <2>7. q \in ReqRow
    BY <2>2, <2>3 DEF Prompt, ReqRow, PCs
  <2> HIDE DEF q
  <2>8. View.len <= Len(turns)
    BY <2>1, <2>3
  <2>9. Fine(turns, q)
    BY <2>2, <2>3, <2>4, <2>6, <2>8 DEF Fine, Answers
  <2> QED BY <1>1, <2>5, <2>7, <2>9, ReqStep, ReqTyped DEF FollowUp
<1>2. CASE Advance(r)
  <2>1. EnsurePrompt(View) \in ReqRow /\ Fine(turns, EnsurePrompt(View))
    BY EnsureFine, ReqTyped DEF View
  <2> QED BY <1>2, <2>1, ReqStep, ReqTyped DEF Advance, Goes
<1> QED BY <1>1, <1>2

LEMMA CompleteInv ==
  ASSUME Inv, NEW r \in Requests, CheckCompletable(r) \/ Complete(r)
  PROVE  Inv'
<1>1. [req[r] EXCEPT !.pc = "finish"] \in ReqRow /\ Fine(turns, [req[r] EXCEPT !.pc = "finish"])
  BY MovedFine DEF PCs, Answers
<1>2. CASE CheckCompletable(r) /\ status \in {"SCHEDULED", "RUNNING"}
  BY <1>1, <1>2, ReqStep, ReqTyped DEF CheckCompletable, Goes
<1>3. CASE CheckCompletable(r) /\ status \notin {"SCHEDULED", "RUNNING"}
  BY <1>3, IdleFine, ReqStep, ReqTyped DEF CheckCompletable, Goes
<1>4. CASE Complete(r)
  <2>1. closed' \in BOOLEAN
    <3>1. closed' = (closed \/ req[r].then = "complete")
      BY <1>4 DEF Complete
    <3> QED BY Zenon, <3>1
  <2>2. closed' => closed \/ AllAnswered(turns)
    BY <1>4, ReqTyped DEF Complete, Fine
  <2> QED BY <1>4, <2>1, <2>2, IdleFine, ReqStep, ReqTyped DEF Complete, Goes, Statuses
<1> QED BY <1>2, <1>3, <1>4

LEMMA OthersInv ==
  ASSUME Inv, EndOtherwise \/ (\E r \in Requests : CutOff(r)) \/ UNCHANGED vars
  PROVE  Inv'
<1>1. CASE EndOtherwise \/ UNCHANGED vars
  <2>1. status' \in Statuses /\ UNCHANGED <<engine, turns, transcript, req, closed, overlaps, cuts>>
    BY <1>1 DEF EndOtherwise, vars, Statuses, Inv, Typed
  <2>2. Typed'
    BY <2>1 DEF Inv, Typed
  <2> QED BY <2>1, <2>2 DEF Inv, RequestsFine, ClosedAnswered
<1>2. ASSUME NEW r \in Requests, CutOff(r) PROVE Inv'
  <2>1. cuts' \in 0..MaxCuts
    BY <1>2, ReqTyped DEF CutOff
  <2> QED BY <1>2, <2>1, IdleFine, ReqStep, ReqTyped DEF CutOff, Goes
<1> QED BY <1>1, <1>2

----------------------------------------------------------------------------
(* Turns are only added and answered.                                      *)
Grows(ts, us) ==
  /\ Len(ts) <= Len(us)
  /\ \A i \in 1..Len(ts) : /\ us[i].block = ts[i].block /\ us[i].depth = ts[i].depth
                           /\ us[i].asked => ts[i].asked

(* What was asked and answered still is.                                   *)
LEMMA PrimaryKept ==
  ASSUME NEW ts \in Seq(TurnRow), NEW us \in Seq(TurnRow), Grows(ts, us),
         NEW j \in 1..Len(ts), NEW b, IsPrimary(ts, j, b)
  PROVE  j \in 1..Len(us) /\ IsPrimary(us, j, b)
BY DEF Grows, IsPrimary

LEMMA AheadKept ==
  ASSUME NEW ts \in Seq(TurnRow), NEW us \in Seq(TurnRow), Grows(ts, us),
         NEW b, NEW n \in Nat, n <= Len(ts), Ahead(ts, b, n)
  PROVE  Ahead(us, b, n)
<1>1. \A i \in 1..n : i \in 1..Len(ts)
  OBVIOUS
<1>2. Behind(us, b, n)
  BY <1>1 DEF Ahead, Behind, Grows
<1>3. Led(us, b, n)
  <2> SUFFICES ASSUME NEW c \in 1..(b - 1) PROVE \E j \in 1..n : IsPrimary(us, j, c)
    BY DEF Led
  <2>1. PICK j \in 1..n : IsPrimary(ts, j, c)
    BY DEF Ahead, Led
  <2> QED BY <1>1, <2>1, PrimaryKept
<1> QED BY <1>2, <1>3 DEF Ahead

LEMMA AnswersKept ==
  ASSUME NEW ts \in Seq(TurnRow), NEW us \in Seq(TurnRow), Grows(ts, us), AllAnswered(ts)
  PROVE  AllAnswered(us)
<1> SUFFICES ASSUME NEW b \in 1..Blocks PROVE \E i \in 1..Len(us) : ~us[i].asked /\ us[i].block = b
  BY DEF AllAnswered, Answered
<1>1. PICK i \in 1..Len(ts) : ~ts[i].asked /\ ts[i].block = b
  BY DEF AllAnswered, Answered
<1>2. i \in 1..Len(us)
  BY DEF Grows
<1> QED BY <1>1, <1>2 DEF Grows

LEMMA FineKept ==
  ASSUME NEW ts \in Seq(TurnRow), NEW us \in Seq(TurnRow), Grows(ts, us),
         NEW q \in ReqRow, Fine(ts, q)
  PROVE  Fine(us, q)
<1>1. q.view.len \in Nat /\ q.view.open \in Nat
  BY DEF ReqRow, Views
<1>2. q.pc \in Answers => q.view.open \in 1..Len(us) /\ q.then = "idle"
  BY <1>1 DEF Fine, Grows
<1>3. q.then = "complete" => AllAnswered(us)
  BY AnswersKept DEF Fine
<1>4. q.then = "ask" => q.view.len <= Len(us) /\ q.block \in 1..Blocks
  BY <1>1 DEF Fine, Grows
<1>5. q.then = "ask" /\ q.depth = 0 => Ahead(us, q.block, q.view.len)
  BY <1>1, AheadKept DEF Fine
<1>6. ASSUME q.then = "ask", q.depth # 0
      PROVE  \E j \in 1..q.view.len : IsPrimary(us, j, q.block)
  <2>1. PICK j \in 1..q.view.len : IsPrimary(ts, j, q.block)
    BY <1>6 DEF Fine
  <2>2. j \in 1..Len(ts)
    BY <1>1, <1>6 DEF Fine
  <2> QED BY <2>1, <2>2, PrimaryKept
<1> QED BY <1>2, <1>3, <1>4, <1>5, <1>6 DEF Fine

(* The order of the questions survives a step in which none is added.      *)
LEMMA OrderKept ==
  ASSUME NEW ts \in Seq(TurnRow), NEW us \in Seq(TurnRow), Grows(ts, us), Len(us) = Len(ts),
         HasPrimary(ts), InOrder(ts)
  PROVE  HasPrimary(us) /\ InOrder(us)
<1>1. ASSUME NEW i \in 1..Len(us) PROVE \E j \in 1..i : IsPrimary(us, j, us[i].block)
  <2>1. PICK j \in 1..i : IsPrimary(ts, j, ts[i].block)
    BY <1>1 DEF HasPrimary
  <2>2. j \in 1..Len(ts) /\ us[i].block = ts[i].block
    BY <1>1 DEF Grows
  <2> QED BY <2>1, <2>2, PrimaryKept
<1>2. ASSUME NEW i \in 1..Len(us), us[i].depth = 0 PROVE Ahead(us, us[i].block, i - 1)
  <2>1. us[i].block = ts[i].block /\ ts[i].depth = 0
    BY <1>2 DEF Grows
  <2>2. Ahead(ts, ts[i].block, i - 1) /\ i - 1 \in Nat /\ i - 1 <= Len(ts)
    BY <1>2, <2>1 DEF InOrder
  <2> QED BY <2>1, <2>2, AheadKept
<1> QED BY <1>1, <1>2 DEF HasPrimary, InOrder

(* The invariant after a step in which the turns grow.                     *)
LEMMA GrowStep ==
  ASSUME Inv, turns' \in Seq(TurnRow), Grows(turns, turns'), NEW r \in Requests, NEW q \in ReqRow,
         Fine(turns, q), req' = [req EXCEPT ![r] = q], HasPrimary(turns'), InOrder(turns'),
         UNCHANGED <<status, engine, transcript, closed, overlaps, cuts>>
  PROVE  Inv'
<1>1. Typed'
  BY DEF Inv, Typed
<1>2. RequestsFine'
  <2> SUFFICES ASSUME NEW s \in Requests PROVE Fine(turns', req'[s])
    BY DEF RequestsFine
  <2>1. req'[s] \in ReqRow /\ Fine(turns, req'[s])
    BY DEF Inv, Typed, RequestsFine
  <2>2. turns \in Seq(TurnRow)
    BY DEF Inv, Typed
  <2> QED BY <2>1, <2>2, FineKept
<1>3. ClosedAnswered'
  <2>1. turns \in Seq(TurnRow)
    BY DEF Inv, Typed
  <2>2. AllAnswered(turns) => AllAnswered(turns')
    BY <2>1, AnswersKept
  <2> QED BY <2>2 DEF Inv, ClosedAnswered
<1> QED BY <1>1, <1>2, <1>3 DEF Inv

LEMMA RecordAnswerInv ==
  ASSUME Inv, NEW r \in Requests, RecordAnswer(r) PROVE Inv'
<1> DEFINE i == req[r].view.open
           q == [req[r] EXCEPT !.pc = "route"]
<1>1. turns \in Seq(TurnRow) /\ i \in 1..Len(turns)
  BY ReqTyped DEF Inv, Typed, RecordAnswer, At, Fine, Answers
<1>2. q \in ReqRow /\ Fine(turns, q)
  BY MovedFine DEF PCs, Answers, RecordAnswer, At
<1>3. turns' = [turns EXCEPT ![i] = [turns[i] EXCEPT !.asked = FALSE]] /\ req' = [req EXCEPT ![r] = q]
  BY DEF RecordAnswer, Goes
<1> HIDE DEF i, q
<1> DEFINE t == [turns[i] EXCEPT !.asked = FALSE]
<1>4. turns[i] \in TurnRow
  BY <1>1
<1>5. t \in TurnRow /\ t.block = turns[i].block /\ t.depth = turns[i].depth /\ ~t.asked
  BY <1>4 DEF TurnRow
<1> HIDE DEF t
<1>6. /\ turns' \in Seq(TurnRow) /\ Len(turns') = Len(turns)
      /\ turns'[i] = t /\ \A j \in 1..Len(turns) : j # i => turns'[j] = turns[j]
  <2>1. turns' = [turns EXCEPT ![i] = t]
    BY <1>3 DEF t
  <2> QED BY <1>1, <1>5, <2>1
<1>7. Grows(turns, turns')
  BY <1>1, <1>5, <1>6 DEF Grows
<1>8. HasPrimary(turns') /\ InOrder(turns')
  BY <1>1, <1>6, <1>7, OrderKept DEF Inv
<1> QED BY <1>2, <1>3, <1>6, <1>7, <1>8, GrowStep DEF RecordAnswer

(* A turn added after all those of the view keeps the order.               *)
LEMMA OrderedAppend ==
  ASSUME NEW ts \in Seq(TurnRow), NEW t \in TurnRow, HasPrimary(ts), InOrder(ts),
         t.depth = 0 => Ahead(ts, t.block, Len(ts)),
         t.depth # 0 => \E j \in 1..Len(ts) : IsPrimary(ts, j, t.block)
  PROVE  /\ Append(ts, t) \in Seq(TurnRow) /\ Grows(ts, Append(ts, t))
         /\ HasPrimary(Append(ts, t)) /\ InOrder(Append(ts, t))
<1> DEFINE us == Append(ts, t)
           n == Len(ts)
<1>1. /\ us \in Seq(TurnRow) /\ Len(us) = n + 1 /\ n \in Nat
      /\ us[n + 1] = t /\ \A i \in 1..n : us[i] = ts[i]
  OBVIOUS
<1> HIDE DEF us
<1>2. Grows(ts, us)
  BY <1>1 DEF Grows
<1>3. ASSUME NEW i \in 1..(n + 1) PROVE \E j \in 1..i : IsPrimary(us, j, us[i].block)
  <2>1. CASE i \in 1..n
    <3>1. PICK j \in 1..i : IsPrimary(ts, j, ts[i].block)
      BY <2>1 DEF HasPrimary
    <3>2. j \in 1..n /\ us[i] = ts[i]
      BY <1>1, <2>1
    <3> QED BY <1>1, <1>2, <3>1, <3>2, PrimaryKept
  <2>2. CASE i = n + 1 /\ t.depth = 0
    BY <1>1, <2>2 DEF IsPrimary
  <2>3. CASE i = n + 1 /\ t.depth # 0
    <3>1. PICK j \in 1..n : IsPrimary(ts, j, t.block)
      BY <2>3
    <3>2. j \in 1..i /\ us[i] = t
      BY <1>1, <2>3
    <3> QED BY <1>1, <1>2, <3>1, <3>2, PrimaryKept
  <2> QED BY <1>1, <1>3, <2>1, <2>2, <2>3
<1>4. ASSUME NEW i \in 1..(n + 1), us[i].depth = 0 PROVE Ahead(us, us[i].block, i - 1)
  <2>1. i - 1 \in Nat /\ i - 1 <= n
    BY <1>1, <1>4
  <2>2. CASE i \in 1..n
    <3>1. us[i] = ts[i]
      BY <1>1, <2>2
    <3>2. Ahead(ts, us[i].block, i - 1)
      BY <1>4, <2>2, <3>1 DEF InOrder
    <3> QED BY <1>1, <1>2, <2>1, <3>2, AheadKept
  <2>3. CASE i = n + 1
    <3>1. us[i] = t /\ i - 1 = n
      BY <1>1, <2>3
    <3>2. Ahead(ts, us[i].block, i - 1)
      BY <1>4, <3>1
    <3> QED BY <1>1, <1>2, <2>1, <3>2, AheadKept
  <2> QED BY <1>1, <1>4, <2>2, <2>3
<1>5. HasPrimary(us) /\ InOrder(us)
  BY <1>1, <1>3, <1>4 DEF HasPrimary, InOrder
<1> QED BY <1>1, <1>2, <1>5 DEF us

LEMMA CreateTurnInv ==
  ASSUME Inv, NEW r \in Requests, CreateTurn(r) PROVE Inv'
<1> DEFINE q == req[r]
           t == Turn(q.block, q.depth)
<1>1. CASE ~NumberIsFree(q.view)
  BY <1>1, IdleFine, ReqStep, ReqTyped DEF CreateTurn, Goes
<1>2. CASE NumberIsFree(q.view)
  <2>1. turns \in Seq(TurnRow) /\ HasPrimary(turns) /\ InOrder(turns)
    BY DEF Inv, Typed
  <2>2. turns' = Append(turns, t) /\ req' = [req EXCEPT ![r] = Idle]
    BY <1>2 DEF CreateTurn, Goes
  <2>3. q \in ReqRow /\ Fine(turns, q) /\ q.pc = "ask"
    BY ReqTyped DEF CreateTurn, At
  <2>4. q.view.len = Len(turns)
    BY <1>2 DEF NumberIsFree
  <2> HIDE DEF q
  <2>5. q.depth \in Nat
    BY <2>3 DEF ReqRow
  <2>6. /\ q.block \in 1..Blocks
        /\ q.depth = 0 => Ahead(turns, q.block, Len(turns))
        /\ q.depth # 0 => \E j \in 1..Len(turns) : IsPrimary(turns, j, q.block)
    BY <2>3, <2>4 DEF Fine
  <2>7. t \in TurnRow /\ t.block = q.block /\ t.depth = q.depth
    BY <2>5, <2>6 DEF Turn, TurnRow
  <2> HIDE DEF t
  <2>8. /\ turns' \in Seq(TurnRow) /\ Grows(turns, turns')
        /\ HasPrimary(turns') /\ InOrder(turns')
    BY <2>1, <2>2, <2>6, <2>7, OrderedAppend
  <2> QED BY <2>2, <2>8, IdleFine, GrowStep DEF CreateTurn
<1> QED BY <1>1, <1>2

----------------------------------------------------------------------------
LEMMA InvInductive == Inv /\ [Next]_vars => Inv'
<1> SUFFICES ASSUME Inv, [Next]_vars PROVE Inv'
  OBVIOUS
<1>1. ASSUME NEW r \in Requests, BeginStart(r) \/ BeginSubmit(r) \/ BeginComplete(r) PROVE Inv'
  BY <1>1, BeginsInv
<1>2. ASSUME NEW r \in Requests, Step(r) PROVE Inv'
  BY <1>2, AppendsInv, MarkRunningInv, LookAgainInv, ReadinessInv, RouteInv, CompleteInv,
     RecordAnswerInv, CreateTurnInv DEF Step, Answer
<1> QED BY <1>1, <1>2, OthersInv DEF Next

LEMMA InvHolds == Spec => []Inv
BY InitInv, InvInductive, PTL DEF Spec

(* The rows and the requests have their types.                             *)
THEOREM TypeCorrect == Spec => []TypeOK
<1>1. Inv => TypeOK
  BY DEF Inv, Typed, TypeOK, Statuses, Engines, TurnRow, ReqRow, PCs, RequestsFine, Fine, Answers, At
<1> QED BY <1>1, InvHolds, PTL

(* However requests overlap and wherever they are cut off, the blocks are  *)
(* asked about once each, in order, each when all before it is answered.   *)
THEOREM AsksInOrder == Spec => []QuestionsInOrder
<1>1. Inv => QuestionsInOrder
  <2> SUFFICES ASSUME Inv, NEW i \in Primaries
               PROVE  /\ \A j \in 1..(i - 1) : ~turns[j].asked /\ turns[j].block < turns[i].block
                      /\ \A b \in 1..(turns[i].block - 1) :
                           \E j \in Primaries : j < i /\ turns[j].block = b
    BY DEF QuestionsInOrder
  <2>1. DOMAIN turns = 1..Len(turns) /\ Len(turns) \in Nat
    BY DEF Inv, Typed
  <2>2. i \in 1..Len(turns) /\ Ahead(turns, turns[i].block, i - 1)
    BY <2>1 DEF Primaries, Inv, InOrder
  <2>3. \A j \in 1..(i - 1) : ~turns[j].asked /\ turns[j].block < turns[i].block
    BY <2>2 DEF Ahead, Behind
  <2>4. ASSUME NEW b \in 1..(turns[i].block - 1)
        PROVE  \E j \in Primaries : j < i /\ turns[j].block = b
    <3>1. PICK j \in 1..(i - 1) : IsPrimary(turns, j, b)
      BY <2>2 DEF Ahead, Led
    <3>2. j \in 1..Len(turns) /\ j < i
      BY <2>1, <2>2
    <3> QED BY <2>1, <3>1, <3>2 DEF IsPrimary, Primaries
  <2> QED BY <2>3, <2>4
<1> QED BY <1>1, InvHolds, PTL

(* The engine completes an interview only when every block has an answer.  *)
THEOREM ClosesWhenAnswered == Spec => []ClosedWhenAnswered
<1>1. Inv => ClosedWhenAnswered
  <2> SUFFICES ASSUME Inv, closed PROVE AnsweredBlocks = 1..Blocks
    BY DEF ClosedWhenAnswered
  <2>1. AllAnswered(turns)
    BY DEF Inv, ClosedAnswered
  <2>2. \A i \in DOMAIN turns : turns[i].block \in 1..Blocks
    <3> SUFFICES ASSUME NEW i \in DOMAIN turns PROVE turns[i].block \in 1..Blocks
      OBVIOUS
    <3>1. turns[i] \in TurnRow
      BY DEF Inv, Typed
    <3> QED BY <3>1 DEF TurnRow
  <2> QED BY <2>1, <2>2 DEF AllAnswered, Answered, AnsweredBlocks, OpenTurns
<1> QED BY <1>1, InvHolds, PTL

----------------------------------------------------------------------------
(* How often a question is asked.  The levels (block c, depth e) are in    *)
(* lexicographic order.  A request adds to a level when it may still lead  *)
(* to one question there: it is about to ask at or before the level, or    *)
(* has in hand the answer to a question before it.  An open question       *)
(* before the level that nobody is answering may lead to one as well; both *)
(* are counted with the questions at the level.                            *)
Lower(b, d, c, e) == b < c \/ (b = c /\ d < e)

Adds(ts, q, c, e) ==
  \/ q.pc \in Answers /\ Lower(ts[q.view.open].block, ts[q.view.open].depth, c, e)
  \/ q.then = "ask" /\ Lower(q.block, q.depth, c, e + 1)

Hits(q, i) == q.pc \in {"answer", "record"} /\ q.view.open = i

Adders(ts, rq, c, e) == {r \in Requests : Adds(ts, rq[r], c, e)}
IsHit(rq, i) == \E r \in Requests : Hits(rq[r], i)
Leads(ts, rq, i, c, e) ==
  \/ ts[i].block = c /\ ts[i].depth = e
  \/ ts[i].asked /\ Lower(ts[i].block, ts[i].depth, c, e) /\ ~IsHit(rq, i)
Leading(ts, rq, c, e) == {i \in 1..Len(ts) : Leads(ts, rq, i, c, e)}
InFlight(rq) == {r \in Requests : rq[r].pc # "idle"}

Counted(ts, rq, n) ==
  /\ IsFiniteSet(InFlight(rq)) /\ Cardinality(InFlight(rq)) <= 1 + n
  /\ \A c, e \in Nat :
       Cardinality(Adders(ts, rq, c, e)) + Cardinality(Leading(ts, rq, c, e)) <= 1 + n

(* Only a request on its way to ask has a question to ask, and neither it  *)
(* nor a turn is deeper than the template allows.                          *)
Asking(q) ==
  q.then = "ask" => q.pc \in {"prompt", "ask"} /\ q.depth <= MaxFollowUps[q.block]
Shallow(ts) == \A i \in 1..Len(ts) : ts[i].depth <= MaxFollowUps[ts[i].block]

CountInv ==
  /\ Inv /\ Counted(turns, req, overlaps)
  /\ (\A r \in Requests : Asking(req[r])) /\ Shallow(turns)

(* How the two counts of a level may move: both only shrink; the second    *)
(* request adds itself; a request takes a question, or leaves one behind.  *)
LEMMA AddOne ==
  ASSUME NEW S, IsFiniteSet(S), NEW x, NEW T, T \subseteq S \cup {x}
  PROVE  /\ IsFiniteSet(T) /\ Cardinality(T) \in Nat /\ Cardinality(S) \in Nat
         /\ Cardinality(T) <= Cardinality(S) + 1
<1>1. IsFiniteSet(S \cup {x}) /\ Cardinality(S \cup {x}) =
        IF x \in S THEN Cardinality(S) ELSE Cardinality(S) + 1
  BY FS_AddElement, Zenon
<1>2. IsFiniteSet(T) /\ Cardinality(T) <= Cardinality(S \cup {x})
  BY <1>1, FS_Subset, Zenon
<1>3. Cardinality(S) \in Nat /\ Cardinality(T) \in Nat
  BY <1>2, FS_CardinalityType
<1> QED BY <1>1, <1>2, <1>3

LEMMA TakeOne ==
  ASSUME NEW S, IsFiniteSet(S), NEW x \in S, NEW T, T \subseteq S \ {x}
  PROVE  /\ IsFiniteSet(T) /\ Cardinality(T) \in Nat /\ Cardinality(S) \in Nat
         /\ Cardinality(T) + 1 <= Cardinality(S)
<1>1. IsFiniteSet(S \ {x}) /\ Cardinality(S \ {x}) =
        IF x \in S THEN Cardinality(S) - 1 ELSE Cardinality(S)
  BY FS_RemoveElement, Zenon
<1>2. IsFiniteSet(T) /\ Cardinality(T) <= Cardinality(S \ {x})
  BY <1>1, FS_Subset, Zenon
<1>3. Cardinality(S) \in Nat /\ Cardinality(T) \in Nat
  BY <1>2, FS_CardinalityType
<1> QED BY <1>1, <1>2, <1>3

LEMMA Smaller ==
  ASSUME NEW S, IsFiniteSet(S), NEW T, T \subseteq S
  PROVE  /\ IsFiniteSet(T) /\ Cardinality(T) \in Nat /\ Cardinality(S) \in Nat
         /\ Cardinality(T) <= Cardinality(S)
<1>1. IsFiniteSet(T) /\ Cardinality(T) <= Cardinality(S)
  BY FS_Subset, Zenon
<1> QED BY <1>1, FS_CardinalityType

LEMMA Shrink ==
  ASSUME NEW A, NEW W, NEW B, NEW V, NEW n \in Nat, IsFiniteSet(A), IsFiniteSet(W),
         Cardinality(A) + Cardinality(W) <= 1 + n, B \subseteq A, V \subseteq W
  PROVE  Cardinality(B) + Cardinality(V) <= 1 + n
<1>1. Cardinality(B) \in Nat /\ Cardinality(A) \in Nat /\ Cardinality(B) <= Cardinality(A)
  BY Smaller
<1>2. Cardinality(V) \in Nat /\ Cardinality(W) \in Nat /\ Cardinality(V) <= Cardinality(W)
  BY Smaller
<1> QED BY <1>1, <1>2

LEMMA Join ==
  ASSUME NEW A, NEW W, NEW B, NEW V, NEW n \in Nat, IsFiniteSet(A), IsFiniteSet(W),
         Cardinality(A) + Cardinality(W) <= 1 + n, NEW r, B \subseteq A \cup {r}, V \subseteq W
  PROVE  Cardinality(B) + Cardinality(V) <= 1 + (n + 1)
<1>1. Cardinality(B) \in Nat /\ Cardinality(A) \in Nat /\ Cardinality(B) <= Cardinality(A) + 1
  BY AddOne
<1>2. Cardinality(V) \in Nat /\ Cardinality(W) \in Nat /\ Cardinality(V) <= Cardinality(W)
  BY Smaller
<1> QED BY <1>1, <1>2

LEMMA LeaveBehind ==
  ASSUME NEW A, NEW W, NEW B, NEW V, NEW n \in Nat, IsFiniteSet(A), IsFiniteSet(W),
         Cardinality(A) + Cardinality(W) <= 1 + n, NEW r \in A, NEW i,
         B \subseteq A \ {r}, V \subseteq W \cup {i}
  PROVE  Cardinality(B) + Cardinality(V) <= 1 + n
<1>1. Cardinality(B) \in Nat /\ Cardinality(A) \in Nat /\ Cardinality(B) + 1 <= Cardinality(A)
  BY TakeOne
<1>2. Cardinality(V) \in Nat /\ Cardinality(W) \in Nat /\ Cardinality(V) <= Cardinality(W) + 1
  BY AddOne
<1> QED BY <1>1, <1>2

Reqs == {rq \in [Requests -> ReqRow] : \A r \in Requests : Asking(rq[r])}

(* Who adds to a level is in flight, and what leads to one is a turn.      *)
LEMMA CountsFinite ==
  ASSUME NEW ts \in Seq(TurnRow), NEW rq \in Reqs, IsFiniteSet(InFlight(rq)), NEW c, NEW e
  PROVE  /\ Adders(ts, rq, c, e) \subseteq InFlight(rq)
         /\ IsFiniteSet(Adders(ts, rq, c, e)) /\ IsFiniteSet(Leading(ts, rq, c, e))
         /\ Cardinality(Adders(ts, rq, c, e)) \in Nat /\ Cardinality(Leading(ts, rq, c, e)) \in Nat
         /\ Cardinality(Adders(ts, rq, c, e)) <= Cardinality(InFlight(rq))
<1>1. Adders(ts, rq, c, e) \subseteq InFlight(rq)
  BY DEF Adders, Adds, InFlight, Answers, Reqs, Asking
<1>2. IsFiniteSet(1..Len(ts)) /\ Leading(ts, rq, c, e) \subseteq 1..Len(ts)
  BY FS_Interval DEF Leading
<1>3. IsFiniteSet(Adders(ts, rq, c, e)) /\ IsFiniteSet(Leading(ts, rq, c, e))
      /\ Cardinality(Adders(ts, rq, c, e)) <= Cardinality(InFlight(rq))
  BY <1>1, <1>2, FS_Subset, Zenon
<1> QED BY <1>1, <1>3, FS_CardinalityType

(* The requests when r has gone on to q.                                   *)
With(rq, r, q) == [rq EXCEPT ![r] = q]

LEMMA WithFields ==
  ASSUME NEW rq \in Reqs, NEW r \in Requests, NEW q \in ReqRow, Asking(q)
  PROVE  /\ With(rq, r, q) \in Reqs /\ With(rq, r, q)[r] = q
         /\ \A s \in Requests : s # r => With(rq, r, q)[s] = rq[s]
BY DEF Reqs, With

LEMMA AddersAfter ==
  ASSUME NEW ts \in Seq(TurnRow), NEW rq \in Reqs, NEW r \in Requests, NEW q \in ReqRow, Asking(q),
         NEW c, NEW e
  PROVE  /\ Adders(ts, With(rq, r, q), c, e) \subseteq Adders(ts, rq, c, e) \cup {r}
         /\ ~Adds(ts, q, c, e) =>
              Adders(ts, With(rq, r, q), c, e) \subseteq Adders(ts, rq, c, e) \ {r}
         /\ (Adds(ts, q, c, e) => Adds(ts, rq[r], c, e)) =>
              Adders(ts, With(rq, r, q), c, e) \subseteq Adders(ts, rq, c, e)
<1> DEFINE us == With(rq, r, q)
<1>1. us[r] = q /\ \A s \in Requests : s # r => us[s] = rq[s]
  BY WithFields
<1> HIDE DEF us
<1>2. ASSUME NEW s \in Requests PROVE s # r /\ Adds(ts, us[s], c, e) => Adds(ts, rq[s], c, e)
  BY <1>1, Zenon
<1>3. Adders(ts, us, c, e) \subseteq Adders(ts, rq, c, e) \cup {r}
  BY <1>2 DEF Adders
<1>4. ~Adds(ts, q, c, e) => Adders(ts, us, c, e) \subseteq Adders(ts, rq, c, e) \ {r}
  BY <1>1, <1>2, Zenon DEF Adders
<1>5. (Adds(ts, q, c, e) => Adds(ts, rq[r], c, e)) =>
        Adders(ts, us, c, e) \subseteq Adders(ts, rq, c, e)
  BY <1>1, <1>2, Zenon DEF Adders
<1> QED BY <1>3, <1>4, <1>5, Zenon DEF us

(* The question a request turns away from may lead on again, one that it   *)
(* takes up does not.                                                      *)
LEMMA LeadingAfter ==
  ASSUME NEW ts \in Seq(TurnRow), NEW rq \in Reqs, NEW r \in Requests, NEW q \in ReqRow, Asking(q),
         NEW c, NEW e
  PROVE  /\ (\A i : Hits(rq[r], i) => Hits(q, i) \/ ~ts[i].asked) =>
              Leading(ts, With(rq, r, q), c, e) \subseteq Leading(ts, rq, c, e)
         /\ \A i : Hits(rq[r], i) =>
              Leading(ts, With(rq, r, q), c, e) \subseteq Leading(ts, rq, c, e) \cup {i}
         /\ \A i : Hits(q, i) =>
              i \notin Leading(ts, With(rq, r, q), c, e) \/ (ts[i].block = c /\ ts[i].depth = e)
<1> DEFINE us == With(rq, r, q)
<1>1. us[r] = q /\ \A s \in Requests : s # r => us[s] = rq[s]
  BY WithFields
<1> HIDE DEF us
<1>2. ASSUME NEW s \in Requests, NEW i PROVE s # r /\ Hits(rq[s], i) => Hits(us[s], i)
  BY <1>1, Zenon
<1>3. ASSUME NEW i, Hits(rq[r], i) => Hits(q, i) PROVE IsHit(rq, i) => IsHit(us, i)
  <2>1. ASSUME NEW s \in Requests, Hits(rq[s], i) PROVE Hits(us[s], i)
    BY <1>1, <1>2, <1>3, <2>1, Zenon
  <2> QED BY <2>1 DEF IsHit
<1>4. (\A i : Hits(rq[r], i) => Hits(q, i) \/ ~ts[i].asked) =>
        Leading(ts, us, c, e) \subseteq Leading(ts, rq, c, e)
  <2> SUFFICES ASSUME \A i : Hits(rq[r], i) => Hits(q, i) \/ ~ts[i].asked,
                      NEW k \in 1..Len(ts), Leads(ts, us, k, c, e)
               PROVE  Leads(ts, rq, k, c, e)
    BY DEF Leading
  <2>1. CASE ts[k].asked
    BY <1>3, <2>1, Zenon DEF Leads
  <2>2. CASE ~ts[k].asked
    BY <2>2, Zenon DEF Leads
  <2> QED BY <2>1, <2>2
<1>5. ASSUME NEW i, Hits(rq[r], i)
      PROVE  Leading(ts, us, c, e) \subseteq Leading(ts, rq, c, e) \cup {i}
  <2>1. ASSUME NEW k, k # i PROVE ~Hits(rq[r], k)
    BY <1>5, <2>1 DEF Hits
  <2>2. ASSUME NEW k, k # i PROVE IsHit(rq, k) => IsHit(us, k)
    BY <1>3, <2>1, <2>2, Zenon
  <2>3. ASSUME NEW k \in 1..Len(ts), k # i, Leads(ts, us, k, c, e) PROVE Leads(ts, rq, k, c, e)
    BY <2>2, <2>3, Zenon DEF Leads
  <2> QED BY <2>3 DEF Leading
<1>6. ASSUME NEW i, Hits(q, i)
      PROVE  i \notin Leading(ts, us, c, e) \/ (ts[i].block = c /\ ts[i].depth = e)
  <2>1. IsHit(us, i)
    BY <1>1, <1>6, Zenon DEF IsHit
  <2> QED BY <2>1, Zenon DEF Leading, Leads
<1> QED BY <1>4, <1>5, <1>6, Zenon DEF us

(* A request in flight that goes on is no more in flight.                  *)
LEMMA StillInFlight ==
  ASSUME NEW rq \in Reqs, NEW n \in Nat, IsFiniteSet(InFlight(rq)),
         Cardinality(InFlight(rq)) <= 1 + n, NEW r \in Requests, rq[r].pc # "idle",
         NEW q \in ReqRow, Asking(q)
  PROVE  IsFiniteSet(InFlight(With(rq, r, q))) /\ Cardinality(InFlight(With(rq, r, q))) <= 1 + n
<1> DEFINE us == With(rq, r, q)
<1>1. us[r] = q /\ \A s \in Requests : s # r => us[s] = rq[s]
  BY WithFields
<1> HIDE DEF us
<1>2. InFlight(us) \subseteq InFlight(rq)
  BY <1>1 DEF InFlight
<1>3. /\ IsFiniteSet(InFlight(us)) /\ Cardinality(InFlight(us)) <= Cardinality(InFlight(rq))
      /\ Cardinality(InFlight(us)) \in Nat /\ Cardinality(InFlight(rq)) \in Nat
  BY <1>2, Smaller
<1>4. Cardinality(InFlight(us)) <= 1 + n
  BY <1>3
<1> QED BY <1>3, <1>4 DEF us

LEMMA CountedAt ==
  ASSUME NEW ts \in Seq(TurnRow), NEW rq \in Reqs, NEW n \in Nat, Counted(ts, rq, n),
         NEW c \in Nat, NEW e \in Nat
  PROVE  /\ IsFiniteSet(Adders(ts, rq, c, e)) /\ IsFiniteSet(Leading(ts, rq, c, e))
         /\ Cardinality(Adders(ts, rq, c, e)) + Cardinality(Leading(ts, rq, c, e)) <= 1 + n
<1>1. IsFiniteSet(InFlight(rq))
  BY DEF Counted
<1> QED BY <1>1, CountsFinite DEF Counted

(* A request that has nothing more to ask: what it was to answer is open   *)
(* to others again, and it adds no more itself.                            *)
LEMMA DropKept ==
  ASSUME NEW ts \in Seq(TurnRow), NEW rq \in Reqs, NEW n \in Nat, Counted(ts, rq, n),
         NEW r \in Requests, rq[r].pc # "idle", NEW q \in ReqRow, q.pc \notin Answers,
         q.then # "ask"
  PROVE  With(rq, r, q) \in Reqs /\ Counted(ts, With(rq, r, q), n)
<1>1. Asking(q) /\ \A c, e : ~Adds(ts, q, c, e)
  BY DEF Asking, Adds
<1>2. With(rq, r, q) \in Reqs
  BY <1>1, WithFields
<1>3. IsFiniteSet(InFlight(With(rq, r, q))) /\ Cardinality(InFlight(With(rq, r, q))) <= 1 + n
  BY <1>1, StillInFlight DEF Counted
<1>4. ASSUME NEW c \in Nat, NEW e \in Nat
      PROVE  Cardinality(Adders(ts, With(rq, r, q), c, e))
               + Cardinality(Leading(ts, With(rq, r, q), c, e)) <= 1 + n
  <2> DEFINE A == Adders(ts, rq, c, e)
             W == Leading(ts, rq, c, e)
             B == Adders(ts, With(rq, r, q), c, e)
             V == Leading(ts, With(rq, r, q), c, e)
  <2> SUFFICES Cardinality(B) + Cardinality(V) <= 1 + n
    OBVIOUS
  <2>1. B \subseteq A \ {r}
    BY <1>1, AddersAfter, Zenon
  <2>2. IsFiniteSet(A) /\ IsFiniteSet(W) /\ Cardinality(A) + Cardinality(W) <= 1 + n
    BY CountedAt
  <2>3. CASE \A k : ~Hits(rq[r], k)
    <3>1. V \subseteq W
      BY <1>1, <2>3, LeadingAfter, Zenon
    <3>2. B \subseteq A
      BY <2>1
    <3> HIDE DEF A, W, B, V
    <3> QED BY <2>2, <3>1, <3>2, Shrink
  <2>4. ASSUME NEW i, Hits(rq[r], i) PROVE Cardinality(B) + Cardinality(V) <= 1 + n
    <3>1. V \subseteq W \cup {i}
      BY <1>1, <2>4, LeadingAfter, Zenon
    <3>2. CASE Lower(ts[i].block, ts[i].depth, c, e)
      <4>1. r \in A
        BY <2>4, <3>2 DEF Hits, Adders, Adds, Answers
      <4> HIDE DEF A, W, B, V
      <4> QED BY <2>1, <2>2, <3>1, <4>1, LeaveBehind
    <3>3. CASE ~Lower(ts[i].block, ts[i].depth, c, e)
      <4>1. i \in V => i \in W
        BY <3>3 DEF Leading, Leads
      <4>2. V \subseteq W /\ B \subseteq A
        BY <2>1, <3>1, <4>1
      <4> HIDE DEF A, W, B, V
      <4> QED BY <2>2, <4>2, Shrink
    <3> QED BY <3>2, <3>3
  <2> QED BY <2>3, <2>4
<1> QED BY <1>2, <1>3, <1>4 DEF Counted

(* A request that goes on with what it was about.                          *)
LEMMA KeepKept ==
  ASSUME NEW ts \in Seq(TurnRow), NEW rq \in Reqs, NEW n \in Nat, Counted(ts, rq, n),
         NEW r \in Requests, rq[r].pc # "idle", NEW q \in ReqRow, Asking(q),
         \A c, e \in Nat : Adds(ts, q, c, e) => Adds(ts, rq[r], c, e),
         \A i : Hits(rq[r], i) => Hits(q, i) \/ ~ts[i].asked
  PROVE  With(rq, r, q) \in Reqs /\ Counted(ts, With(rq, r, q), n)
<1>1. With(rq, r, q) \in Reqs
  BY WithFields
<1>2. IsFiniteSet(InFlight(With(rq, r, q))) /\ Cardinality(InFlight(With(rq, r, q))) <= 1 + n
  BY StillInFlight DEF Counted
<1>3. ASSUME NEW c \in Nat, NEW e \in Nat
      PROVE  Cardinality(Adders(ts, With(rq, r, q), c, e))
               + Cardinality(Leading(ts, With(rq, r, q), c, e)) <= 1 + n
  <2> DEFINE A == Adders(ts, rq, c, e)
             W == Leading(ts, rq, c, e)
             B == Adders(ts, With(rq, r, q), c, e)
             V == Leading(ts, With(rq, r, q), c, e)
  <2>1. B \subseteq A
    BY AddersAfter, Zenon
  <2>2. V \subseteq W
    BY LeadingAfter, Zenon
  <2>3. IsFiniteSet(A) /\ IsFiniteSet(W) /\ Cardinality(A) + Cardinality(W) <= 1 + n
    BY CountedAt
  <2> HIDE DEF A, W, B, V
  <2>4. Cardinality(B) + Cardinality(V) <= 1 + n
    BY <2>1, <2>2, <2>3, Shrink
  <2> QED BY <2>4 DEF B, V
<1> QED BY <1>1, <1>2, <1>3 DEF Counted

(* A question of the template is asked when all others are answered: where *)
(* there are questions already it adds none, elsewhere only requests do.   *)
LEMMA FreshKept ==
  ASSUME NEW ts \in Seq(TurnRow), NEW rq \in Reqs, NEW n \in Nat, Counted(ts, rq, n),
         NEW r \in Requests, NEW q \in ReqRow, Asking(q), q.then = "ask", q.pc \notin Answers,
         q.depth = 0, Ahead(ts, q.block, Len(ts)), \A i : ~Hits(rq[r], i),
         NEW m \in Nat, n <= m, IsFiniteSet(InFlight(With(rq, r, q))),
         Cardinality(InFlight(With(rq, r, q))) <= 1 + m
  PROVE  With(rq, r, q) \in Reqs /\ Counted(ts, With(rq, r, q), m)
<1>1. With(rq, r, q) \in Reqs
  BY WithFields
<1>2. ASSUME NEW c \in Nat, NEW e \in Nat
      PROVE  Cardinality(Adders(ts, With(rq, r, q), c, e))
               + Cardinality(Leading(ts, With(rq, r, q), c, e)) <= 1 + m
  <2> DEFINE A == Adders(ts, rq, c, e)
             W == Leading(ts, rq, c, e)
             B == Adders(ts, With(rq, r, q), c, e)
             V == Leading(ts, With(rq, r, q), c, e)
  <2> SUFFICES Cardinality(B) + Cardinality(V) <= 1 + m
    OBVIOUS
  <2>1. IsFiniteSet(A) /\ IsFiniteSet(W) /\ Cardinality(A) + Cardinality(W) <= 1 + n
    BY CountedAt
  <2>2. V \subseteq W
    BY LeadingAfter, Zenon
  <2>3. CASE V = {}
    <3>1. Cardinality(V) = 0
      BY <2>3, FS_EmptySet
    <3>2. Cardinality(B) \in Nat /\ Cardinality(B) <= Cardinality(InFlight(With(rq, r, q)))
          /\ Cardinality(InFlight(With(rq, r, q))) \in Nat
      BY <1>1, CountsFinite, FS_CardinalityType
    <3> HIDE DEF B, V
    <3> QED BY <3>1, <3>2
  <2>4. ASSUME NEW i \in V PROVE Cardinality(B) + Cardinality(V) <= 1 + m
    <3>1. i \in 1..Len(ts) /\ ts[i].block < q.block /\ ~ts[i].asked
      BY <2>4 DEF Ahead, Behind, Leading
    <3>2. ts[i].block = c
      BY <2>4, <3>1 DEF Leading, Leads
    <3>3. q.block \in Nat
      BY DEF ReqRow
    <3>4. ~Adds(ts, q, c, e)
      BY <3>1, <3>2, <3>3 DEF Adds, Lower
    <3>5. B \subseteq A
      BY <3>4, AddersAfter, Zenon
    <3> HIDE DEF A, W, B, V
    <3>6. Cardinality(B) + Cardinality(V) <= 1 + n
      BY <2>1, <2>2, <3>5, Shrink
    <3>7. Cardinality(B) \in Nat /\ Cardinality(V) \in Nat
      BY <2>1, <2>2, <3>5, Smaller
    <3> QED BY <3>6, <3>7
  <2> QED BY <2>3, <2>4
<1> QED BY <1>1, <1>2 DEF Counted

(* A request that begins while others are in flight is an overlap.         *)
LEMMA OverlapKept ==
  ASSUME NEW ts \in Seq(TurnRow), NEW rq \in Reqs, NEW n \in Nat, Counted(ts, rq, n),
         NEW r \in Requests, rq[r].pc = "idle", NEW q \in ReqRow, Asking(q)
  PROVE  With(rq, r, q) \in Reqs /\ Counted(ts, With(rq, r, q), n + 1)
<1> DEFINE us == With(rq, r, q)
<1>1. us \in Reqs /\ us[r] = q /\ \A s \in Requests : s # r => us[s] = rq[s]
  BY WithFields
<1>2. IsFiniteSet(InFlight(us)) /\ Cardinality(InFlight(us)) <= 1 + (n + 1)
  <2> HIDE DEF us
  <2>1. InFlight(us) \subseteq InFlight(rq) \cup {r}
    BY <1>1 DEF InFlight
  <2>2. /\ IsFiniteSet(InFlight(us)) /\ Cardinality(InFlight(us)) \in Nat
        /\ Cardinality(InFlight(rq)) \in Nat /\ Cardinality(InFlight(us)) <= Cardinality(InFlight(rq)) + 1
    BY <2>1, AddOne DEF Counted
  <2>3. Cardinality(InFlight(rq)) <= 1 + n
    BY DEF Counted
  <2> QED BY <2>2, <2>3
<1>3. ASSUME NEW c \in Nat, NEW e \in Nat
      PROVE  Cardinality(Adders(ts, us, c, e)) + Cardinality(Leading(ts, us, c, e)) <= 1 + (n + 1)
  <2> DEFINE A == Adders(ts, rq, c, e)
             W == Leading(ts, rq, c, e)
             B == Adders(ts, us, c, e)
             V == Leading(ts, us, c, e)
  <2> SUFFICES Cardinality(B) + Cardinality(V) <= 1 + (n + 1)
    OBVIOUS
  <2>1. B \subseteq A \cup {r}
    BY AddersAfter, Zenon
  <2>2. \A i : ~Hits(rq[r], i)
    BY DEF Hits
  <2>3. V \subseteq W
    BY <2>2, LeadingAfter, Zenon
  <2>4. IsFiniteSet(A) /\ IsFiniteSet(W) /\ Cardinality(A) + Cardinality(W) <= 1 + n
    BY CountedAt
  <2> HIDE DEF A, W, B, V
  <2> QED BY <2>1, <2>3, <2>4, Join
<1> QED BY <1>1, <1>2, <1>3 DEF Counted

(* A request that begins alone takes up an open question or none.          *)
LEMMA AloneKept ==
  ASSUME NEW ts \in Seq(TurnRow), NEW rq \in Reqs, NEW n \in Nat, Counted(ts, rq, n),
         \A s \in Requests : rq[s].pc = "idle", NEW r \in Requests, NEW q \in ReqRow, Asking(q),
         q.pc \in Answers => q.pc = "answer" /\ q.view.open \in 1..Len(ts) /\ ts[q.view.open].asked,
         q.then = "ask" => q.depth = 0 /\ Ahead(ts, q.block, Len(ts)) /\ q.pc \notin Answers
  PROVE  With(rq, r, q) \in Reqs /\ Counted(ts, With(rq, r, q), n)
<1> DEFINE us == With(rq, r, q)
<1>1. us \in Reqs /\ us[r] = q /\ \A s \in Requests : s # r => us[s] = rq[s]
  BY WithFields
<1>2. IsFiniteSet(InFlight(us)) /\ Cardinality(InFlight(us)) <= 1 + n
  <2> HIDE DEF us
  <2>1. InFlight(us) \subseteq {} \cup {r}
    BY <1>1 DEF InFlight
  <2>2. IsFiniteSet({}) /\ Cardinality({}) = 0
    BY FS_EmptySet
  <2>3. IsFiniteSet(InFlight(us)) /\ Cardinality(InFlight(us)) \in Nat
        /\ Cardinality(InFlight(us)) <= Cardinality({}) + 1
    BY <2>1, <2>2, AddOne
  <2> QED BY <2>2, <2>3
<1>3. \A s \in Requests, i \in Nat : ~Hits(rq[s], i)
  BY DEF Hits
<1>4. CASE q.then = "ask"
  <2>1. \A i : ~Hits(rq[r], i)
    BY DEF Hits
  <2> QED BY <1>2, <1>4, <2>1, FreshKept
<1>5. ASSUME q.then # "ask", NEW c \in Nat, NEW e \in Nat
      PROVE  Cardinality(Adders(ts, us, c, e)) + Cardinality(Leading(ts, us, c, e)) <= 1 + n
  <2> DEFINE A == Adders(ts, rq, c, e)
             W == Leading(ts, rq, c, e)
             B == Adders(ts, us, c, e)
             V == Leading(ts, us, c, e)
             i == q.view.open
  <2> SUFFICES Cardinality(B) + Cardinality(V) <= 1 + n
    OBVIOUS
  <2>1. \A k : ~Hits(rq[r], k)
    BY DEF Hits
  <2>2. V \subseteq W
    BY <2>1, LeadingAfter
  <2>3. IsFiniteSet(A) /\ IsFiniteSet(W) /\ Cardinality(A) + Cardinality(W) <= 1 + n
    BY CountedAt
  <2>4. CASE ~Adds(ts, q, c, e)
    <3>1. B \subseteq A
      BY <2>4, AddersAfter, Zenon
    <3> HIDE DEF A, W, B, V
    <3> QED BY <2>2, <2>3, <3>1, Shrink
  <2>5. CASE Adds(ts, q, c, e)
    <3>1. /\ q.pc = "answer" /\ i \in 1..Len(ts) /\ ts[i].asked
          /\ Lower(ts[i].block, ts[i].depth, c, e)
      BY <1>5, <2>5 DEF Adds
    <3>2. ~IsHit(rq, i)
      BY DEF IsHit, Hits
    <3>3. i \in W
      BY <3>1, <3>2 DEF Leading, Leads
    <3>4. ~(ts[i].block = c /\ ts[i].depth = e)
      <4>1. ts[i].block \in Nat /\ ts[i].depth \in Nat
        BY <3>1, TurnFields
      <4> QED BY <3>1, <4>1 DEF Lower
    <3>5. i \notin V
      <4>1. Hits(q, i)
        BY <3>1 DEF Hits
      <4>2. i \notin V \/ (ts[i].block = c /\ ts[i].depth = e)
        BY <4>1, LeadingAfter
      <4> QED BY <3>4, <4>2
    <3>6. V \subseteq W \ {i}
      BY <2>2, <3>5
    <3>7. B \subseteq A \cup {r}
      BY AddersAfter, Zenon
    <3> HIDE DEF A, W, B, V, i
    <3>8. Cardinality(B) \in Nat /\ Cardinality(A) \in Nat /\ Cardinality(B) <= Cardinality(A) + 1
      BY <2>3, <3>7, AddOne
    <3>9. Cardinality(V) \in Nat /\ Cardinality(W) \in Nat /\ Cardinality(V) + 1 <= Cardinality(W)
      BY <2>3, <3>3, <3>6, TakeOne
    <3> QED BY <2>3, <3>8, <3>9
  <2> QED BY <2>4, <2>5
<1> QED BY <1>1, <1>2, <1>4, <1>5 DEF Counted

(* What a request answers is a turn that exists.                           *)
Sound(ts, rq) == \A s \in Requests : rq[s].pc \in Answers => rq[s].view.open \in 1..Len(ts)

(* An answer takes no question from its level.                             *)
LEMMA AnsweredKept ==
  ASSUME NEW ts \in Seq(TurnRow), NEW us \in Seq(TurnRow), Grows(ts, us), Len(us) = Len(ts),
         NEW rq \in Reqs, Sound(ts, rq), NEW n \in Nat, Counted(ts, rq, n)
  PROVE  Counted(us, rq, n)
<1>1. ASSUME NEW c \in Nat, NEW e \in Nat
      PROVE  Cardinality(Adders(us, rq, c, e)) + Cardinality(Leading(us, rq, c, e)) <= 1 + n
  <2> DEFINE A == Adders(ts, rq, c, e)
             W == Leading(ts, rq, c, e)
             B == Adders(us, rq, c, e)
             V == Leading(us, rq, c, e)
  <2> SUFFICES Cardinality(B) + Cardinality(V) <= 1 + n
    OBVIOUS
  <2>1. ASSUME NEW i \in 1..Len(ts)
        PROVE  us[i].block = ts[i].block /\ us[i].depth = ts[i].depth /\ (us[i].asked => ts[i].asked)
    BY DEF Grows
  <2>2. ASSUME NEW s \in Requests, Adds(us, rq[s], c, e) PROVE Adds(ts, rq[s], c, e)
    BY <2>1, <2>2 DEF Adds, Sound
  <2>3. B \subseteq A
    BY <2>2 DEF Adders
  <2>4. ASSUME NEW i \in 1..Len(ts), Leads(us, rq, i, c, e) PROVE Leads(ts, rq, i, c, e)
    BY <2>1, <2>4 DEF Leads
  <2>5. V \subseteq W
    BY <2>4 DEF Leading
  <2>6. IsFiniteSet(A) /\ IsFiniteSet(W) /\ Cardinality(A) + Cardinality(W) <= 1 + n
    BY CountedAt
  <2> HIDE DEF A, W, B, V
  <2> QED BY <2>3, <2>5, <2>6, Shrink
<1> QED BY <1>1 DEF Counted

(* The turn a request creates takes its place in the count.                *)
LEMMA CreateKept ==
  ASSUME NEW ts \in Seq(TurnRow), NEW rq \in Reqs, Sound(ts, rq), NEW n \in Nat,
         Counted(ts, rq, n), NEW r \in Requests, rq[r].pc = "ask", rq[r].then = "ask",
         rq[r].block \in 1..Blocks, NEW us, us = Append(ts, Turn(rq[r].block, rq[r].depth)),
         NEW q \in ReqRow, q.pc = "idle", q.then = "idle"
  PROVE  With(rq, r, q) \in Reqs /\ Counted(us, With(rq, r, q), n)
<1> DEFINE ws == With(rq, r, q)
           i == Len(ts) + 1
<1>1. Asking(q)
  BY DEF Asking
<1>2. ws \in Reqs /\ ws[r] = q /\ \A s \in Requests : s # r => ws[s] = rq[s]
  BY <1>1, WithFields
<1>3. rq[r].depth \in Nat
  BY DEF Reqs, ReqRow
<1>4. /\ Len(us) = Len(ts) + 1 /\ Len(ts) \in Nat /\ us[i] = Turn(rq[r].block, rq[r].depth)
      /\ \A k \in 1..Len(ts) : us[k] = ts[k]
  BY <1>3 DEF Turn, TurnRow
<1>5. us[i].block = rq[r].block /\ us[i].depth = rq[r].depth /\ us[i].asked
  BY <1>4 DEF Turn
<1>6. IsFiniteSet(InFlight(ws)) /\ Cardinality(InFlight(ws)) <= 1 + n
  BY <1>1, StillInFlight DEF Counted
<1>7. ASSUME NEW c \in Nat, NEW e \in Nat
      PROVE  Cardinality(Adders(us, ws, c, e)) + Cardinality(Leading(us, ws, c, e)) <= 1 + n
  <2> DEFINE A == Adders(ts, rq, c, e)
             W == Leading(ts, rq, c, e)
             B == Adders(us, ws, c, e)
             V == Leading(us, ws, c, e)
  <2> SUFFICES Cardinality(B) + Cardinality(V) <= 1 + n
    OBVIOUS
  <2> HIDE DEF ws
  <2>1. ASSUME NEW s \in Requests, Adds(us, ws[s], c, e) PROVE s # r /\ Adds(ts, rq[s], c, e)
    <3>1. s # r
      BY <1>2, <2>1 DEF Adds, Answers
    <3>2. Adds(us, rq[s], c, e)
      BY <1>2, <2>1, <3>1
    <3>3. rq[s].pc \in Answers => us[rq[s].view.open] = ts[rq[s].view.open]
      BY <1>4 DEF Sound
    <3> QED BY <3>1, <3>2, <3>3 DEF Adds
  <2>2. B \subseteq A \ {r}
    BY <2>1 DEF Adders
  <2>3. ASSUME NEW k \in 1..Len(ts), Leads(us, ws, k, c, e) PROVE Leads(ts, rq, k, c, e)
    <3>1. IsHit(rq, k) => IsHit(ws, k)
      BY <1>2, Zenon DEF IsHit, Hits
    <3>2. us[k] = ts[k]
      BY <1>4
    <3> QED BY <2>3, <3>1, <3>2 DEF Leads
  <2>4. V \subseteq W \cup {i}
    BY <1>4, <2>3 DEF Leading
  <2>5. IsFiniteSet(A) /\ IsFiniteSet(W) /\ Cardinality(A) + Cardinality(W) <= 1 + n
    BY CountedAt
  <2>6. CASE i \in V
    <3>1. Leads(us, ws, i, c, e)
      BY <2>6 DEF Leading
    <3>2. Lower(rq[r].block, rq[r].depth, c, e + 1)
      BY <1>3, <1>5, <3>1 DEF Leads, Lower
    <3>3. r \in A
      BY <3>2 DEF Adders, Adds
    <3> HIDE DEF A, W, B, V, i
    <3> QED BY <2>2, <2>4, <2>5, <3>3, LeaveBehind
  <2>7. CASE i \notin V
    <3>1. V \subseteq W /\ B \subseteq A
      BY <2>2, <2>4, <2>7
    <3> HIDE DEF A, W, B, V
    <3> QED BY <2>5, <3>1, Shrink
  <2> QED BY <2>6, <2>7
<1> QED BY <1>2, <1>6, <1>7 DEF Counted

----------------------------------------------------------------------------
LEMMA InitCount == Init => CountInv
<1> SUFFICES ASSUME Init PROVE CountInv
  OBVIOUS
<1>1. Inv
  BY InitInv
<1>2. turns = <<>> /\ overlaps = 0 /\ \A r \in Requests : req[r] = Idle
  BY DEF Init
<1>3. InFlight(req) = {} /\ \A c, e : Adders(turns, req, c, e) = {} /\ Leading(turns, req, c, e) = {}
  BY <1>2 DEF InFlight, Adders, Adds, Leading, Idle, Answers
<1>4. IsFiniteSet({}) /\ Cardinality({}) = 0
  BY FS_EmptySet
<1>5. Counted(turns, req, overlaps)
  <2>1. IsFiniteSet(InFlight(req)) /\ Cardinality(InFlight(req)) <= 1 + overlaps
    BY <1>2, <1>3, <1>4
  <2>2. ASSUME NEW c \in Nat, NEW e \in Nat
        PROVE  Cardinality(Adders(turns, req, c, e)) + Cardinality(Leading(turns, req, c, e))
                 <= 1 + overlaps
    <3>1. Cardinality(Adders(turns, req, c, e)) = 0
      BY <1>3, <1>4, Zenon
    <3>2. Cardinality(Leading(turns, req, c, e)) = 0
      BY <1>3, <1>4, Zenon
    <3>3. overlaps = 0
      BY <1>2
    <3> QED BY <3>1, <3>2, <3>3
  <2> QED BY <2>1, <2>2 DEF Counted
<1>6. (\A r \in Requests : Asking(req[r])) /\ Shallow(turns)
  BY <1>2 DEF Asking, Idle, Shallow
<1> QED BY <1>1, <1>5, <1>6 DEF CountInv

LEMMA CountFacts ==
  ASSUME CountInv
  PROVE  /\ Inv /\ Counted(turns, req, overlaps) /\ Shallow(turns) /\ overlaps \in Nat
         /\ turns \in Seq(TurnRow) /\ req \in Reqs /\ Sound(turns, req)
<1>1. Inv /\ Counted(turns, req, overlaps) /\ Shallow(turns)
  BY DEF CountInv
<1>2. turns \in Seq(TurnRow) /\ req \in Reqs /\ overlaps \in Nat
  BY DEF CountInv, Inv, Typed, Reqs
<1>3. Sound(turns, req)
  BY DEF CountInv, Inv, RequestsFine, Fine, Sound
<1> QED BY <1>1, <1>2, <1>3

(* A step of one request that leaves the turns alone.                      *)
LEMMA CountStep ==
  ASSUME CountInv, Inv', NEW r \in Requests, NEW q \in ReqRow, Asking(q),
         req' = [req EXCEPT ![r] = q], UNCHANGED turns,
         Counted(turns, With(req, r, q), overlaps')
  PROVE  CountInv'
<1>1. req' = With(req, r, q)
  BY DEF With
<1>2. Counted(turns, req, overlaps)'
  BY <1>1
<1>3. \A s \in Requests : Asking(req'[s])
  BY <1>1, CountFacts, WithFields DEF CountInv
<1>4. Shallow(turns)'
  BY DEF CountInv
<1> QED BY <1>2, <1>3, <1>4 DEF CountInv

LEMMA DropStep ==
  ASSUME CountInv, Inv', NEW r \in Requests, req[r].pc # "idle", NEW q \in ReqRow,
         q.pc \notin Answers, q.then # "ask", req' = [req EXCEPT ![r] = q],
         UNCHANGED <<turns, overlaps>>
  PROVE  CountInv'
<1>1. Asking(q)
  BY DEF Asking
<1>2. Counted(turns, With(req, r, q), overlaps')
  BY CountFacts, DropKept
<1> QED BY <1>1, <1>2, CountStep

(* What the engine decides on a fresh view asks a question of the template *)
(* at most, and then every question there is has its answer.               *)
LEMMA EnsureAsks ==
  ASSUME Inv, NEW s \in Statuses, NEW e \in Engines, NEW q, q = EnsurePrompt(ViewWith(s, e))
  PROVE  /\ q \in ReqRow /\ Fine(turns, q) /\ Asking(q) /\ q.pc \notin Answers
         /\ q.then = "ask" => q.depth = 0 /\ Ahead(turns, q.block, Len(turns))
<1> DEFINE v == ViewWith(s, e)
<1>1. q \in ReqRow /\ Fine(turns, q)
  BY EnsureFine
<1>2. v.len = Len(turns)
  BY FreshView
<1> HIDE DEF v
<1>3. /\ q.pc \in {"idle", "prompt"}
      /\ q.then = "ask" => q.pc = "prompt" /\ q.depth = 0 /\ q.view = v
  <2>1. q = EnsurePrompt(v)
    BY DEF v
  <2>2. q \in {Idle, Prompt(v, None, 0, "await"), Prompt(v, None, 0, "complete"), Prompt(v, v.next, 0, "ask")}
    BY <2>1, Zenon DEF EnsurePrompt
  <2> QED BY <2>2 DEF Idle, Prompt
<1>4. q.then = "ask" => Ahead(turns, q.block, Len(turns)) /\ q.block \in 1..Blocks
  BY <1>1, <1>2, <1>3 DEF Fine
<1>5. Asking(q)
  BY <1>3, <1>4 DEF Asking
<1> QED BY <1>1, <1>3, <1>4, <1>5 DEF Answers

LEMMA EnsureStep ==
  ASSUME CountInv, Inv', NEW r \in Requests, req[r].pc \in {"start", "classify", "route"},
         NEW s \in Statuses, NEW e \in Engines,
         req' = [req EXCEPT ![r] = EnsurePrompt(ViewWith(s, e))], UNCHANGED <<turns, overlaps>>
  PROVE  CountInv'
<1>1. PICK q : q = EnsurePrompt(ViewWith(s, e))
  OBVIOUS
<1>2. /\ q \in ReqRow /\ Asking(q) /\ q.pc \notin Answers
      /\ q.then = "ask" => q.depth = 0 /\ Ahead(turns, q.block, Len(turns))
  BY <1>1, CountFacts, EnsureAsks
<1>3. req' = [req EXCEPT ![r] = q]
  BY <1>1
<1>4. CASE q.then # "ask"
  BY <1>2, <1>3, <1>4, DropStep
<1>5. CASE q.then = "ask"
  <2>1. \A i : ~Hits(req[r], i)
    BY DEF Hits
  <2>2. IsFiniteSet(InFlight(With(req, r, q))) /\ Cardinality(InFlight(With(req, r, q))) <= 1 + overlaps
    BY <1>2, CountFacts, StillInFlight DEF Counted
  <2>3. overlaps \in Nat /\ overlaps <= overlaps
    BY CountFacts
  <2>4. Counted(turns, With(req, r, q), overlaps)
    BY <1>2, <1>5, <2>1, <2>2, <2>3, CountFacts, FreshKept
  <2> QED BY <1>2, <1>3, <2>4, CountStep
<1> QED BY <1>4, <1>5

----------------------------------------------------------------------------
LEMMA BeginCount ==
  ASSUME CountInv, Inv', NEW r \in Requests, NEW q \in ReqRow, Asking(q), Begin(r, q),
         q.pc \in Answers => q.pc = "answer" /\ q.view.open \in OpenTurns,
         q.then = "ask" => q.depth = 0 /\ Ahead(turns, q.block, Len(turns)) /\ q.pc \notin Answers
  PROVE  CountInv'
<1>1. req' = [req EXCEPT ![r] = q] /\ UNCHANGED turns /\ req[r].pc = "idle"
  BY DEF Begin, At
<1>2. CASE Quiet
  <2>1. overlaps' = overlaps /\ \A s \in Requests : req[s].pc = "idle"
    BY <1>2 DEF Begin, Quiet, At
  <2>2. q.pc \in Answers => q.pc = "answer" /\ q.view.open \in 1..Len(turns) /\ turns[q.view.open].asked
    BY CountFacts DEF OpenTurns
  <2>3. Counted(turns, With(req, r, q), overlaps)
    BY <2>1, <2>2, CountFacts, AloneKept
  <2> QED BY <1>1, <2>1, <2>3, CountStep
<1>3. CASE ~Quiet
  <2>1. overlaps' = overlaps + 1
    BY <1>3 DEF Begin
  <2>2. Counted(turns, With(req, r, q), overlaps + 1)
    BY <1>1, CountFacts, OverlapKept
  <2> QED BY <1>1, <2>1, <2>2, CountStep
<1> QED BY <1>2, <1>3

LEMMA ReadsFields ==
  ASSUME NEW pc
  PROVE  Reads(pc).pc = pc /\ Reads(pc).view = View /\ Reads(pc).then = "idle"
BY DEF Reads, Idle

LEMMA BeginsCount ==
  ASSUME CountInv, Inv', NEW r \in Requests, BeginStart(r) \/ BeginSubmit(r) \/ BeginComplete(r)
  PROVE  CountInv'
<1>1. ASSUME NEW pc \in {"start", "deliver", "reply", "answer"}, Begin(r, Reads(pc)),
             pc = "answer" => View.open # None
      PROVE  CountInv'
  <2>1. Reads(pc) \in ReqRow
    BY <1>1, CountFacts, ReadsFine DEF PCs, Answers
  <2>2. Reads(pc).pc = pc /\ Reads(pc).view = View /\ Reads(pc).then = "idle"
    BY ReadsFields
  <2>3. pc = "answer" => View.open \in OpenTurns
    <3>1. OpenTurns \in SUBSET (Nat \ {0})
      BY CountFacts DEF OpenTurns
    <3>2. View.open = Least(OpenTurns)
      BY DEF View, ViewWith
    <3> QED BY <1>1, <3>1, <3>2, LeastIsLeast
  <2>4. Asking(Reads(pc))
    BY <2>2 DEF Asking
  <2> QED BY <1>1, <2>1, <2>2, <2>3, <2>4, BeginCount DEF Answers
<1>2. CASE BeginStart(r)
  BY <1>1, <1>2 DEF BeginStart
<1>3. CASE BeginComplete(r)
  BY <1>1, <1>3 DEF BeginComplete
<1>4. CASE BeginSubmit(r) /\ View.open # None
  BY <1>1, <1>4 DEF BeginSubmit
<1>5. CASE BeginSubmit(r) /\ View.open = None /\ NotReady(View)
  BY <1>1, <1>5 DEF BeginSubmit
<1>6. CASE BeginSubmit(r) /\ View.open = None /\ ~NotReady(View)
  <2>1. PICK q : q = EnsurePrompt(ViewWith(status, engine))
    OBVIOUS
  <2>2. Begin(r, q)
    BY <1>6, <2>1 DEF BeginSubmit, View
  <2>3. /\ q \in ReqRow /\ Asking(q) /\ q.pc \notin Answers
        /\ q.then = "ask" => q.depth = 0 /\ Ahead(turns, q.block, Len(turns))
    BY <2>1, CountFacts, ReqTyped, EnsureAsks
  <2> QED BY <2>2, <2>3, BeginCount
<1> QED BY <1>2, <1>3, <1>4, <1>5, <1>6

(* A request that stays where it is but for its control point.             *)
LEMMA MoveCount ==
  ASSUME CountInv, Inv', NEW r \in Requests, NEW pc \in PCs, req[r].pc # "idle",
         req' = [req EXCEPT ![r] = [req[r] EXCEPT !.pc = pc]],
         UNCHANGED <<turns, overlaps>>,
         pc \in Answers => req[r].pc \in Answers,
         req[r].then = "ask" => pc \in {"prompt", "ask"},
         \/ req[r].pc \notin {"answer", "record"}
         \/ pc \in {"answer", "record"}
  PROVE  CountInv'
<1>1. PICK q : q = [req[r] EXCEPT !.pc = pc]
  OBVIOUS
<1>2. req[r] \in ReqRow /\ Asking(req[r])
  BY CountFacts DEF Reqs
<1>3. /\ q \in ReqRow /\ q.pc = pc /\ q.view = req[r].view /\ q.block = req[r].block
      /\ q.depth = req[r].depth /\ q.then = req[r].then
  BY <1>1, <1>2 DEF ReqRow
<1>4. Asking(q)
  BY <1>2, <1>3 DEF Asking
<1>5. \A c, e \in Nat : Adds(turns, q, c, e) => Adds(turns, req[r], c, e)
  BY <1>3 DEF Adds
<1>6. \A i : Hits(req[r], i) => Hits(q, i)
  BY <1>3 DEF Hits
<1>7. Counted(turns, With(req, r, q), overlaps)
  BY <1>3, <1>4, <1>5, <1>6, CountFacts, KeepKept
<1>8. req' = [req EXCEPT ![r] = q]
  BY <1>1
<1> QED BY <1>3, <1>4, <1>7, <1>8, CountStep

LEMMA IdleAsks == Idle \in ReqRow /\ Idle.pc = "idle" /\ Idle.then = "idle"
<1>1. Idle \in ReqRow
  BY DEF Idle, NoView, Views, ReqRow, PCs
<1> QED BY <1>1 DEF Idle

LEMMA IdleCount ==
  ASSUME CountInv, Inv', NEW r \in Requests, req[r].pc # "idle", req' = [req EXCEPT ![r] = Idle],
         UNCHANGED <<turns, overlaps>>
  PROVE  CountInv'
BY IdleAsks, DropStep DEF Answers

LEMMA AppendsCount ==
  ASSUME CountInv, Inv', NEW r \in Requests,
         AppendPrompt(r) \/ AppendAnswer(r) \/ AppendReply(r) \/ ReplaceTranscript(r)
  PROVE  CountInv'
<1>1. req[r] \in ReqRow /\ Asking(req[r]) /\ Fine(turns, req[r])
  BY CountFacts, ReqTyped DEF Reqs
<1>2. req[r].pc \in Answers => req[r].then = "idle"
  BY <1>1 DEF Fine
<1>3. ASSUME NEW pc \in PCs, req[r].pc # "idle", WithTranscript(r, [req[r] EXCEPT !.pc = pc]),
             pc \in Answers => req[r].pc \in Answers, req[r].then = "ask" => pc \in {"prompt", "ask"},
             req[r].pc \notin {"answer", "record"} \/ pc \in {"answer", "record"}
      PROVE  CountInv'
  <2>1. CASE HasTranscript(req[r].view) \/ ~transcript
    <3>1. req' = [req EXCEPT ![r] = [req[r] EXCEPT !.pc = pc]] /\ UNCHANGED <<turns, overlaps>>
      BY <1>3, <2>1 DEF WithTranscript, Goes
    <3> QED BY <1>3, <3>1, MoveCount
  <2>2. CASE ~(HasTranscript(req[r].view) \/ ~transcript)
    <3>1. req' = [req EXCEPT ![r] = Idle] /\ UNCHANGED <<turns, overlaps>>
      BY <1>3, <2>2 DEF WithTranscript, Goes
    <3> QED BY <1>3, <3>1, IdleCount
  <2> QED BY <2>1, <2>2
<1>4. CASE AppendPrompt(r)
  <2>1. req[r].pc = "prompt" /\ WithTranscript(r, [req[r] EXCEPT !.pc = req[r].then])
    BY <1>4 DEF AppendPrompt, At
  <2>2. req[r].then \in PCs /\ req[r].then \notin Answers
    BY <1>1 DEF ReqRow, PCs, Answers
  <2> QED BY <1>3, <2>1, <2>2
<1>5. CASE AppendAnswer(r)
  <2>1. req[r].pc = "answer" /\ WithTranscript(r, [req[r] EXCEPT !.pc = "record"])
    BY <1>5 DEF AppendAnswer, At
  <2> QED BY <1>2, <1>3, <2>1 DEF PCs, Answers
<1>6. CASE AppendReply(r)
  <2>1. req[r].pc = "reply" /\ WithTranscript(r, [req[r] EXCEPT !.pc = "classify"])
    BY <1>6 DEF AppendReply, At
  <2> QED BY <1>1, <1>3, <2>1 DEF PCs, Answers, Asking
<1>7. CASE ReplaceTranscript(r)
  <2>1. req[r].pc = "replace" /\ WithTranscript(r, [req[r] EXCEPT !.pc = "complete"])
    BY <1>7 DEF ReplaceTranscript, At
  <2> QED BY <1>1, <1>3, <2>1 DEF PCs, Answers, Asking
<1> QED BY <1>4, <1>5, <1>6, <1>7

LEMMA OtherStepsCount ==
  ASSUME CountInv, Inv', NEW r \in Requests,
         \/ MarkRunning(r) \/ LookAgain(r) \/ AwaitReadiness(r) \/ ConfirmReadiness(r)
         \/ AskReadinessAgain(r) \/ CheckCompletable(r) \/ Complete(r) \/ CutOff(r)
  PROVE  CountInv'
<1>1. req[r] \in ReqRow /\ Asking(req[r])
  BY CountFacts DEF Reqs
<1>2. CASE MarkRunning(r) /\ At(r, "start")
  <2>1. /\ req' = [req EXCEPT ![r] = EnsurePrompt(ViewWith(status', engine))]
        /\ UNCHANGED <<turns, overlaps>>
    BY <1>2 DEF MarkRunning, Goes
  <2>2. status' \in Statuses /\ engine \in Engines
    BY CountFacts DEF Inv, Typed
  <2>3. PICK s \in Statuses : s = status'
    BY <2>2
  <2>4. req' = [req EXCEPT ![r] = EnsurePrompt(ViewWith(s, engine))]
    BY <2>1, <2>3
  <2> QED BY <1>2, <2>1, <2>2, <2>4, EnsureStep DEF At
<1>3. CASE MarkRunning(r) /\ ~At(r, "start")
  <2>1. PICK q : q = [Idle EXCEPT !.pc = "look"]
    OBVIOUS
  <2>2. q \in ReqRow /\ q.pc = "look" /\ q.then = "idle"
    BY <2>1, IdleAsks DEF ReqRow, PCs
  <2>3. req' = [req EXCEPT ![r] = q] /\ UNCHANGED <<turns, overlaps>> /\ req[r].pc = "deliver"
    BY <1>3, <2>1 DEF MarkRunning, Goes, At
  <2> QED BY <2>2, <2>3, DropStep DEF Answers
<1>4. CASE LookAgain(r)
  <2>1. PICK pc \in {"replace", "complete"} : req' = [req EXCEPT ![r] = [Idle EXCEPT !.pc = pc, !.view = View]]
    BY <1>4 DEF LookAgain, Goes
  <2>2. PICK q : q = [Idle EXCEPT !.pc = pc, !.view = View]
    OBVIOUS
  <2>3. View \in Views
    BY CountFacts, ReqTyped, FreshView DEF View
  <2>4. q \in ReqRow /\ q.pc = pc /\ q.then = "idle"
    BY <2>2, <2>3, IdleAsks DEF ReqRow, PCs
  <2>5. req' = [req EXCEPT ![r] = q] /\ UNCHANGED <<turns, overlaps>> /\ req[r].pc = "look"
    BY <1>4, <2>1, <2>2 DEF LookAgain, At
  <2> QED BY <2>4, <2>5, DropStep DEF Answers
<1>5. CASE ConfirmReadiness(r)
  <2>1. /\ req' = [req EXCEPT ![r] = EnsurePrompt(ViewWith(status, "confirmed"))]
        /\ UNCHANGED <<turns, overlaps>> /\ req[r].pc = "classify"
    BY <1>5 DEF ConfirmReadiness, Goes, At
  <2>2. status \in Statuses /\ "confirmed" \in Engines
    BY CountFacts, ReqTyped DEF Engines
  <2> QED BY <2>1, <2>2, EnsureStep
<1>6. CASE AwaitReadiness(r) \/ AskReadinessAgain(r) \/ Complete(r) \/ CutOff(r)
  <2>1. req[r].pc # "idle" /\ req' = [req EXCEPT ![r] = Idle] /\ UNCHANGED <<turns, overlaps>>
    BY <1>6 DEF AwaitReadiness, AskReadinessAgain, Complete, CutOff, Goes, At
  <2> QED BY <2>1, IdleCount
<1>7. CASE CheckCompletable(r) /\ status \in {"SCHEDULED", "RUNNING"}
  <2>1. /\ req' = [req EXCEPT ![r] = [req[r] EXCEPT !.pc = "finish"]]
        /\ UNCHANGED <<turns, overlaps>> /\ req[r].pc = "complete"
    BY <1>7 DEF CheckCompletable, Goes, At
  <2> QED BY <1>1, <2>1, MoveCount DEF PCs, Answers, Asking
<1>8. CASE CheckCompletable(r) /\ ~(status \in {"SCHEDULED", "RUNNING"})
  <2>1. req[r].pc # "idle" /\ req' = [req EXCEPT ![r] = Idle] /\ UNCHANGED <<turns, overlaps>>
    BY <1>8 DEF CheckCompletable, Goes, At
  <2> QED BY <2>1, IdleCount
<1> QED BY <1>2, <1>3, <1>4, <1>5, <1>6, <1>7, <1>8

LEMMA RouteCount ==
  ASSUME CountInv, Inv', NEW r \in Requests, FollowUp(r) \/ Advance(r)
  PROVE  CountInv'
<1>1. req[r].pc = "route" /\ UNCHANGED <<turns, overlaps>>
  BY DEF FollowUp, Advance, At
<1>2. CASE Advance(r)
  <2>1. req' = [req EXCEPT ![r] = EnsurePrompt(ViewWith(status, engine))]
    BY <1>2 DEF Advance, Goes, View
  <2> QED BY <1>1, <2>1, CountFacts, ReqTyped, EnsureStep
<1>3. CASE FollowUp(r)
  <2>1. PICK t : t = turns[req[r].view.open]
    OBVIOUS
  <2>2. req[r].view.open \in 1..Len(turns)
    BY <1>1, CountFacts DEF Sound, Answers
  <2>3. t.block \in 1..Blocks /\ t.depth \in Nat
    BY <2>1, <2>2, CountFacts, TurnFields
  <2>4. PICK q : q = Prompt(View, t.block, t.depth + 1, "ask")
    OBVIOUS
  <2>5. t.depth < MaxFollowUps[t.block] /\ req' = [req EXCEPT ![r] = q]
    BY <1>3, <2>1, <2>4 DEF FollowUp, MayFollowUp, Goes
  <2>6. View \in Views
    BY CountFacts, ReqTyped, FreshView DEF View
  <2>7. q.pc = "prompt" /\ q.then = "ask" /\ q.block = t.block /\ q.depth = t.depth + 1
    BY <2>4 DEF Prompt
  <2>8. q \in ReqRow
    BY <2>3, <2>4, <2>6 DEF Prompt, ReqRow, PCs
  <2>9. Asking(q)
    BY <2>3, <2>5, <2>7 DEF Asking
  <2>10. ASSUME NEW c \in Nat, NEW e \in Nat, Adds(turns, q, c, e) PROVE Adds(turns, req[r], c, e)
    <3>1. Lower(t.block, t.depth + 1, c, e + 1)
      BY <2>7, <2>10 DEF Adds, Answers
    <3>2. Lower(t.block, t.depth, c, e)
      BY <2>3, <3>1 DEF Lower
    <3> QED BY <1>1, <2>1, <3>2 DEF Adds, Answers
  <2>11. \A i : ~Hits(req[r], i)
    BY <1>1 DEF Hits
  <2>12. Counted(turns, With(req, r, q), overlaps)
    BY <1>1, <2>8, <2>9, <2>10, <2>11, CountFacts, KeepKept
  <2> QED BY <1>1, <2>5, <2>8, <2>9, <2>12, CountStep
<1> QED BY <1>2, <1>3

(* A step of one request that writes the turns.                            *)
LEMMA TurnStep ==
  ASSUME CountInv, Inv', NEW r \in Requests, NEW q \in ReqRow, Asking(q),
         req' = [req EXCEPT ![r] = q], Shallow(turns'),
         Counted(turns', With(req, r, q), overlaps')
  PROVE  CountInv'
<1>1. req' = With(req, r, q)
  BY DEF With
<1>2. Counted(turns', req', overlaps')
  BY <1>1
<1>3. \A s \in Requests : Asking(req'[s])
  BY <1>1, CountFacts, WithFields DEF CountInv
<1> QED BY <1>2, <1>3 DEF CountInv

LEMMA RecordCount ==
  ASSUME CountInv, Inv', NEW r \in Requests, RecordAnswer(r)
  PROVE  CountInv'
<1>1. PICK i : i = req[r].view.open
  OBVIOUS
<1>2. PICK q : q = [req[r] EXCEPT !.pc = "route"]
  OBVIOUS
<1>3. PICK us : us = turns'
  OBVIOUS
<1>4. /\ turns \in Seq(TurnRow) /\ i \in 1..Len(turns) /\ req[r].pc = "record"
      /\ req[r] \in ReqRow /\ Asking(req[r]) /\ us \in Seq(TurnRow)
  <2>1. req[r].pc = "record"
    BY DEF RecordAnswer, At
  <2>2. us \in Seq(TurnRow)
    BY <1>3 DEF Inv, Typed
  <2> QED BY <1>1, <2>1, <2>2, CountFacts DEF Sound, Answers, Reqs
<1>5. /\ us = [turns EXCEPT ![i] = [turns[i] EXCEPT !.asked = FALSE]]
      /\ req' = [req EXCEPT ![r] = q] /\ overlaps' = overlaps
  BY <1>1, <1>2, <1>3 DEF RecordAnswer, Goes
<1>6. PICK t : t = [turns[i] EXCEPT !.asked = FALSE]
  OBVIOUS
<1>7. t.block = turns[i].block /\ t.depth = turns[i].depth /\ ~t.asked /\ t \in TurnRow
  <2>1. turns[i] \in TurnRow
    BY <1>4
  <2> QED BY <1>6, <2>1 DEF TurnRow
<1>8. Len(us) = Len(turns) /\ us[i] = t /\ \A j \in 1..Len(turns) : j # i => us[j] = turns[j]
  <2>1. us = [turns EXCEPT ![i] = t]
    BY <1>5, <1>6
  <2> QED BY <1>4, <1>7, <2>1
<1>9. Grows(turns, us)
  BY <1>4, <1>7, <1>8 DEF Grows
<1>10. Shallow(us)
  BY <1>8, <1>9, CountFacts DEF Shallow, Grows
<1>11. Counted(us, req, overlaps)
  BY <1>4, <1>8, <1>9, CountFacts, AnsweredKept
<1>12. q \in ReqRow /\ q.pc = "route" /\ q.view = req[r].view /\ q.then = req[r].then /\ q.then # "ask"
  BY <1>2, <1>4 DEF ReqRow, PCs, Asking
<1>13. Asking(q)
  BY <1>12 DEF Asking
<1>14. \A c, e \in Nat : Adds(us, q, c, e) => Adds(us, req[r], c, e)
  BY <1>4, <1>12 DEF Adds, Answers
<1>15. \A k : Hits(req[r], k) => Hits(q, k) \/ ~us[k].asked
  BY <1>1, <1>7, <1>8 DEF Hits
<1>16. Counted(us, With(req, r, q), overlaps)
  BY <1>4, <1>11, <1>12, <1>13, <1>14, <1>15, CountFacts, KeepKept
<1> QED BY <1>3, <1>5, <1>10, <1>12, <1>13, <1>16, TurnStep

LEMMA CreateCount ==
  ASSUME CountInv, Inv', NEW r \in Requests, CreateTurn(r)
  PROVE  CountInv'
<1>1. /\ req[r].pc = "ask" /\ req' = [req EXCEPT ![r] = Idle] /\ overlaps' = overlaps
      /\ req[r] \in ReqRow /\ Fine(turns, req[r]) /\ Asking(req[r])
  BY CountFacts, ReqTyped DEF CreateTurn, At, Goes, Reqs
<1>2. CASE ~NumberIsFree(req[r].view)
  BY <1>1, <1>2, IdleCount DEF CreateTurn
<1>3. CASE NumberIsFree(req[r].view)
  <2>1. PICK us : us = Append(turns, Turn(req[r].block, req[r].depth))
    OBVIOUS
  <2>2. turns' = us
    BY <1>3, <2>1 DEF CreateTurn
  <2>3. req[r].then = "ask" /\ req[r].block \in 1..Blocks /\ req[r].depth \in Nat
        /\ req[r].depth <= MaxFollowUps[req[r].block]
    BY <1>1 DEF Fine, Asking, ReqRow
  <2>4. Counted(us, With(req, r, Idle), overlaps)
    BY <1>1, <2>1, <2>3, CountFacts, IdleAsks, CreateKept
  <2>5. Shallow(us)
    <3>1. PICK t : t = Turn(req[r].block, req[r].depth)
      OBVIOUS
    <3>2. t.block = req[r].block /\ t.depth = req[r].depth /\ t \in TurnRow
      BY <2>3, <3>1 DEF Turn, TurnRow
    <3>3. /\ Len(us) = Len(turns) + 1 /\ us[Len(turns) + 1] = t
          /\ \A k \in 1..Len(turns) : us[k] = turns[k]
      BY <2>1, <3>1, <3>2, CountFacts
    <3>4. Len(turns) \in Nat /\ \A k \in 1..Len(turns) : us[k].depth <= MaxFollowUps[us[k].block]
      BY <3>3, CountFacts DEF Shallow
    <3>5. us[Len(turns) + 1].depth <= MaxFollowUps[us[Len(turns) + 1].block]
      BY <2>3, <3>2, <3>3
    <3>6. \A k \in 1..Len(us) : k \in 1..Len(turns) \/ k = Len(turns) + 1
      BY <3>3, <3>4
    <3> QED BY <3>4, <3>5, <3>6, Zenon DEF Shallow
  <2>6. Asking(Idle)
    BY IdleAsks DEF Asking
  <2> QED BY <1>1, <2>2, <2>4, <2>5, <2>6, IdleAsks, TurnStep
<1> QED BY <1>2, <1>3

LEMMA CountInductive == CountInv /\ [Next]_vars => CountInv'
<1> SUFFICES ASSUME CountInv, [Next]_vars PROVE CountInv'
  OBVIOUS
<1>1. Inv'
  BY CountFacts, InvInductive
<1>2. ASSUME NEW r \in Requests, BeginStart(r) \/ BeginSubmit(r) \/ BeginComplete(r) PROVE CountInv'
  BY <1>1, <1>2, BeginsCount
<1>3. ASSUME NEW r \in Requests, Step(r) \/ CutOff(r) PROVE CountInv'
  BY <1>1, <1>3, AppendsCount, OtherStepsCount, RouteCount, RecordCount, CreateCount
     DEF Step, Answer
<1>4. CASE EndOtherwise \/ UNCHANGED vars
  <2>1. UNCHANGED <<turns, req, overlaps>>
    BY <1>4 DEF EndOtherwise, vars
  <2> QED BY <1>1, <2>1 DEF CountInv
<1> QED BY <1>2, <1>3, <1>4 DEF Next

(* Each of the open questions is led to by itself or by the request that   *)
(* is answering it.                                                        *)
LEMMA OpenBounded ==
  ASSUME CountInv PROVE Cardinality(OpenTurns) <= 1 + overlaps
<1> DEFINE A == Adders(turns, req, Blocks + 1, 0)
           W == Leading(turns, req, Blocks + 1, 0)
           f == [s \in A |-> req[s].view.open]
           T == {f[s] : s \in A}
<1>1. IsFiniteSet(A) /\ IsFiniteSet(W) /\ Cardinality(A) + Cardinality(W) <= 1 + overlaps
  BY CountFacts, CountedAt
<1>2. ASSUME NEW i \in OpenTurns PROVE i \in W \cup T
  <2>1. i \in 1..Len(turns) /\ turns[i].asked
    BY <1>2, CountFacts DEF OpenTurns
  <2>2. turns[i].block \in 1..Blocks /\ turns[i].depth \in Nat
    BY <2>1, CountFacts, TurnFields
  <2>3. Lower(turns[i].block, turns[i].depth, Blocks + 1, 0)
    BY <2>2 DEF Lower
  <2>4. CASE ~IsHit(req, i)
    BY <2>1, <2>3, <2>4 DEF Leading, Leads
  <2>5. CASE IsHit(req, i)
    <3>1. PICK s \in Requests : Hits(req[s], i)
      BY <2>5 DEF IsHit
    <3>2. s \in A /\ req[s].view.open = i
      BY <2>3, <3>1 DEF Hits, Adders, Adds, Answers
    <3> QED BY <3>2
  <2> QED BY <2>4, <2>5
<1>3. IsFiniteSet(T) /\ Cardinality(T) <= Cardinality(A)
  <2>1. f \in Surjection(A, T)
    BY DEF Surjection
  <2> QED BY <1>1, <2>1, FS_Surjection
<1> HIDE DEF A, W, f, T
<1>4. /\ IsFiniteSet(W \cup T) /\ Cardinality(A) \in Nat /\ Cardinality(W) \in Nat
      /\ Cardinality(T) \in Nat /\ Cardinality(W \cup T) \in Nat
      /\ Cardinality(W \cup T) <= Cardinality(W) + Cardinality(T)
  <2>1. /\ IsFiniteSet(W \cup T) /\ IsFiniteSet(W \cap T)
        /\ Cardinality(W \cup T) = Cardinality(W) + Cardinality(T) - Cardinality(W \cap T)
    <3>1. IsFiniteSet(W \cap T)
      BY <1>1, FS_Subset, W \cap T \subseteq W
    <3> QED BY <1>1, <1>3, <3>1, FS_Union
  <2> QED BY <1>1, <1>3, <2>1, FS_CardinalityType
<1>5. Cardinality(OpenTurns) <= Cardinality(W \cup T) /\ Cardinality(OpenTurns) \in Nat
  <2>1. OpenTurns \subseteq W \cup T
    BY <1>2
  <2> QED BY <1>4, <2>1, Smaller
<1> QED BY <1>1, <1>3, <1>4, <1>5, CountFacts

(* A question is open once at a time and each follow-up of a block asked   *)
(* once, but for one more of each for every request that began while       *)
(* another was in flight, for any template, requests and cuts.             *)
THEOREM OneQuestion == Spec => []OneQuestionAtATime
<1>1. CountInv => OneQuestionAtATime
  <2> SUFFICES ASSUME CountInv, NEW i \in DOMAIN turns
               PROVE  /\ turns[i].depth <= MaxFollowUps[turns[i].block]
                      /\ Cardinality(TurnsAt(turns[i].block, turns[i].depth)) <= 1 + overlaps
    BY OpenBounded DEF OneQuestionAtATime
  <2>1. DOMAIN turns = 1..Len(turns)
    BY CountFacts
  <2>2. PICK c, e : c = turns[i].block /\ e = turns[i].depth
    OBVIOUS
  <2>3. c \in Nat /\ e \in Nat
    BY <2>1, <2>2, CountFacts, TurnFields
  <2>4. TurnsAt(c, e) \subseteq Leading(turns, req, c, e)
    BY <2>1 DEF TurnsAt, Leading, Leads
  <2>5. /\ IsFiniteSet(Adders(turns, req, c, e)) /\ IsFiniteSet(Leading(turns, req, c, e))
        /\ Cardinality(Adders(turns, req, c, e)) + Cardinality(Leading(turns, req, c, e)) <= 1 + overlaps
    BY <2>3, CountFacts, CountedAt
  <2>6. /\ Cardinality(TurnsAt(c, e)) \in Nat /\ Cardinality(Leading(turns, req, c, e)) \in Nat
        /\ Cardinality(TurnsAt(c, e)) <= Cardinality(Leading(turns, req, c, e))
    BY <2>4, <2>5, Smaller
  <2>7. Cardinality(Adders(turns, req, c, e)) \in Nat
    BY <2>5, FS_CardinalityType
  <2>8. Cardinality(TurnsAt(c, e)) <= 1 + overlaps
    BY <2>5, <2>6, <2>7, CountFacts
  <2>9. turns[i].depth <= MaxFollowUps[turns[i].block]
    BY <2>1, CountFacts DEF Shallow
  <2> QED BY <2>2, <2>8, <2>9
<1> QED BY <1>1, InitCount, CountInductive, PTL DEF Spec
=============================================================================
