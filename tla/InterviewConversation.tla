----------------------- MODULE InterviewConversation -----------------------
(***************************************************************************)
(* The conversation a candidate holds with one interview session over its  *)
(* public link (interviews.service.ts): the consent to begin, the          *)
(* confirmation of readiness, the questions of the template's blocks with  *)
(* their follow-ups, the closing prompt and the completion.                *)
(*                                                                         *)
(* A request reads the session with its turns and its transcript, decides  *)
(* on that view, and writes statement by statement: two tabs, a double     *)
(* click or a retry make two requests interleave, and each of them may be  *)
(* cut off between two statements.  What guards them are the unique key on *)
(* a turn's sequence number and that of the transcript, nothing else.      *)
(*                                                                         *)
(* The other ends of a session (cancelled, abandoned, timed out, expired)  *)
(* and what follows a completion are in InterviewSession; here they are    *)
(* one step that may come at any time.                                     *)
(***************************************************************************)
EXTENDS Naturals, Sequences, FiniteSets

CONSTANTS
  Blocks,        \* the template has the blocks 1..Blocks, with distinct keys
  MaxFollowUps,  \* follow-ups a block allows
  Requests,      \* requests in flight at once
  MaxOverlaps,   \* bound: requests that read while another is in flight
  MaxCuts        \* bound: requests cut off

ASSUME ConversationAssumption ==
  /\ Blocks \in Nat \ {0}
  /\ MaxFollowUps \in [1..Blocks -> Nat]
  /\ MaxOverlaps \in Nat /\ MaxCuts \in Nat

VARIABLES
  status,      \* InterviewSession.status; every end but COMPLETED is ENDED
  engine,      \* engineStateJson: "initial", "awaiting" or "confirmed"
  turns,       \* InterviewTurn rows by sequence number
  transcript,  \* whether the session has its Transcript row
  req,         \* what each request has read and is about to do
  closed,      \* history: the engine itself has completed the session
  overlaps, cuts

vars == <<status, engine, turns, transcript, req, closed, overlaps, cuts>>

None == 0
Turn(block, depth) == [block |-> block, depth |-> depth, asked |-> TRUE]

\* The first question that waits for its answer, and the first block without one.
OpenTurns == {i \in DOMAIN turns : turns[i].asked}
Least(S) == IF S = {} THEN None ELSE CHOOSE i \in S : \A j \in S : i <= j

M_AsManyAsAnswers == 1..Cardinality(DOMAIN turns \ OpenTurns)

AnsweredBlocks == {turns[i].block : i \in DOMAIN turns \ OpenTurns}

\* The session as a request reads it, its status and engine being s and e.
ViewWith(s, e) ==
  [status |-> s, engine |-> e, transcript |-> transcript, len |-> Len(turns),
   open |-> Least(OpenTurns), next |-> Least(1..Blocks \ AnsweredBlocks)]
View == ViewWith(status, engine)
NoView == [status |-> "ENDED", engine |-> "initial", transcript |-> FALSE, len |-> 0,
           open |-> None, next |-> None]
Idle == [pc |-> "idle", view |-> NoView, block |-> None, depth |-> 0, then |-> "idle"]

Init ==
  /\ status = "SCHEDULED" /\ engine = "initial" /\ turns = <<>> /\ transcript = FALSE
  /\ req = [r \in Requests |-> Idle]
  /\ closed = FALSE /\ overlaps = 0 /\ cuts = 0

At(r, pc) == req[r].pc = pc
Quiet == \A r \in Requests : At(r, "idle")

----------------------------------------------------------------------------
(* ensurePromptForRunningSession, decided on a view: nothing to do, or a    *)
(* prompt to append to the transcript and what follows it.                  *)

Prompt(v, block, depth, then) ==
  [pc |-> "prompt", view |-> v, block |-> block, depth |-> depth, then |-> then]

NotReady(v) == v.engine # "confirmed"

EnsurePrompt(v) ==
  IF v.status # "RUNNING" \/ v.open # None THEN Idle
  ELSE IF v.engine = "awaiting" THEN Idle
  ELSE IF NotReady(v) THEN Prompt(v, None, 0, "await")
  ELSE IF v.next = None THEN Prompt(v, None, 0, "complete")
  ELSE Prompt(v, v.next, 0, "ask")

----------------------------------------------------------------------------
(* A request reads the session.                                             *)

Begin(r, q) ==
  /\ At(r, "idle") /\ (Quiet \/ overlaps < MaxOverlaps)
  /\ overlaps' = IF Quiet THEN overlaps ELSE overlaps + 1
  /\ req' = [req EXCEPT ![r] = q]
  /\ UNCHANGED <<status, engine, turns, transcript, closed, cuts>>

Reads(pc) == [Idle EXCEPT !.pc = pc, !.view = View]

\* Opening the link, also again: the candidate has consented, or does so now.
BeginStart(r) == status \in {"SCHEDULED", "RUNNING"} /\ Begin(r, Reads("start"))

\* An answer to the open question, a word on readiness, or neither of them.
BeginSubmit(r) ==
  /\ status = "RUNNING"
  /\ Begin(r, IF View.open # None THEN Reads("answer")
              ELSE IF NotReady(View) THEN Reads("reply")
              ELSE EnsurePrompt(View))

\* The voice agent of the provider has held the conversation and delivers it.
BeginComplete(r) == status \in {"SCHEDULED", "RUNNING"} /\ Begin(r, Reads("deliver"))

----------------------------------------------------------------------------
(* Steps of the requests.                                                   *)

Goes(r, q) == req' = [req EXCEPT ![r] = q]

\* SCHEDULED is what was read: the row may have been completed or ended since.
MarkRunning(r) ==
  /\ At(r, "start") \/ At(r, "deliver")
  /\ status' = IF req[r].view.status = "SCHEDULED" THEN "RUNNING" ELSE status
  /\ Goes(r, IF At(r, "start") THEN EnsurePrompt(ViewWith(status', engine))
             ELSE [Idle EXCEPT !.pc = "look"])
  /\ UNCHANGED <<engine, turns, transcript, closed, overlaps, cuts>>

M_HasTranscript(v) == FALSE

HasTranscript(v) == v.transcript

\* ensureRuntimeTranscript: of two requests that find none, one fails.
WithTranscript(r, q) ==
  /\ transcript' = TRUE
  /\ Goes(r, IF HasTranscript(req[r].view) \/ ~transcript THEN q ELSE Idle)
  /\ UNCHANGED <<status, engine, turns, closed, overlaps, cuts>>

AppendPrompt(r) == At(r, "prompt") /\ WithTranscript(r, [req[r] EXCEPT !.pc = req[r].then])
AppendAnswer(r) == At(r, "answer") /\ WithTranscript(r, [req[r] EXCEPT !.pc = "record"])
AppendReply(r) == At(r, "reply") /\ WithTranscript(r, [req[r] EXCEPT !.pc = "classify"])

\* The delivered segments, if any, replace those of the transcript.
LookAgain(r) ==
  /\ At(r, "look")
  /\ \E pc \in {"replace", "complete"} : Goes(r, [Idle EXCEPT !.pc = pc, !.view = View])
  /\ UNCHANGED <<status, engine, turns, transcript, closed, overlaps, cuts>>

ReplaceTranscript(r) ==
  At(r, "replace") /\ WithTranscript(r, [req[r] EXCEPT !.pc = "complete"])

\* The engine's state is written whole, as it was in the view.
AwaitReadiness(r) ==
  /\ At(r, "await")
  /\ engine' = "awaiting" /\ Goes(r, Idle)
  /\ UNCHANGED <<status, turns, transcript, closed, overlaps, cuts>>

ConfirmReadiness(r) ==
  /\ At(r, "classify")
  /\ engine' = "confirmed" /\ Goes(r, EnsurePrompt(ViewWith(status, "confirmed")))
  /\ UNCHANGED <<status, turns, transcript, closed, overlaps, cuts>>

\* Not ready yet, or unclear: asked once more.
AskReadinessAgain(r) ==
  /\ At(r, "classify")
  /\ engine' = "awaiting" /\ Goes(r, Idle)
  /\ UNCHANGED <<status, turns, transcript, closed, overlaps, cuts>>

\* By id: the turn may have been answered by another request since.
RecordAnswer(r) ==
  /\ At(r, "record")
  /\ turns' = [turns EXCEPT ![req[r].view.open].asked = FALSE]
  /\ Goes(r, [req[r] EXCEPT !.pc = "route"])
  /\ UNCHANGED <<status, engine, transcript, closed, overlaps, cuts>>

M_MayFollowUp(turn) == turn.depth <= MaxFollowUps[turn.block]

MayFollowUp(turn) == turn.depth < MaxFollowUps[turn.block]

\* routeNextPromptAfterAnswer, on the session as it is now: a poor answer is
\* followed up whatever the session has come to.
FollowUp(r) ==
  /\ At(r, "route")
  /\ LET turn == turns[req[r].view.open]
     IN  MayFollowUp(turn) /\ Goes(r, Prompt(View, turn.block, turn.depth + 1, "ask"))
  /\ UNCHANGED <<status, engine, turns, transcript, closed, overlaps, cuts>>

Advance(r) ==
  /\ At(r, "route")
  /\ Goes(r, EnsurePrompt(View))
  /\ UNCHANGED <<status, engine, turns, transcript, closed, overlaps, cuts>>

M_NumberIsFree(v) == TRUE

NumberIsFree(v) == v.len = Len(turns)

\* The turn takes the number after the last one of the view; the key is unique.
CreateTurn(r) ==
  /\ At(r, "ask")
  /\ turns' = IF NumberIsFree(req[r].view) THEN Append(turns, Turn(req[r].block, req[r].depth))
              ELSE turns
  /\ Goes(r, Idle)
  /\ UNCHANGED <<status, engine, transcript, closed, overlaps, cuts>>

\* complete: refused or without effect when the session is over.
CheckCompletable(r) ==
  /\ At(r, "complete")
  /\ Goes(r, IF status \in {"SCHEDULED", "RUNNING"} THEN [req[r] EXCEPT !.pc = "finish"] ELSE Idle)
  /\ UNCHANGED <<status, engine, turns, transcript, closed, overlaps, cuts>>

Complete(r) ==
  /\ At(r, "finish")
  /\ status' = "COMPLETED" /\ closed' = (closed \/ req[r].then = "complete")
  /\ Goes(r, Idle)
  /\ UNCHANGED <<engine, turns, transcript, overlaps, cuts>>

\* Cancelled by the recruiter, abandoned, timed out or expired.
EndOtherwise ==
  /\ status \in {"SCHEDULED", "RUNNING"}
  /\ status' = "ENDED"
  /\ UNCHANGED <<engine, turns, transcript, req, closed, overlaps, cuts>>

CutOff(r) ==
  /\ ~At(r, "idle") /\ cuts < MaxCuts
  /\ cuts' = cuts + 1 /\ Goes(r, Idle)
  /\ UNCHANGED <<status, engine, turns, transcript, closed, overlaps>>

----------------------------------------------------------------------------
Answer(r) == RecordAnswer(r) \/ FollowUp(r) \/ Advance(r) \/ CreateTurn(r)

Step(r) ==
  \/ MarkRunning(r) \/ AppendPrompt(r) \/ AppendAnswer(r) \/ AppendReply(r)
  \/ LookAgain(r) \/ ReplaceTranscript(r)
  \/ AwaitReadiness(r) \/ ConfirmReadiness(r) \/ AskReadinessAgain(r)
  \/ Answer(r) \/ CheckCompletable(r) \/ Complete(r)

Next ==
  \/ \E r \in Requests :
       BeginStart(r) \/ BeginSubmit(r) \/ BeginComplete(r) \/ Step(r) \/ CutOff(r)
  \/ EndOtherwise

Spec == Init /\ [][Next]_vars

\* A request that is not cut off is served to its end, the candidate opens the
\* link and answers again and again, and does not for ever say "not yet".
Fairness ==
  /\ \A r \in Requests : WF_vars(Step(r)) /\ SF_vars(ConfirmReadiness(r))
  /\ SF_vars(\E r \in Requests : BeginStart(r))
  /\ SF_vars(\E r \in Requests : BeginSubmit(r))

FairSpec == Spec /\ Fairness

----------------------------------------------------------------------------
(* The rows and the requests have their types, and the question a request  *)
(* answers is one that exists.                                              *)
Views == [status : {"SCHEDULED", "RUNNING", "COMPLETED", "ENDED"},
          engine : {"initial", "awaiting", "confirmed"}, transcript : BOOLEAN,
          len : Nat, open : Nat, next : 0..Blocks]
TypeOK ==
  /\ status \in {"SCHEDULED", "RUNNING", "COMPLETED", "ENDED"}
  /\ engine \in {"initial", "awaiting", "confirmed"}
  /\ turns \in Seq([block : 1..Blocks, depth : Nat, asked : BOOLEAN])
  /\ req \in [Requests -> [pc : {"idle", "start", "deliver", "look", "replace", "prompt", "answer",
                                 "reply", "classify", "record", "route", "await", "ask",
                                 "complete", "finish"},
                           view : Views, block : 0..Blocks, depth : Nat,
                           then : {"idle", "await", "ask", "complete"}]]
  /\ \A r \in Requests :
       At(r, "answer") \/ At(r, "record") \/ At(r, "route") => req[r].view.open \in DOMAIN turns
  /\ transcript \in BOOLEAN /\ closed \in BOOLEAN
  /\ overlaps \in 0..MaxOverlaps /\ cuts \in 0..MaxCuts

(* However requests overlap, the candidate is asked about the template's   *)
(* blocks once each and in their order, and about the next one only when   *)
(* every earlier question has its answer: the unique number of a turn is   *)
(* what stops a request that has missed another's turn.                    *)
Primaries == {i \in DOMAIN turns : turns[i].depth = 0}
QuestionsInOrder ==
  \A i \in Primaries :
    /\ \A j \in 1..(i - 1) : ~turns[j].asked /\ turns[j].block < turns[i].block
    /\ \A b \in 1..(turns[i].block - 1) : \E j \in Primaries : j < i /\ turns[j].block = b

(* The engine says goodbye only after every block has an answer.            *)
ClosedWhenAnswered == closed => AnsweredBlocks = 1..Blocks

(* Without overlapping requests one question is open at a time and a block  *)
(* has each of its follow-ups at most once; every request that overlaps     *)
(* another adds at most one open question, and one of each follow-up: an    *)
(* answer sent twice is followed up twice from there on.                    *)
TurnsAt(b, d) == {i \in DOMAIN turns : turns[i].block = b /\ turns[i].depth = d}
OneQuestionAtATime ==
  /\ Cardinality(OpenTurns) <= 1 + overlaps
  /\ \A i \in DOMAIN turns :
       /\ turns[i].depth <= MaxFollowUps[turns[i].block]
       /\ Cardinality(TurnsAt(turns[i].block, turns[i].depth)) <= 1 + overlaps

(* A candidate who keeps coming back gets to the end of the interview,      *)
(* wherever requests have been cut off and whatever has overlapped.         *)
InterviewEnds == <>[](status \in {"COMPLETED", "ENDED"})
=============================================================================
