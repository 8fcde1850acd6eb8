----------------------- MODULE MCInterviewConversation -----------------------
(* TLC instance of InterviewConversation: two blocks with two follow-ups and one. *)
EXTENDS InterviewConversation
MCMaxFollowUps == <<2, 1>>
==============================================================================
