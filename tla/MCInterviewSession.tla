------------------------- MODULE MCInterviewSession -------------------------
(* TLC instance of InterviewSession: the requests are interchangeable, and *)
(* so are the monitors.                                                    *)
EXTENDS InterviewSession, TLC

Sym == Permutations(Requests) \union Permutations(Monitors)
=============================================================================
