SPECIFICATION FairSpec
CONSTANTS
  Blocks = 2
  MaxFollowUps <- MCMaxFollowUps
  Requests = {r1, r2}
  MaxOverlaps = 2
  MaxCuts = 2
INVARIANTS QuestionsInOrder ClosedWhenAnswered OneQuestionAtATime
PROPERTY InterviewEnds
CHECK_DEADLOCK FALSE
