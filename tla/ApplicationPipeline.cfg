SPECIFICATION FairSpec
CONSTANTS
  Requests = {p1, p2}
  Targets = {"RECRUITER_REVIEW", "REJECTED"}
  MaxRequests = 3
  MaxFaults = 1
INVARIANTS TraceIsTrue ConsequencesFollow InvitedIsCleared
PROPERTY RequestsFinish
CHECK_DEADLOCK FALSE
