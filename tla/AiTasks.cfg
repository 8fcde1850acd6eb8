SPECIFICATION FairSpec
CONSTANTS
  Runs = {f1, s1}
  Simulated = {s1}
  FollowUps = {f1}
  Slots = {w1, w2}
  MaxAttempts = 3
  MaxStalls = 1
  MaxDbFaults = 1
  MaxStops = 1
  Nobody = Nobody
  f1 = f1
  s1 = s1
  w1 = w1
  w2 = w2
INVARIANTS DeadLettersAreFatal SuccessHasArtifact
PROPERTIES FinalJobStaysFinal QueuedJobSettles FollowUpRunSettles
CHECK_DEADLOCK FALSE
