SPECIFICATION Spec
CONSTANTS
  Sessions = {s1, s2}
  Invites = {s1}
  Requests = {p1, p2}
  Monitors = {m1, m2}
  Kinds = {"invite", "schedule", "reschedule", "start", "cancel", "complete", "poll", "publicStart", "publicComplete", "abandon", "remind", "stageTransition"}
  Overlap = 3
  MaxRequests = 3
  MaxFaults = 1
  NoSession = none
SYMMETRY Sym
INVARIANTS RemindedOnce CancellationRollsBack
PROPERTY StaleWritesOnly
CHECK_DEADLOCK FALSE
