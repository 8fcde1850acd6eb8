SPECIFICATION FairSpec
CONSTANTS
  Sessions = {s1, s2}
  Invites = {s1}
  Requests = {p1}
  Monitors = {m1}
  Kinds = {"invite", "schedule", "reschedule", "start", "cancel", "complete", "poll", "publicStart", "publicComplete", "abandon", "remind", "reviewPack"}
  Overlap = 1
  MaxRequests = 5
  MaxFaults = 1
  NoSession = none
PROPERTIES Lifecycle ExpiredInvitationCloses
CHECK_DEADLOCK FALSE
