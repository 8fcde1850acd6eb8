\* One event, both handlers, two processes, one fault; the refinement and
\* that the event settles.
SPECIFICATION FairSpec
CONSTANTS
  Events = {e1}
  Consumers = {c1, c2}
  Handlers = {integrations, notifications}
  MaxAttempts = 2
  BatchSize = 1
  MaxFaults = 1
  NoOne = NoOne
INVARIANTS PublishedMeansHandled FailedMeansMaxAttempts
INVARIANTS OneWorkerUnlessRecovered WorkBounded
PROPERTIES Promise EventuallySettled
