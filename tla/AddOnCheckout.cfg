SPECIFICATION FairCheckoutSpec
CONSTANTS
  Checkouts = {k1, k2}
  Handlers = {h1, h2}
  MaxCutOffs = 2
INVARIANT GrantsFollowCheckouts
PROPERTY PaidIsCompleted
CHECK_DEADLOCK FALSE
