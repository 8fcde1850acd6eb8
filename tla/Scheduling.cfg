SPECIFICATION Spec
CONSTANTS
  t1 = t1
  t2 = t2
  Slots = {t1, t2}
  Windows <- MCWindows
  Requests = {p1, p2}
  MaxRequests = 7
  MaxSessions = 2
  MaxFaults = 1
SYMMETRY Symmetry
INVARIANTS BookedAtSelected SelectedWasCommon NoOrphanSession
CHECK_DEADLOCK FALSE
