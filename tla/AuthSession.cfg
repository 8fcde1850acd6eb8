SPECIFICATION Spec
CONSTANTS
  Tabs = {t1, t2}
  MaxSessions = 2
  MaxTokens = 4
  MaxChanges = 1
  MaxFaults = 1
SYMMETRY Symmetry
INVARIANTS SignedInStaysIn FewLiveAfterClose OlderSessionsEnd
CHECK_DEADLOCK FALSE
