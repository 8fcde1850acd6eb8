SPECIFICATION Spec
CONSTANTS
  Jobs = {j1, j2}
  Requests = {r1, r2}
  Allowances = {0, 1}
  Quantity = 1
  MaxPeriod = 2
  MaxGrants = 1
  MaxFaults = 1
  NoJob = NoJob
  j1 = j1
  j2 = j2
  r1 = r1
  r2 = r2
SYMMETRY Symmetry
INVARIANTS
  CreditsArePaidUnits
  RacesCostOneUnitEach
CHECK_DEADLOCK FALSE
