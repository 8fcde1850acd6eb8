SPECIFICATION FairSpec
CONSTANTS
  Requests = {r1}
  MaxPeriod = 2
  MaxChoices = 2
  MaxFaults = 1
  MaxMail = 2
PROPERTIES EndedIsNoticed PaidIsOpened FlexTakesEffect
CHECK_DEADLOCK FALSE
