CONSTANTS
  Requests <- MCRequests
  MaxWindow = 2
  MaxTime = 4
  MaxStep = 1
  MaxKills = 2
  MaxOutages = 1
  MaxGrants = 1
  MaxFaults = 1
SPECIFICATION Spec
INVARIANTS
  GrantIsBounded
  OpenWithinRecord
  ProcessIsBounded
