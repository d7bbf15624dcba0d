SPECIFICATION FairSpec
CONSTANTS
  Requests <- ThreeRequests
  Default = Default
  MaxNow = 1
  MaxCrashes = 2
  MaxFaults = 2
INVARIANTS  ConfirmedInOrder
PROPERTIES RevisionsConfirmed
