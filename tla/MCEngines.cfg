SPECIFICATION Spec
CONSTANTS
  Requests <- TwoRequests
  Default = Default
  MaxNow = 0
  MaxCrashes = 1
  MaxFaults = 0
INVARIANTS EnginesAgree
