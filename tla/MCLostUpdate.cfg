SPECIFICATION Spec
CONSTANTS
  Requests <- TwoRequests
  Default = Default
  MaxNow = 0
  MaxCrashes = 0
  MaxFaults = 0
PROPERTIES NoLostUpdate
