CONSTANTS
  a = a  b = b
  Settings = {a, b}
  Confs <- NetworkConfs
  MaxCouriers = 1

SPECIFICATION FairSpec
INVARIANTS
  ReadyIsFed
PROPERTIES
  NobodyWaitsForEver
  FailedSourceRetries
