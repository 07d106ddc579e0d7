CONSTANTS
  a = a  b = b
  Settings = {a, b}
  Confs <- AllConfs
  MaxCouriers = 3

SPECIFICATION Spec
INVARIANTS
  TypeOK
  OneInstanceAtATime
PROPERTIES
  KeepsContract

CHECK_DEADLOCK FALSE
