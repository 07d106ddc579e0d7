CONSTANTS
  n = n  regexp = regexp  p1 = p1  p2 = p2  c = c
  a = a  b = b  nobody = nobody  handler = handler
  Names = {n}
  RegexpName = regexp
  Kinds <- TwoKinds
  Settings = {a, b}
  Configurations <- FewConfigurations
  Paths = {p1, p2}
  Clients = {c}
  Nobody = nobody
  Handler = handler
  HLSEnabled = FALSE
  MaxCouriers = 1

SPECIFICATION FairSpec
PROPERTIES
  NobodyWaitsForEver
