\* Two publishers and two copies racing, whatever the regions held before.
SPECIFICATION Spec
CONSTANTS
  p1 = p1
  p2 = p2
  c1 = c1
  c2 = c2
  east = east
  west = west
  Aliasers = {p1, p2}
  Replicators = {c1, c2}
  Regions = {east, west}
  SourceOf <- Sources
  TargetOf <- Targets
INVARIANTS
  AliasNamesOurKey
  RacersSucceed
