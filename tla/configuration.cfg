\* Flags, AMI configurations, entries and pairs of entries, right and wrong; 4 bytes to the GB.
SPECIFICATION Spec
CONSTANTS
  Inputs <- Combinations
  IsolatedNames = {"cn-north-1"}
  GB = 4
INVARIANTS
  LaunchedAsAssumed
  VolumeHoldsImage
  OneAccountPerEntry
  EndpointOnlyAtHome
