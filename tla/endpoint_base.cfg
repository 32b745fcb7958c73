\* The same inputs, asked for the domain of every service.
SPECIFICATION Spec
CONSTANTS
  Inputs <- Combinations
  IsolatedNames = {"cn-north-1"}
  GB = 4
INVARIANT EndpointBaseForAllServices
