\* The same instance, asked whether a public stemcell is public.
SPECIFICATION Spec
CONSTANTS
  a1 = a1
  a2 = a2
  Accounts = {a1, a2}
  SharedLists <- Lists
  MaxPolls = 4
  Malformed = FALSE
INVARIANT OkMeansPublic
