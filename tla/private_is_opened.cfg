\* The same instance, asked whether the snapshots of a private stemcell stay private.
SPECIFICATION Spec
CONSTANTS
  a1 = a1
  a2 = a2
  Accounts = {a1, a2}
  SharedLists <- Lists
  MaxPolls = 4
  Malformed = FALSE
INVARIANT PrivateStaysPrivate
