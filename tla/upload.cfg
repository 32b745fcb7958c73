\* Three attempts for a request, and tokens for two or three retries of all.
SPECIFICATION FairSpec
CONSTANTS
  w1 = w1
  w2 = w2
  Workers = {w1, w2}
  PartCount = 4
  NumMaxRetries = 3
  Capacity = 3
  Costs = {1, 2}
PROPERTIES
  ImplementsUpload
  Returns
