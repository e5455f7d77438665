SPECIFICATION ServiceSpec
CONSTANTS
  Envelopes <- MCEnvelopes
  Content <- MCContent
  Keys <- MCKeys
  NoKey = NoKey
  Names <- MCNames
  Digests <- MCNames
  NoDigest = NoDigest
  Lower <- MCLower
  Builders = {"builder"}
  Sources = {"repo"}
  Commits = {"c1"}
  NoCommit = NoCommit
  NoStatement = NoStatement
  NoProvenance = NoProvenance
  NoFeed = NoFeed
  Configs <- MCConfigs
  Stores = {}
  LookupsFail = FALSE
  Verifiers = {v1}
  Requests <- MCRequestsOne
  MaxRequests = 2
  Reviewers = {r1}
  Stamps <- MCStampsLate
  MaxReviews = 1
  Releases <- Rollout
  MaxStarts = 3
INVARIANTS
  ServiceTypeOK
  ServingImpliesRecorded
  VerdictsFeedReviews
PROPERTIES
  RevocationSticks
  VerdictsOfReleaseInForce
\* Clients may stop asking, and the bounds make them: the system may then rest.
CHECK_DEADLOCK FALSE
