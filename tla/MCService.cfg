SPECIFICATION ServiceSpec
CONSTANTS
  Envelopes <- MCEnvelopes
  Content <- MCContent
  Keys <- MCKeys
  NoKey = NoKey
  Names <- MCNames
  Digests <- MCNames
  NoDigest = NoDigest
  Lower <- MCLower
  Builders = {"builder"}
  Sources = {"repo"}
  Commits = {"c1"}
  NoCommit = NoCommit
  NoStatement = NoStatement
  NoProvenance = NoProvenance
  NoFeed = NoFeed
  Configs <- MCConfigs
  Stores = {}
  LookupsFail = FALSE
  Verifiers = {v1, v2}
  Requests <- MCRequests
  MaxRequests = 2
  Reviewers = {r1}
  Stamps <- MCStamps
  MaxReviews = 1
  Releases <- OneRelease
  MaxStarts = 1
INVARIANTS
  ReviewCoversComponent
  VerdictsFeedReviews
PROPERTIES
  KeepsPromise
\* Clients may stop asking, and the bounds make them: the system may then rest.
CHECK_DEADLOCK FALSE
