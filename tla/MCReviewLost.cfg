SPECIFICATION ReviewSpec
CONSTANTS
  Envelopes <- MCUploads
  Content <- MCContent
  Keys <- MCKeys
  NoKey = NoKey
  Names <- MCNames
  Digests <- MCNames
  NoDigest = NoDigest
  Lower <- MCLower
  Builders = {"builder"}
  Sources = {"repo"}
  Commits = {"c1"}
  NoCommit = NoCommit
  NoStatement = NoStatement
  NoProvenance = NoProvenance
  NoFeed = NoFeed
  Reviewers = {r1}
  Stamps <- MCStampsFew
  Stores <- MCStoresFew
  LookupsFail = TRUE
  MaxReviews = 1
INVARIANT
  ReferrersReviewed
\* Clients may stop asking, and the bounds make them: the system may then rest.
CHECK_DEADLOCK FALSE
