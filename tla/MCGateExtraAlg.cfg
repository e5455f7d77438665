SPECIFICATION GateSpec
CONSTANTS
  Envelopes <- MCEnvelopes
  Content <- MCContent
  Keys <- MCKeys
  NoKey = NoKey
  Names = {"app", "lib"}
  Digests <- MCDigests
  NoDigest = NoDigest
  Lower <- MCLower
  Builders = {"builderA", "builderB"}
  Sources = {"repo"}
  Commits = {"c1"}
  NoCommit = NoCommit
  NoStatement = NoStatement
  NoProvenance = NoProvenance
  NoFeed = NoFeed
  Verifiers = {v1, v2}
  Requests <- MCRequestsExtra
  Configs <- MCConfigs
  MaxRequests = 2
INVARIANT
  PassingWithoutConflictIsAllowed
\* Clients may stop asking, and the bounds make them: the system may then rest.
CHECK_DEADLOCK FALSE
