SPECIFICATION OfflineSpec
CONSTANTS
  Keys <- MCKeys
  NoKey = "none"
  Names = {"app", "artifact"}
  Digests <- MCDigests
  NoDigest = "nodigest"
  Lower <- MCLower
  Builders = {"builderA", "builderB", "builderR"}
  Sources = {"repo"}
  Commits = {"c1"}
  NoCommit = "nocommit"
  NoStatement = NoStatement
  NoProvenance = NoProvenance
  NoFeed = NoFeed
  Envelopes <- MCEnvelopes
  Content <- MCContent
  Files <- MCFiles
  Torn = "torn"
  PolicyIn <- MCPolicyIn
  RootIn <- MCRootIn
  FeedIn <- MCFeedIn
  EnvelopeIn <- MCEnvelopeIn
  StampIn <- MCStampIn
  Bases = {"a", "b"}
  Specs <- MCSpecs
  Queries <- MCQueries
  Foreign <- MCForeign
  MaxBuilds = 2
  MaxDamages = 1
INVARIANTS
  OfflineTypeOK
  JudgedWhatWasBuilt
  AgreesWithGate
  ClassesJustified
  FreshBundleAccepted
\* Nobody has to build or to verify: once the bounds are used up the bundle
\* may just lie there.
CHECK_DEADLOCK FALSE
