SPECIFICATION MemorySpec
CONSTANTS
  Keys = {"key", "tsa"}
  NoKey = "none"
  Names <- MCNames
  Digests <- MCDigests
  NoDigest = "nodigest"
  Lower <- MCLower
  Builders = {"builder"}
  Sources = {"repo"}
  Commits = {"c1"}
  NoCommit = "nocommit"
  NoStatement = NoStatement
  NoProvenance = NoProvenance
  NoFeed = NoFeed
  Envelopes <- MCEnvelopes
  Content <- MCContent
  Uploads <- MCUploads
  Proofs <- MCProofs
  PinLists <- MCPinLists
  Stamps <- MCStamps
  Events <- MCEvents
  Registered <- MCPolicy
  MaxCalls = 6
INVARIANTS
  MemoryTypeOK
  AnswersAgree
PROPERTIES
  ImplementsTables
\* Nobody has to call.
CHECK_DEADLOCK FALSE
