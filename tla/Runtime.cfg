CONSTANTS
  NoNetwork = NoNetwork
  Member = {1, 2, 3}
  Network = {1}
  Registrable <- AllOnOne
  Removable = {}
  MemberHashes <- MembersByHash
  NetworkHashes <- NetworksByHash
  ShardSize = 2
  Threshold = 1
  HeartbeatTimeout = 2
  MaxTimeoutsPerBlock = 1
  DkgTimeoutBlocks = 2
  MaxElectionsPerBlock = 1
  MaxShards = 2
SPECIFICATION Spec
INVARIANTS
  DkgCounterExact
PROPERTIES
  ImplementsMembership
