CONSTANTS
  NoNetwork = NoNetwork
  Member = {1, 2, 3}
  Network = {1, 2}
  Registrable <- OddEven
  Removable = {2}
  MemberHashes <- MembersByHash
  NetworkHashes <- NetworksByHash
  ShardSize = 1
  Threshold = 1
  HeartbeatTimeout = 1
  MaxTimeoutsPerBlock = 1
  DkgTimeoutBlocks = 1
  MaxElectionsPerBlock = 1
  MaxShards = 2
SPECIFICATION FairSpec
PROPERTIES
  
  DkgResolves
  SilentMembersTimeOut
