CONSTANTS
  a = a  b = b  c = c  eth = eth
  NoNetwork = NoNetwork
  Member = {a, b, c}
  Network = {eth}
  NetworkOf <- OneNetwork
  ShardSize = 2
  Threshold = 1
  HeartbeatTimeout = 2
  MaxTimeoutsPerBlock = 2
  DkgTimeoutBlocks = 2
  MaxElectionsPerBlock = 1
  MaxShards = 2
SYMMETRY MemberSymmetry
SPECIFICATION Spec
INVARIANTS
  HeartbeatsAccountForOnline
  
  ShardMembershipAgrees
  Inv
PROPERTIES
  ShardsFollowLifecycle
