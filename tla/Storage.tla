------------------------------- MODULE Storage -------------------------------
(***************************************************************************)
(* The storage items of the members, elections and shards pallets as one   *)
(* record, passed from call to call: a pallet function that writes storage *)
(* is an operator from a store to a store.  Also the functions by which    *)
(* the pallets read each other's items.                                    *)
(***************************************************************************)
EXTENDS Integers, FiniteSets, SequencesExt

CONSTANTS
  Member,               \* account ids, ordered as numbers
  Network,              \* network ids, ordered as numbers
  NoNetwork,            \* an absent network
  MemberHashes,         \* the accounts in the order a storage map iterates over them
  NetworkHashes,        \* the network ids in that order
  ShardSize,            \* NetworkShardSize of every network
  Threshold,            \* NetworkShardThreshold of every network
  HeartbeatTimeout,
  MaxTimeoutsPerBlock,
  DkgTimeoutBlocks,     \* DkgTimeout of the shards pallet
  MaxElectionsPerBlock,
  MaxShards             \* bound: shard ids the model can hand out

ASSUME HashAssumption ==
  /\ IsInjective(MemberHashes) /\ Range(MemberHashes) = Member
  /\ IsInjective(NetworkHashes) /\ Range(NetworkHashes) = Network

ShardId == 0 .. MaxShards - 1
NoShard == -1
InDkg == {"Created", "Committed"}

\* The keys of a storage map or a prefix of one, in iteration order.
IterMembers(S) == SelectSeq(MemberHashes, LAMBDA m : m \in S)
IterNetworks(S) == SelectSeq(NetworkHashes, LAMBDA n : n \in S)
\* The keys of a BTreeMap of networks.
SortedNetworks(S) == SetToSortSeq(S, <)

\* Block numbers are kept relative to the current block: DkgTimeout[s] is the number
\* of blocks until the entry of s is drained (0 when there is none), and
\* DkgTimeoutCounter[k] the counter of the block k blocks ahead.
EmptyStore(networks) ==
  [MemberNetwork |-> [m \in Member |-> NoNetwork],
   MemberRegistered |-> {},
   MemberOnline |-> {},
   Heartbeat |-> {},
   TimedOut |-> <<>>,
   Unassigned |-> [n \in Network |-> <<>>],
   NetworkCounter |-> 0,
   NetworkName |-> networks,
   ShardIdCounter |-> 0,
   ShardState |-> [s \in ShardId |-> "None"],
   ShardNetwork |-> [s \in ShardId |-> NoNetwork],
   ShardThreshold |-> [s \in ShardId |-> -1],
   ShardMembers |-> [s \in ShardId |-> [m \in Member |-> "None"]],
   MemberShard |-> [m \in Member |-> NoShard],
   ShardMembersOnline |-> [s \in ShardId |-> 0],
   ShardCommitment |-> {},
   DkgTimeout |-> [s \in ShardId |-> 0],
   DkgTimeoutCounter |-> [k \in 1 .. DkgTimeoutBlocks |-> 0]]

(* MembersInterface, ShardsInterface and NetworksInterface, the reading half *)
is_member_online(st, m) == m \in st.MemberOnline
is_member_registered(st, m) == m \in st.MemberRegistered
is_shard_member(st, m) == st.MemberShard[m] # NoShard
shard_members(st, s) == {m \in Member : st.ShardMembers[s][m] # "None"}
get_networks(st) == IterNetworks(st.NetworkName)
=============================================================================
