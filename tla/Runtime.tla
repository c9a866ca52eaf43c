------------------------------- MODULE Runtime -------------------------------
(***************************************************************************)
(* The runtime as far as members, elections and shards are concerned: the  *)
(* extrinsics of a block, and the on_initialize hooks of the next block in *)
(* the order of construct_runtime (members, shards, elections).            *)
(***************************************************************************)
EXTENDS Members

CONSTANTS
  Registrable,     \* the networks each member may register for
  Removable        \* the networks the admin may remove and register again

VARIABLES
  hook,            \* the handler group that runs next
  clock,           \* block number modulo HeartbeatTimeout
  store            \* the storage

vars == <<hook, clock, store>>

\* The types of the storage items; TimedOut lists nobody twice, and NetworkCounter is
\* an index of a network.
TypeOK ==
  /\ hook \in {"extrinsics", "shards", "elections"}
  /\ clock \in 0 .. HeartbeatTimeout - 1
  /\ \A m \in Member : /\ store.MemberNetwork[m] \in Network \cup {NoNetwork}
                       /\ store.MemberShard[m] \in ShardId \cup {NoShard}
  /\ store.TimedOut \in Seq(Member) /\ IsInjective(store.TimedOut)
  /\ \A n \in Network : store.Unassigned[n] \in Seq(Member)
  /\ store.ShardIdCounter \in 0 .. MaxShards
  /\ store.NetworkCounter \in 0 .. Cardinality(Network) - 1
  /\ \A s \in ShardId : /\ store.ShardMembersOnline[s] \in 0 .. Cardinality(Member)
                        /\ store.DkgTimeout[s] \in 0 .. DkgTimeoutBlocks

Init ==
  /\ hook = "extrinsics"
  /\ clock = 0
  /\ store = EmptyStore(Network)

Extrinsic == hook = "extrinsics" /\ UNCHANGED <<hook, clock>>

register_member(m, n) == Extrinsic /\ store' = execute_register_member(store, m, n)

unregister_member(m) ==
  Extrinsic /\ can_unregister(store, m) /\ store' = execute_unregister_member(store, m)

send_heartbeat(m) ==
  Extrinsic /\ can_send_heartbeat(store, m) /\ store' = execute_send_heartbeat(store, m)

commit(m, s) ==
  Extrinsic /\ TheShards!can_commit(store, m, s) /\ store' = TheShards!execute_commit(store, m, s)

ready(m, s) ==
  Extrinsic /\ TheShards!can_ready(store, m, s) /\ store' = TheShards!execute_ready(store, m, s)

force_shard_offline(s) == Extrinsic /\ store' = TheShards!force_shard_offline(store, s)

\* What register_network and remove_network change here: the networks elections visit.
register_network(n) ==
  Extrinsic /\ n \notin store.NetworkName /\ store' = [store EXCEPT !.NetworkName = @ \cup {n}]

remove_network(n) == Extrinsic /\ store' = [store EXCEPT !.NetworkName = @ \ {n}]

members_on_initialize ==
  /\ hook = "extrinsics"
  /\ hook' = "shards"
  /\ clock' = (clock + 1) % HeartbeatTimeout
  /\ store' = IF clock' = 0 THEN timeout_heartbeats(store) ELSE store

shards_on_initialize ==
  /\ hook = "shards"
  /\ hook' = "elections"
  /\ store' = TheShards!timeout_dkgs(store)
  /\ UNCHANGED clock

elections_on_initialize ==
  /\ hook = "elections"
  /\ hook' = "extrinsics"
  /\ store' = TheElections!on_initialize(store)
  /\ UNCHANGED clock

Hooks == members_on_initialize \/ shards_on_initialize \/ elections_on_initialize

Next ==
  \/ \E m \in Member : \/ \E n \in Registrable[m] : register_member(m, n)
                       \/ unregister_member(m)
                       \/ send_heartbeat(m)
  \/ \E m \in Member, s \in ShardId : commit(m, s) \/ ready(m, s)
  \/ \E s \in ShardId : force_shard_offline(s)
  \/ \E n \in Removable : register_network(n) \/ remove_network(n)
  \/ Hooks

Spec == Init /\ [][Next]_vars

\* Blocks keep coming, whatever the extrinsics: the runtime calls the hooks of every
\* block.  Only the hooks change `hook`, so this is weak fairness of Hooks.
Advance ==
  hook' = [extrinsics |-> "shards", shards |-> "elections", elections |-> "extrinsics"][hook]
FairSpec == Spec /\ WF_hook(Advance)

-----------------------------------------------------------------------------
(* Refinement: with one network per member the pallets implement Membership. *)

TheNetworkOf == [m \in Member |-> CHOOSE n \in Registrable[m] : TRUE]

M == INSTANCE Membership WITH
  NetworkOf <- TheNetworkOf,
  MemberNetwork <- {m \in Member : store.MemberNetwork[m] # NoNetwork},
  MemberRegistered <- store.MemberRegistered,
  MemberOnline <- store.MemberOnline,
  Heartbeat <- store.Heartbeat,
  TimedOut <- Range(store.TimedOut),
  Unassigned <- [n \in Network |-> Range(store.Unassigned[n])],
  ShardIdCounter <- store.ShardIdCounter,
  ShardState <- store.ShardState,
  ShardNetwork <- store.ShardNetwork,
  ShardMembers <- store.ShardMembers,
  MemberShard <- store.MemberShard,
  ShardMembersOnline <- store.ShardMembersOnline,
  ShardCommitment <- store.ShardCommitment,
  DkgTimeout <- store.DkgTimeout

\* Every handler of the three pallets, with the calls it makes into the other two,
\* is a step of Membership: what is proved of Membership holds of them.
ImplementsMembership == M!Spec

-----------------------------------------------------------------------------
(* Properties that need the order of the lists *)

\* No account is listed twice, on one network or on two: try_elect_shards would put
\* it in a shard twice, or in two shards.
UnassignedUnique ==
  /\ \A n \in Network : IsInjective(store.Unassigned[n])
  /\ \A n, o \in Network : n # o =>
       Range(store.Unassigned[n]) \cap Range(store.Unassigned[o]) = {}

\* Unassigned stays sorted: every writer sorts, and the path of try_elect_shards that
\* appends without sorting (a refused create_shard) is never taken.
UnassignedSorted ==
  \A n \in Network : store.Unassigned[n] = TheElections!SortReverse(store.Unassigned[n])

\* The counter create_shard checks is the number of shards whose DKG times out in that
\* block, so it never exceeds the limit and never refuses a shard.
DkgCounterExact ==
  \A k \in 1 .. DkgTimeoutBlocks :
    /\ store.DkgTimeoutCounter[k] = Cardinality({s \in ShardId : store.DkgTimeout[s] = k})
    /\ store.DkgTimeoutCounter[k] <= MaxElectionsPerBlock

\* How many networks have their turn before n.
Turn(n) == LET ns == get_networks(store) IN
  (CHOOSE i \in 1 .. Len(ns) : ns[i] = n) - 1 - store.NetworkCounter
\* A network that could elect a shard and did not in this block is nearer to its turn
\* in the next: MaxElectionsPerBlock starves no network.
RoundRobin ==
  [][elections_on_initialize =>
       \A n \in store.NetworkName :
         /\ Len(store.Unassigned[n]) >= ShardSize
         /\ store'.ShardIdCounter < MaxShards
         /\ store.NetworkCounter < Cardinality(store.NetworkName)
         /\ store'.Unassigned[n] = store.Unassigned[n]
         => Turn(n)' % Cardinality(store.NetworkName) < Turn(n) % Cardinality(store.NetworkName)]_vars

\* "Unassigned online members per network": everyone who waits for a shard is online.
\* Holds while members keep their network; register_member with another network
\* leaves the member in the list of the old one.
UnassignedAreOnline ==
  \A n \in Network : Range(store.Unassigned[n]) \subseteq store.MemberOnline

\* The converse: a registered member that is online and in no shard waits for one.
OnlineMembersWait ==
  \A m \in Member :
    is_member_registered(store, m) /\ is_member_online(store, m) /\ ~is_shard_member(store, m)
      => m \in Range(store.Unassigned[store.MemberNetwork[m]])

\* A shard that was created is online or offline in the end: DKG never hangs.
DkgResolves ==
  \A s \in ShardId : (store.ShardState[s] \in InDkg) ~> (store.ShardState[s] \in {"Online", "Offline"})

\* A member whose heartbeat has run out is timed out in the end, however many time out
\* before it, unless it sends a heartbeat or its network entry is removed.
SilentMembersTimeOut ==
  \A m \in Member : (m \in Range(store.TimedOut)) ~>
    (m \notin Range(store.TimedOut) \/ store.MemberNetwork[m] = NoNetwork)
=============================================================================
