------------------------------ MODULE Membership ------------------------------
(***************************************************************************)
(* What the members, elections and shards pallets promise together, for    *)
(* members that are each registered for one network only.                  *)
(*                                                                         *)
(* The three pallets call each other inside one handler, so every handler  *)
(* is one action here.  The runtime's on_initialize hooks run one after    *)
(* the other at the start of a block (members, shards, elections); `hook`  *)
(* names the hook that is due, and extrinsics run only once all have run.  *)
(*                                                                         *)
(* What is left open, and decided by module Runtime: the order of the      *)
(* TimedOut and Unassigned vectors (sets here), hence which members are    *)
(* timed out when there are more than MaxTimeoutsPerBlock and which are    *)
(* elected.  A DKG timeout is kept as the number of blocks left until its  *)
(* block, and the block number modulo HeartbeatTimeout.                    *)
(***************************************************************************)
EXTENDS Integers, FiniteSets

CONSTANTS
  Member,               \* account ids that may register
  Network,              \* network ids
  NetworkOf,            \* the network each member is registered for
  NoNetwork,            \* an absent ShardNetwork entry
  ShardSize,            \* Networks::shard_size
  Threshold,            \* Networks::shard_threshold
  HeartbeatTimeout,     \* blocks between two heartbeat checks
  MaxTimeoutsPerBlock,  \* members timed out in one check
  DkgTimeoutBlocks,     \* blocks a shard has to complete its DKG
  MaxElectionsPerBlock, \* shards created in one block
  MaxShards             \* bound: shard ids the model can hand out

ASSUME MemberAssumption == IsFiniteSet(Member)

ASSUME NetworkAssumption == NetworkOf \in [Member -> Network] /\ NoNetwork \notin Network

\* insert_network_config refuses a threshold above the shard size.  A shard
\* size of zero, which it accepts, divides by zero in try_elect_shards.
ASSUME ShardConfigAssumption ==
  /\ ShardSize \in Nat \ {0}
  /\ Threshold \in Nat
  /\ Threshold <= ShardSize

ASSUME BoundAssumption ==
  /\ HeartbeatTimeout \in Nat \ {0}
  /\ MaxTimeoutsPerBlock \in Nat
  /\ DkgTimeoutBlocks \in Nat \ {0}
  /\ MaxElectionsPerBlock \in Nat
  /\ MaxShards \in Nat

ShardId == 0 .. MaxShards - 1
NoShard == -1

VARIABLES
  hook,               \* the handler group that runs next
  clock,              \* block number modulo HeartbeatTimeout
  MemberNetwork,      \* members with a MemberNetwork (and peer id, public key) entry
  MemberRegistered,   \* members with a MemberRegistered entry
  MemberOnline,       \* members with a MemberOnline entry
  Heartbeat,          \* members that sent a heartbeat in this period
  TimedOut,           \* members whose last heartbeat is of the previous period
  Unassigned,         \* per network: members waiting to be elected
  ShardIdCounter,     \* next shard id
  ShardState,         \* status of each shard
  ShardNetwork,       \* network of each shard
  ShardMembers,       \* per shard: the status of each member
  MemberShard,        \* the shard a member is in
  ShardMembersOnline, \* the count of online members of each shard
  ShardCommitment,    \* shards with a group commitment
  DkgTimeout          \* blocks until the DKG timeout of a shard, 0 when none

memberVars == <<MemberNetwork, MemberRegistered, MemberOnline, Heartbeat, TimedOut>>
shardVars == <<ShardIdCounter, ShardState, ShardNetwork, ShardMembers, MemberShard,
               ShardMembersOnline, ShardCommitment, DkgTimeout>>
vars == <<hook, clock, memberVars, Unassigned, shardVars>>

InDkg == {"Created", "Committed"}

\* The accounts stored under a shard id.
MembersOf(s) == {m \in Member : ShardMembers[s][m] # "None"}

\* The types of the storage items of the three pallets.
TypeOK ==
  /\ hook \in {"extrinsics", "shards", "elections"}
  /\ clock \in 0 .. HeartbeatTimeout - 1
  /\ MemberNetwork \in SUBSET Member
  /\ MemberRegistered \in SUBSET Member
  /\ MemberOnline \in SUBSET Member
  /\ Heartbeat \in SUBSET Member
  /\ TimedOut \in SUBSET Member
  /\ Unassigned \in [Network -> SUBSET Member]
  /\ ShardIdCounter \in 0 .. MaxShards
  /\ ShardState \in [ShardId -> {"None", "Created", "Committed", "Online", "Offline"}]
  /\ ShardNetwork \in [ShardId -> Network \cup {NoNetwork}]
  /\ ShardMembers \in [ShardId -> [Member -> {"None", "Added", "Committed", "Ready"}]]
  /\ MemberShard \in [Member -> ShardId \cup {NoShard}]
  /\ ShardMembersOnline \in [ShardId -> Nat]
  /\ ShardCommitment \in SUBSET ShardId
  /\ DkgTimeout \in [ShardId -> 0 .. DkgTimeoutBlocks]

Init ==
  /\ hook = "extrinsics"
  /\ clock = 0
  /\ MemberNetwork = {}
  /\ MemberRegistered = {}
  /\ MemberOnline = {}
  /\ Heartbeat = {}
  /\ TimedOut = {}
  /\ Unassigned = [n \in Network |-> {}]
  /\ ShardIdCounter = 0
  /\ ShardState = [s \in ShardId |-> "None"]
  /\ ShardNetwork = [s \in ShardId |-> NoNetwork]
  /\ ShardMembers = [s \in ShardId |-> [m \in Member |-> "None"]]
  /\ MemberShard = [m \in Member |-> NoShard]
  /\ ShardMembersOnline = [s \in ShardId |-> 0]
  /\ ShardCommitment = {}
  /\ DkgTimeout = [s \in ShardId |-> 0]

-----------------------------------------------------------------------------
(* Extrinsics of the members pallet *)

register_member(m) ==
  /\ hook = "extrinsics"
  /\ MemberNetwork' = MemberNetwork \cup {m}
  /\ MemberRegistered' = MemberRegistered \cup {m}
  /\ UNCHANGED <<hook, clock, MemberOnline, Heartbeat, TimedOut, Unassigned, shardVars>>

\* The data of a shard member stays until its shard goes offline.
unregister_member(m) ==
  /\ hook = "extrinsics"
  /\ m \in MemberNetwork
  /\ m \in MemberRegistered
  /\ MemberRegistered' = MemberRegistered \ {m}
  /\ MemberNetwork' = IF MemberShard[m] = NoShard THEN MemberNetwork \ {m} ELSE MemberNetwork
  /\ UNCHANGED <<hook, clock, MemberOnline, Heartbeat, TimedOut, Unassigned, shardVars>>

\* member_online of the elections and the shards pallet, for a member that was offline.
ComesOnline(m) ==
  LET s == MemberShard[m] IN
  /\ Unassigned' = IF s = NoShard
                   THEN [Unassigned EXCEPT ![NetworkOf[m]] = @ \cup {m}]
                   ELSE Unassigned
  /\ ShardMembersOnline' = [i \in ShardId |->
       IF i = s THEN ShardMembersOnline[i] + 1 ELSE ShardMembersOnline[i]]
  /\ ShardState' = [i \in ShardId |->
       IF i = s /\ ShardState[i] \in InDkg THEN "Offline" ELSE ShardState[i]]

send_heartbeat(m) ==
  /\ hook = "extrinsics"
  /\ m \notin Heartbeat
  /\ m \in MemberNetwork
  /\ MemberOnline' = MemberOnline \cup {m}
  /\ Heartbeat' = Heartbeat \cup {m}
  /\ TimedOut' = TimedOut \ {m}
  /\ IF m \in MemberOnline
     THEN UNCHANGED <<Unassigned, ShardMembersOnline, ShardState>>
     ELSE ComesOnline(m)
  /\ UNCHANGED <<hook, clock, MemberNetwork, MemberRegistered, ShardIdCounter, ShardNetwork,
                 ShardMembers, MemberShard, ShardCommitment, DkgTimeout>>

-----------------------------------------------------------------------------
(* Taking shards offline *)

\* The members released when the shards of R go offline.
ReleasedRegisteredOnly(R) ==
  {m \in MemberRegistered : \E s \in R : ShardNetwork[s] # NoNetwork /\ m \in MembersOf(s)}
Released(R) == {m \in Member : \E s \in R : ShardNetwork[s] # NoNetwork /\ m \in MembersOf(s)}

\* The ShardMembers entries after those of R have been drained.
NotDrained(R) == ShardMembers
Drained(R) ==
  [s \in ShardId |-> IF s \in R /\ ShardNetwork[s] # NoNetwork
                     THEN [m \in Member |-> "None"] ELSE ShardMembers[s]]

\* Of the released members, those that go back to Unassigned of network n.
RejoiningOfflineToo(R, online, n) ==
  {m \in MemberRegistered : \E s \in R : ShardNetwork[s] = n /\ m \in MembersOf(s)}
Rejoining(R, online, n) ==
  {m \in MemberRegistered \cap online : \E s \in R : ShardNetwork[s] = n /\ m \in MembersOf(s)}

\* remove_shards_offline and elections' shard_offline: the shards of R go
\* offline, their members are released, and the released members that are
\* registered and in `online` join `waiting`, the Unassigned lists.
remove_shards_offline(R, online, waiting) ==
  /\ ShardState' = [s \in ShardId |-> IF s \in R THEN "Offline" ELSE ShardState[s]]
  /\ ShardNetwork' = [s \in ShardId |-> IF s \in R THEN NoNetwork ELSE ShardNetwork[s]]
  /\ ShardMembers' = Drained(R)
  /\ MemberShard' = [m \in Member |-> IF m \in Released(R) THEN NoShard ELSE MemberShard[m]]
  /\ MemberNetwork' = MemberNetwork \ (Released(R) \ MemberRegistered)
  /\ Unassigned' = [n \in Network |-> waiting[n] \cup Rejoining(R, online, n)]

force_shard_offline(s) ==
  /\ hook = "extrinsics"
  /\ remove_shards_offline({s}, MemberOnline, Unassigned)
  /\ UNCHANGED <<hook, clock, MemberRegistered, MemberOnline, Heartbeat, TimedOut,
                 ShardIdCounter, ShardMembersOnline, ShardCommitment, DkgTimeout>>

-----------------------------------------------------------------------------
(* Extrinsics of the shards pallet: the on-chain side of the DKG *)

\* Everyone else in the shard has the given status already.
LastIgnoringOthers(m, s, status) == TRUE
IsLast(m, s, status) == \A o \in MembersOf(s) \ {m} : ShardMembers[s][o] = status

commit(m, s) ==
  /\ hook = "extrinsics"
  /\ ShardMembers[s][m] = "Added"
  /\ m \in MemberNetwork
  /\ ShardMembers' = [ShardMembers EXCEPT ![s][m] = "Committed"]
  /\ IF IsLast(m, s, "Committed")
     THEN /\ ShardCommitment' = ShardCommitment \cup {s}
          /\ ShardState' = [ShardState EXCEPT ![s] = "Committed"]
     ELSE UNCHANGED <<ShardCommitment, ShardState>>
  /\ UNCHANGED <<hook, clock, memberVars, Unassigned, ShardIdCounter, ShardNetwork,
                 MemberShard, ShardMembersOnline, DkgTimeout>>

ready(m, s) ==
  /\ hook = "extrinsics"
  /\ ShardMembers[s][m] = "Committed"
  /\ ShardNetwork[s] # NoNetwork
  /\ s \in ShardCommitment
  /\ ShardMembers' = [ShardMembers EXCEPT ![s][m] = "Ready"]
  /\ ShardState' = IF IsLast(m, s, "Ready")
                   THEN [ShardState EXCEPT ![s] = "Online"]
                   ELSE ShardState
  /\ UNCHANGED <<hook, clock, memberVars, Unassigned, ShardIdCounter, ShardNetwork,
                 MemberShard, ShardMembersOnline, ShardCommitment, DkgTimeout>>

-----------------------------------------------------------------------------
(* Hooks, in the order of the runtime *)

\* Members of shard s among the members that time out.
Hit(s, off) == {m \in off : MemberShard[m] = s}

\* members_offline of the shards pallet: the online count left, and the shards it removes.
OnlineLeftByOne(s, off) ==
  IF Hit(s, off) = {} \/ ShardMembersOnline[s] = 0 THEN ShardMembersOnline[s]
  ELSE ShardMembersOnline[s] - 1
OnlineLeft(s, off) ==
  LET hits == Cardinality(Hit(s, off)) IN
  IF hits > ShardMembersOnline[s] THEN 0 ELSE ShardMembersOnline[s] - hits

FailingCreatedOnly(off) == {s \in ShardId :
  /\ Hit(s, off) # {}
  /\ \/ ShardState[s] = "Created"
     \/ ShardState[s] = "Online" /\ OnlineLeft(s, off) < Threshold}
FailingTooLate(off) == {s \in ShardId :
  /\ Hit(s, off) # {}
  /\ \/ ShardState[s] \in InDkg
     \/ ShardState[s] = "Online" /\ OnlineLeft(s, off) + 1 < Threshold}
Failing(off) == {s \in ShardId :
  /\ Hit(s, off) # {}
  /\ \/ ShardState[s] \in InDkg
     \/ ShardState[s] = "Online" /\ OnlineLeft(s, off) < Threshold}

\* The members that may time out: only those with a network are looked at.
Due(off) ==
  /\ off \subseteq TimedOut \cap MemberNetwork
  /\ Cardinality(off) <= MaxTimeoutsPerBlock
  /\ \/ off = TimedOut \cap MemberNetwork
     \/ Cardinality(off) = MaxTimeoutsPerBlock

\* Who is checked in the next period, and who keeps waiting for an election.
NextTimedOutForgetsRest(off) == Heartbeat
NextTimedOut(off) == (TimedOut \ off) \cup Heartbeat

StillWaitingAll(off) == Unassigned
StillWaiting(off) == [n \in Network |-> Unassigned[n] \ off]

timeout_heartbeats(off) ==
  /\ Due(off)
  /\ MemberOnline' = MemberOnline \ off
  /\ Heartbeat' = {}
  /\ TimedOut' = NextTimedOut(off)
  /\ ShardMembersOnline' = [s \in ShardId |-> OnlineLeft(s, off)]
  /\ remove_shards_offline(Failing(off), MemberOnline \ off, StillWaiting(off))
  /\ UNCHANGED MemberRegistered

members_on_initialize ==
  /\ hook = "extrinsics"
  /\ hook' = "shards"
  /\ clock' = (clock + 1) % HeartbeatTimeout
  /\ IF clock' = 0
     THEN \E off \in SUBSET TimedOut : timeout_heartbeats(off)
     ELSE UNCHANGED <<memberVars, Unassigned, ShardState, ShardNetwork, ShardMembers,
                      MemberShard, ShardMembersOnline>>
  /\ UNCHANGED <<ShardIdCounter, ShardCommitment, DkgTimeout>>

\* timeout_dkgs: the entries of this block are drained.
DkgTimedOutCreatedOnly == {s \in ShardId : DkgTimeout[s] = 1 /\ ShardState[s] = "Created"}
DkgTimedOut == {s \in ShardId : DkgTimeout[s] = 1 /\ ShardState[s] \in InDkg}

BlocksLeftUnguarded(s) == DkgTimeout[s] - 1
BlocksLeft(s) == IF DkgTimeout[s] = 0 THEN 0 ELSE DkgTimeout[s] - 1

shards_on_initialize ==
  /\ hook = "shards"
  /\ hook' = "elections"
  /\ DkgTimeout' = [s \in ShardId |-> BlocksLeft(s)]
  /\ remove_shards_offline(DkgTimedOut, MemberOnline, Unassigned)
  /\ UNCHANGED <<clock, MemberRegistered, MemberOnline, Heartbeat, TimedOut,
                 ShardIdCounter, ShardMembersOnline, ShardCommitment>>

\* The ids of the next k shards.
NewIdsReused(k) == 0 .. k - 1
NewIds(k) == ShardIdCounter .. ShardIdCounter + k - 1

Teams == {t \in SUBSET Member : Cardinality(t) = ShardSize}

\* create_shard for each new id s, with the members of team[s].
create_shards(k, team) ==
  LET New == NewIds(k)
      elected == {m \in Member : \E s \in New : m \in team[s]}
  IN
  /\ ShardIdCounter' = ShardIdCounter + k
  /\ Unassigned' = [n \in Network |-> Unassigned[n] \ elected]
  /\ ShardState' = [s \in ShardId |-> IF s \in New THEN "Created" ELSE ShardState[s]]
  /\ ShardNetwork' = [s \in ShardId |->
       IF s \in New THEN NetworkOf[CHOOSE m \in team[s] : TRUE] ELSE ShardNetwork[s]]
  /\ ShardMembers' = [s \in ShardId |->
       IF s \in New THEN [m \in Member |-> IF m \in team[s] THEN "Added" ELSE "None"]
                    ELSE ShardMembers[s]]
  /\ MemberShard' = [m \in Member |->
       IF m \in elected THEN CHOOSE s \in New : m \in team[s] ELSE MemberShard[m]]
  /\ ShardMembersOnline' = [s \in ShardId |->
       IF s \in New THEN ShardSize ELSE ShardMembersOnline[s]]
  /\ DkgTimeout' = [s \in ShardId |-> IF s \in New THEN DkgTimeoutBlocks ELSE DkgTimeout[s]]

\* try_elect_shards: disjoint teams of unassigned members of one network each.
elections_on_initialize ==
  /\ hook = "elections"
  /\ hook' = "extrinsics"
  /\ \E k \in 0 .. MaxElectionsPerBlock :
       /\ ShardIdCounter + k <= MaxShards
       /\ \E team \in [NewIds(k) -> Teams] :
            /\ \A s \in NewIds(k) : \E n \in Network : team[s] \subseteq Unassigned[n]
            /\ \A s, o \in NewIds(k) : s # o => team[s] \cap team[o] = {}
            /\ create_shards(k, team)
  /\ UNCHANGED <<clock, memberVars, ShardCommitment>>

Next ==
  \/ \E m \in Member : register_member(m) \/ unregister_member(m) \/ send_heartbeat(m)
  \/ \E m \in Member, s \in ShardId : commit(m, s) \/ ready(m, s)
  \/ \E s \in ShardId : force_shard_offline(s)
  \/ members_on_initialize
  \/ shards_on_initialize
  \/ elections_on_initialize

Spec == Init /\ [][Next]_vars
-----------------------------------------------------------------------------
(* Invariants.  A shard is live from create_shard until it is taken offline. *)

Live == {"Created", "Committed", "Online"}

\* The heartbeat bookkeeping is exact: a member is online exactly when its last
\* heartbeat is waiting in Heartbeat or in TimedOut, and never in both.  A member
\* in neither would stay online for ever, one in both could be timed out in the
\* period in which it sent a heartbeat.
HeartbeatsAccountForOnline ==
  /\ MemberOnline = Heartbeat \cup TimedOut
  /\ Heartbeat \cap TimedOut = {}

\* try_elect_shards does not look at MemberOnline or MemberShard: everyone in
\* Unassigned must be online, of that network and in no shard.
UnassignedElectable ==
  \A n \in Network : \A m \in Unassigned[n] :
    NetworkOf[m] = n /\ m \in MemberOnline /\ MemberShard[m] = NoShard

\* MemberShard and ShardMembers are one relation stored twice: an account is
\* listed under the one shard its MemberShard names, and under no other.
ShardMembershipAgrees ==
  \A s \in ShardId, m \in Member : ShardMembers[s][m] # "None" <=> MemberShard[m] = s

\* A shard has a network and a full team of members of that network while it is
\* live, and neither before nor after; the ids not handed out yet hold nothing.
LiveShardsHaveNetwork ==
  \A s \in ShardId :
    /\ ShardNetwork[s] # NoNetwork <=> ShardState[s] \in Live
    /\ MembersOf(s) # {} <=> ShardState[s] \in Live
    /\ ShardState[s] \in Live => Cardinality(MembersOf(s)) = ShardSize
    /\ \A m \in MembersOf(s) : NetworkOf[m] = ShardNetwork[s]
    /\ s >= ShardIdCounter => s \notin ShardCommitment /\ ShardState[s] \notin Live

\* While a shard runs its DKG no member of it is offline: the first timeout
\* removes the shard, so member_online never finds a Created or Committed
\* shard and never marks one Offline without releasing its members.
DkgMembersOnline ==
  \A s \in ShardId : ShardState[s] \in InDkg => MembersOf(s) \subseteq MemberOnline

\* The stored count of online members of a live shard is the number of its
\* members that are online, however heartbeats, timeouts and elections mix.
OnlineCountExact ==
  \A s \in ShardId : ShardState[s] \in Live =>
    ShardMembersOnline[s] = Cardinality(MembersOf(s) \cap MemberOnline)

\* An online shard always has enough online members to sign.
OnlineShardsCanSign ==
  \A s \in ShardId : ShardState[s] = "Online" =>
    Cardinality(MembersOf(s) \cap MemberOnline) >= Threshold

\* A shard that has not finished its DKG has a timeout pending.
DkgTimeoutPending ==
  \A s \in ShardId : ShardState[s] \in InDkg => DkgTimeout[s] > 0

\* The status of a shard and of its members agree: the group commitment exists
\* exactly once all have committed, and only members of such a shard are ready.
DkgStatusAgrees ==
  \A s \in ShardId :
    /\ ShardState[s] = "Created" =>
         /\ s \notin ShardCommitment
         /\ \A m \in MembersOf(s) : ShardMembers[s][m] \in {"Added", "Committed"}
         /\ \E m \in MembersOf(s) : ShardMembers[s][m] = "Added"
    /\ ShardState[s] = "Committed" =>
         /\ s \in ShardCommitment
         /\ \A m \in MembersOf(s) : ShardMembers[s][m] \in {"Committed", "Ready"}
         /\ \E m \in MembersOf(s) : ShardMembers[s][m] = "Committed"
    /\ ShardState[s] = "Online" =>
         /\ s \in ShardCommitment
         /\ \A m \in MembersOf(s) : ShardMembers[s][m] = "Ready"

\* All of the above: the invariant that is inductive.
Inv ==
  /\ TypeOK
  /\ HeartbeatsAccountForOnline
  /\ UnassignedElectable
  /\ ShardMembershipAgrees
  /\ LiveShardsHaveNetwork
  /\ DkgMembersOnline
  /\ OnlineCountExact
  /\ OnlineShardsCanSign
  /\ DkgTimeoutPending
  /\ DkgStatusAgrees

\* A shard id that was handed out and went offline stays offline, so no task,
\* commitment or key share of an old shard is ever taken for a new one's.
OfflineIsFinal ==
  [][\A s \in ShardId :
       s < ShardIdCounter /\ ShardState[s] = "Offline" => ShardState'[s] = "Offline"]_vars

\* A member is put in a shard only out of no shard, and only while it is online.
ElectedFromUnassigned ==
  [][\A m \in Member : MemberShard'[m] # MemberShard[m] /\ MemberShard'[m] # NoShard =>
       MemberShard[m] = NoShard /\ m \in MemberOnline]_vars

\* What the other pallets see of a shard: force_shard_offline also writes to ids that
\* no shard has yet.
SeenStatus == [s \in ShardId |-> IF s < ShardIdCounter THEN ShardState[s] ELSE "None"]

Lifecycle == INSTANCE ShardLifecycle WITH Shard <- ShardId, status <- SeenStatus

\* Every shard goes through its states in order, never skips one and never comes back
\* from Offline: the calls shard_online and shard_offline that the tasks pallet gets.
ShardsFollowLifecycle == Lifecycle!Spec
=============================================================================
