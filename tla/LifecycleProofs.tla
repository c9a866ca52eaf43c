--------------------------- MODULE LifecycleProofs ---------------------------
(***************************************************************************)
(* Membership implements ShardLifecycle: whatever heartbeats, timeouts,    *)
(* elections and admin calls do, every shard follows its life cycle.       *)
(***************************************************************************)
EXTENDS MembershipProofs

\* The shard ids handed out by create_shard have a state.
Issued == \A s \in ShardId : s < ShardIdCounter => ShardState[s] # "None"

LInv == Inv /\ Issued

\* One shard, as other pallets see it, stays or moves along an edge of its life cycle.
Follows(i) == SeenStatus'[i] = SeenStatus[i] \/ <<SeenStatus[i], SeenStatus'[i]>> \in Lifecycle!Edge

\* What a step may do to the state of a shard that exists.
Moves(i) ==
  \/ ShardState'[i] = ShardState[i]
  \/ ShardState[i] \in Live /\ ShardState'[i] = "Offline"
  \/ ShardState[i] = "Offline" /\ ShardState'[i] = "Offline"
  \/ ShardState[i] = "Created" /\ ShardState'[i] = "Committed"
  \/ ShardState[i] = "Committed" /\ ShardState'[i] = "Online"

\* The types the steps below need.
LEMMA StateType ==
  ASSUME Inv, NEW i \in ShardId
  PROVE  /\ ShardState[i] \in {"None", "Created", "Committed", "Online", "Offline"}
         /\ ShardIdCounter \in Int /\ i \in Int
BY BoundAssumption DEF Inv, TypeOK, ShardId

\* A step that hands out no id and makes only such moves follows the life cycle.
LEMMA MovesFollow ==
  ASSUME LInv, NEW i \in ShardId, ShardIdCounter' = ShardIdCounter,
         i < ShardIdCounter => Moves(i)
  PROVE  Follows(i) /\ (i < ShardIdCounter' => ShardState'[i] # "None")
<1>1. /\ SeenStatus[i] = (IF i < ShardIdCounter THEN ShardState[i] ELSE "None")
      /\ SeenStatus'[i] = (IF i < ShardIdCounter THEN ShardState'[i] ELSE "None")
  BY DEF SeenStatus
<1>2. CASE i < ShardIdCounter
  BY <1>1, <1>2, StateType DEF Follows, Moves, Live, LInv, Issued, Lifecycle!Edge
<1>3. CASE ~(i < ShardIdCounter)
  BY <1>1, <1>3 DEF Follows
<1> QED BY <1>2, <1>3

\* remove_shards_offline only takes shards offline.
LEMMA RemoveMoves ==
  ASSUME LInv, NEW i \in ShardId, NEW R, NEW online, NEW waiting,
         remove_shards_offline(R, online, waiting), i < ShardIdCounter
  PROVE  Moves(i)
BY StateType DEF remove_shards_offline, Moves, Live, LInv, Issued

\* commit makes a Created shard Committed, ready a Committed shard Online.
LEMMA DkgMoves ==
  ASSUME LInv, NEW i \in ShardId, NEW m \in Member, NEW s \in ShardId,
         commit(m, s) \/ ready(m, s)
  PROVE  Moves(i)
<1>1. ShardState \in [ShardId -> {"None", "Created", "Committed", "Online", "Offline"}]
  BY DEF LInv, Inv, TypeOK
<1>2. MembersOf(s) # {} => ShardState[s] \in Live
  BY DEF LInv, Inv, LiveShardsHaveNetwork
<1>3. ShardMembers[s][m] # "None" => m \in MembersOf(s)
  BY DEF MembersOf
<1>4. CASE commit(m, s)
  <2>1. ShardState[s] = "Created"
    BY <1>2, <1>3, <1>4 DEF commit, LInv, Inv, DkgStatusAgrees, Live, MembersOf
  <2> QED BY <1>1, <1>4, <2>1 DEF commit, Moves
<1>5. CASE ready(m, s)
  <2>1. ShardState[s] = "Committed"
    BY <1>2, <1>3, <1>5 DEF ready, LInv, Inv, DkgStatusAgrees, Live, MembersOf
  <2> QED BY <1>1, <1>5, <2>1 DEF ready, Moves
<1> QED BY <1>4, <1>5

\* An election hands out the next ids, to shards that are then Created.
LEMMA ElectionFollows ==
  ASSUME LInv, elections_on_initialize, NEW i \in ShardId
  PROVE  Follows(i) /\ (i < ShardIdCounter' => ShardState'[i] # "None")
<1>1. PICK k, team : k \in 0 .. MaxElectionsPerBlock /\ create_shards(k, team)
  BY DEF elections_on_initialize
<1>2. ShardIdCounter \in Nat /\ i \in Nat /\ k \in Nat
  BY <1>1, BoundAssumption DEF LInv, Inv, TypeOK, ShardId
<1>3. /\ ShardIdCounter' = ShardIdCounter + k
      /\ ShardState'[i] = IF i \in NewIds(k) THEN "Created" ELSE ShardState[i]
  BY <1>1 DEF create_shards
<1>4. i \in NewIds(k) <=> ~(i < ShardIdCounter) /\ i < ShardIdCounter + k
  BY <1>2 DEF NewIds
<1>5. /\ SeenStatus[i] = (IF i < ShardIdCounter THEN ShardState[i] ELSE "None")
      /\ SeenStatus'[i] = (IF i < ShardIdCounter' THEN ShardState'[i] ELSE "None")
  BY DEF SeenStatus
<1>6. CASE i < ShardIdCounter
  BY <1>2, <1>3, <1>4, <1>5, <1>6 DEF Follows, LInv, Issued
<1>7. CASE i \in NewIds(k)
  BY <1>2, <1>3, <1>4, <1>5, <1>7 DEF Follows, Lifecycle!Edge
<1>8. CASE ~(i < ShardIdCounter) /\ i \notin NewIds(k)
  BY <1>2, <1>3, <1>4, <1>5, <1>8 DEF Follows
<1> QED BY <1>6, <1>7, <1>8

\* Every handler moves every shard along its life cycle.
LEMMA StepFollows ==
  ASSUME LInv, [Next]_vars, NEW i \in ShardId
  PROVE  Follows(i) /\ (i < ShardIdCounter' => ShardState'[i] # "None")
<1> DEFINE Goal == Follows(i) /\ (i < ShardIdCounter' => ShardState'[i] # "None")
<1>1. ASSUME NEW m \in Member, register_member(m) \/ unregister_member(m) PROVE Goal
  <2>1. ShardIdCounter' = ShardIdCounter /\ Moves(i)
    BY <1>1 DEF register_member, unregister_member, shardVars, Moves
  <2> QED BY <2>1, MovesFollow
<1>2. ASSUME NEW m \in Member, send_heartbeat(m) PROVE Goal
  <2>1. ShardIdCounter' = ShardIdCounter
    BY <1>2 DEF send_heartbeat
  <2>2. CASE m \in MemberOnline
    BY <1>2, <2>1, <2>2, MovesFollow DEF send_heartbeat, Moves
  <2>3. CASE m \notin MemberOnline
    BY <1>2, <2>1, <2>3, MovesFollow DEF send_heartbeat, ComesOnline, Moves, InDkg, Live
  <2> QED BY <2>2, <2>3
<1>3. ASSUME NEW m \in Member, NEW s \in ShardId, commit(m, s) \/ ready(m, s) PROVE Goal
  <2>1. ShardIdCounter' = ShardIdCounter
    BY <1>3 DEF commit, ready
  <2> QED BY <1>3, <2>1, DkgMoves, MovesFollow
<1>4. ASSUME NEW s \in ShardId, force_shard_offline(s) PROVE Goal
  <2>1. ShardIdCounter' = ShardIdCounter
    BY <1>4 DEF force_shard_offline
  <2> QED BY <1>4, <2>1, RemoveMoves, MovesFollow DEF force_shard_offline
<1>5. CASE members_on_initialize
  <2>1. ShardIdCounter' = ShardIdCounter
    BY <1>5 DEF members_on_initialize
  <2>2. CASE clock' = 0
    BY <1>5, <2>1, <2>2, RemoveMoves, MovesFollow DEF members_on_initialize, timeout_heartbeats
  <2>3. CASE clock' # 0
    BY <1>5, <2>1, <2>3, MovesFollow DEF members_on_initialize, Moves
  <2> QED BY <2>2, <2>3
<1>6. CASE shards_on_initialize
  <2>1. ShardIdCounter' = ShardIdCounter
    BY <1>6 DEF shards_on_initialize
  <2> QED BY <1>6, <2>1, RemoveMoves, MovesFollow DEF shards_on_initialize
<1>7. CASE elections_on_initialize
  BY <1>7, ElectionFollows
<1>8. CASE UNCHANGED vars
  <2>1. ShardIdCounter' = ShardIdCounter /\ Moves(i)
    BY <1>8 DEF vars, shardVars, Moves
  <2> QED BY <2>1, MovesFollow
<1> QED BY <1>1, <1>2, <1>3, <1>4, <1>5, <1>6, <1>7, <1>8 DEF Next

\* Membership implements ShardLifecycle, for any members, networks and limits: the
\* tasks pallet sees every shard come online at most once, after its DKG, and go
\* offline at most once.
THEOREM ShardsHaveLifecycle == Spec => ShardsFollowLifecycle
<1>1. Init => LInv /\ Lifecycle!Init
  <2>1. Init => Inv BY InvInit
  <2>2. Init => Issued BY BoundAssumption DEF Init, Issued, ShardId
  <2>3. Init => Lifecycle!Init BY BoundAssumption DEF Init, Lifecycle!Init, SeenStatus, ShardId
  <2> QED BY <2>1, <2>2, <2>3 DEF LInv
<1>2. LInv /\ [Next]_vars => LInv' /\ [Lifecycle!Next]_SeenStatus
  <2> SUFFICES ASSUME LInv, [Next]_vars PROVE LInv' /\ Lifecycle!Next
    OBVIOUS
  <2>1. Inv' BY InvStep DEF LInv
  <2>2. Issued' BY StepFollows DEF Issued
  <2>3. SeenStatus' \in [ShardId -> Lifecycle!Status]
    BY <2>1 DEF Inv, TypeOK, SeenStatus, Lifecycle!Status
  <2>4. \A i \in ShardId : Follows(i) BY StepFollows
  <2> QED BY <2>1, <2>2, <2>3, <2>4 DEF LInv, Follows, Lifecycle!Next
<1> QED BY <1>1, <1>2, PTL DEF Spec, ShardsFollowLifecycle, Lifecycle!Spec
=============================================================================
