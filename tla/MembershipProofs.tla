--------------------------- MODULE MembershipProofs ---------------------------
(* Proofs that Membership keeps its invariants for every value of the constants. *)
EXTENDS Membership, FiniteSetTheorems, TLAPS

\* Time for the leaves, on a slow machine too.
USE ZenonT(5), SMTT(20)

\* The initial storage has its types.
LEMMA TypeInit == Init => TypeOK
BY BoundAssumption DEF Init, TypeOK, ShardId, NoShard

\* What remove_shards_offline writes has the type of the variables it writes.
LEMMA RemoveType ==
  ASSUME TypeOK, NEW R \in SUBSET ShardId, NEW online \in SUBSET Member,
         NEW waiting \in [Network -> SUBSET Member],
         remove_shards_offline(R, online, waiting)
  PROVE  /\ ShardState' \in [ShardId -> {"None", "Created", "Committed", "Online", "Offline"}]
         /\ ShardNetwork' \in [ShardId -> Network \cup {NoNetwork}]
         /\ ShardMembers' \in [ShardId -> [Member -> {"None", "Added", "Committed", "Ready"}]]
         /\ MemberShard' \in [Member -> ShardId \cup {NoShard}]
         /\ MemberNetwork' \in SUBSET Member
         /\ Unassigned' \in [Network -> SUBSET Member]
<1>1. ASSUME NEW n PROVE Rejoining(R, online, n) \in SUBSET Member BY DEF Rejoining, TypeOK
<1> QED BY <1>1 DEF TypeOK, remove_shards_offline, Drained

\* The members of a shard that time out in one check can be counted.
LEMMA HitFinite ==
  ASSUME NEW off \in SUBSET Member, NEW s
  PROVE  IsFiniteSet(Hit(s, off)) /\ Cardinality(Hit(s, off)) \in Nat
<1>1. Hit(s, off) \subseteq Member BY DEF Hit
<1> QED BY <1>1, MemberAssumption, FS_Subset, FS_CardinalityType

\* members_offline leaves a number of online members.
LEMMA OnlineLeftNat ==
  ASSUME TypeOK, NEW off \in SUBSET Member, NEW s \in ShardId
  PROVE  OnlineLeft(s, off) \in Nat
BY HitFinite DEF OnlineLeft, TypeOK

\* A DKG timeout stays within its bound as blocks pass.
LEMMA BlocksLeftType ==
  ASSUME TypeOK, NEW s \in ShardId
  PROVE  BlocksLeft(s) \in 0 .. DkgTimeoutBlocks
<1>1. DkgTimeout[s] \in 0 .. DkgTimeoutBlocks BY DEF TypeOK
<1> QED BY <1>1, BoundAssumption DEF BlocksLeft

\* A team is never empty, and so has a first member.
LEMMA TeamNonEmpty ==
  ASSUME NEW t \in Teams
  PROVE  t \subseteq Member /\ t # {} /\ IsFiniteSet(t) /\ Cardinality(t) = ShardSize
         /\ (CHOOSE m \in t : TRUE) \in t
<1>1. t \subseteq Member /\ Cardinality(t) = ShardSize BY DEF Teams
<1>2. IsFiniteSet(t) BY <1>1, MemberAssumption, FS_Subset
<1>3. t # {} BY <1>1, FS_EmptySet, ShardConfigAssumption
<1> QED BY <1>1, <1>2, <1>3

\* The ids an election hands out are new shard ids.
LEMMA NewIdsType ==
  ASSUME TypeOK, NEW k \in 0 .. MaxElectionsPerBlock, ShardIdCounter + k <= MaxShards
  PROVE  /\ NewIds(k) \subseteq ShardId
         /\ \A s \in NewIds(k) : s >= ShardIdCounter /\ s < ShardIdCounter + k
         /\ ShardIdCounter + k \in 0 .. MaxShards
BY BoundAssumption DEF NewIds, ShardId, TypeOK

\* Every step of the three pallets keeps the types.
LEMMA TypeStep == TypeOK /\ [Next]_vars => TypeOK'
<1> SUFFICES ASSUME TypeOK, [Next]_vars PROVE TypeOK'
  OBVIOUS
<1> USE BoundAssumption
<1>1. ASSUME NEW m \in Member, register_member(m) PROVE TypeOK'
  BY <1>1 DEF register_member, TypeOK, shardVars
<1>2. ASSUME NEW m \in Member, unregister_member(m) PROVE TypeOK'
  BY <1>2 DEF unregister_member, TypeOK, shardVars
<1>3. ASSUME NEW m \in Member, send_heartbeat(m) PROVE TypeOK'
  <2>1. CASE m \in MemberOnline
    BY <1>3, <2>1 DEF send_heartbeat, TypeOK
  <2>2. CASE m \notin MemberOnline
    BY <1>3, <2>2, NetworkAssumption DEF send_heartbeat, ComesOnline, TypeOK
  <2> QED BY <2>1, <2>2
<1>4. ASSUME NEW m \in Member, NEW s \in ShardId, commit(m, s) PROVE TypeOK'
  BY <1>4 DEF commit, TypeOK, memberVars
<1>5. ASSUME NEW m \in Member, NEW s \in ShardId, ready(m, s) PROVE TypeOK'
  BY <1>5 DEF ready, TypeOK, memberVars
<1>6. ASSUME NEW s \in ShardId, force_shard_offline(s) PROVE TypeOK'
  <2>1. MemberOnline \in SUBSET Member /\ Unassigned \in [Network -> SUBSET Member] BY DEF TypeOK
  <2>2. remove_shards_offline({s}, MemberOnline, Unassigned) BY <1>6 DEF force_shard_offline
  <2> QED BY <1>6, <2>1, <2>2, RemoveType DEF force_shard_offline, TypeOK
<1>7. CASE members_on_initialize
  <2>1. hook' \in {"extrinsics", "shards", "elections"} /\ clock' \in 0 .. HeartbeatTimeout - 1
    BY <1>7 DEF members_on_initialize, TypeOK
  <2>2. ASSUME NEW off \in SUBSET TimedOut, timeout_heartbeats(off) PROVE TypeOK'
    <3>1. off \in SUBSET Member /\ MemberOnline \ off \in SUBSET Member BY DEF TypeOK
    <3>2. StillWaiting(off) \in [Network -> SUBSET Member] BY DEF StillWaiting, TypeOK
    <3>3. Failing(off) \in SUBSET ShardId BY DEF Failing
    <3>4. remove_shards_offline(Failing(off), MemberOnline \ off, StillWaiting(off))
      BY <2>2 DEF timeout_heartbeats
    <3>5. ShardMembersOnline' \in [ShardId -> Nat]
      BY <2>2, <3>1, OnlineLeftNat DEF timeout_heartbeats
    <3>6. MemberOnline' \in SUBSET Member /\ Heartbeat' \in SUBSET Member
          /\ TimedOut' \in SUBSET Member /\ MemberRegistered' \in SUBSET Member
      BY <2>2 DEF timeout_heartbeats, NextTimedOut, TypeOK
    <3>7. ShardIdCounter' = ShardIdCounter /\ ShardCommitment' = ShardCommitment
          /\ DkgTimeout' = DkgTimeout
      BY <1>7 DEF members_on_initialize
    <3> QED BY <2>1, <3>1, <3>2, <3>3, <3>4, <3>5, <3>6, <3>7, RemoveType DEF TypeOK
  <2>3. CASE clock' # 0
    BY <1>7, <2>1, <2>3 DEF members_on_initialize, memberVars, TypeOK
  <2> QED BY <1>7, <2>2, <2>3 DEF members_on_initialize
<1>8. CASE shards_on_initialize
  <2>1. MemberOnline \in SUBSET Member /\ Unassigned \in [Network -> SUBSET Member] BY DEF TypeOK
  <2>2. DkgTimedOut \in SUBSET ShardId BY DEF DkgTimedOut
  <2>3. remove_shards_offline(DkgTimedOut, MemberOnline, Unassigned) BY <1>8 DEF shards_on_initialize
  <2>4. DkgTimeout' \in [ShardId -> 0 .. DkgTimeoutBlocks]
    BY <1>8, BlocksLeftType DEF shards_on_initialize
  <2> QED BY <1>8, <2>1, <2>2, <2>3, <2>4, RemoveType DEF shards_on_initialize, TypeOK
<1>9. CASE elections_on_initialize
  <2>1. PICK k \in 0 .. MaxElectionsPerBlock :
          /\ ShardIdCounter + k <= MaxShards
          /\ \E team \in [NewIds(k) -> Teams] : create_shards(k, team)
    BY <1>9 DEF elections_on_initialize
  <2>2. PICK team \in [NewIds(k) -> Teams] : create_shards(k, team) BY <2>1
  <2>3. NewIds(k) \subseteq ShardId /\ ShardIdCounter + k \in 0 .. MaxShards BY <2>1, NewIdsType
  <2>4. \A s \in NewIds(k) : NetworkOf[CHOOSE m \in team[s] : TRUE] \in Network
    BY <2>2, TeamNonEmpty, NetworkAssumption
  <2>5. ShardNetwork' \in [ShardId -> Network \cup {NoNetwork}]
    BY <2>2, <2>4 DEF create_shards, TypeOK
  <2>6. MemberShard' \in [Member -> ShardId \cup {NoShard}]
    BY <2>2, <2>3 DEF create_shards, TypeOK
  <2>7. ShardMembers' \in [ShardId -> [Member -> {"None", "Added", "Committed", "Ready"}]]
    BY <2>2 DEF create_shards, TypeOK
  <2>8. /\ ShardState' \in [ShardId -> {"None", "Created", "Committed", "Online", "Offline"}]
        /\ ShardMembersOnline' \in [ShardId -> Nat]
        /\ DkgTimeout' \in [ShardId -> 0 .. DkgTimeoutBlocks]
        /\ Unassigned' \in [Network -> SUBSET Member]
        /\ ShardIdCounter' \in 0 .. MaxShards
    BY <2>2, <2>3, ShardConfigAssumption DEF create_shards, TypeOK
  <2> QED BY <1>9, <2>5, <2>6, <2>7, <2>8 DEF elections_on_initialize, memberVars, TypeOK
<1>10. CASE UNCHANGED vars
  BY <1>10 DEF vars, memberVars, shardVars, TypeOK
<1> QED BY <1>1, <1>2, <1>3, <1>4, <1>5, <1>6, <1>7, <1>8, <1>9, <1>10 DEF Next

\* Every handler of the members, shards and elections pallets keeps the types of
\* the storage items.
THEOREM TypeCorrect == Spec => []TypeOK
BY TypeInit, TypeStep, PTL DEF Spec

-----------------------------------------------------------------------------
(* The invariant.  Each conjunct is needed by another: the online count needs
   both membership relations to agree, the removal of failing shards needs the
   count, and elections need Unassigned to hold unsharded members only. *)

\* The empty storage satisfies the invariant.
LEMMA InvInit == Init => Inv
<1> SUFFICES ASSUME Init PROVE Inv
  OBVIOUS
<1>1. TypeOK BY TypeInit
<1>2. \A s \in ShardId : MembersOf(s) = {} BY DEF Init, MembersOf
<1>3. \A s \in ShardId : ShardState[s] = "None" /\ s # NoShard /\ s \notin ShardCommitment
  BY BoundAssumption DEF Init, ShardId, NoShard
<1> QED BY <1>1, <1>2, <1>3
     DEF Init, Inv, HeartbeatsAccountForOnline, UnassignedElectable, ShardMembershipAgrees,
         LiveShardsHaveNetwork, DkgMembersOnline, OnlineCountExact, OnlineShardsCanSign,
         DkgTimeoutPending, DkgStatusAgrees, Live, InDkg, ShardId

\* A set of members is finite and has a number of elements.
LEMMA MembersFinite ==
  ASSUME NEW T, T \subseteq Member
  PROVE  IsFiniteSet(T) /\ Cardinality(T) \in Nat
BY MemberAssumption, FS_Subset, FS_CardinalityType

\* The effect of taking the shards of R offline on one shard.
LEMMA RemoveEffect ==
  ASSUME Inv, NEW R \in SUBSET ShardId, NEW online, NEW waiting,
         remove_shards_offline(R, online, waiting),
         NEW s \in ShardId
  PROVE  /\ s \in R => /\ ShardState'[s] = "Offline"
                       /\ ShardNetwork'[s] = NoNetwork
                       /\ MembersOf(s)' = {}
         /\ s \notin R => /\ ShardState'[s] = ShardState[s]
                          /\ ShardNetwork'[s] = ShardNetwork[s]
                          /\ ShardMembers'[s] = ShardMembers[s]
                          /\ MembersOf(s)' = MembersOf(s)
<1>1. CASE s \notin R
  BY <1>1 DEF remove_shards_offline, Drained, MembersOf
<1>2. CASE s \in R /\ ShardNetwork[s] # NoNetwork
  BY <1>2 DEF remove_shards_offline, Drained, MembersOf
<1>3. CASE s \in R /\ ShardNetwork[s] = NoNetwork
  <2>1. MembersOf(s) = {} BY <1>3 DEF Inv, LiveShardsHaveNetwork
  <2>2. ShardMembers'[s] = ShardMembers[s] BY <1>3 DEF remove_shards_offline, Drained
  <2>3. MembersOf(s)' = MembersOf(s) BY <2>2 DEF MembersOf
  <2> QED BY <1>3, <2>1, <2>3 DEF remove_shards_offline
<1> QED BY <1>1, <1>2, <1>3

\* The shards of R go offline in a step after which `online` are online, while the
\* members in `waiting` are free for election.
Removal(R, online, waiting) ==
  /\ R \in SUBSET ShardId
  /\ online \in SUBSET Member
  /\ waiting \in [Network -> SUBSET Member]
  /\ \A n \in Network : \A m \in waiting[n] :
       NetworkOf[m] = n /\ m \in online /\ MemberShard[m] = NoShard
  /\ remove_shards_offline(R, online, waiting)
  /\ MemberOnline' = online
  /\ UNCHANGED <<ShardIdCounter, ShardCommitment>>

\* Taking shards offline keeps both membership relations equal and the members
\* of live shards in place, whoever else is taken off Unassigned by it.
LEMMA RemoveRelations ==
  ASSUME Inv, NEW R, NEW online, NEW waiting, Removal(R, online, waiting)
  PROVE  /\ ShardMembershipAgrees'
         /\ LiveShardsHaveNetwork'
         /\ UnassignedElectable'
<1> USE DEF Removal
<1>1. \A s \in ShardId, m \in Member : ShardMembers[s][m] # "None" <=> MemberShard[m] = s
  BY DEF Inv, ShardMembershipAgrees
<1>2. \A s \in ShardId : ShardNetwork[s] # NoNetwork <=> MembersOf(s) # {}
  BY DEF Inv, LiveShardsHaveNetwork
<1>3. \A m \in Member : m \in Released(R) <=> MemberShard[m] \in R
  <2> SUFFICES ASSUME NEW m \in Member PROVE m \in Released(R) <=> MemberShard[m] \in R
    OBVIOUS
  <2>1. ASSUME NEW s \in R PROVE m \in MembersOf(s) <=> MemberShard[m] = s
    BY <1>1 DEF MembersOf
  <2> QED BY <1>2, <2>1 DEF Released
<1>4. NoShard \notin ShardId BY BoundAssumption DEF ShardId, NoShard
<1>5. \A m \in Member : MemberShard'[m] = IF MemberShard[m] \in R THEN NoShard ELSE MemberShard[m]
  BY <1>3 DEF remove_shards_offline
<1>6. ASSUME NEW s \in ShardId, NEW m \in Member
      PROVE  ShardMembers'[s][m] # "None" <=> MemberShard'[m] = s
  <2>1. CASE s \in R
    <3>1. ShardMembers'[s][m] = "None" BY <2>1, RemoveEffect DEF MembersOf
    <3> QED BY <2>1, <3>1, <1>4, <1>5
  <2>2. CASE s \notin R
    <3>1. ShardMembers'[s][m] = ShardMembers[s][m] BY <2>2, RemoveEffect
    <3> QED BY <2>2, <3>1, <1>1, <1>4, <1>5
  <2> QED BY <2>1, <2>2
<1>7. ShardMembershipAgrees' BY <1>6 DEF ShardMembershipAgrees
<1>8. ASSUME NEW s \in ShardId
      PROVE  /\ ShardNetwork'[s] # NoNetwork <=> ShardState'[s] \in Live
             /\ MembersOf(s)' # {} <=> ShardState'[s] \in Live
             /\ ShardState'[s] \in Live => Cardinality(MembersOf(s)') = ShardSize
             /\ \A m \in MembersOf(s)' : NetworkOf[m] = ShardNetwork'[s]
             /\ s >= ShardIdCounter' => s \notin ShardCommitment' /\ ShardState'[s] \notin Live
  <2>1. CASE s \in R
    BY <2>1, RemoveEffect DEF Inv, LiveShardsHaveNetwork, Live
  <2>2. CASE s \notin R
    BY <2>2, RemoveEffect DEF Inv, LiveShardsHaveNetwork
  <2> QED BY <2>1, <2>2
<1>9. LiveShardsHaveNetwork' BY <1>8 DEF LiveShardsHaveNetwork
<1>10. ASSUME NEW n \in Network, NEW m \in Unassigned'[n]
       PROVE  NetworkOf[m] = n /\ m \in MemberOnline' /\ MemberShard'[m] = NoShard
  <2>1. m \in waiting[n] \/ m \in Rejoining(R, online, n)
    BY DEF remove_shards_offline
  <2>2. CASE m \in waiting[n]
    BY <2>2, <1>5, <1>4
  <2>3. CASE m \in Rejoining(R, online, n)
    <3>1. PICK s \in R : ShardNetwork[s] = n /\ m \in MembersOf(s) BY <2>3 DEF Rejoining
    <3>2. m \in Member /\ m \in online BY <2>3 DEF Rejoining
    <3>3. MemberShard[m] = s BY <3>1, <3>2, <1>1 DEF MembersOf
    <3>4. NetworkOf[m] = n BY <3>1 DEF Inv, LiveShardsHaveNetwork
    <3> QED BY <3>2, <3>3, <3>4, <1>5
  <2> QED BY <2>1, <2>2, <2>3
<1> QED BY <1>7, <1>9, <1>10 DEF UnassignedElectable

\* A step that leaves all that Inv speaks of alone keeps it.
LEMMA InvFrame ==
  ASSUME Inv, TypeOK',
         UNCHANGED <<MemberOnline, Heartbeat, TimedOut, Unassigned, ShardIdCounter, ShardState,
                     ShardNetwork, ShardMembers, MemberShard, ShardMembersOnline,
                     ShardCommitment, DkgTimeout>>
  PROVE  Inv'
<1>1. \A s \in ShardId : MembersOf(s)' = MembersOf(s) BY DEF MembersOf
<1>2. HeartbeatsAccountForOnline' /\ UnassignedElectable' /\ ShardMembershipAgrees'
      /\ DkgTimeoutPending'
  BY DEF Inv, HeartbeatsAccountForOnline, UnassignedElectable, ShardMembershipAgrees,
              DkgTimeoutPending
<1>3. LiveShardsHaveNetwork' BY <1>1 DEF Inv, LiveShardsHaveNetwork
<1>4. DkgMembersOnline' BY <1>1 DEF Inv, DkgMembersOnline
<1>5. OnlineCountExact' /\ OnlineShardsCanSign'
  BY <1>1 DEF Inv, OnlineCountExact, OnlineShardsCanSign
<1>6. DkgStatusAgrees' BY <1>1 DEF Inv, DkgStatusAgrees
<1> QED BY <1>2, <1>3, <1>4, <1>5, <1>6 DEF Inv

\* Registering and unregistering a member touches nothing Inv speaks of.
LEMMA InvRegistration ==
  ASSUME Inv, TypeOK', NEW m \in Member, register_member(m) \/ unregister_member(m)
  PROVE  Inv'
BY InvFrame DEF register_member, unregister_member, shardVars

\* A heartbeat: a member that was offline is in no shard that runs its DKG, and
\* adds one to the count of the online shard it is in.
LEMMA InvHeartbeat ==
  ASSUME Inv, TypeOK', NEW m \in Member, send_heartbeat(m)
  PROVE  Inv'
<1>1. /\ MemberOnline' = MemberOnline \cup {m}
      /\ UNCHANGED <<ShardIdCounter, ShardNetwork, ShardMembers, MemberShard,
                     ShardCommitment, DkgTimeout>>
  BY DEF send_heartbeat
<1>2. \A s \in ShardId : MembersOf(s)' = MembersOf(s) /\ MembersOf(s) \subseteq Member
  BY <1>1 DEF MembersOf
<1>3. \A s \in ShardId : m \in MembersOf(s) <=> MemberShard[m] = s
  BY DEF Inv, ShardMembershipAgrees, MembersOf
<1>4. ShardState' = ShardState
  <2>1. CASE m \in MemberOnline
    BY <2>1 DEF send_heartbeat
  <2>2. CASE m \notin MemberOnline
    <3>1. \A s \in ShardId : MemberShard[m] = s => ShardState[s] \notin InDkg
      BY <2>2, <1>3 DEF Inv, DkgMembersOnline
    <3> QED BY <2>2, <3>1 DEF send_heartbeat, ComesOnline, Inv, TypeOK
  <2> QED BY <2>1, <2>2
<1>5. HeartbeatsAccountForOnline'
  BY DEF send_heartbeat, Inv, HeartbeatsAccountForOnline
<1>6. UnassignedElectable'
  <2>1. CASE m \in MemberOnline
    BY <1>1, <2>1 DEF send_heartbeat, Inv, UnassignedElectable
  <2>2. CASE m \notin MemberOnline
    BY <1>1, <2>2 DEF send_heartbeat, ComesOnline, Inv, TypeOK, UnassignedElectable
  <2> QED BY <2>1, <2>2
<1>7. ShardMembershipAgrees' BY <1>1 DEF Inv, ShardMembershipAgrees
<1>8. LiveShardsHaveNetwork' BY <1>1, <1>2, <1>4 DEF Inv, LiveShardsHaveNetwork
<1>9. DkgMembersOnline' BY <1>1, <1>2, <1>4 DEF Inv, DkgMembersOnline
<1>10. ASSUME NEW s \in ShardId, ShardState'[s] \in Live
       PROVE  /\ ShardMembersOnline'[s] = Cardinality(MembersOf(s)' \cap MemberOnline')
              /\ ShardMembersOnline'[s] >= ShardMembersOnline[s]
  <2>1. ShardMembersOnline[s] = Cardinality(MembersOf(s) \cap MemberOnline)
    BY <1>4, <1>10 DEF Inv, OnlineCountExact
  <2>2. IsFiniteSet(MembersOf(s) \cap MemberOnline) /\ ShardMembersOnline[s] \in Nat
    BY <1>2, MembersFinite DEF Inv, TypeOK
  <2>3. CASE m \in MemberOnline
    BY <1>1, <1>2, <2>1, <2>2, <2>3 DEF send_heartbeat
  <2>4. CASE m \notin MemberOnline /\ MemberShard[m] # s
    <3>1. MembersOf(s) \cap MemberOnline' = MembersOf(s) \cap MemberOnline
      BY <1>1, <1>3, <2>4
    <3>2. ShardMembersOnline'[s] = ShardMembersOnline[s]
      BY <2>4 DEF send_heartbeat, ComesOnline
    <3> QED BY <1>2, <2>1, <2>2, <3>1, <3>2
  <2>5. CASE m \notin MemberOnline /\ MemberShard[m] = s
    <3>1. MembersOf(s) \cap MemberOnline' = (MembersOf(s) \cap MemberOnline) \cup {m}
      BY <1>1, <1>3, <2>5
    <3>2. ShardMembersOnline'[s] = ShardMembersOnline[s] + 1
      BY <2>5 DEF send_heartbeat, ComesOnline
    <3>3. Cardinality((MembersOf(s) \cap MemberOnline) \cup {m})
            = Cardinality(MembersOf(s) \cap MemberOnline) + 1
      BY <2>2, <2>5, FS_AddElement
    <3> QED BY <1>2, <2>1, <2>2, <3>1, <3>2, <3>3
  <2> QED BY <2>3, <2>4, <2>5
<1>11. OnlineCountExact' BY <1>10 DEF OnlineCountExact
<1>12. OnlineShardsCanSign'
  <2> SUFFICES ASSUME NEW s \in ShardId, ShardState'[s] = "Online"
               PROVE  Cardinality(MembersOf(s)' \cap MemberOnline') >= Threshold
    BY DEF OnlineShardsCanSign
  <2>1. ShardMembersOnline[s] >= Threshold
    BY <1>4 DEF Inv, OnlineCountExact, OnlineShardsCanSign, Live
  <2>2. ShardMembersOnline[s] \in Nat /\ ShardMembersOnline'[s] \in Nat
    BY DEF Inv, TypeOK
  <2> QED BY <1>10, <2>1, <2>2, ShardConfigAssumption DEF Live
<1>13. DkgTimeoutPending' BY <1>1, <1>4 DEF Inv, DkgTimeoutPending
<1>14. DkgStatusAgrees' BY <1>1, <1>2, <1>4 DEF Inv, DkgStatusAgrees
<1> QED BY <1>5, <1>6, <1>7, <1>8, <1>9, <1>11, <1>12, <1>13, <1>14 DEF Inv

\* force_shard_offline and timeout_dkgs: shards go offline, nobody's online status
\* changes, and the DKG timeouts of the shards that stay are still pending.
LEMMA InvRemove ==
  ASSUME Inv, TypeOK', NEW R \in SUBSET ShardId,
         remove_shards_offline(R, MemberOnline, Unassigned),
         UNCHANGED <<MemberOnline, Heartbeat, TimedOut, ShardIdCounter, ShardMembersOnline,
                     ShardCommitment>>,
         \A s \in ShardId : s \notin R /\ ShardState[s] \in InDkg => DkgTimeout'[s] > 0
  PROVE  Inv'
<1>1. ShardMembershipAgrees' /\ LiveShardsHaveNetwork' /\ UnassignedElectable'
  <2>1. MemberOnline \in SUBSET Member /\ Unassigned \in [Network -> SUBSET Member]
    BY DEF Inv, TypeOK
  <2>2. \A n \in Network : \A m \in Unassigned[n] :
          NetworkOf[m] = n /\ m \in MemberOnline /\ MemberShard[m] = NoShard
    BY DEF Inv, UnassignedElectable
  <2>3. Removal(R, MemberOnline, Unassigned) BY <2>1, <2>2 DEF Removal
  <2> QED BY <2>3, RemoveRelations
<1>2. \A s \in ShardId : ShardState'[s] # "Offline" =>
        /\ s \notin R
        /\ ShardState'[s] = ShardState[s]
        /\ ShardMembers'[s] = ShardMembers[s]
        /\ MembersOf(s)' = MembersOf(s)
  BY RemoveEffect
<1>3. HeartbeatsAccountForOnline' BY DEF Inv, HeartbeatsAccountForOnline
<1>4. DkgMembersOnline' BY <1>2 DEF Inv, DkgMembersOnline, InDkg
<1>5. OnlineCountExact' BY <1>2 DEF Inv, OnlineCountExact, Live
<1>6. OnlineShardsCanSign' BY <1>2 DEF Inv, OnlineShardsCanSign
<1>7. DkgTimeoutPending' BY <1>2 DEF DkgTimeoutPending, InDkg
<1>8. DkgStatusAgrees' BY <1>2 DEF Inv, DkgStatusAgrees
<1> QED BY <1>1, <1>3, <1>4, <1>5, <1>6, <1>7, <1>8 DEF Inv

\* commit: only a Created shard has members that may still commit, and the last of
\* them sets the group commitment.
LEMMA InvCommit ==
  ASSUME Inv, TypeOK', NEW m \in Member, NEW s \in ShardId, commit(m, s)
  PROVE  Inv'
<1>1. /\ ShardMembers[s][m] = "Added"
      /\ ShardMembers' = [ShardMembers EXCEPT ![s][m] = "Committed"]
      /\ UNCHANGED <<MemberOnline, Heartbeat, TimedOut, Unassigned, ShardIdCounter,
                     ShardNetwork, MemberShard, ShardMembersOnline, DkgTimeout>>
  BY DEF commit, memberVars
<1>2. /\ \A i \in ShardId : MembersOf(i)' = MembersOf(i)
      /\ m \in MembersOf(s)
  BY <1>1 DEF Inv, TypeOK, MembersOf
<1>3. ShardState[s] = "Created" /\ s \notin ShardCommitment
  <2>1. ShardState[s] \in Live BY <1>2 DEF Inv, LiveShardsHaveNetwork
  <2>2. ShardState[s] \notin {"Committed", "Online"} BY <1>1, <1>2 DEF Inv, DkgStatusAgrees
  <2> QED BY <2>1, <2>2 DEF Live, Inv, DkgStatusAgrees
<1>4. /\ \A i \in ShardId \ {s} : /\ ShardState'[i] = ShardState[i]
                                  /\ ShardMembers'[i] = ShardMembers[i]
                                  /\ i \in ShardCommitment' <=> i \in ShardCommitment
      /\ ShardState'[s] \in InDkg
      /\ ShardState'[s] = "Committed" <=> IsLast(m, s, "Committed")
      /\ s \in ShardCommitment' <=> IsLast(m, s, "Committed")
  <2>1. CASE IsLast(m, s, "Committed")
    BY <1>1, <2>1 DEF commit, Inv, TypeOK, InDkg
  <2>2. CASE ~IsLast(m, s, "Committed")
    BY <1>1, <1>3, <2>2 DEF commit, Inv, TypeOK, InDkg
  <2> QED BY <2>1, <2>2
<1>5. HeartbeatsAccountForOnline' BY <1>1 DEF Inv, HeartbeatsAccountForOnline
<1>6. UnassignedElectable' BY <1>1 DEF Inv, UnassignedElectable
<1>7. ShardMembershipAgrees' BY <1>1 DEF Inv, TypeOK, ShardMembershipAgrees
<1>8. LiveShardsHaveNetwork'
  <2> SUFFICES ASSUME NEW i \in ShardId
               PROVE  /\ ShardState'[i] \in Live <=> ShardState[i] \in Live
                      /\ i >= ShardIdCounter => i \notin ShardCommitment'
    BY <1>1, <1>2 DEF Inv, LiveShardsHaveNetwork
  <2>1. CASE i = s
    BY <1>3, <1>4, <2>1 DEF Inv, LiveShardsHaveNetwork, Live, InDkg
  <2>2. CASE i # s
    BY <1>4, <2>2 DEF Inv, LiveShardsHaveNetwork
  <2> QED BY <2>1, <2>2
<1>9. DkgMembersOnline' BY <1>1, <1>2, <1>3, <1>4 DEF Inv, DkgMembersOnline, InDkg
<1>10. OnlineCountExact' BY <1>1, <1>2, <1>3, <1>4 DEF Inv, OnlineCountExact, Live, InDkg
<1>11. OnlineShardsCanSign' BY <1>1, <1>2, <1>4 DEF Inv, OnlineShardsCanSign, InDkg
<1>12. DkgTimeoutPending' BY <1>1, <1>3, <1>4 DEF Inv, DkgTimeoutPending, InDkg
<1>13. DkgStatusAgrees'
  <2>1. \A i \in ShardId \ {s} : UNCHANGED <<ShardState[i], ShardMembers[i], MembersOf(i)>>
    BY <1>2, <1>4
  <2>2. \A o \in MembersOf(s) : ShardMembers[s][o] \in {"Added", "Committed"}
    BY <1>3 DEF Inv, DkgStatusAgrees
  <2>3. \A o \in MembersOf(s) : ShardMembers'[s][o] = IF o = m THEN "Committed" ELSE ShardMembers[s][o]
    BY <1>1 DEF Inv, TypeOK, MembersOf
  <2>4. CASE IsLast(m, s, "Committed")
    <3>1. \A o \in MembersOf(s) : ShardMembers'[s][o] = "Committed" BY <2>3, <2>4 DEF IsLast
    <3> QED BY <1>2, <1>4, <2>1, <2>4, <3>1 DEF Inv, DkgStatusAgrees
  <2>5. CASE ~IsLast(m, s, "Committed")
    <3>1. ShardState'[s] = "Created" /\ s \notin ShardCommitment' BY <1>4, <2>5 DEF InDkg
    <3>2. \E o \in MembersOf(s) : ShardMembers'[s][o] = "Added" BY <2>2, <2>3, <2>5 DEF IsLast
    <3> QED BY <1>2, <1>4, <2>1, <2>2, <2>3, <3>1, <3>2 DEF Inv, DkgStatusAgrees
  <2> QED BY <2>4, <2>5
<1> QED BY <1>5, <1>6, <1>7, <1>8, <1>9, <1>10, <1>11, <1>12, <1>13 DEF Inv

\* ready: only a Committed shard has members that may still become ready; all of its
\* members are online, so the shard that goes online with the last one can sign.
LEMMA InvReady ==
  ASSUME Inv, TypeOK', NEW m \in Member, NEW s \in ShardId, ready(m, s)
  PROVE  Inv'
<1>1. /\ ShardMembers[s][m] = "Committed" /\ s \in ShardCommitment
      /\ ShardMembers' = [ShardMembers EXCEPT ![s][m] = "Ready"]
      /\ UNCHANGED <<MemberOnline, Heartbeat, TimedOut, Unassigned, ShardIdCounter,
                     ShardNetwork, MemberShard, ShardMembersOnline, ShardCommitment, DkgTimeout>>
  BY DEF ready, memberVars
<1>2. /\ \A i \in ShardId : MembersOf(i)' = MembersOf(i)
      /\ m \in MembersOf(s)
  BY <1>1 DEF Inv, TypeOK, MembersOf
<1>3. ShardState[s] = "Committed"
  <2>1. ShardState[s] \in Live BY <1>2 DEF Inv, LiveShardsHaveNetwork
  <2>2. ShardState[s] \notin {"Created", "Online"} BY <1>1, <1>2 DEF Inv, DkgStatusAgrees
  <2> QED BY <2>1, <2>2 DEF Live
<1>4. /\ \A i \in ShardId \ {s} : ShardState'[i] = ShardState[i] /\ ShardMembers'[i] = ShardMembers[i]
      /\ ShardState'[s] = IF IsLast(m, s, "Ready") THEN "Online" ELSE "Committed"
  BY <1>1, <1>3 DEF ready, Inv, TypeOK
<1>5. HeartbeatsAccountForOnline' BY <1>1 DEF Inv, HeartbeatsAccountForOnline
<1>6. UnassignedElectable' BY <1>1 DEF Inv, UnassignedElectable
<1>7. ShardMembershipAgrees' BY <1>1 DEF Inv, TypeOK, ShardMembershipAgrees
<1>8. LiveShardsHaveNetwork'
  <2>1. \A i \in ShardId : ShardState'[i] \in Live <=> ShardState[i] \in Live
    BY <1>3, <1>4 DEF Live
  <2> QED BY <1>1, <1>2, <2>1 DEF Inv, LiveShardsHaveNetwork
<1>9. DkgMembersOnline' BY <1>1, <1>2, <1>3, <1>4 DEF Inv, DkgMembersOnline, InDkg
<1>10. OnlineCountExact' BY <1>1, <1>2, <1>3, <1>4 DEF Inv, OnlineCountExact, Live
<1>11. OnlineShardsCanSign'
  <2>1. MembersOf(s) \cap MemberOnline = MembersOf(s)
    BY <1>3 DEF Inv, DkgMembersOnline, InDkg
  <2>2. Cardinality(MembersOf(s)) >= Threshold
    BY <1>3, ShardConfigAssumption DEF Inv, LiveShardsHaveNetwork, Live
  <2> QED BY <1>1, <1>2, <1>4, <2>1, <2>2 DEF Inv, OnlineShardsCanSign
<1>12. DkgTimeoutPending' BY <1>1, <1>3, <1>4 DEF Inv, DkgTimeoutPending, InDkg
<1>13. DkgStatusAgrees'
  <2>1. \A i \in ShardId \ {s} : UNCHANGED <<ShardState[i], ShardMembers[i], MembersOf(i)>>
    BY <1>2, <1>4
  <2>2. \A o \in MembersOf(s) : ShardMembers[s][o] \in {"Committed", "Ready"}
    BY <1>3 DEF Inv, DkgStatusAgrees
  <2>3. \A o \in MembersOf(s) : ShardMembers'[s][o] = IF o = m THEN "Ready" ELSE ShardMembers[s][o]
    BY <1>1 DEF Inv, TypeOK, MembersOf
  <2>4. CASE IsLast(m, s, "Ready")
    <3>1. \A o \in MembersOf(s) : ShardMembers'[s][o] = "Ready" BY <2>3, <2>4 DEF IsLast
    <3> QED BY <1>1, <1>2, <1>4, <2>1, <2>4, <3>1 DEF Inv, DkgStatusAgrees
  <2>5. CASE ~IsLast(m, s, "Ready")
    <3>1. \E o \in MembersOf(s) : ShardMembers'[s][o] = "Committed" BY <2>2, <2>3, <2>5 DEF IsLast
    <3> QED BY <1>1, <1>2, <1>4, <2>1, <2>2, <2>3, <2>5, <3>1 DEF Inv, DkgStatusAgrees
  <2> QED BY <2>4, <2>5
<1> QED BY <1>5, <1>6, <1>7, <1>8, <1>9, <1>10, <1>11, <1>12, <1>13 DEF Inv

\* timeout_heartbeats: every shard hit by a timeout during its DKG is removed, and so
\* is every online shard left with fewer online members than the threshold.
LEMMA InvTimeout ==
  ASSUME Inv, TypeOK', NEW off \in SUBSET TimedOut, timeout_heartbeats(off),
         UNCHANGED <<ShardIdCounter, ShardCommitment, DkgTimeout>>
  PROVE  Inv'
<1> DEFINE R == Failing(off)
           online == MemberOnline \ off
<1>1. off \in SUBSET Member /\ R \in SUBSET ShardId /\ online \in SUBSET Member
  BY DEF Inv, TypeOK, Failing
<1>2. /\ MemberOnline' = online
      /\ remove_shards_offline(R, online, StillWaiting(off))
      /\ ShardMembersOnline' = [s \in ShardId |-> OnlineLeft(s, off)]
  BY DEF timeout_heartbeats
<1>3. ShardMembershipAgrees' /\ LiveShardsHaveNetwork' /\ UnassignedElectable'
  <2> DEFINE waiting == StillWaiting(off)
  <2>1. waiting \in [Network -> SUBSET Member] BY DEF Inv, TypeOK, StillWaiting
  <2>2. \A n \in Network : \A m \in waiting[n] :
          NetworkOf[m] = n /\ m \in online /\ MemberShard[m] = NoShard
    BY DEF Inv, UnassignedElectable, StillWaiting
  <2>3. remove_shards_offline(R, online, waiting) BY <1>2
  <2> HIDE DEF R, online, waiting
  <2>4. Removal(R, online, waiting) BY <1>1, <1>2, <2>1, <2>2, <2>3 DEF Removal
  <2> QED BY <2>4, RemoveRelations
<1>4. ASSUME NEW s \in ShardId, ShardState'[s] # "Offline"
      PROVE  /\ s \notin R
             /\ ShardState'[s] = ShardState[s]
             /\ ShardMembers'[s] = ShardMembers[s]
             /\ MembersOf(s)' = MembersOf(s)
  <2> HIDE DEF R, online
  <2> QED BY <1>1, <1>2, <1>4, RemoveEffect
<1>5. HeartbeatsAccountForOnline'
  BY DEF timeout_heartbeats, Due, NextTimedOut, Inv, HeartbeatsAccountForOnline
<1>6. \A s \in ShardId : Hit(s, off) = MembersOf(s) \cap off
  BY <1>1 DEF Hit, MembersOf, Inv, ShardMembershipAgrees
<1>7. DkgMembersOnline'
  <2> SUFFICES ASSUME NEW s \in ShardId, ShardState'[s] \in InDkg
               PROVE  MembersOf(s)' \subseteq MemberOnline'
    BY DEF DkgMembersOnline
  <2>1. ShardState[s] \in InDkg /\ s \notin R /\ MembersOf(s)' = MembersOf(s)
    BY <1>4 DEF InDkg
  <2>2. Hit(s, off) = {} BY <2>1 DEF Failing
  <2> QED BY <1>2, <1>6, <2>1, <2>2 DEF Inv, DkgMembersOnline
<1>8. ASSUME NEW s \in ShardId, ShardState'[s] \in Live
      PROVE  ShardMembersOnline'[s] = Cardinality(MembersOf(s)' \cap MemberOnline')
  <2> DEFINE was == MembersOf(s) \cap MemberOnline
  <2>1. ShardState[s] \in Live /\ MembersOf(s)' = MembersOf(s) BY <1>4, <1>8 DEF Live
  <2>2. IsFiniteSet(was) /\ Cardinality(was) \in Nat
    <3>1. was \subseteq Member BY DEF MembersOf
    <3> QED BY <3>1, MembersFinite
  <2>3. ShardMembersOnline[s] = Cardinality(was) BY <2>1 DEF Inv, OnlineCountExact
  <2>4. off \subseteq MemberOnline BY DEF Inv, HeartbeatsAccountForOnline
  <2>5. was \cap off = Hit(s, off) /\ was \ off = MembersOf(s) \cap online BY <1>6, <2>4
  <2>6. Cardinality(was \ off) = Cardinality(was) - Cardinality(Hit(s, off))
    <3> HIDE DEF was
    <3>1. Cardinality(was \ off) = Cardinality(was) - Cardinality(was \cap off)
      BY <2>2, FS_Difference, Zenon
    <3> QED BY <2>5, <3>1
  <2>7. Cardinality(Hit(s, off)) \in Nat /\ Cardinality(was \ off) \in Nat
    <3>1. was \ off \subseteq Member BY DEF MembersOf
    <3> QED BY <3>1, <1>1, HitFinite, MembersFinite
  <2>8. OnlineLeft(s, off) = Cardinality(was \ off)
    <3> HIDE DEF was
    <3> QED BY <2>2, <2>3, <2>6, <2>7 DEF OnlineLeft
  <2> QED BY <1>2, <2>1, <2>5, <2>8
<1>9. OnlineCountExact' BY <1>8 DEF OnlineCountExact
<1>10. OnlineShardsCanSign'
  <2> SUFFICES ASSUME NEW s \in ShardId, ShardState'[s] = "Online"
               PROVE  ShardMembersOnline'[s] >= Threshold
    BY <1>8 DEF OnlineShardsCanSign, Live
  <2>1. ShardState[s] = "Online" /\ s \notin R BY <1>4
  <2>2. ShardMembersOnline'[s] = OnlineLeft(s, off) /\ OnlineLeft(s, off) \in Nat
    BY <1>1, <1>2, OnlineLeftNat DEF Inv
  <2>3. CASE Hit(s, off) # {}
    BY <2>1, <2>2, <2>3, ShardConfigAssumption DEF Failing
  <2>4. CASE Hit(s, off) = {}
    <3>1. OnlineLeft(s, off) = ShardMembersOnline[s]
      BY <2>4, FS_EmptySet DEF OnlineLeft, Inv, TypeOK
    <3>2. ShardMembersOnline[s] >= Threshold
      BY <2>1 DEF Inv, OnlineCountExact, OnlineShardsCanSign, Live
    <3> QED BY <2>2, <3>1, <3>2
  <2> QED BY <2>3, <2>4
<1>11. DkgTimeoutPending' BY <1>4 DEF Inv, DkgTimeoutPending, InDkg
<1>12. DkgStatusAgrees' BY <1>4 DEF Inv, DkgStatusAgrees
<1> QED BY <1>3, <1>5, <1>7, <1>9, <1>10, <1>11, <1>12 DEF Inv

\* members_on_initialize without a heartbeat check changes the block number only.
LEMMA InvMembersHook ==
  ASSUME Inv, TypeOK', members_on_initialize
  PROVE  Inv'
<1>1. CASE clock' = 0
  BY <1>1, InvTimeout DEF members_on_initialize
<1>2. CASE clock' # 0
  <2>1. UNCHANGED <<MemberOnline, Heartbeat, TimedOut, Unassigned, ShardIdCounter, ShardState,
                    ShardNetwork, ShardMembers, MemberShard, ShardMembersOnline,
                    ShardCommitment, DkgTimeout>>
    BY <1>2 DEF members_on_initialize, memberVars
  <2> QED BY <2>1, InvFrame
<1> QED BY <1>1, <1>2

\* elections_on_initialize: the new ids held nothing, the teams are disjoint and were
\* in no shard, so each elected member is put in exactly one shard.
LEMMA InvElections ==
  ASSUME Inv, TypeOK', elections_on_initialize
  PROVE  Inv'
<1>1. PICK k \in 0 .. MaxElectionsPerBlock :
        /\ ShardIdCounter + k <= MaxShards
        /\ \E team \in [NewIds(k) -> Teams] :
             /\ \A s \in NewIds(k) : \E n \in Network : team[s] \subseteq Unassigned[n]
             /\ \A s, o \in NewIds(k) : s # o => team[s] \cap team[o] = {}
             /\ create_shards(k, team)
  BY DEF elections_on_initialize
<1>2. PICK team \in [NewIds(k) -> Teams] :
        /\ \A s \in NewIds(k) : \E n \in Network : team[s] \subseteq Unassigned[n]
        /\ \A s, o \in NewIds(k) : s # o => team[s] \cap team[o] = {}
        /\ create_shards(k, team)
  BY <1>1
<1> DEFINE New == NewIds(k)
           elected == {m \in Member : \E s \in New : m \in team[s]}
<1>3. UNCHANGED <<MemberOnline, Heartbeat, TimedOut, ShardCommitment>>
  BY DEF elections_on_initialize, memberVars
<1>4. /\ New \subseteq ShardId
      /\ \A s \in New : s >= ShardIdCounter /\ s < ShardIdCounter'
      /\ ShardIdCounter' >= ShardIdCounter
  <2>1. ShardIdCounter' = ShardIdCounter + k BY <1>2 DEF create_shards
  <2> QED BY <1>1, <2>1, NewIdsType DEF Inv, TypeOK
<1>5. \A s \in New : /\ team[s] \subseteq Member /\ team[s] # {}
                     /\ IsFiniteSet(team[s]) /\ Cardinality(team[s]) = ShardSize
  BY <1>2, TeamNonEmpty
<1>6. \A s \in New : \A m \in team[s] : m \in MemberOnline /\ MemberShard[m] = NoShard
  BY <1>2, <1>5 DEF Inv, UnassignedElectable
<1>7. NoShard \notin ShardId BY BoundAssumption DEF ShardId, NoShard
<1>8. \A s \in New : MembersOf(s) = {} /\ ShardState[s] \notin Live /\ s \notin ShardCommitment
  BY <1>4 DEF Inv, LiveShardsHaveNetwork
<1>9. \A s \in New : /\ ShardState'[s] = "Created"
                     /\ ShardMembers'[s] = [m \in Member |-> IF m \in team[s] THEN "Added" ELSE "None"]
                     /\ ShardMembersOnline'[s] = ShardSize
                     /\ DkgTimeout'[s] = DkgTimeoutBlocks
  BY <1>2, <1>4 DEF create_shards
<1>10. ASSUME NEW s \in New
       PROVE  ShardNetwork'[s] # NoNetwork /\ \A m \in team[s] : NetworkOf[m] = ShardNetwork'[s]
  <2>1. ShardNetwork'[s] = NetworkOf[CHOOSE o \in team[s] : TRUE]
    BY <1>2, <1>4 DEF create_shards
  <2>2. (CHOOSE o \in team[s] : TRUE) \in team[s] BY <1>2, TeamNonEmpty
  <2>3. \A m, o \in team[s] : NetworkOf[m] = NetworkOf[o] /\ NetworkOf[o] # NoNetwork
    BY <1>2, <1>5, NetworkAssumption DEF Inv, UnassignedElectable
  <2> QED BY <2>1, <2>2, <2>3
<1>11. ASSUME NEW s \in New PROVE MembersOf(s)' = team[s]
  <2>1. \A m \in Member : ShardMembers'[s][m] # "None" <=> m \in team[s] BY <1>9
  <2> QED BY <1>5, <2>1 DEF MembersOf
<1>12. \A s \in ShardId \ New : /\ ShardState'[s] = ShardState[s]
                                /\ ShardNetwork'[s] = ShardNetwork[s]
                                /\ ShardMembers'[s] = ShardMembers[s]
                                /\ MembersOf(s)' = MembersOf(s)
                                /\ ShardMembersOnline'[s] = ShardMembersOnline[s]
                                /\ DkgTimeout'[s] = DkgTimeout[s]
  BY <1>2 DEF create_shards, MembersOf
<1>13. \A m \in elected : /\ MemberShard'[m] \in New
                          /\ m \in team[MemberShard'[m]]
                          /\ MemberShard[m] = NoShard
  BY <1>2, <1>6 DEF create_shards
<1>14. \A m \in Member \ elected : MemberShard'[m] = MemberShard[m]
  BY <1>2 DEF create_shards
<1>15. \A s \in New : \A m \in team[s] : m \in elected BY <1>5
<1>16. Unassigned' = [n \in Network |-> Unassigned[n] \ elected] BY <1>2 DEF create_shards
<1>17. \A s, o \in New : s # o => team[s] \cap team[o] = {} BY <1>2
<1> HIDE DEF New, elected
<1>18. HeartbeatsAccountForOnline' BY <1>3 DEF Inv, HeartbeatsAccountForOnline
<1>19. UnassignedElectable'
  <2> SUFFICES ASSUME NEW n \in Network, NEW m \in Unassigned'[n]
               PROVE  NetworkOf[m] = n /\ m \in MemberOnline' /\ MemberShard'[m] = NoShard
    BY DEF UnassignedElectable
  <2>1. m \in Unassigned[n] /\ m \notin elected BY <1>16
  <2>2. m \in Member BY <2>1 DEF Inv, TypeOK
  <2> QED BY <1>3, <1>14, <2>1, <2>2 DEF Inv, UnassignedElectable
<1>20. ShardMembershipAgrees'
  <2> SUFFICES ASSUME NEW s \in ShardId, NEW m \in Member
               PROVE  ShardMembers'[s][m] # "None" <=> MemberShard'[m] = s
    BY DEF ShardMembershipAgrees
  <2>1. ShardMembers[s][m] # "None" <=> MemberShard[m] = s BY DEF Inv, ShardMembershipAgrees
  <2>2. CASE s \in New /\ m \in team[s]
    <3>1. MemberShard'[m] = s BY <1>13, <1>15, <1>17, <2>2
    <3> QED BY <1>9, <2>2, <3>1
  <2>3. CASE s \in New /\ m \notin team[s]
    <3>1. MemberShard[m] # s BY <1>8, <2>1, <2>3 DEF MembersOf
    <3>2. MemberShard'[m] # s BY <1>13, <1>14, <2>3, <3>1
    <3> QED BY <1>9, <2>3, <3>2
  <2>4. CASE s \notin New
    BY <1>7, <1>12, <1>13, <1>14, <2>1, <2>4
  <2> QED BY <2>2, <2>3, <2>4
<1>21. LiveShardsHaveNetwork'
  <2> SUFFICES ASSUME NEW s \in ShardId
               PROVE  /\ ShardNetwork'[s] # NoNetwork <=> ShardState'[s] \in Live
                      /\ MembersOf(s)' # {} <=> ShardState'[s] \in Live
                      /\ ShardState'[s] \in Live => Cardinality(MembersOf(s)') = ShardSize
                      /\ \A m \in MembersOf(s)' : NetworkOf[m] = ShardNetwork'[s]
                      /\ s >= ShardIdCounter' =>
                           s \notin ShardCommitment' /\ ShardState'[s] \notin Live
    BY DEF LiveShardsHaveNetwork
  <2>1. CASE s \in New
    <3>1. ~(s >= ShardIdCounter') BY <1>4, <2>1 DEF Inv, TypeOK, ShardId
    <3> QED BY <1>5, <1>9, <1>11, <1>10, <2>1, <3>1, ZenonT(40) DEF Live
  <2>2. CASE s \notin New
    <3>1. s >= ShardIdCounter' => s >= ShardIdCounter BY <1>4 DEF Inv, TypeOK, ShardId
    <3> QED BY <1>3, <1>12, <2>2, <3>1 DEF Inv, LiveShardsHaveNetwork
  <2> QED BY <2>1, <2>2
<1>22. DkgMembersOnline'
  BY <1>3, <1>6, <1>11, <1>12 DEF Inv, DkgMembersOnline
<1>23. OnlineCountExact'
  <2>1. \A s \in New : MembersOf(s)' \cap MemberOnline' = team[s] BY <1>3, <1>6, <1>11
  <2>2. \A s \in New : ShardMembersOnline'[s] = Cardinality(MembersOf(s)' \cap MemberOnline')
    BY <1>5, <1>9, <2>1
  <2>3. \A s \in ShardId \ New : ShardState'[s] \in Live =>
          ShardMembersOnline'[s] = Cardinality(MembersOf(s)' \cap MemberOnline')
    BY <1>3, <1>12 DEF Inv, OnlineCountExact
  <2> QED BY <2>2, <2>3 DEF OnlineCountExact
<1>24. OnlineShardsCanSign'
  BY <1>3, <1>9, <1>12 DEF Inv, OnlineShardsCanSign
<1>25. DkgTimeoutPending'
  <2>1. \A s \in New : DkgTimeout'[s] > 0
    <3>1. \A s \in New : DkgTimeout'[s] = DkgTimeoutBlocks BY <1>9
    <3> QED BY <3>1, BoundAssumption
  <2>2. \A s \in ShardId \ New : ShardState'[s] \in InDkg => DkgTimeout'[s] > 0
    BY <1>12 DEF Inv, DkgTimeoutPending
  <2> QED BY <2>1, <2>2 DEF DkgTimeoutPending
<1>26. DkgStatusAgrees'
  <2> SUFFICES ASSUME NEW s \in ShardId
               PROVE  /\ ShardState'[s] = "Created" =>
                           /\ s \notin ShardCommitment'
                           /\ \A m \in MembersOf(s)' : ShardMembers'[s][m] \in {"Added", "Committed"}
                           /\ \E m \in MembersOf(s)' : ShardMembers'[s][m] = "Added"
                      /\ ShardState'[s] = "Committed" =>
                           /\ s \in ShardCommitment'
                           /\ \A m \in MembersOf(s)' : ShardMembers'[s][m] \in {"Committed", "Ready"}
                           /\ \E m \in MembersOf(s)' : ShardMembers'[s][m] = "Committed"
                      /\ ShardState'[s] = "Online" =>
                           /\ s \in ShardCommitment'
                           /\ \A m \in MembersOf(s)' : ShardMembers'[s][m] = "Ready"
    BY DEF DkgStatusAgrees
  <2>1. CASE s \in New
    <3>1. \A m \in team[s] : ShardMembers'[s][m] = "Added" BY <1>5, <1>9, <2>1
    <3>2. ShardState'[s] = "Created" /\ s \notin ShardCommitment' BY <1>3, <1>8, <1>9, <2>1
    <3>3. MembersOf(s)' = team[s] /\ team[s] # {} BY <1>5, <1>11, <2>1
    <3> QED BY <3>1, <3>2, <3>3
  <2>2. CASE s \notin New
    BY <1>3, <1>12, <2>2 DEF Inv, DkgStatusAgrees
  <2> QED BY <2>1, <2>2
<1> QED BY <1>18, <1>19, <1>20, <1>21, <1>22, <1>23, <1>24, <1>25, <1>26 DEF Inv

\* Every step of the three pallets keeps the invariant.
LEMMA InvStep == Inv /\ [Next]_vars => Inv'
<1> SUFFICES ASSUME Inv, [Next]_vars PROVE Inv'
  OBVIOUS
<1> TypeOK' BY TypeStep DEF Inv
<1>1. ASSUME NEW m \in Member, register_member(m) \/ unregister_member(m) PROVE Inv'
  BY <1>1, InvRegistration
<1>2. ASSUME NEW m \in Member, send_heartbeat(m) PROVE Inv'
  BY <1>2, InvHeartbeat
<1>3. ASSUME NEW m \in Member, NEW s \in ShardId, commit(m, s) PROVE Inv'
  BY <1>3, InvCommit
<1>4. ASSUME NEW m \in Member, NEW s \in ShardId, ready(m, s) PROVE Inv'
  BY <1>4, InvReady
<1>5. ASSUME NEW s \in ShardId, force_shard_offline(s) PROVE Inv'
  <2>1. DkgTimeout' = DkgTimeout BY <1>5 DEF force_shard_offline
  <2>2. \A i \in ShardId : ShardState[i] \in InDkg => DkgTimeout'[i] > 0
    BY <2>1 DEF Inv, DkgTimeoutPending
  <2> QED BY <1>5, <2>2, InvRemove DEF force_shard_offline
<1>6. CASE members_on_initialize
  BY <1>6, InvMembersHook
<1>7. CASE shards_on_initialize
  <2>1. ASSUME NEW s \in ShardId, s \notin DkgTimedOut, ShardState[s] \in InDkg
        PROVE  DkgTimeout'[s] > 0
    <3>1. DkgTimeout[s] \in Nat /\ DkgTimeout[s] > 0 /\ DkgTimeout[s] # 1
      BY <2>1, BoundAssumption DEF Inv, TypeOK, DkgTimeoutPending, DkgTimedOut
    <3>2. DkgTimeout'[s] = BlocksLeft(s) BY <1>7 DEF shards_on_initialize
    <3> QED BY <3>1, <3>2 DEF BlocksLeft
  <2>2. DkgTimedOut \in SUBSET ShardId BY DEF DkgTimedOut
  <2> QED BY <1>7, <2>1, <2>2, InvRemove DEF shards_on_initialize
<1>8. CASE elections_on_initialize
  BY <1>8, InvElections
<1>9. CASE UNCHANGED vars
  BY <1>9, InvFrame DEF vars, memberVars, shardVars
<1> QED BY <1>1, <1>2, <1>3, <1>4, <1>5, <1>6, <1>7, <1>8, <1>9 DEF Next

\* All the invariants of Membership at once.
THEOREM Invariance == Spec => []Inv
BY InvInit, InvStep, PTL DEF Spec

\* Heartbeats and timeouts never lose an online member: see timeout_heartbeats.
THEOREM HeartbeatsAreAccountedFor == Spec => []HeartbeatsAccountForOnline
<1>1. Inv => HeartbeatsAccountForOnline BY DEF Inv
<1> QED BY <1>1, Invariance, PTL

\* Whoever try_elect_shards can pick is online and in no shard.
THEOREM ElectableAreFree == Spec => []UnassignedElectable
<1>1. Inv => UnassignedElectable BY DEF Inv
<1> QED BY <1>1, Invariance, PTL

\* MemberShard and ShardMembers never disagree.
THEOREM MembershipAgrees == Spec => []ShardMembershipAgrees
<1>1. Inv => ShardMembershipAgrees BY DEF Inv
<1> QED BY <1>1, Invariance, PTL

\* A shard has its network and its full team exactly while it is live.
THEOREM LiveShardsAreComplete == Spec => []LiveShardsHaveNetwork
<1>1. Inv => LiveShardsHaveNetwork BY DEF Inv
<1> QED BY <1>1, Invariance, PTL

\* member_online never meets a Created or Committed shard.
THEOREM DkgShardsAreOnline == Spec => []DkgMembersOnline
<1>1. Inv => DkgMembersOnline BY DEF Inv
<1> QED BY <1>1, Invariance, PTL

\* ShardMembersOnline counts exactly, so its saturating arithmetic never saturates.
THEOREM OnlineCountIsExact == Spec => []OnlineCountExact
<1>1. Inv => OnlineCountExact BY DEF Inv
<1> QED BY <1>1, Invariance, PTL

\* An online shard has a signing quorum of online members.
THEOREM OnlineShardsSign == Spec => []OnlineShardsCanSign
<1>1. Inv => OnlineShardsCanSign BY DEF Inv
<1> QED BY <1>1, Invariance, PTL

\* A shard in its DKG always has its timeout ahead of it.
THEOREM DkgTimeoutIsPending == Spec => []DkgTimeoutPending
<1>1. Inv => DkgTimeoutPending BY DEF Inv
<1> QED BY <1>1, Invariance, PTL

\* The status of a shard follows from the statuses of its members.
THEOREM DkgStatusIsConsistent == Spec => []DkgStatusAgrees
<1>1. Inv => DkgStatusAgrees BY DEF Inv
<1> QED BY <1>1, Invariance, PTL

\* No handler brings back a shard id that was handed out and went offline.
THEOREM OfflineForEver == Spec => OfflineIsFinal
<1> DEFINE Stays == \A s \in ShardId :
             s < ShardIdCounter /\ ShardState[s] = "Offline" => ShardState'[s] = "Offline"
<1>1. ASSUME Inv, [Next]_vars PROVE Stays
  <2> SUFFICES ASSUME NEW i \in ShardId, i < ShardIdCounter, ShardState[i] = "Offline"
               PROVE  ShardState'[i] = "Offline"
    OBVIOUS
  <2>1. ASSUME NEW m \in Member, register_member(m) \/ unregister_member(m)
        PROVE  ShardState'[i] = "Offline"
    BY <2>1 DEF register_member, unregister_member, shardVars
  <2>2. ASSUME NEW m \in Member, send_heartbeat(m) PROVE ShardState'[i] = "Offline"
    <3>1. CASE m \in MemberOnline
      BY <2>2, <3>1 DEF send_heartbeat
    <3>2. CASE m \notin MemberOnline
      BY <2>2, <3>2 DEF send_heartbeat, ComesOnline
    <3> QED BY <3>1, <3>2
  <2>3. \A m \in Member : ShardMembers[i][m] = "None"
    BY <1>1 DEF Inv, LiveShardsHaveNetwork, Live, MembersOf
  <2>4. ASSUME NEW m \in Member, NEW s \in ShardId, commit(m, s)
        PROVE  ShardState'[i] = "Offline"
    BY <1>1, <2>3, <2>4 DEF commit, Inv, TypeOK
  <2>5. ASSUME NEW m \in Member, NEW s \in ShardId, ready(m, s)
        PROVE  ShardState'[i] = "Offline"
    BY <1>1, <2>3, <2>5 DEF ready, Inv, TypeOK
  <2>6. ASSUME NEW s \in ShardId, force_shard_offline(s) PROVE ShardState'[i] = "Offline"
    BY <2>6 DEF force_shard_offline, remove_shards_offline
  <2>7. CASE members_on_initialize
    <3>1. CASE clock' = 0
      BY <2>7, <3>1 DEF members_on_initialize, timeout_heartbeats, remove_shards_offline
    <3>2. CASE clock' # 0
      BY <2>7, <3>2 DEF members_on_initialize
    <3> QED BY <3>1, <3>2
  <2>8. CASE shards_on_initialize
    BY <2>8 DEF shards_on_initialize, remove_shards_offline
  <2>9. CASE elections_on_initialize
    <3>1. PICK k, team : k \in 0 .. MaxElectionsPerBlock /\ create_shards(k, team)
      BY <2>9 DEF elections_on_initialize
    <3>2. i \notin NewIds(k) BY <1>1, <3>1, BoundAssumption DEF NewIds, ShardId, Inv, TypeOK
    <3> QED BY <3>1, <3>2 DEF create_shards
  <2>10. CASE UNCHANGED vars
    BY <2>10 DEF vars, shardVars
  <2> QED BY <1>1, <2>1, <2>2, <2>4, <2>5, <2>6, <2>7, <2>8, <2>9, <2>10 DEF Next
<1>2. Inv /\ [Next]_vars => [Stays]_vars BY <1>1
<1> QED BY <1>2, Invariance, PTL DEF Spec, OfflineIsFinal

\* An election takes a member from no shard into one, and only an online member.
THEOREM ElectionsPickOnline == Spec => ElectedFromUnassigned
<1> DEFINE Joins == \A m \in Member :
             MemberShard'[m] # MemberShard[m] /\ MemberShard'[m] # NoShard =>
               MemberShard[m] = NoShard /\ m \in MemberOnline
<1>1. ASSUME Inv, [Next]_vars PROVE Joins
  <2> SUFFICES ASSUME NEW o \in Member, MemberShard'[o] # MemberShard[o],
                      MemberShard'[o] # NoShard
               PROVE  MemberShard[o] = NoShard /\ o \in MemberOnline
    OBVIOUS
  <2>1. \A R, on, w : ~remove_shards_offline(R, on, w) BY DEF remove_shards_offline
  <2>2. elections_on_initialize
    <3>1. ASSUME NEW m \in Member, register_member(m) \/ unregister_member(m) PROVE FALSE
      BY <3>1 DEF register_member, unregister_member, shardVars
    <3>2. ASSUME NEW m \in Member, send_heartbeat(m) PROVE FALSE
      BY <3>2 DEF send_heartbeat
    <3>3. ASSUME NEW m \in Member, NEW s \in ShardId, commit(m, s) \/ ready(m, s) PROVE FALSE
      BY <3>3 DEF commit, ready
    <3>4. ASSUME NEW s \in ShardId, force_shard_offline(s) PROVE FALSE
      BY <2>1, <3>4 DEF force_shard_offline
    <3>5. ~members_on_initialize
      BY <2>1 DEF members_on_initialize, timeout_heartbeats
    <3>6. ~shards_on_initialize BY <2>1 DEF shards_on_initialize
    <3>7. ~UNCHANGED vars BY DEF vars, shardVars
    <3> QED BY <1>1, <3>1, <3>2, <3>3, <3>4, <3>5, <3>6, <3>7 DEF Next
  <2>3. PICK k \in 0 .. MaxElectionsPerBlock : \E team \in [NewIds(k) -> Teams] :
          /\ \A s \in NewIds(k) : \E n \in Network : team[s] \subseteq Unassigned[n]
          /\ create_shards(k, team)
    BY <2>2 DEF elections_on_initialize
  <2>4. PICK team \in [NewIds(k) -> Teams] :
          /\ \A s \in NewIds(k) : \E n \in Network : team[s] \subseteq Unassigned[n]
          /\ create_shards(k, team)
    BY <2>3
  <2>5. \E s \in NewIds(k) : o \in team[s] BY <2>4 DEF create_shards
  <2> QED BY <1>1, <2>4, <2>5 DEF Inv, UnassignedElectable
<1>2. Inv /\ [Next]_vars => [Joins]_vars BY <1>1
<1> QED BY <1>2, Invariance, PTL DEF Spec, ElectedFromUnassigned
=============================================================================
