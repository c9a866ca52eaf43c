-------------------------------- MODULE Shards --------------------------------
(* The shards pallet: creation of shards, their DKG on chain, and their removal. *)
EXTENDS Storage

\* T::Elections::shard_offline(st, network, members) of the pallet's Config.
CONSTANT Elections_shard_offline(_, _, _)

\* Shard ids in ascending order.
ShardSeq(S) == SetToSortSeq(S, <)

\* The accounts of the shards S on network n; one that is in two of them is listed twice.
MembersOnNetwork(st, S, n) ==
  FoldLeft(LAMBDA acc, s : acc \o IterMembers(shard_members(st, s)), <<>>,
           ShardSeq({s \in S : st.ShardNetwork[s] = n}))

\* The task scheduler is told as well: T::Tasks::shard_offline writes only items of
\* the tasks pallet.
remove_shards_offline(st, shards) ==
  LET taken == {s \in shards : st.ShardNetwork[s] # NoNetwork}
      networks == {st.ShardNetwork[s] : s \in taken}
      drained == [st EXCEPT
        !.ShardState = [s \in ShardId |-> IF s \in shards THEN "Offline" ELSE @[s]],
        !.ShardThreshold = [s \in ShardId |-> IF s \in shards THEN -1 ELSE @[s]],
        !.ShardNetwork = [s \in ShardId |-> IF s \in shards THEN NoNetwork ELSE @[s]],
        !.ShardMembers = [s \in ShardId |->
          IF s \in taken THEN [m \in Member |-> "None"] ELSE @[s]],
        !.MemberShard = [m \in Member |->
          IF \E s \in taken : m \in shard_members(st, s) THEN NoShard ELSE @[m]]]
  IN FoldLeft(LAMBDA acc, n : Elections_shard_offline(acc, n, MembersOnNetwork(st, taken, n)),
              drained, SortedNetworks(networks))

force_shard_offline(st, s) == remove_shards_offline(st, {s})

\* execute_commit succeeds; the commitment and the proof of knowledge are valid.
can_commit(st, m, s) ==
  /\ st.ShardMembers[s][m] = "Added"
  /\ st.MemberNetwork[m] # NoNetwork    \* the peer id is stored with the network

execute_commit(st, m, s) ==
  LET st1 == [st EXCEPT !.ShardMembers[s][m] = "Committed"] IN
  IF \A o \in shard_members(st1, s) : st1.ShardMembers[s][o] = "Committed"
  THEN [st1 EXCEPT !.ShardCommitment = @ \cup {s}, !.ShardState[s] = "Committed"]
  ELSE st1

can_ready(st, m, s) ==
  /\ st.ShardMembers[s][m] = "Committed"
  /\ st.ShardNetwork[s] # NoNetwork
  /\ s \in st.ShardCommitment

execute_ready(st, m, s) ==
  LET st1 == [st EXCEPT !.ShardMembers[s][m] = "Ready"] IN
  IF \A o \in shard_members(st1, s) : st1.ShardMembers[s][o] = "Ready"
  THEN [st1 EXCEPT !.ShardState[s] = "Online"]
  ELSE st1

\* The shards to remove among those whose entry is of the new block.
DueCreatedOnly(st) == {s \in ShardId : st.DkgTimeout[s] = 1 /\ st.ShardState[s] = "Created"}
Due(st) == {s \in ShardId : st.DkgTimeout[s] = 1 /\ st.ShardState[s] \in InDkg}

timeout_dkgs(st) ==
  LET due == Due(st)
      drained == [st EXCEPT
        !.DkgTimeout = [s \in ShardId |-> IF @[s] = 0 THEN 0 ELSE @[s] - 1],
        !.DkgTimeoutCounter = [k \in 1 .. DkgTimeoutBlocks |->
          IF k = DkgTimeoutBlocks THEN 0 ELSE @[k + 1]]]
  IN IF due = {} THEN drained ELSE remove_shards_offline(drained, due)

member_online(st, m) ==
  LET s == st.MemberShard[m] IN
  IF s = NoShard THEN st
  ELSE [st EXCEPT !.ShardMembersOnline[s] = @ + 1,
                  !.ShardState[s] = IF @ \in InDkg THEN "Offline" ELSE @]

\* The per-shard counts are collected first, then written, then shards are removed.
members_offline(st, members) ==
  LET hits(s) == Len(SelectSeq(members, LAMBDA m : st.MemberShard[m] = s))
      left(s) == IF hits(s) > st.ShardMembersOnline[s] THEN 0
                 ELSE st.ShardMembersOnline[s] - hits(s)
      fails(s) == /\ hits(s) > 0
                  /\ st.ShardThreshold[s] # -1
                  /\ \/ st.ShardState[s] \in InDkg
                     \/ st.ShardState[s] = "Online" /\ left(s) < st.ShardThreshold[s]
      removed == {s \in ShardId : fails(s)}
      counted == [st EXCEPT
        !.ShardMembersOnline = [s \in ShardId |-> left(s)],
        !.ShardState = [s \in ShardId |-> IF s \in removed THEN "Offline" ELSE @[s]]]
  IN IF removed = {} THEN counted ELSE remove_shards_offline(counted, removed)

\* The limit of shards per block, counted per timeout block.
can_create_shard(st) == st.DkgTimeoutCounter[DkgTimeoutBlocks] < MaxElectionsPerBlock

CountedTwice(c) == c + 2
Counted(c) == c + 1

create_shard(st, network, members, threshold) ==
  LET s == st.ShardIdCounter IN
  [st EXCEPT
    !.DkgTimeoutCounter[DkgTimeoutBlocks] = Counted(@),
    !.ShardIdCounter = @ + 1,
    !.ShardNetwork[s] = network,
    !.ShardState[s] = "Created",
    !.DkgTimeout[s] = DkgTimeoutBlocks,
    !.ShardThreshold[s] = threshold,
    !.ShardMembers[s] = [m \in Member |-> IF m \in Range(members) THEN "Added" ELSE @[m]],
    !.MemberShard = [m \in Member |-> IF m \in Range(members) THEN s ELSE @[m]],
    !.ShardMembersOnline[s] = Len(members)]
=============================================================================
