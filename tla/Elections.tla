------------------------------ MODULE Elections ------------------------------
(* The elections pallet: who waits for a shard, and the election of shards. *)
EXTENDS Storage

\* T::Members::do_unregister_member(st, member) of the pallet's Config.
CONSTANT Members_do_unregister_member(_, _)

\* unassigned.sort_by(|a, b| a.cmp(b).reverse())
SortReverse(list) == SortSeq(list, >)

ExtendedUnsorted(list, batch) == list \o batch
Extended(list, batch) == SortReverse(list \o batch)

shard_offline(st, network, members) ==
  LET batch == SelectSeq(members, LAMBDA m :
                 is_member_registered(st, m) /\ is_member_online(st, m))
      dropped == SelectSeq(members, LAMBDA m : ~is_member_registered(st, m))
      st1 == FoldLeft(Members_do_unregister_member, st, dropped)
  IN [st1 EXCEPT !.Unassigned[network] = Extended(@, batch)]

TheShards == INSTANCE Shards WITH Elections_shard_offline <- shard_offline

member_online(st, m, network) ==
  LET st1 == IF is_shard_member(st, m) THEN st
             ELSE [st EXCEPT !.Unassigned[network] = SortReverse(Append(@, m))]
  IN TheShards!member_online(st1, m)

RetainedAll(list, members) == list
Retained(list, members) == SelectSeq(list, LAMBDA m : m \notin Range(members))

members_offline(st, members, network) ==
  TheShards!members_offline(
    [st EXCEPT !.Unassigned[network] = Retained(@, members)], members)

\* The number of whole shards that can be elected; MaxShards bounds the model only.
NumShards(st, network, max_elections) ==
  Min({Len(st.Unassigned[network]) \div ShardSize, max_elections, MaxShards - st.ShardIdCounter})

\* Elects from the front of the list.  A refused create_shard puts the members of its
\* chunk and of all later ones at the end of the list, unsorted.
try_elect_shards(st, network, max_elections) ==
  LET num == NumShards(st, network, max_elections)
      list == st.Unassigned[network]
      rest == SubSeq(list, num * ShardSize + 1, Len(list))
      chunk(i) == SubSeq(list, (i - 1) * ShardSize + 1, i * ShardSize)
      step(acc, i) ==
        IF acc.failed \/ ~TheShards!can_create_shard(acc.st)
        THEN [acc EXCEPT !.failed = TRUE, !.rest = @ \o chunk(i)]
        ELSE [acc EXCEPT !.st = TheShards!create_shard(@, network, chunk(i), Threshold),
                         !.elected = @ + 1]
      end == FoldLeft(step, [st |-> st, elected |-> 0, failed |-> FALSE, rest |-> rest],
                      [i \in 1 .. num |-> i])
  IN [st |-> [end.st EXCEPT !.Unassigned[network] = end.rest], elected |-> end.elected]

\* The network whose turn is next.
NextCounterUnwrapped(counter, count) == counter + 1
NextCounterStuck(counter, count) == counter
NextCounter(counter, count) == (counter + 1) % count

\* The networks in turn, starting where the last block stopped, until the block's
\* elections are used up or every network had its turn.
on_initialize(st) ==
  LET networks == get_networks(st)
      count == Len(networks)
      start == st.NetworkCounter
      visit(acc, i) ==
        IF acc.stop \/ acc.num >= MaxElectionsPerBlock THEN [acc EXCEPT !.stop = TRUE]
        ELSE LET r == try_elect_shards(acc.st, networks[acc.counter + 1],
                                       MaxElectionsPerBlock - acc.num)
                 next == NextCounter(acc.counter, count)
             IN [st |-> r.st, num |-> acc.num + r.elected, counter |-> next,
                 stop |-> next = start]
      end == FoldLeft(visit, [st |-> st, num |-> 0, counter |-> start, stop |-> FALSE],
                      [i \in 1 .. count |-> i])
  IN IF start >= count THEN [st EXCEPT !.NetworkCounter = 0]
     ELSE [end.st EXCEPT !.NetworkCounter = end.counter]
=============================================================================
