------------------------------- MODULE Members -------------------------------
(* The members pallet: registration, heartbeats and their timeouts. *)
EXTENDS Storage

do_unregister_member(st, m) ==
  IF is_shard_member(st, m) THEN st ELSE [st EXCEPT !.MemberNetwork[m] = NoNetwork]

TheElections == INSTANCE Elections WITH Members_do_unregister_member <- do_unregister_member
TheShards == INSTANCE Shards WITH Elections_shard_offline <- TheElections!shard_offline

execute_register_member(st, m, network) ==
  [st EXCEPT !.MemberNetwork[m] = network, !.MemberRegistered = @ \cup {m}]

can_unregister(st, m) == st.MemberNetwork[m] # NoNetwork /\ is_member_registered(st, m)

execute_unregister_member(st, m) ==
  do_unregister_member([st EXCEPT !.MemberRegistered = @ \ {m}], m)

can_send_heartbeat(st, m) == m \notin st.Heartbeat /\ st.MemberNetwork[m] # NoNetwork

member_online(st, m, network) ==
  TheElections!member_online([st EXCEPT !.MemberOnline = @ \cup {m}], m, network)

execute_send_heartbeat(st, m) ==
  LET st1 == IF is_member_online(st, m) THEN st
             ELSE member_online(st, m, st.MemberNetwork[m])
  IN [st1 EXCEPT !.Heartbeat = @ \cup {m},
                 !.TimedOut = SelectSeq(@, LAMBDA o : o # m)]

members_offline(st, members, network) ==
  TheElections!members_offline([st EXCEPT !.MemberOnline = @ \ Range(members)],
                               members, network)

\* The members that time out now: the first MaxTimeoutsPerBlock with a network.
CurrentTimedOut(st) ==
  LET eligible == SelectSeq(st.TimedOut, LAMBDA m : st.MemberNetwork[m] # NoNetwork) IN
  SubSeq(eligible, 1, Min({Len(eligible), MaxTimeoutsPerBlock}))

\* Those that do not time out keep their places, before the heartbeats of this period.
NextTimedOutForgetsRest(st) == IterMembers(st.Heartbeat)
NextTimedOutRestLast(st) ==
  IterMembers(st.Heartbeat)
    \o SelectSeq(st.TimedOut, LAMBDA m : m \notin Range(CurrentTimedOut(st)))
NextTimedOut(st) ==
  SelectSeq(st.TimedOut, LAMBDA m : m \notin Range(CurrentTimedOut(st)))
    \o IterMembers(st.Heartbeat)

timeout_heartbeats(st) ==
  LET current(n) == SelectSeq(CurrentTimedOut(st), LAMBDA m : st.MemberNetwork[m] = n)
      networks == {st.MemberNetwork[m] : m \in Range(CurrentTimedOut(st))}
      st1 == FoldLeft(LAMBDA acc, n : members_offline(acc, current(n), n), st,
                      SortedNetworks(networks))
  IN [st1 EXCEPT !.Heartbeat = {}, !.TimedOut = NextTimedOut(st)]
=============================================================================
