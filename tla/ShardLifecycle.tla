--------------------------- MODULE ShardLifecycle ---------------------------
(***************************************************************************)
(* What the rest of the runtime sees of a shard: it is elected (Created),  *)
(* its members commit to a group key (Committed), they report ready        *)
(* (Online), and from any of these states it may go Offline, for good.     *)
(* One call of the shards pallet may move several shards at once.          *)
(***************************************************************************)
CONSTANT Shard

VARIABLE status

Status == {"None", "Created", "Committed", "Online", "Offline"}

Edge == {<<"None", "Created">>, <<"Created", "Committed">>, <<"Committed", "Online">>,
         <<"Created", "Offline">>, <<"Committed", "Offline">>, <<"Online", "Offline">>}

Init == status = [s \in Shard |-> "None"]

\* One shard moves along an edge.
Move(s, to) ==
  /\ <<status[s], to>> \in Edge
  /\ status' = [status EXCEPT ![s] = to]

Next ==
  /\ status' \in [Shard -> Status]
  /\ \A s \in Shard : status'[s] = status[s] \/ <<status[s], status'[s]>> \in Edge

Spec == Init /\ [][Next]_status
=============================================================================
