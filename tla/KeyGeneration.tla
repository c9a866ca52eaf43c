---------------------------- MODULE KeyGeneration ----------------------------
(***************************************************************************)
(* The distributed key generation of one shard: the Dkg state machine      *)
(* (tss/src/dkg.rs) inside Tss (tss/src/lib.rs), its key share on disk     *)
(* (chronicle/src/shards/tss.rs), the member's handler of finalized blocks *)
(* (chronicle/src/shards/service.rs), and the calls of the shards pallet   *)
(* that it makes.  A shard of one member has a plain key instead.          *)
(*                                                                         *)
(* A member's secret is named by the run of its process that drew it, a    *)
(* commitment by the secret it is to, and a share by the secrets it is the *)
(* sum of.  A process that panics or crashes may be started again.         *)
(***************************************************************************)
EXTENDS Naturals, FiniteSets

CONSTANTS Member,
          Sizes,        \* possible numbers of members of the shard
          None,
          BadDisk,      \* members that cannot write their key share
          Faulty,       \* members that may restart, or lose what they send
          MaxRuns       \* bound: runs of a member's process

Run == 0 .. MaxRuns

ASSUME RunsAssumption ==
  /\ MaxRuns \in Nat
  /\ None \notin Nat
  /\ None \notin [Member -> Run \cup {None}]

VARIABLES
  shard,      \* the members of the shard
  status,     \* ShardState of the shard
  committed,  \* ShardMembers: the commitment of a member that is Committed or Ready
  ready,      \* ShardMembers: those that are Ready
  group,      \* ShardCommitment
  seen,       \* ShardState in the last finalized block a member has handled
  tss,        \* tss_states of a member
  phase,      \* where its handler stands: see Phase
  txs,        \* calls that were submitted and not included yet
  net,        \* round 2 packages in flight
  files,      \* key shares on disk
  run,        \* runs of the member's process before this one
  lost        \* a message was lost

chain == <<status, committed, ready, group>>
vars == <<shard, chain, seen, tss, phase, txs, net, files, run, lost>>

\* "run": handling finalized blocks; "write" and "online": between the end of the DKG,
\* the writing of the share and submit_online; "wait": for a call; "panic": it ended.
Phase == {"run", "write", "online", "wait", "panic"}

NoPackages == [p \in Member |-> None]

NoTss == [state |-> "none", secret |-> None, commitment |-> None, sent |-> FALSE,
          packages |-> NoPackages]

Committing(m) == [call |-> "commit", by |-> m, run |-> run[m]]

Readying(m) == [call |-> "ready", by |-> m, run |-> run[m]]

-----------------------------------------------------------------------------
(* Shards pallet *)

\* Also of members that have committed before.
can_commit_any(m) == status # "Offline"

can_commit(m) == status # "Offline" /\ committed[m] = None

execute_commit(m, secret) ==
  /\ committed' = [committed EXCEPT ![m] = secret]
  /\ IF \A k \in shard : committed'[k] # None
     THEN group' = committed' /\ status' = "Committed"
     ELSE UNCHANGED <<group, status>>
  /\ UNCHANGED ready

can_ready(m) == status # "Offline" /\ committed[m] # None /\ m \notin ready /\ group # None

\* The statuses are looked at before the member's own changes.
execute_ready_early(m) ==
  /\ ready' = ready \cup {m}
  /\ status' = IF shard \subseteq ready THEN "Online" ELSE status
  /\ UNCHANGED <<committed, group>>

execute_ready(m) ==
  /\ ready' = ready \cup {m}
  /\ status' = IF shard \subseteq ready' THEN "Online" ELSE status
  /\ UNCHANGED <<committed, group>>

\* The worker answers the caller, if its process still runs, when the call is final;
\* the caller unwraps the answer.
include(tx) ==
  LET m == tx.by
      ok == IF tx.call = "commit" THEN can_commit(m) ELSE can_ready(m)
  IN  /\ txs' = txs \ {tx}
      /\ IF ~ok THEN UNCHANGED chain
         ELSE IF tx.call = "commit" THEN execute_commit(m, tx.run)
         ELSE execute_ready(m)
      /\ phase' = [phase EXCEPT ![m] =
           IF tx.run # run[m] THEN @ ELSE IF ok THEN "run" ELSE "panic"]
      /\ UNCHANGED <<shard, seen, tss, net, files, run, lost>>

timeout_dkg ==
  /\ status \in {"Created", "Committed"}
  /\ status' = "Offline"
  /\ UNCHANGED <<shard, committed, ready, group, seen, tss, phase, txs, net, files, run, lost>>

-----------------------------------------------------------------------------
(* Tss and Dkg *)

Sum(m, t) == [k \in Member |-> IF k = m THEN t.secret ELSE t.packages[k]]

\* KeyPackage::try_from checks the share against the commitment.
share_ok(m, t) == Sum(m, t) = t.commitment

\* Every action of Dkg::next_action that follows a commitment or a package.
Polled(m, t) ==
  [t EXCEPT !.sent = TRUE,
            !.state = IF \E k \in shard \ {m} : t.packages[k] = None THEN "dkg"
                      ELSE IF share_ok(m, t) THEN "roast" ELSE "failed"]

Packages(m, t) == {[from |-> m, to |-> k, secret |-> t.secret] : k \in shard \ {m}}

\* poll_actions with the member's Tss in state t, and `others` in flight.
poll_actions(m, t, others) ==
  /\ tss' = [tss EXCEPT ![m] = Polled(m, t)]
  /\ net' = others \cup (IF t.sent THEN {} ELSE Packages(m, t))
  /\ phase' = [phase EXCEPT ![m] = IF Polled(m, t).state = "roast" THEN "write" ELSE @]

-----------------------------------------------------------------------------
(* TimeWorker *)

\* The status that the next block with another one shows.
Following(s) == IF s = "Created" /\ group # None THEN "Committed" ELSE status

\* on_finality: retain.
on_finality(m) ==
  /\ phase[m] = "run"
  /\ seen[m] # status
  /\ seen' = [seen EXCEPT ![m] = Following(@)]
  /\ tss' = [tss EXCEPT ![m] = IF seen'[m] = "Offline" THEN NoTss ELSE @]
  /\ UNCHANGED <<shard, chain, phase, txs, net, files, run, lost>>

\* Tss::new without a commitment, and its first action.  The key of a single member is
\* written at once.
start(m) ==
  /\ phase[m] = "run" /\ tss[m].state = "none" /\ seen[m] = "Created"
  /\ tss' = [tss EXCEPT ![m].state = "dkg", ![m].secret = run[m]]
  /\ files' = IF shard = {m} /\ m \notin BadDisk
              THEN [files EXCEPT ![m] = @ \cup {[NoPackages EXCEPT ![m] = run[m]]}]
              ELSE files
  /\ txs' = txs \cup {Committing(m)}
  /\ phase' = [phase EXCEPT ![m] = "wait"]
  /\ UNCHANGED <<shard, chain, seen, net, run, lost>>

\* Only while the DKG lasts.
recover_committed(m) ==
  /\ phase[m] = "run" /\ tss[m].state = "none" /\ seen[m] = "Committed"
  /\ group \in files[m]
  /\ tss' = [tss EXCEPT ![m].state = "roast", ![m].commitment = group]
  /\ UNCHANGED <<shard, chain, seen, phase, txs, net, files, run, lost>>

\* Tss::new with a commitment.  Without the file of its share the handler fails, and
\* does so at every block.
recover(m) ==
  /\ phase[m] = "run" /\ tss[m].state = "none" /\ seen[m] \in {"Committed", "Online"}
  /\ group \in files[m]
  /\ tss' = [tss EXCEPT ![m].state = "roast", ![m].commitment = group]
  /\ UNCHANGED <<shard, chain, seen, phase, txs, net, files, run, lost>>

\* A single member does not remember that it handled the commitment.
on_commit_again(m) ==
  /\ phase[m] = "run" /\ tss[m].state \in {"dkg", "roast"}
  /\ seen[m] = "Committed" /\ shard = {m}
  /\ tss' = [tss EXCEPT ![m].state = "roast", ![m].commitment = group]
  /\ phase' = [phase EXCEPT ![m] = "online"]
  /\ UNCHANGED <<shard, chain, seen, txs, net, files, run, lost>>

on_commit(m) ==
  /\ phase[m] = "run" /\ tss[m].state = "dkg" /\ tss[m].commitment = None
  /\ seen[m] = "Committed"
  /\ IF shard = {m}
     THEN /\ tss' = [tss EXCEPT ![m].state = "roast", ![m].commitment = group]
          /\ phase' = [phase EXCEPT ![m] = "online"]
          /\ UNCHANGED net
     ELSE poll_actions(m, [tss[m] EXCEPT !.commitment = group], net)
  /\ UNCHANGED <<shard, chain, seen, txs, files, run, lost>>

\* A package waits for the block its sender saw, whose commitment comes first.
on_message(m, msg) ==
  /\ phase[m] = "run" /\ msg.to = m
  /\ seen[m] # "Created"
  /\ tss[m].state = "none" => seen[m] = "Offline"
  /\ IF tss[m].state = "dkg"
     THEN /\ tss[m].commitment # None
          /\ poll_actions(m, [tss[m] EXCEPT !.packages[msg.from] = msg.secret], net \ {msg})
     ELSE net' = net \ {msg} /\ UNCHANGED <<tss, phase>>
  /\ UNCHANGED <<shard, chain, seen, txs, files, run, lost>>

\* The failure to write is not noticed.
write_nothing(m) == UNCHANGED files

write_signing_share(m) ==
  files' = IF m \in BadDisk THEN files
           ELSE [files EXCEPT ![m] = @ \cup {tss[m].commitment}]

Ready(m) ==
  /\ phase[m] = "write"
  /\ write_signing_share(m)
  /\ phase' = [phase EXCEPT ![m] = "online"]
  /\ UNCHANGED <<shard, chain, seen, tss, txs, net, run, lost>>

submit_online(m) ==
  /\ phase[m] = "online"
  /\ txs' = txs \cup {Readying(m)}
  /\ phase' = [phase EXCEPT ![m] = "wait"]
  /\ UNCHANGED <<shard, chain, seen, tss, net, files, run, lost>>

\* What the worker had stored of its calls may be sent again.
Restart(m) ==
  /\ m \in Faulty /\ run[m] < MaxRuns
  /\ run' = [run EXCEPT ![m] = @ + 1]
  /\ tss' = [tss EXCEPT ![m] = NoTss]
  /\ phase' = [phase EXCEPT ![m] = "run"]
  /\ seen' = [seen EXCEPT ![m] = status]
  /\ net' = {msg \in net : msg.to # m}
  /\ txs' \in {txs, {tx \in txs : tx.by # m}}
  /\ UNCHANGED <<shard, chain, files, lost>>

lose(msg) ==
  /\ msg.from \in Faulty
  /\ net' = net \ {msg}
  /\ lost' = TRUE
  /\ UNCHANGED <<shard, chain, seen, tss, phase, txs, files, run>>

Init ==
  /\ shard \in {s \in SUBSET Member : Cardinality(s) \in Sizes}
  /\ status = "Created"
  /\ committed = NoPackages
  /\ ready = {}
  /\ group = None
  /\ seen = [m \in Member |-> "Created"]
  /\ tss = [m \in Member |-> NoTss]
  /\ phase = [m \in Member |-> "run"]
  /\ txs = {}
  /\ net = {}
  /\ files = [m \in Member |-> {}]
  /\ run = [m \in Member |-> 0]
  /\ lost = FALSE

Handle(m) ==
  \/ on_finality(m)
  \/ start(m)
  \/ recover(m)
  \/ on_commit(m)
  \/ \E msg \in net : on_message(m, msg)
  \/ Ready(m)
  \/ submit_online(m)

Next ==
  \/ \E m \in shard : Handle(m) \/ Restart(m)
  \/ \E tx \in txs : include(tx)
  \/ timeout_dkg
  \/ \E msg \in net : lose(msg)

Spec == Init /\ [][Next]_vars

\* Blocks are finalized, messages that are not lost arrive, and the worker gets every
\* call included (module Worker).
FairSpec ==
  /\ Spec
  /\ \A m \in Member : WF_vars(m \in shard /\ Handle(m))
  /\ WF_vars(\E tx \in txs : include(tx))

-----------------------------------------------------------------------------

Secrets == [Member -> Run \cup {None}]

TssState ==
  [state : {"none", "dkg", "roast", "failed"}, secret : Run \cup {None},
   commitment : Secrets \cup {None}, sent : BOOLEAN, packages : Secrets]

TypeOK ==
  /\ shard \in SUBSET Member
  /\ status \in {"Created", "Committed", "Online", "Offline"}
  /\ committed \in Secrets
  /\ ready \subseteq Member
  /\ group \in Secrets \cup {None}
  /\ seen \in [Member -> {"Created", "Committed", "Online", "Offline"}]
  /\ tss \in [Member -> TssState]
  /\ phase \in [Member -> Phase]
  /\ txs \subseteq [call : {"commit", "ready"}, by : Member, run : Run]
  /\ net \subseteq [from : Member, to : Member, secret : Run \cup {None}]
  /\ files \in [Member -> SUBSET Secrets]
  /\ run \in [Member -> Run]
  /\ lost \in BOOLEAN

\* A member that is Ready on the chain has the share of the group key on its disk, so
\* that a restart finds it (write_signing_share comes before submit_online).
ReadyHasShare ==
  \A m \in ready \ BadDisk : group \in files[m]

\* The shares of members that follow the protocol always match the group commitment,
\* even when a call of an earlier run is included late: the DKG does not fail.
HonestDkgSucceeds ==
  \A m \in Member : tss[m].state # "failed"

\* A handler that unwraps the answer to its call panics only when the DKG timed out in
\* between, or after a restart.
PanicsExplained ==
  \A m \in Member : phase[m] = "panic" => status = "Offline" \/ run[m] > 0

\* Without restarts and lost messages the shard comes online, unless it times out.
DkgCompletes ==
  <>(status \in {"Online", "Offline"} \/ lost \/ \E m \in Member : run[m] > 0)

\* Once the shard is online all its members can sign, also those that restart, at any
\* point of the DKG or later.
OnlineMembersCanSign ==
  status = "Online" ~> \A m \in shard \ BadDisk : tss[m].state = "roast"

=============================================================================
