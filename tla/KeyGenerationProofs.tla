------------------------- MODULE KeyGenerationProofs -------------------------
(***************************************************************************)
(* The key generation keeps its promises for every number of members, of   *)
(* shard sizes and of restarts: a member that is Ready has its share on    *)
(* disk, and the shares of members that follow the protocol fit.           *)
(***************************************************************************)
EXTENDS KeyGeneration, TLAPS

\* Time for the leaves, on a slow machine too.
USE ZenonT(5), SMTT(20)

\* The group commitment is made once, of the commitments of all members.
GroupInv ==
  /\ group # None => group = committed /\ \A k \in shard : committed[k] # None
  /\ \A k \in Member \ shard : committed[k] = None
  /\ status = "Created" => group = None
  /\ status \in {"Committed", "Online"} => group # None
  /\ ready # {} => group # None

\* A member sees what was on the chain.
SeenInv ==
  \A m \in Member :
    /\ seen[m] \in {"Committed", "Online"} => group # None
    /\ seen[m] = "Offline" => status = "Offline"

\* The file of a member that is a shard of its own.
SingleKey(m) == [NoPackages EXCEPT ![m] = run[m]]

\* In the DKG a member uses the secret of its run, which is the one it committed to.
SecretInv ==
  \A m \in Member : tss[m].state = "dkg" =>
    /\ tss[m].secret = run[m]
    /\ phase[m] = "run" => committed[m] = run[m]
    /\ shard = {m} => m \in BadDisk \/ SingleKey(m) \in files[m]

\* What a member received is what the group commitment says of its sender.
ReceivedInv ==
  /\ \A m \in Member :
       /\ tss[m].state # "failed"
       /\ tss[m].commitment # None => tss[m].commitment = group
       /\ \A k \in Member : tss[m].packages[k] # None =>
            group # None /\ k \in shard /\ tss[m].packages[k] = group[k]
  /\ \A msg \in net : group # None /\ msg.from \in shard /\ msg.secret = group[msg.from]

HasShare(m) == group # None /\ (m \in BadDisk \/ group \in files[m])

\* Between the end of the DKG and submit_online.
PhaseInv ==
  \A m \in Member :
    /\ phase[m] \in {"write", "online"} =>
         tss[m].state # "dkg" /\ seen[m] # "Created" /\ group # None
    /\ phase[m] = "write" => tss[m].commitment = group
    /\ phase[m] = "online" => HasShare(m)

\* A member calls ready after it has its share, and never goes back to the DKG.
CallInv ==
  \A tx \in txs :
    /\ tx.by \in shard /\ tx.run <= run[tx.by]
    /\ tx.call = "ready" =>
         /\ HasShare(tx.by)
         /\ tx.run = run[tx.by] => tss[tx.by].state # "dkg" /\ seen[tx.by] # "Created"

KInv ==
  /\ TypeOK /\ GroupInv /\ SeenInv /\ SecretInv /\ ReceivedInv /\ PhaseInv /\ CallInv
  /\ ReadyHasShare

-----------------------------------------------------------------------------
(* Every step keeps the invariant *)

\* A DKG that times out takes the shard off the chain.
LEMMA InvTimeout ==
  ASSUME KInv, timeout_dkg
  PROVE  KInv'
<1> USE RunsAssumption
<1>1. TypeOK'
  BY DEF KInv, TypeOK, Secrets, TssState, Phase, Run, timeout_dkg
<1>2. GroupInv'
  BY DEF KInv, TypeOK, Secrets, TssState, Phase, Run, GroupInv, timeout_dkg
<1>3. SeenInv'
  BY DEF KInv, TypeOK, Secrets, TssState, Phase, Run, SeenInv, GroupInv, timeout_dkg
<1>4. SecretInv'
  BY DEF KInv, TypeOK, Secrets, TssState, Phase, Run, SecretInv, GroupInv, SeenInv, CallInv, PhaseInv, SingleKey, timeout_dkg
<1>5. ReceivedInv'
  BY DEF KInv, TypeOK, Secrets, TssState, Phase, Run, ReceivedInv, GroupInv, SeenInv, SecretInv, CallInv, timeout_dkg
<1>6. PhaseInv'
  BY DEF KInv, TypeOK, Secrets, TssState, Phase, Run, PhaseInv, SeenInv, GroupInv, HasShare, ReceivedInv, SecretInv, CallInv, timeout_dkg
<1>7. CallInv'
  BY DEF KInv, TypeOK, Secrets, TssState, Phase, Run, CallInv, PhaseInv, HasShare, SeenInv, GroupInv, timeout_dkg
<1>8. ReadyHasShare'
  BY DEF KInv, TypeOK, Secrets, TssState, Phase, Run, ReadyHasShare, GroupInv, CallInv, HasShare, timeout_dkg
<1> QED BY <1>1, <1>2, <1>3, <1>4, <1>5, <1>6, <1>7, <1>8 DEF KInv

\* A message is lost.
LEMMA InvLose ==
  ASSUME KInv, NEW msg \in net, lose(msg)
  PROVE  KInv'
<1> USE RunsAssumption
<1>1. TypeOK'
  BY DEF KInv, TypeOK, Secrets, TssState, Phase, Run, lose, chain
<1>2. GroupInv'
  BY DEF KInv, TypeOK, Secrets, TssState, Phase, Run, GroupInv, lose, chain
<1>3. SeenInv'
  BY DEF KInv, TypeOK, Secrets, TssState, Phase, Run, SeenInv, GroupInv, lose, chain
<1>4. SecretInv'
  BY DEF KInv, TypeOK, Secrets, TssState, Phase, Run, SecretInv, GroupInv, SeenInv, CallInv, PhaseInv, SingleKey, lose, chain
<1>5. ReceivedInv'
  BY DEF KInv, TypeOK, Secrets, TssState, Phase, Run, ReceivedInv, GroupInv, SeenInv, SecretInv, CallInv, lose, chain
<1>6. PhaseInv'
  BY DEF KInv, TypeOK, Secrets, TssState, Phase, Run, PhaseInv, SeenInv, GroupInv, HasShare, ReceivedInv, SecretInv, CallInv, lose, chain
<1>7. CallInv'
  BY DEF KInv, TypeOK, Secrets, TssState, Phase, Run, CallInv, PhaseInv, HasShare, SeenInv, GroupInv, lose, chain
<1>8. ReadyHasShare'
  BY DEF KInv, TypeOK, Secrets, TssState, Phase, Run, ReadyHasShare, GroupInv, CallInv, HasShare, lose, chain
<1> QED BY <1>1, <1>2, <1>3, <1>4, <1>5, <1>6, <1>7, <1>8 DEF KInv

\* A finalized block is handled.
LEMMA InvFinality ==
  ASSUME KInv, NEW m \in shard, on_finality(m)
  PROVE  KInv'
<1> USE RunsAssumption
<1>1. TypeOK'
  BY DEF KInv, TypeOK, Secrets, TssState, Phase, Run, on_finality, Following, chain, NoTss, NoPackages
<1>2. GroupInv'
  BY DEF KInv, TypeOK, Secrets, TssState, Phase, Run, GroupInv, on_finality, Following, chain, NoTss, NoPackages
<1>3. SeenInv'
  BY DEF KInv, TypeOK, Secrets, TssState, Phase, Run, SeenInv, GroupInv, on_finality, Following, chain, NoTss, NoPackages
<1>4. SecretInv'
  BY DEF KInv, TypeOK, Secrets, TssState, Phase, Run, SecretInv, GroupInv, SeenInv, CallInv, PhaseInv, SingleKey, on_finality, Following, chain, NoTss, NoPackages
<1>5. ReceivedInv'
  BY DEF KInv, TypeOK, Secrets, TssState, Phase, Run, ReceivedInv, GroupInv, SeenInv, SecretInv, CallInv, on_finality, Following, chain, NoTss, NoPackages
<1>6. PhaseInv'
  BY DEF KInv, TypeOK, Secrets, TssState, Phase, Run, PhaseInv, SeenInv, GroupInv, HasShare, ReceivedInv, SecretInv, CallInv, on_finality, Following, chain, NoTss, NoPackages
<1>7. CallInv'
  BY DEF KInv, TypeOK, Secrets, TssState, Phase, Run, CallInv, PhaseInv, HasShare, SeenInv, GroupInv, on_finality, Following, chain, NoTss, NoPackages
<1>8. ReadyHasShare'
  BY DEF KInv, TypeOK, Secrets, TssState, Phase, Run, ReadyHasShare, GroupInv, CallInv, HasShare, on_finality, Following, chain, NoTss, NoPackages
<1> QED BY <1>1, <1>2, <1>3, <1>4, <1>5, <1>6, <1>7, <1>8 DEF KInv

\* A member recovers its share.
LEMMA InvRecover ==
  ASSUME KInv, NEW m \in shard, recover(m)
  PROVE  KInv'
<1> USE RunsAssumption
<1>1. TypeOK'
  <2>1. group \in Secrets
    BY DEF KInv, TypeOK, recover
  <2>2. [tss[m] EXCEPT !.state = "roast", !.commitment = group] \in TssState
    <3>1. tss[m] \in TssState
      BY DEF KInv, TypeOK
    <3> QED BY <2>1, <3>1 DEF TssState
  <2>3. tss' \in [Member -> TssState]
    BY <2>2 DEF KInv, TypeOK, recover, TssState
  <2> QED BY <2>3 DEF KInv, TypeOK, recover, chain
<1>2. GroupInv'
  BY DEF KInv, TypeOK, Secrets, TssState, Phase, Run, GroupInv, recover, chain
<1>3. SeenInv'
  BY DEF KInv, TypeOK, Secrets, TssState, Phase, Run, SeenInv, GroupInv, recover, chain
<1>4. SecretInv'
  BY DEF KInv, TypeOK, Secrets, TssState, Phase, Run, SecretInv, GroupInv, SeenInv, CallInv, PhaseInv, SingleKey, recover, chain
<1>5. ReceivedInv'
  BY DEF KInv, TypeOK, Secrets, TssState, Phase, Run, ReceivedInv, GroupInv, SeenInv, SecretInv, CallInv, recover, chain
<1>6. PhaseInv'
  BY DEF KInv, TypeOK, Secrets, TssState, Phase, Run, PhaseInv, SeenInv, GroupInv, HasShare, ReceivedInv, SecretInv, CallInv, recover, chain
<1>7. CallInv'
  BY DEF KInv, TypeOK, Secrets, TssState, Phase, Run, CallInv, PhaseInv, HasShare, SeenInv, GroupInv, recover, chain
<1>8. ReadyHasShare'
  BY DEF KInv, TypeOK, Secrets, TssState, Phase, Run, ReadyHasShare, GroupInv, CallInv, HasShare, recover, chain
<1> QED BY <1>1, <1>2, <1>3, <1>4, <1>5, <1>6, <1>7, <1>8 DEF KInv

\* A member writes its share.
LEMMA InvReady ==
  ASSUME KInv, NEW m \in shard, Ready(m)
  PROVE  KInv'
<1> USE RunsAssumption
<1>1. TypeOK'
  <2>1. tss[m].commitment \in Secrets
    BY DEF KInv, TypeOK, PhaseInv, Ready
  <2>2. files' \in [Member -> SUBSET Secrets]
    BY <2>1 DEF KInv, TypeOK, Ready, write_signing_share
  <2> QED BY <2>2 DEF KInv, TypeOK, Ready, chain, Phase
<1>2. GroupInv'
  BY DEF KInv, TypeOK, Secrets, TssState, Phase, Run, GroupInv, Ready, write_signing_share, chain
<1>3. SeenInv'
  BY DEF KInv, TypeOK, Secrets, TssState, Phase, Run, SeenInv, GroupInv, Ready, write_signing_share, chain
<1>4. SecretInv'
  BY DEF KInv, TypeOK, Secrets, TssState, Phase, Run, SecretInv, GroupInv, SeenInv, CallInv, PhaseInv, SingleKey, Ready, write_signing_share, chain
<1>5. ReceivedInv'
  BY DEF KInv, TypeOK, Secrets, TssState, Phase, Run, ReceivedInv, GroupInv, SeenInv, SecretInv, CallInv, Ready, write_signing_share, chain
<1>6. PhaseInv'
  BY DEF KInv, TypeOK, Secrets, TssState, Phase, Run, PhaseInv, SeenInv, GroupInv, HasShare, ReceivedInv, SecretInv, CallInv, Ready, write_signing_share, chain
<1>7. CallInv'
  BY DEF KInv, TypeOK, Secrets, TssState, Phase, Run, CallInv, PhaseInv, HasShare, SeenInv, GroupInv, Ready, write_signing_share, chain
<1>8. ReadyHasShare'
  BY DEF KInv, TypeOK, Secrets, TssState, Phase, Run, ReadyHasShare, GroupInv, CallInv, HasShare, Ready, write_signing_share, chain
<1> QED BY <1>1, <1>2, <1>3, <1>4, <1>5, <1>6, <1>7, <1>8 DEF KInv

\* A member calls ready.
LEMMA InvSubmitOnline ==
  ASSUME KInv, NEW m \in shard, submit_online(m)
  PROVE  KInv'
<1> USE RunsAssumption
<1>1. TypeOK'
  BY DEF KInv, TypeOK, Secrets, TssState, Phase, Run, submit_online, Readying, chain
<1>2. GroupInv'
  BY DEF KInv, TypeOK, Secrets, TssState, Phase, Run, GroupInv, submit_online, Readying, chain
<1>3. SeenInv'
  BY DEF KInv, TypeOK, Secrets, TssState, Phase, Run, SeenInv, GroupInv, submit_online, Readying, chain
<1>4. SecretInv'
  BY DEF KInv, TypeOK, Secrets, TssState, Phase, Run, SecretInv, GroupInv, SeenInv, CallInv, PhaseInv, SingleKey, submit_online, Readying, chain
<1>5. ReceivedInv'
  BY DEF KInv, TypeOK, Secrets, TssState, Phase, Run, ReceivedInv, GroupInv, SeenInv, SecretInv, CallInv, submit_online, Readying, chain
<1>6. PhaseInv'
  BY DEF KInv, TypeOK, Secrets, TssState, Phase, Run, PhaseInv, SeenInv, GroupInv, HasShare, ReceivedInv, SecretInv, CallInv, submit_online, Readying, chain
<1>7. CallInv'
  BY DEF KInv, TypeOK, Secrets, TssState, Phase, Run, CallInv, PhaseInv, HasShare, SeenInv, GroupInv, submit_online, Readying, chain
<1>8. ReadyHasShare'
  BY DEF KInv, TypeOK, Secrets, TssState, Phase, Run, ReadyHasShare, GroupInv, CallInv, HasShare, submit_online, Readying, chain
<1> QED BY <1>1, <1>2, <1>3, <1>4, <1>5, <1>6, <1>7, <1>8 DEF KInv

\* A member's process restarts.
LEMMA InvRestart ==
  ASSUME KInv, NEW m \in shard, Restart(m)
  PROVE  KInv'
<1> USE RunsAssumption
<1>1. TypeOK'
  BY DEF KInv, TypeOK, Secrets, TssState, Phase, Run, Restart, chain, NoTss, NoPackages
<1>2. GroupInv'
  BY DEF KInv, TypeOK, Secrets, TssState, Phase, Run, GroupInv, Restart, chain, NoTss, NoPackages
<1>3. SeenInv'
  BY DEF KInv, TypeOK, Secrets, TssState, Phase, Run, SeenInv, GroupInv, Restart, chain, NoTss, NoPackages
<1>4. SecretInv'
  BY DEF KInv, TypeOK, Secrets, TssState, Phase, Run, SecretInv, GroupInv, SeenInv, CallInv, PhaseInv, SingleKey, Restart, chain, NoTss, NoPackages
<1>5. ReceivedInv'
  BY DEF KInv, TypeOK, Secrets, TssState, Phase, Run, ReceivedInv, GroupInv, SeenInv, SecretInv, CallInv, Restart, chain, NoTss, NoPackages
<1>6. PhaseInv'
  BY DEF KInv, TypeOK, Secrets, TssState, Phase, Run, PhaseInv, SeenInv, GroupInv, HasShare, ReceivedInv, SecretInv, CallInv, Restart, chain, NoTss, NoPackages
<1>7. CallInv'
  BY DEF KInv, TypeOK, Secrets, TssState, Phase, Run, CallInv, PhaseInv, HasShare, SeenInv, GroupInv, Restart, chain, NoTss, NoPackages
<1>8. ReadyHasShare'
  BY DEF KInv, TypeOK, Secrets, TssState, Phase, Run, ReadyHasShare, GroupInv, CallInv, HasShare, Restart, chain, NoTss, NoPackages
<1> QED BY <1>1, <1>2, <1>3, <1>4, <1>5, <1>6, <1>7, <1>8 DEF KInv

\* A member starts the DKG.
LEMMA InvStart ==
  ASSUME KInv, NEW m \in shard, start(m)
  PROVE  KInv'
<1> USE RunsAssumption
<1>1. TypeOK'
  <2>1. [tss[m] EXCEPT !.state = "dkg", !.secret = run[m]] \in TssState
    <3>1. tss[m] \in TssState /\ run[m] \in Run
      BY DEF KInv, TypeOK
    <3> QED BY <3>1 DEF TssState
  <2>2. tss' \in [Member -> TssState]
    BY <2>1 DEF KInv, TypeOK, start, TssState
  <2>3. SingleKey(m) \in Secrets
    BY DEF KInv, TypeOK, SingleKey, NoPackages, Secrets
  <2>4. files' \in [Member -> SUBSET Secrets]
    BY <2>3 DEF KInv, TypeOK, start, SingleKey
  <2>5. Committing(m) \in [call : {"commit", "ready"}, by : Member, run : Run]
    BY DEF KInv, TypeOK, Committing
  <2> QED BY <2>2, <2>4, <2>5 DEF KInv, TypeOK, start, chain, Phase
<1>2. GroupInv'
  BY DEF KInv, TypeOK, Secrets, TssState, Phase, Run, GroupInv, start, Committing, chain, NoTss, NoPackages
<1>3. SeenInv'
  BY DEF KInv, TypeOK, Secrets, TssState, Phase, Run, SeenInv, GroupInv, start, Committing, chain, NoTss, NoPackages
<1>4. SecretInv'
  BY DEF KInv, TypeOK, Secrets, TssState, Phase, Run, SecretInv, GroupInv, SeenInv, CallInv, PhaseInv, SingleKey, start, Committing, chain, NoTss, NoPackages
<1>5. ReceivedInv'
  BY DEF KInv, TypeOK, Secrets, TssState, Phase, Run, ReceivedInv, GroupInv, SeenInv, SecretInv, CallInv, start, Committing, chain, NoTss, NoPackages
<1>6. PhaseInv'
  BY DEF KInv, TypeOK, Secrets, TssState, Phase, Run, PhaseInv, SeenInv, GroupInv, HasShare, ReceivedInv, SecretInv, CallInv, start, Committing, chain, NoTss, NoPackages
<1>7. CallInv'
  BY DEF KInv, TypeOK, Secrets, TssState, Phase, Run, CallInv, PhaseInv, HasShare, SeenInv, GroupInv, start, Committing, chain, NoTss, NoPackages
<1>8. ReadyHasShare'
  BY DEF KInv, TypeOK, Secrets, TssState, Phase, Run, ReadyHasShare, GroupInv, CallInv, HasShare, start, Committing, chain, NoTss, NoPackages
<1> QED BY <1>1, <1>2, <1>3, <1>4, <1>5, <1>6, <1>7, <1>8 DEF KInv

-----------------------------------------------------------------------------
(* Polling the DKG *)

\* The state of a member that has the group commitment, and packages of its shard.
Pollable(m, t) ==
  /\ t \in TssState
  /\ t.secret = run[m] /\ committed[m] = run[m]
  /\ group # None /\ t.commitment = group
  /\ \A k \in Member : t.packages[k] # None => k \in shard /\ t.packages[k] = group[k]

\* Polling ends the DKG when all packages are there, and never fails: the shares
\* sum up to the group commitment.
LEMMA PolledFits ==
  ASSUME KInv, NEW m \in shard, NEW t, Pollable(m, t)
  PROVE  /\ Polled(m, t) \in TssState
         /\ Polled(m, t).state \in {"dkg", "roast"}
         /\ Polled(m, t).secret = t.secret
         /\ Polled(m, t).commitment = t.commitment
         /\ Polled(m, t).packages = t.packages
<1>1. t \in TssState /\ m \in Member
  BY DEF Pollable, KInv, TypeOK
<1>2. ASSUME \A k \in shard \ {m} : t.packages[k] # None
      PROVE  Sum(m, t) = t.commitment
  <2>1. group \in [Member -> Run \cup {None}] /\ group = committed
    BY DEF Pollable, KInv, TypeOK, GroupInv, Secrets
  <2>2. ASSUME NEW k \in Member PROVE Sum(m, t)[k] = group[k]
    <3>1. CASE k = m
      BY <2>1, <3>1 DEF Sum, Pollable
    <3>2. CASE k \in shard \ {m}
      BY <1>2, <3>2 DEF Sum, Pollable
    <3>3. CASE k \notin shard
      BY <1>1, <2>1, <3>3 DEF Sum, Pollable, KInv, GroupInv
    <3> QED BY <3>1, <3>2, <3>3
  <2> QED BY <2>1, <2>2 DEF Sum, Pollable
<1>3. CASE \E k \in shard \ {m} : t.packages[k] = None
  BY <1>1, <1>3 DEF Polled, TssState
<1>4. CASE \A k \in shard \ {m} : t.packages[k] # None
  BY <1>1, <1>2, <1>4 DEF Polled, TssState, share_ok
<1> QED BY <1>3, <1>4

PollStep(m, t, others) ==
  /\ poll_actions(m, t, others)
  /\ UNCHANGED <<shard, chain, seen, txs, files, run, lost>>

\* A member in the DKG that is polled keeps the invariant.
LEMMA InvPoll ==
  ASSUME KInv, NEW m \in shard, NEW t, NEW others \in SUBSET net, Pollable(m, t),
         phase[m] = "run", tss[m].state = "dkg", seen[m] # "Created",
         PollStep(m, t, others)
  PROVE  KInv'
<1> USE RunsAssumption
<1> DEFINE p == Polled(m, t)
<1>1. /\ p \in TssState /\ p.state \in {"dkg", "roast"} /\ p.secret = t.secret
      /\ p.commitment = t.commitment /\ p.packages = t.packages
  BY PolledFits
<1>2. tss' = [tss EXCEPT ![m] = p] /\ m \in Member
  BY DEF PollStep, poll_actions, KInv, TypeOK
<1>3. phase' = [phase EXCEPT ![m] = IF p.state = "roast" THEN "write" ELSE @]
  BY DEF PollStep, poll_actions
<1>4. net' \subseteq net \cup Packages(m, t)
  BY DEF PollStep, poll_actions
<1>5. UNCHANGED <<shard, status, committed, ready, group, seen, txs, files, run, lost>>
  BY DEF PollStep, chain
<1> HIDE DEF p
<1>6. \A msg \in Packages(m, t) :
        /\ msg \in [from : Member, to : Member, secret : Run \cup {None}]
        /\ msg.from = m /\ msg.secret = run[m]
  BY <1>2 DEF Packages, Pollable, KInv, TypeOK
<1>7. TypeOK'
  BY <1>1, <1>2, <1>3, <1>4, <1>5, <1>6 DEF KInv, TypeOK, Phase
<1>8. GroupInv'
  BY <1>5 DEF KInv, GroupInv
<1>9. SeenInv'
  BY <1>5 DEF KInv, SeenInv
<1>10. SecretInv'
  BY <1>1, <1>2, <1>3, <1>5, ZenonT(40) DEF KInv, TypeOK, SecretInv, SingleKey, Pollable
<1>11. ReceivedInv'
  <2>1. group[m] = run[m]
    BY DEF KInv, GroupInv, Pollable
  <2> QED BY <1>1, <1>2, <1>4, <1>5, <1>6, <2>1 DEF KInv, TypeOK, ReceivedInv, Pollable
<1>12. PhaseInv'
  BY <1>1, <1>2, <1>3, <1>5 DEF KInv, TypeOK, PhaseInv, HasShare, Pollable
<1>13. CallInv'
  BY <1>1, <1>2, <1>5 DEF KInv, TypeOK, CallInv, HasShare
<1>14. ReadyHasShare'
  BY <1>5 DEF KInv, ReadyHasShare
<1> QED BY <1>7, <1>8, <1>9, <1>10, <1>11, <1>12, <1>13, <1>14 DEF KInv

\* The group commitment reaches a member.
LEMMA InvOnCommit ==
  ASSUME KInv, NEW m \in shard, on_commit(m)
  PROVE  KInv'
<1> USE RunsAssumption
<1>1. m \in Member /\ tss[m] \in TssState /\ group # None /\ group \in Secrets
  BY DEF KInv, TypeOK, SeenInv, on_commit
<1>2. CASE shard = {m}
  <2> DEFINE t == [tss[m] EXCEPT !.state = "roast", !.commitment = group]
  <2>1. t \in TssState /\ t.state = "roast" /\ t.commitment = group /\ t.packages = tss[m].packages
    BY <1>1 DEF TssState
  <2>2. tss' = [tss EXCEPT ![m] = t]
    BY <1>1, <1>2 DEF on_commit, KInv, TypeOK, TssState
  <2>3. /\ phase' = [phase EXCEPT ![m] = "online"]
        /\ UNCHANGED <<shard, status, committed, ready, group, seen, txs, net, files, run, lost>>
    BY <1>2 DEF on_commit, chain
  <2>4. group = SingleKey(m)
    <3>1. /\ committed[m] = run[m] /\ group = committed
          /\ \A k \in Member : k # m => committed[k] = None
      BY <1>1, <1>2 DEF KInv, GroupInv, SecretInv, on_commit
    <3> QED BY <1>1, <3>1 DEF SingleKey, NoPackages, Secrets
  <2>5. HasShare(m)
    BY <1>1, <1>2, <2>4 DEF KInv, SecretInv, on_commit, HasShare
  <2> HIDE DEF t
  <2>6. TypeOK'
    BY <1>1, <2>1, <2>2, <2>3 DEF KInv, TypeOK, Phase
  <2>7. GroupInv' /\ SeenInv' /\ ReadyHasShare'
    BY <2>3 DEF KInv, GroupInv, SeenInv, ReadyHasShare
  <2>8. SecretInv'
    BY <1>1, <2>1, <2>2, <2>3 DEF KInv, TypeOK, SecretInv, SingleKey
  <2>9. ReceivedInv'
    BY <1>1, <2>1, <2>2, <2>3 DEF KInv, TypeOK, ReceivedInv
  <2>10. PhaseInv'
    BY <1>1, <2>1, <2>2, <2>3, <2>5 DEF KInv, TypeOK, PhaseInv, HasShare, on_commit
  <2>11. CallInv'
    BY <1>1, <2>1, <2>2, <2>3 DEF KInv, TypeOK, CallInv, HasShare
  <2> QED BY <2>6, <2>7, <2>8, <2>9, <2>10, <2>11 DEF KInv
<1>3. CASE shard # {m}
  <2> DEFINE t == [tss[m] EXCEPT !.commitment = group]
  <2>1. t \in TssState /\ t.secret = tss[m].secret /\ t.commitment = group
        /\ t.packages = tss[m].packages
    BY <1>1 DEF TssState
  <2>2. PollStep(m, t, net)
    BY <1>3 DEF on_commit, PollStep
  <2>3. phase[m] = "run" /\ tss[m].state = "dkg" /\ seen[m] # "Created"
    BY DEF on_commit
  <2> HIDE DEF t
  <2>4. Pollable(m, t)
    BY <1>1, <2>1, <2>3 DEF Pollable, KInv, SecretInv, ReceivedInv
  <2> QED BY <2>2, <2>3, <2>4, InvPoll
<1> QED BY <1>2, <1>3

\* A package of the second round reaches a member.
LEMMA InvOnMessage ==
  ASSUME KInv, NEW m \in shard, NEW msg \in net, on_message(m, msg)
  PROVE  KInv'
<1> USE RunsAssumption
<1>1. m \in Member /\ tss[m] \in TssState
  BY DEF KInv, TypeOK
<1>2. CASE tss[m].state = "dkg"
  <2> DEFINE t == [tss[m] EXCEPT !.packages[msg.from] = msg.secret]
  <2>0. msg.from \in Member /\ msg.secret \in Run \cup {None}
    BY DEF KInv, TypeOK
  <2>1. t \in TssState /\ t.secret = tss[m].secret /\ t.commitment = tss[m].commitment
        /\ t.packages = [tss[m].packages EXCEPT ![msg.from] = msg.secret]
    BY <1>1, <2>0 DEF TssState, Secrets
  <2>2. PollStep(m, t, net \ {msg})
    BY <1>2 DEF on_message, PollStep
  <2>3. phase[m] = "run" /\ seen[m] # "Created" /\ tss[m].commitment # None
    BY <1>2 DEF on_message
  <2>4. tss[m].packages \in [Member -> Run \cup {None}]
    BY <1>1 DEF TssState, Secrets
  <2> HIDE DEF t
  <2>5. Pollable(m, t)
    BY <1>1, <1>2, <2>0, <2>1, <2>3, <2>4 DEF Pollable, KInv, SecretInv, ReceivedInv
  <2> QED BY <1>2, <2>2, <2>3, <2>5, InvPoll
<1>3. CASE tss[m].state # "dkg"
  <2>1. /\ net' \subseteq net
        /\ UNCHANGED <<shard, status, committed, ready, group, seen, tss, phase, txs, files, run, lost>>
    BY <1>3 DEF on_message, chain
  <2>2. TypeOK' /\ GroupInv' /\ SeenInv' /\ ReadyHasShare'
    BY <2>1 DEF KInv, TypeOK, GroupInv, SeenInv, ReadyHasShare
  <2>3. SecretInv' /\ ReceivedInv'
    BY <2>1 DEF KInv, SecretInv, ReceivedInv, SingleKey
  <2>4. PhaseInv' /\ CallInv'
    BY <2>1 DEF KInv, PhaseInv, CallInv, HasShare
  <2> QED BY <2>2, <2>3, <2>4 DEF KInv
<1> QED BY <1>2, <1>3

-----------------------------------------------------------------------------
(* Calls on the chain *)

\* A call is included: the commitment that completes the group's is the last, and
\* whoever called ready has its share.
LEMMA InvInclude ==
  ASSUME KInv, NEW tx \in txs, include(tx)
  PROVE  KInv'
<1> USE RunsAssumption
<1> DEFINE m == tx.by
           ok == IF tx.call = "commit" THEN can_commit(m) ELSE can_ready(m)
<1>1. m \in shard /\ m \in Member /\ tx.run \in Run /\ tx.call \in {"commit", "ready"}
  BY DEF KInv, TypeOK, CallInv
<1>2. /\ txs' = txs \ {tx}
      /\ phase' = [phase EXCEPT ![m] =
           IF tx.run # run[m] THEN @ ELSE IF ok THEN "run" ELSE "panic"]
      /\ UNCHANGED <<shard, seen, tss, net, files, run, lost>>
  BY DEF include
<1>3. CASE ~ok
  <2>1. UNCHANGED <<status, committed, ready, group>>
    BY <1>3 DEF include, chain
  <2>2. phase' = [phase EXCEPT ![m] = IF tx.run # run[m] THEN @ ELSE "panic"]
    BY <1>2, <1>3
  <2> HIDE DEF ok, m
  <2>3. TypeOK' /\ GroupInv' /\ SeenInv' /\ ReadyHasShare'
    BY <1>1, <1>2, <2>1, <2>2 DEF KInv, TypeOK, Phase, GroupInv, SeenInv, ReadyHasShare
  <2>4. SecretInv' /\ ReceivedInv'
    <3>1. SecretInv'
      <4>1. \A k \in Member : phase'[k] = "run" => phase[k] = "run"
        BY <2>2 DEF KInv, TypeOK
      <4> QED BY <1>2, <2>1, <4>1 DEF KInv, SecretInv, SingleKey
    <3>2. ReceivedInv'
      BY <1>2, <2>1 DEF KInv, ReceivedInv
    <3> QED BY <3>1, <3>2
  <2>5. PhaseInv' /\ CallInv'
    BY <1>1, <1>2, <2>1, <2>2 DEF KInv, TypeOK, PhaseInv, CallInv, HasShare
  <2> QED BY <2>3, <2>4, <2>5 DEF KInv
<1>4. CASE ok /\ tx.call = "commit"
  <2>1. can_commit(m) /\ execute_commit(m, tx.run)
    BY <1>4 DEF include
  <2>2. phase' = [phase EXCEPT ![m] = IF tx.run # run[m] THEN @ ELSE "run"]
    BY <1>2, <1>4
  <2> HIDE DEF ok, m
  <2>3. group = None /\ committed[m] = None /\ ready = {} /\ status = "Created"
    BY <1>1, <2>1 DEF KInv, TypeOK, GroupInv, can_commit
  <2>4. committed' = [committed EXCEPT ![m] = tx.run] /\ committed' \in Secrets /\ ready' = ready
    BY <1>1, <2>1 DEF execute_commit, KInv, TypeOK, Secrets
  <2>5. \/ group' = group /\ status' = status
        \/ group' = committed' /\ status' = "Committed" /\ \A k \in shard : committed'[k] # None
    BY <2>1 DEF execute_commit
  <2>6. group' # None \/ group' = group
    BY <2>4, <2>5 DEF Secrets
  <2>7. TypeOK'
    BY <1>1, <1>2, <2>2, <2>4, <2>5, ZenonT(40) DEF KInv, TypeOK, Phase
  <2>8. GroupInv'
    BY <1>1, <1>2, <2>3, <2>4, <2>5, <2>6 DEF KInv, TypeOK, GroupInv, Secrets
  <2>9. SeenInv'
    BY <1>2, <2>3, <2>5, <2>6 DEF KInv, TypeOK, SeenInv
  <2>10. SecretInv'
    <3> SUFFICES ASSUME NEW k \in Member, tss[k].state = "dkg"
                 PROVE  /\ tss[k].secret = run[k]
                        /\ phase'[k] = "run" => committed'[k] = run[k]
                        /\ shard = {k} => k \in BadDisk \/ SingleKey(k) \in files[k]
      BY <1>2 DEF SecretInv, SingleKey
    <3>1. run[k] \in Nat /\ phase[k] \in Phase
      BY DEF KInv, TypeOK, Run
    <3>2. phase[k] = "run" => committed[k] = run[k] /\ k # m
      BY <2>3, <3>1 DEF KInv, SecretInv
    <3>3. phase'[k] = "run" => committed'[k] = run[k]
      BY <1>1, <2>2, <2>4, <3>2 DEF KInv, TypeOK, Secrets
    <3> QED BY <3>3 DEF KInv, SecretInv
  <2>11. ReceivedInv'
    BY <1>2, <2>3 DEF KInv, TypeOK, ReceivedInv
  <2>12. PhaseInv'
    BY <1>1, <1>2, <2>2, <2>3 DEF KInv, TypeOK, PhaseInv, HasShare
  <2>13. CallInv'
    BY <1>2, <2>3 DEF KInv, TypeOK, CallInv, HasShare
  <2>14. ReadyHasShare'
    BY <2>3, <2>4 DEF ReadyHasShare
  <2> QED BY <2>7, <2>8, <2>9, <2>10, <2>11, <2>12, <2>13, <2>14 DEF KInv
<1>5. CASE ok /\ tx.call = "ready"
  <2>1. can_ready(m) /\ execute_ready(m)
    BY <1>5 DEF include
  <2>2. phase' = [phase EXCEPT ![m] = IF tx.run # run[m] THEN @ ELSE "run"]
    BY <1>2, <1>5
  <2> HIDE DEF ok, m
  <2>3. group # None /\ HasShare(m) /\ (tx.run = run[m] => tss[m].state # "dkg")
    BY <1>5, <2>1 DEF KInv, CallInv, can_ready, m
  <2>4. /\ ready' = ready \cup {m}
        /\ status' \in {status, "Online"}
        /\ UNCHANGED <<committed, group>>
    BY <2>1 DEF execute_ready
  <2>5. TypeOK'
    BY <1>1, <1>2, <2>2, <2>4 DEF KInv, TypeOK, Phase
  <2>6. GroupInv'
    BY <1>1, <1>2, <2>3, <2>4 DEF KInv, TypeOK, GroupInv
  <2>7. SeenInv'
    BY <1>1, <1>2, <2>1, <2>4 DEF KInv, TypeOK, SeenInv, can_ready
  <2>8. SecretInv' /\ ReceivedInv'
    <3>1. SecretInv'
      BY <1>1, <1>2, <2>2, <2>3, <2>4, ZenonT(40) DEF KInv, TypeOK, SecretInv, SingleKey
    <3>2. ReceivedInv'
      BY <1>2, <2>4 DEF KInv, ReceivedInv
    <3> QED BY <3>1, <3>2
  <2>9. PhaseInv' /\ CallInv'
    BY <1>1, <1>2, <2>2, <2>4 DEF KInv, TypeOK, PhaseInv, CallInv, HasShare
  <2>10. ReadyHasShare'
    BY <1>2, <2>3, <2>4 DEF KInv, ReadyHasShare, HasShare
  <2> QED BY <2>5, <2>6, <2>7, <2>8, <2>9, <2>10 DEF KInv
<1> QED BY <1>1, <1>3, <1>4, <1>5

-----------------------------------------------------------------------------
(* Theorems *)

\* Initially nobody has a key, and nothing was sent.
LEMMA InvInit == Init => KInv
<1> USE RunsAssumption
<1> SUFFICES ASSUME Init PROVE KInv
  OBVIOUS
<1>1. NoTss \in TssState /\ NoPackages \in Secrets
  BY DEF NoTss, NoPackages, TssState, Secrets
<1>2. TypeOK
  <2>1. 0 \in Run
    BY DEF Run
  <2> QED BY <1>1, <2>1 DEF Init, TypeOK, Phase
<1>3. GroupInv /\ SeenInv /\ SecretInv /\ PhaseInv
  BY DEF Init, GroupInv, SeenInv, SecretInv, PhaseInv, HasShare, NoPackages, NoTss
<1>4. ReceivedInv /\ CallInv /\ ReadyHasShare
  BY DEF Init, ReceivedInv, CallInv, ReadyHasShare, NoPackages, NoTss
<1> QED BY <1>2, <1>3, <1>4 DEF KInv

\* A step of the system, or none, keeps the invariant.
LEMMA InvStep == KInv /\ [Next]_vars => KInv'
<1> SUFFICES ASSUME KInv, [Next]_vars PROVE KInv'
  OBVIOUS
<1>1. ASSUME NEW m \in shard, Handle(m) PROVE KInv'
  <2>1. CASE \E msg \in net : on_message(m, msg)
    BY <2>1, InvOnMessage
  <2>2. CASE on_finality(m) \/ start(m) \/ recover(m) \/ on_commit(m)
    BY <2>2, InvFinality, InvStart, InvRecover, InvOnCommit
  <2>3. CASE Ready(m) \/ submit_online(m)
    BY <2>3, InvReady, InvSubmitOnline
  <2> QED BY <1>1, <2>1, <2>2, <2>3 DEF Handle
<1>2. ASSUME NEW m \in shard, Restart(m) PROVE KInv'
  BY <1>2, InvRestart
<1>3. CASE \E tx \in txs : include(tx)
  BY <1>3, InvInclude
<1>4. CASE timeout_dkg \/ \E msg \in net : lose(msg)
  BY <1>4, InvTimeout, InvLose
<1>5. CASE UNCHANGED vars
  <2>1. TypeOK' /\ GroupInv' /\ SeenInv' /\ ReadyHasShare'
    BY <1>5 DEF KInv, vars, chain, TypeOK, GroupInv, SeenInv, ReadyHasShare
  <2>2. SecretInv' /\ ReceivedInv' /\ PhaseInv' /\ CallInv'
    BY <1>5 DEF KInv, vars, chain, SecretInv, ReceivedInv, PhaseInv, CallInv, HasShare, SingleKey
  <2> QED BY <2>1, <2>2 DEF KInv
<1> QED BY <1>1, <1>2, <1>3, <1>4, <1>5 DEF Next

\* The invariant of the key generation: the group commitment is fixed once it is made,
\* and what members send, receive and store is what it says.
THEOREM KeyInvariant == Spec => []KInv
BY InvInit, InvStep, PTL DEF Spec

\* Whoever is Ready on the chain has the share of the group key on its disk, whatever
\* restarts, is lost or times out: write_signing_share comes before submit_online.
THEOREM ReadyMembersHaveShares == Spec => []ReadyHasShare
<1>1. KInv => ReadyHasShare
  BY DEF KInv
<1> QED BY <1>1, KeyInvariant, PTL

\* The DKG of members that follow the protocol does not fail: a process that restarts
\* has a new secret, and its shares are only used if that is the one it committed to.
THEOREM DkgNeverFails == Spec => []HonestDkgSucceeds
<1>1. KInv => HonestDkgSucceeds
  BY DEF KInv, ReceivedInv, HonestDkgSucceeds
<1> QED BY <1>1, KeyInvariant, PTL

=============================================================================
