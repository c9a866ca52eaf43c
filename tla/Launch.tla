------------------------------- MODULE Launch -------------------------------
(***************************************************************************)
(* The launch pallet: a ledger of stages, compiled into the runtime, that  *)
(* pay tokens out of virtual wallets, one per allocation.  A runtime       *)
(* upgrade executes the stages that are newer than the version on chain,   *)
(* if the wallets hold what the older stages left.                         *)
(*                                                                         *)
(* A stage is a record [source, amount, kind, items].  An item of a        *)
(* deposit or a mint is a record [target, amount, schedule], the amount    *)
(* that its schedule locks or 0 for none; one of a transfer of claims is   *)
(* a record [from, to].                                                    *)
(***************************************************************************)
EXTENDS Airdrop

CONSTANTS Allocation,      \* virtual wallets, a subset of Account
          AllocationTotal, \* Allocation::total
          Locked,          \* Allocation::schedule_raw: what it locks, 0 for no schedule,
          PerBlock,        \* and what it unlocks per block
          LAUNCH_LEDGER,   \* its stage v is the element v + 1
          MinimumDeposit

\* History: what stages left in a wallet that the ledger says was paid.
NoStages ==
  [StageVersion |-> 0,
   panicked |-> FALSE,
   skipped |-> [w \in Allocation |-> 0]]

Skip(st, source, amount) == [st EXCEPT !.skipped[source] = @ + amount]

\* Parsing drops the items that are too small.
parse(stage) ==
  IF stage.kind \in {"DepositFromUnlocked", "DepositAsVested"}
  THEN SelectSeq(stage.items, LAMBDA i : i.amount >= MinimumDeposit)
  ELSE stage.items

stage_sum(stage) ==
  IF stage.kind \in {"Retired", "AirdropTransfer"} THEN 0
  ELSE FoldLeft(LAMBDA acc, i : acc + i.amount, 0, parse(stage))

schedule_rel(source, amount) == (amount * PerBlock[source]) \div Locked[source]

-----------------------------------------------------------------------------
(* Stages *)

\* Tokens of a claim that cannot be made go back to the wallet.
MintRefunded(st, source, item) ==
  IF ~can_withdraw(st, source, item.amount) THEN Skip(st, source, item.amount)
  ELSE IF ~can_mint_airdrop(st, item.target, item.amount) THEN st
  ELSE mint_airdrop(withdraw(st, source, item.amount), item.target, item.amount, item.schedule)

\* Tokens of a claim that cannot be made are burned.
MintItem(st, source, item) ==
  IF ~can_withdraw(st, source, item.amount) THEN Skip(st, source, item.amount)
  ELSE LET burnt == withdraw(st, source, item.amount)
       IN IF can_mint_airdrop(burnt, item.target, item.amount)
          THEN mint_airdrop(burnt, item.target, item.amount, item.schedule)
          ELSE [burnt EXCEPT !.burned = @ + item.amount]

UnlockedItem(st, source, item) ==
  IF \/ item.schedule # 0 /\ ~can_add_vesting_schedule(st, item.target, 1)
     \/ ~can_transfer(st, source, item.target, item.amount, FALSE)
  THEN Skip(st, source, item.amount)
  ELSE add_vesting_schedule(transfer(st, source, item.target, item.amount),
                            item.target, item.schedule)

VestedItem(st, source, item) ==
  IF \/ item.schedule # 0
     \/ Locked[source] = 0
     \/ ~can_add_vesting_schedule(st, item.target, schedule_rel(source, item.amount))
     \/ ~can_transfer(st, source, item.target, item.amount, FALSE)
  THEN Skip(st, source, item.amount)
  ELSE add_vesting_schedule(transfer(st, source, item.target, item.amount),
                            item.target, item.amount)

\* All tokens of the wallet are locked by schedules.
FullyVested(st, source) == st.Schedules[source] # <<>> /\ Vested(st, source) >= st.Free[source]

\* The remaining tokens are not locked again.
LockNothing(st, source) == st

\* A remainder that would unlock nothing per block makes the upgrade panic.
LockRemaining(st, source) ==
  LET remaining == st.Free[source]
  IN IF Locked[source] = 0 THEN st
     ELSE IF remaining > 0 /\ ~can_add_vesting_schedule(st, source, schedule_rel(source, remaining))
     THEN [st EXCEPT !.panicked = TRUE]
     ELSE add_vesting_schedule(st, source, remaining)

transfer_as_vested(st, source, items) ==
  IF ~FullyVested(st, source)
  THEN FoldLeft(LAMBDA s, i : Skip(s, source, i.amount), st, items)
  ELSE LockRemaining(FoldLeft(LAMBDA s, i : VestedItem(s, source, i),
                              remove_vesting_schedule(st, source), items),
                     source)

execute(st, stage) ==
  LET items == parse(stage)
      Each(Item(_, _, _)) == FoldLeft(LAMBDA s, i : Item(s, stage.source, i), st, items)
  IN CASE stage.kind = "AirdropFromUnlocked" -> Each(MintItem)
       [] stage.kind = "DepositFromUnlocked" -> Each(UnlockedItem)
       [] stage.kind = "DepositAsVested"     -> transfer_as_vested(st, stage.source, items)
       [] stage.kind = "AirdropTransfer"     ->
            FoldLeft(LAMBDA s, i : move_airdrop(s, i.from, i.to), st, items)

-----------------------------------------------------------------------------
(* The ledger *)

\* AllocationTracker: what the stages up to a version pay out of each wallet.
AllocationTracker ==
  [version \in 0..(Len(LAUNCH_LEDGER) - 1) |-> [w \in Allocation |->
     SumOf([v \in {u \in 0..version : LAUNCH_LEDGER[u + 1].source = w} |->
              LAUNCH_LEDGER[v + 1].amount])]]

Tracked(version, w) == AllocationTracker[version][w]

tracker_check(st, version, exact) ==
  \A w \in Allocation :
    LET remaining == AllocationTotal[w] - Tracked(version, w)
    IN /\ remaining >= 0
       /\ IF exact THEN remaining = st.Free[w] ELSE remaining <= st.Free[w]

\* The stage of the version on chain is looked at only if the ledger has it.
compile(st, launch_version) ==
  /\ launch_version < Len(LAUNCH_LEDGER)
  /\ st.StageVersion <= launch_version => tracker_check(st, st.StageVersion, TRUE)
  /\ \A v \in (st.StageVersion + 1)..launch_version :
       /\ LAUNCH_LEDGER[v + 1].kind # "Retired"
       /\ stage_sum(LAUNCH_LEDGER[v + 1]) = LAUNCH_LEDGER[v + 1].amount

\* A stage that did not pay everything stops the ones after it.
RunStageExactly(run, v) ==
  IF run.stopped \/ run.st.panicked THEN run
  ELSE LET done == [execute(run.st, LAUNCH_LEDGER[v + 1]) EXCEPT !.StageVersion = v]
       IN [st |-> done, stopped |-> ~tracker_check(done, v, TRUE)]

\* Executes one stage, unless a stage before it panicked or exceeded its allocation.
RunStage(run, v) ==
  IF run.stopped \/ run.st.panicked THEN run
  ELSE LET done == [execute(run.st, LAUNCH_LEDGER[v + 1]) EXCEPT !.StageVersion = v]
       IN [st |-> done, stopped |-> ~tracker_check(done, v, FALSE)]

run_ledger(st, launch_version) ==
  FoldLeft(RunStage, [st |-> st, stopped |-> FALSE],
           [i \in 1..(launch_version - st.StageVersion) |-> st.StageVersion + i]).st

\* A panic leaves nothing but a chain that makes no block.
on_runtime_upgrade(st, launch_version) ==
  IF ~compile(st, launch_version) THEN st
  ELSE LET after == run_ledger(st, launch_version)
       IN IF after.panicked THEN [st EXCEPT !.panicked = TRUE] ELSE after

lock_operational(st, account, amount) ==
  IF st.Free[account] + st.Reserved[account] >= amount
  THEN [st EXCEPT !.Locks[account] = amount] ELSE st

=============================================================================
