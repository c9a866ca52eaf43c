------------------------------- MODULE Tokens -------------------------------
(***************************************************************************)
(* The pallets that hold or move tokens, over one set of balances: claims  *)
(* of the airdrop pallet, stages of the launch pallet at runtime upgrades, *)
(* and reserves of the timegraph pallet.  Each call is atomic; their order *)
(* is arbitrary.  No call is processed once an upgrade has panicked.       *)
(***************************************************************************)
EXTENDS Launch, Timegraph

CONSTANTS User,          \* accounts that sign calls
          Depositor,     \* the users that use the timegraph
          Pool,          \* accounts that may be the reward pool
          Operational,   \* wallets of Application
          Amount,        \* amounts of calls
          GenesisFree,   \* balances the chain starts with, all but the wallets
          MaxMinted,     \* bound on what root mints
          MaxReceived    \* bound on what is paid into virtual wallets

VARIABLES st,            \* the store of all pallets
          received       \* history: what others paid into a virtual wallet

vars == <<st, received>>

GenesisBalances ==
  [NoBalances EXCEPT
     !.Free = [a \in Account |-> IF a \in Allocation THEN AllocationTotal[a] - Tracked(0, a)
                                 ELSE GenesisFree[a]],
     !.Schedules = [a \in Account |-> IF a \in Allocation /\ Locked[a] > 0
                                      THEN <<Locked[a]>> ELSE <<>>]]

Init ==
  /\ \E timegraph \in User, pool \in Pool :
       st = GenesisBalances @@ NoClaims @@ NoStages @@ NoTimegraph(timegraph, pool)
  /\ received = [w \in Allocation |-> 0]

Pays(target, amount) ==
  received' = [w \in Allocation |-> received[w] + IF w = target THEN amount ELSE 0]

-----------------------------------------------------------------------------
(* Airdrop *)

\* claim_raw, with a proof of the owner that names the target: with any other
\* proof the call is not included.
Claim(source, target) ==
  /\ can_claim(st, source, target)
  /\ target \in Allocation => SumOf(received) + st.Claims[source] <= MaxReceived
  /\ st' = process_airdrop(st, source, target)
  /\ Pays(target, st.Claims[source])

\* Root mints a claim.
Mint(owner, amount, vesting) ==
  /\ st.minted + amount <= MaxMinted
  /\ can_mint_airdrop(st, owner, amount)
  /\ st' = [mint_airdrop(st, owner, amount, vesting) EXCEPT !.minted = @ + amount]
  /\ UNCHANGED received

\* Root moves a claim.
MoveClaim(from, to) ==
  /\ st' = move_airdrop(st, from, to)
  /\ UNCHANGED received

AirdropStep ==
  \/ \E source \in Owner, target \in User \cup Allocation : Claim(source, target)
  \/ \E owner \in Owner, amount \in Amount, vesting \in {0, 1} : Mint(owner, amount, vesting)
  \/ \E from, to \in Owner : MoveClaim(from, to)

-----------------------------------------------------------------------------
(* Timegraph *)

UserReserve ==
  /\ \E who \in Depositor, amount \in Amount :
       st' = deposit(st, who, amount) \/ st' = withdraw_reserved(st, who, amount)
  /\ UNCHANGED received

TimegraphMoves ==
  /\ \E origin \in User, account \in Depositor, amount \in Amount :
       \/ st' = transfer_to_pool(st, origin, account, amount)
       \/ st' = transfer_award_to_user(st, origin, account, amount)
  /\ UNCHANGED received

AdminSets ==
  /\ \/ \E account \in User : st' = set_timegraph_account(st, account)
     \/ \E account \in Pool : st' = set_reward_pool_account(st, account)
     \/ \E amount \in {0, 1} : st' = set_threshold(st, amount)
  /\ UNCHANGED received

-----------------------------------------------------------------------------
(* Launch *)

Upgrade(launch_version) ==
  /\ st' = on_runtime_upgrade(st, launch_version)
  /\ UNCHANGED received

LockOperational ==
  /\ \E account \in Operational, amount \in Amount : st' = lock_operational(st, account, amount)
  /\ UNCHANGED received

-----------------------------------------------------------------------------

\* Anyone can pay into a virtual wallet.
Pay(from, to, amount) ==
  /\ SumOf(received) + amount <= MaxReceived
  /\ can_transfer(st, from, to, amount, FALSE)
  /\ st' = transfer(st, from, to, amount)
  /\ Pays(to, amount)

Next ==
  /\ ~st.panicked
  /\ \/ AirdropStep
     \/ UserReserve
     \/ TimegraphMoves
     \/ AdminSets
     \/ \E launch_version \in 1..(Len(LAUNCH_LEDGER) - 1) : Upgrade(launch_version)
     \/ LockOperational
     \/ \E from \in User, to \in Allocation, amount \in Amount : Pay(from, to, amount)

Spec == Init /\ [][Next]_vars

-----------------------------------------------------------------------------
(* Properties *)

\* No pallet makes or loses a token: issuance and unclaimed airdrops together
\* are what they were at genesis, plus what root minted, minus what a stage
\* burned for a claim that already existed (launch's total_issuance).
SupplyConserved ==
  total_issuance(st) + st.Total + st.burned = total_issuance(GenesisBalances) + st.minted

\* Total is the sum of the claims, so that no claim fails for an underflow,
\* and a vesting schedule never stays behind for the next claim of its owner.
ClaimsAccounted ==
  /\ st.Total = SumOf(st.Claims)
  /\ \A o \in Owner : st.Vesting[o] # 0 => st.Claims[o] # 0

\* A virtual wallet holds what the ledger says is left of its allocation, and
\* what others paid into it, and what stages failed to pay out of it.
WalletsAccounted ==
  \A w \in Allocation :
    st.Free[w] = AllocationTotal[w] - Tracked(st.StageVersion, w) + received[w] + st.skipped[w]

\* The tokens that the ledger leaves in a vested wallet stay locked: a stage
\* that takes the lock away to pay vested deposits puts it back.
VestedStaysLocked ==
  \A w \in Allocation : Locked[w] = AllocationTotal[w] =>
    Vested(st, w) >= st.Free[w] - received[w]

\* A stage leaves a vested wallet with too little to be unlocked by the block.
LeavesDust(launch_version) ==
  \E v \in (st.StageVersion + 1)..launch_version :
    LET stage == LAUNCH_LEDGER[v + 1]
        remaining == AllocationTotal[stage.source] - Tracked(v, stage.source)
    IN stage.kind = "DepositAsVested" /\ remaining > 0 /\ schedule_rel(stage.source, remaining) = 0

\* An upgrade executes all new stages, whatever claims and schedules there
\* are: it is refused only after payments into a wallet or failed payments of
\* an earlier stage, and panics only over a vested remainder that is dust.
StagesRun ==
  ~st.panicked => \A v \in (st.StageVersion + 1)..(Len(LAUNCH_LEDGER) - 1) :
    ~LeavesDust(v) /\ (\A w \in Allocation : received[w] = 0 /\ st.skipped[w] = 0)
      => on_runtime_upgrade(st, v).StageVersion = v

=============================================================================
