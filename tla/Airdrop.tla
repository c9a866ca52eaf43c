------------------------------- MODULE Airdrop -------------------------------
(***************************************************************************)
(* The airdrop pallet: claims that are minted, moved, and paid out once to *)
(* who proves to own them.  An operation that fails leaves the store as it *)
(* is.  An amount of 0 is an absent entry of Claims or Vesting; a vesting  *)
(* schedule is what it locks.                                              *)
(***************************************************************************)
EXTENDS Balances

CONSTANTS Owner,            \* accounts that claims are made for
          MinimumBalance

\* History: tokens that were made, and that were lost.
NoClaims ==
  [Claims |-> [o \in Owner |-> 0],
   Total |-> 0,
   Vesting |-> [o \in Owner |-> 0],
   minted |-> 0,
   burned |-> 0]

can_mint_airdrop(st, owner, amount) == amount >= MinimumBalance /\ st.Claims[owner] = 0

mint_airdrop(st, owner, amount, vesting) ==
  IF ~can_mint_airdrop(st, owner, amount) THEN st
  ELSE [st EXCEPT !.Total = @ + amount,
                  !.Claims[owner] = amount,
                  !.Vesting[owner] = IF vesting = 0 THEN @ ELSE vesting]

\* The vesting schedule stays behind.
move_claim_only(st, from, to) ==
  IF st.Claims[to] # 0 \/ st.Claims[from] = 0 THEN st
  ELSE [st EXCEPT !.Claims[to] = st.Claims[from], !.Claims[from] = 0]

move_airdrop(st, from, to) ==
  IF st.Claims[to] # 0 \/ st.Claims[from] = 0 THEN st
  ELSE LET moved == [st EXCEPT !.Claims[to] = st.Claims[from], !.Claims[from] = 0]
       IN IF st.Vesting[from] = 0 THEN moved
          ELSE [moved EXCEPT !.Vesting[to] = st.Vesting[from], !.Vesting[from] = 0]

can_claim(st, source, target) ==
  /\ st.Claims[source] # 0
  /\ st.Total >= st.Claims[source]
  /\ st.Vesting[source] = 0 \/ can_add_vesting_schedule(st, target, 1)

process_airdrop(st, source, target) ==
  IF ~can_claim(st, source, target) THEN st
  ELSE LET paid == deposit_creating(st, target, st.Claims[source])
       IN [add_vesting_schedule(paid, target, st.Vesting[source])
             EXCEPT !.Total = @ - st.Claims[source],
                    !.Claims[source] = 0,
                    !.Vesting[source] = 0]

=============================================================================
