------------------------------ MODULE Timegraph ------------------------------
(***************************************************************************)
(* The timegraph pallet: users reserve tokens for the timegraph account,   *)
(* which moves them to the reward pool and rewards users from there.  A    *)
(* call that fails leaves the store as it is, also if its first transfer   *)
(* succeeded.                                                              *)
(***************************************************************************)
EXTENDS Balances

CONSTANTS MaxSequence   \* u64::MAX

NoTimegraph(timegraph, pool) ==
  [NextDepositSequence |-> [a \in Account |-> 0],
   NextWithdrawalSequence |-> [a \in Account |-> 0],
   Threshold |-> 0,
   TimegraphAccount |-> timegraph,
   RewardPoolAccount |-> pool]

deposit(st, who, amount) ==
  IF /\ amount > 0
     /\ can_reserve(st, who, amount)
     /\ st.NextDepositSequence[who] < MaxSequence
  THEN [reserve(st, who, amount) EXCEPT !.NextDepositSequence[who] = @ + 1]
  ELSE st

withdraw_reserved(st, who, amount) ==
  IF /\ amount > 0
     /\ amount + st.Threshold <= st.Reserved[who]
     /\ can_unreserve(st, who, amount)
     /\ st.NextWithdrawalSequence[who] < MaxSequence
  THEN [unreserve(st, who, amount) EXCEPT !.NextWithdrawalSequence[who] = @ + 1]
  ELSE st

ensure_timegraph(st, origin) == origin = st.TimegraphAccount

transfer_to_pool(st, origin, account, amount) ==
  LET unreserved == unreserve(st, account, amount)
  IN IF /\ ensure_timegraph(st, origin)
        /\ can_unreserve(st, account, amount)
        /\ can_transfer(unreserved, account, st.RewardPoolAccount, amount, TRUE)
     THEN transfer(unreserved, account, st.RewardPoolAccount, amount)
     ELSE st

\* The reward is reserved without being taken from the pool.
award_from_nowhere(st, origin, account, amount) ==
  IF ensure_timegraph(st, origin) /\ account # st.RewardPoolAccount /\ st.Free[st.RewardPoolAccount] > amount
  THEN reserve(deposit_creating(st, account, amount), account, amount)
  ELSE st

transfer_award_to_user(st, origin, account, amount) ==
  LET pool == st.RewardPoolAccount
      awarded == transfer(st, pool, account, amount)
  IN IF /\ ensure_timegraph(st, origin)
        /\ account # pool
        /\ st.Free[pool] > amount
        /\ can_transfer(st, pool, account, amount, TRUE)
        /\ can_reserve(awarded, account, amount)
     THEN reserve(awarded, account, amount)
     ELSE st

set_timegraph_account(st, account) ==
  IF account # st.TimegraphAccount THEN [st EXCEPT !.TimegraphAccount = account] ELSE st

set_reward_pool_account(st, account) ==
  IF account # st.RewardPoolAccount THEN [st EXCEPT !.RewardPoolAccount = account] ELSE st

set_threshold(st, amount) ==
  IF amount # st.Threshold THEN [st EXCEPT !.Threshold = amount] ELSE st

=============================================================================
