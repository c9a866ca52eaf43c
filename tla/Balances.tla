------------------------------ MODULE Balances ------------------------------
(***************************************************************************)
(* What the token pallets of the repository use of the balances and        *)
(* vesting pallets of the Polkadot SDK.  A store is a record; an operation *)
(* that can fail has a predicate that says when it succeeds.               *)
(*                                                                         *)
(* The existential deposit is the unit.  Vesting schedules have not        *)
(* started, so that they lock all they were made for.                      *)
(***************************************************************************)
EXTENDS Integers, SequencesExt

CONSTANTS Account,
          MaxSchedules   \* MAX_VESTING_SCHEDULES

SumOf(f) == FoldFunction(LAMBDA x, y : x + y, 0, f)

NoBalances ==
  [Free |-> [a \in Account |-> 0],
   Reserved |-> [a \in Account |-> 0],
   Schedules |-> [a \in Account |-> <<>>],   \* what each of an account's schedules locks
   Locks |-> [a \in Account |-> 0]]          \* the lock of an operational wallet

total_issuance(st) == SumOf(st.Free) + SumOf(st.Reserved)

\* What all schedules of an account lock.
Vested(st, a) == SumOf(st.Schedules[a])

\* Locks overlay each other.
Frozen(st, a) == Max({Vested(st, a), st.Locks[a]})

\* An account with reserved or locked tokens keeps its existential deposit.
can_withdraw(st, a, amount) ==
  LET free == st.Free[a] - amount
  IN /\ free >= Frozen(st, a)
     /\ free >= 1 \/ st.Reserved[a] = 0

withdraw(st, a, amount) == [st EXCEPT !.Free[a] = @ - amount]

deposit_creating(st, a, amount) == [st EXCEPT !.Free[a] = @ + amount]

\* ExistenceRequirement::KeepAlive leaves the sender its existential deposit;
\* a transfer to oneself always succeeds.
can_transfer(st, from, to, amount, keep_alive) ==
  \/ from = to
  \/ can_withdraw(st, from, amount) /\ (keep_alive => st.Free[from] - amount >= 1)

transfer(st, from, to, amount) == deposit_creating(withdraw(st, from, amount), to, amount)

can_reserve(st, a, amount) == st.Free[a] - amount >= Max({1, Frozen(st, a)})

reserve(st, a, amount) == [st EXCEPT !.Free[a] = @ - amount, !.Reserved[a] = @ + amount]

can_unreserve(st, a, amount) == amount <= st.Reserved[a]

unreserve(st, a, amount) == [st EXCEPT !.Free[a] = @ + amount, !.Reserved[a] = @ - amount]

\* A schedule that unlocks nothing per block is refused.
can_add_vesting_schedule(st, a, per_block) == Len(st.Schedules[a]) < MaxSchedules /\ per_block > 0

add_vesting_schedule(st, a, locked) ==
  IF locked = 0 THEN st ELSE [st EXCEPT !.Schedules[a] = Append(@, locked)]

remove_vesting_schedule(st, a) == [st EXCEPT !.Schedules[a] = Tail(@)]

=============================================================================
