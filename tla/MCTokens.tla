------------------------------ MODULE MCTokens ------------------------------
(* Two users, an unlocked and a vested wallet, one stage of each kind.       *)
EXTENDS Tokens

Wallets == {"airdrop", "team"}

Totals == [w \in Wallets |-> IF w = "team" THEN 5 ELSE 4]

LockedPart == [w \in Wallets |-> IF w = "team" THEN 5 ELSE 0]

Unlocks == [w \in Wallets |-> IF w = "team" THEN 3 ELSE 0]

Free == [a \in {"u1", "u2", "pool", "bridging"} |-> IF a \in {"u1", "bridging"} THEN 1 ELSE 2]

Stage(source, amount, kind, items) ==
  [source |-> source, amount |-> amount, kind |-> kind, items |-> items]

Item(target, amount, schedule) == [target |-> target, amount |-> amount, schedule |-> schedule]

\* The last stage leaves the vested wallet with a remainder of 1, which is dust.
Ledger ==
  <<Stage("airdrop", 1, "Retired", <<>>),
    Stage("airdrop", 2, "AirdropFromUnlocked", <<Item("u1", 1, 0), Item("u2", 1, 1)>>),
    Stage("team", 2, "DepositAsVested", <<Item("u1", 2, 0)>>),
    Stage("airdrop", 0, "AirdropTransfer", <<[from |-> "u2", to |-> "u1"]>>),
    Stage("airdrop", 1, "DepositFromUnlocked", <<Item("u1", 1, 1)>>),
    Stage("team", 2, "DepositAsVested", <<Item("u2", 2, 0)>>)>>

=============================================================================
