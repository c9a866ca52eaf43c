SPECIFICATION Spec
CONSTANTS
  Account = {"u1", "u2", "pool", "bridging", "airdrop", "team"}
  MaxSchedules = 2
  Owner = {"u1", "u2"}
  MinimumBalance = 1
  Allocation = {"airdrop", "team"}
  AllocationTotal <- Totals
  Locked <- LockedPart
  PerBlock <- Unlocks
  LAUNCH_LEDGER <- Ledger
  MinimumDeposit = 1
  MaxSequence = 1
  User = {"u1", "u2"}
  Depositor = {"u2"}
  Pool = {"pool", "bridging"}
  Operational = {"bridging"}
  Amount = {1}
  GenesisFree <- Free
  MaxMinted = 1
  MaxReceived = 1
INVARIANTS
  SupplyConserved
  ClaimsAccounted
  
  VestedStaysLocked
  
CHECK_DEADLOCK FALSE
