SPECIFICATION FairSpec
CONSTANTS
  N = 3
  Threshold = 2
  Data = {1, 2}
  DataOf <- SecondMayDiffer
  None = None
  Lagging = {}
  Faulty = {1}
  MaxRestartNonce = 1
  MaxSessions = 2
INVARIANTS NonceSignsOnce CommitmentHeld 
PROPERTIES SessionIsSigned
CHECK_DEADLOCK FALSE
