SPECIFICATION FairSpec
CONSTANTS
  Member = {m1, m2, m3}
  Sizes = {1, 3}
  None = None
  BadDisk = {}
  Faulty = {m1, m2}
  MaxRuns = 1
INVARIANTS ReadyHasShare 
PROPERTIES DkgCompletes OnlineMembersCanSign
CHECK_DEADLOCK FALSE
