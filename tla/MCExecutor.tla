----------------------------- MODULE MCExecutor -----------------------------
EXTENDS Executor

OneMemberWithCctp == [size |-> 1, messages |-> {1, 2}, cctp |-> {2}, blocks |-> 6]
ThreeMembers == [size |-> 3, messages |-> {1}, cctp |-> {}, blocks |-> 3]

TwoChunks == {[size |-> 2, messages |-> {1, 2}, cctp |-> {}, blocks |-> 2]}
OneOrThree == {OneMemberWithCctp, ThreeMembers}
=============================================================================
