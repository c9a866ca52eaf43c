------------------------------ MODULE MCRuntime ------------------------------
EXTENDS Runtime

AllOnOne == [m \in Member |-> {1}]
OddEven == [m \in Member |-> {1 + (m % 2)}]
AnyNetwork == [m \in Member |-> Network]

MembersByHash == SetToSortSeq(Member, LAMBDA a, b : (a % 2 < b % 2) \/ (a % 2 = b % 2 /\ a < b))
NetworksByHash == SetToSortSeq(Network, >)
=============================================================================
