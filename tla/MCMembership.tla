----------------------------- MODULE MCMembership -----------------------------
EXTENDS Membership, TLC

CONSTANTS a, b, c, eth

OneNetwork == [m \in Member |-> eth]

MemberSymmetry == Permutations(Member)
=============================================================================
