------------------------------- MODULE MCTasks -------------------------------
EXTENDS Tasks

OneNetwork == [s \in Shard |-> 1]
ToFirst == [m \in Message |-> 1]
GasOne == [m \in Message |-> 1]
=============================================================================
