------------------------------- MODULE MCQueue -------------------------------
EXTENDS Queue, Sequences

Window == [k \in 1 .. InsertIndex - RemoveIndex |-> Queue[RemoveIndex + k - 1]]

F == INSTANCE Fifo WITH q <- SelectSeq(Window, LAMBDA v : v # Nothing)

\* push, pop and remove of QueueImpl do to the items between the two indices what they
\* do to a sequence: first in, first out, also around the holes that remove leaves.
IsFifo == F!Spec
=============================================================================
