-------------------------------- MODULE Fifo --------------------------------
(***************************************************************************)
(* What the queues of the tasks pallet promise (trait QueueT): an item is  *)
(* pushed at the end, popped from the beginning, or removed from inside.   *)
(* `out` is the last call and what it returned.                            *)
(***************************************************************************)
EXTENDS Naturals, SequencesExt

CONSTANTS Value, Nothing

VARIABLES q, out

Init == q = <<>> /\ out = <<"push", Nothing>>

Push(v) == q' = Append(q, v) /\ out' = <<"push", Nothing>>

Pop == IF q = <<>> THEN q' = q /\ out' = <<"pop", Nothing>>
       ELSE q' = Tail(q) /\ out' = <<"pop", Head(q)>>

RemoveInside == \E i \in 1 .. Len(q) : q' = RemoveAt(q, i) /\ out' = <<"remove", q[i]>>

RemoveMissing == q' = q /\ out' = <<"remove", Nothing>>

Next == (\E v \in Value : Push(v)) \/ Pop \/ RemoveInside \/ RemoveMissing

Spec == Init /\ [][Next]_<<q, out>>
=============================================================================
