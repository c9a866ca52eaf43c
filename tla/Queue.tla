-------------------------------- MODULE Queue --------------------------------
(***************************************************************************)
(* QueueImpl of the tasks pallet: one network's queue, kept in a storage   *)
(* map from indices to values and two indices.  A storage map is a         *)
(* function from all indices, Nothing where the map has no entry.          *)
(***************************************************************************)
EXTENDS Integers

CONSTANTS
  Value,
  Nothing,      \* Option::None
  MaxIndex      \* bound: pushes the model makes

ASSUME QueueAssumption == MaxIndex \in Nat /\ Nothing \notin Value

VARIABLES
  InsertIndex,
  RemoveIndex,
  Queue,
  out           \* the last call, and the value it returned

vars == <<InsertIndex, RemoveIndex, Queue, out>>

Index == 0 .. MaxIndex

\* The types of the two indices and of the stored items.
TypeOK ==
  /\ InsertIndex \in Index
  /\ RemoveIndex \in Index
  /\ Queue \in [Index -> Value \cup {Nothing}]
  /\ out \in {"push", "pop", "remove"} \X (Value \cup {Nothing})

Init ==
  /\ InsertIndex = 0
  /\ RemoveIndex = 0
  /\ Queue = [i \in Index |-> Nothing]
  /\ out = <<"push", Nothing>>

push(v) ==
  /\ InsertIndex < MaxIndex
  /\ Queue' = [Queue EXCEPT ![InsertIndex] = v]
  /\ InsertIndex' = InsertIndex + 1
  /\ out' = <<"push", Nothing>>
  /\ UNCHANGED RemoveIndex

ScanSkipped(r) == r = RemoveIndex + 1

\* Where the scan after the removal of the first item stops: at the next item, or at
\* the insert index if there is none.
ScanStops(r) ==
  /\ RemoveIndex < r /\ r <= InsertIndex
  /\ r < InsertIndex => Queue[r] # Nothing
  /\ \A i \in RemoveIndex + 1 .. r - 1 : Queue[i] = Nothing

remove(call, index) ==
  IF RemoveIndex >= InsertIndex
  THEN out' = <<call, Nothing>> /\ UNCHANGED <<InsertIndex, RemoveIndex, Queue>>
  ELSE /\ out' = <<call, Queue[index]>>
       /\ Queue' = [Queue EXCEPT ![index] = Nothing]
       /\ IF index = RemoveIndex
          THEN \E r \in Index : ScanStops(r) /\ RemoveIndex' = r
          ELSE UNCHANGED RemoveIndex
       /\ UNCHANGED InsertIndex

LastIndex == InsertIndex - 1

PopIndex == RemoveIndex

pop == remove("pop", PopIndex)

Next ==
  \/ \E v \in Value : push(v)
  \/ pop
  \/ \E i \in Index : remove("remove", i)

Spec == Init /\ [][Next]_vars

-----------------------------------------------------------------------------
\* The indices delimit the items: nothing is stored outside of them, and whenever the
\* queue has room between them there is an item at RemoveIndex, so a pop of a queue
\* that is not empty never comes back with nothing, whatever was removed from inside.
WindowExact ==
  /\ RemoveIndex <= InsertIndex
  /\ \A i \in Index : Queue[i] # Nothing => RemoveIndex <= i /\ i < InsertIndex
  /\ RemoveIndex < InsertIndex => Queue[RemoveIndex] # Nothing
=============================================================================
