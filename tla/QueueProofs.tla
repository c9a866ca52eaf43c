----------------------------- MODULE QueueProofs -----------------------------
(***************************************************************************)
(* The two indices of a queue delimit its items, for any number of calls.  *)
(***************************************************************************)
EXTENDS Queue, TLAPS

\* Initially the map is empty and both indices are 0.
LEMMA WindowInit == Init => TypeOK /\ WindowExact
BY QueueAssumption DEF Init, TypeOK, WindowExact, Index

\* push stores at the insert index and moves it.
LEMMA WindowPush == ASSUME TypeOK, WindowExact, NEW v \in Value, push(v)
                    PROVE  TypeOK' /\ WindowExact'
<1>1. TypeOK'
  BY QueueAssumption DEF push, TypeOK, Index
<1>2. \A i \in Index : Queue'[i] = IF i = InsertIndex THEN v ELSE Queue[i]
  BY DEF push, TypeOK
<1>3. QED
  BY <1>1, <1>2, QueueAssumption DEF push, TypeOK, WindowExact, Index

\* remove takes the item out; if it was the first, the scan finds the next one.
LEMMA WindowRemove == ASSUME TypeOK, WindowExact, NEW call \in {"pop", "remove"},
                             NEW index \in Index, remove(call, index)
                      PROVE  TypeOK' /\ WindowExact'
<1>1. CASE RemoveIndex >= InsertIndex
  <2>1. TypeOK'
    BY <1>1 DEF remove, TypeOK
  <2>2. WindowExact'
    BY <1>1 DEF remove, WindowExact
  <2>3. QED
    BY <2>1, <2>2
<1>2. CASE ~(RemoveIndex >= InsertIndex)
  <2>1. /\ out' = <<call, Queue[index]>>
        /\ Queue' = [Queue EXCEPT ![index] = Nothing]
        /\ InsertIndex' = InsertIndex
    BY <1>2 DEF remove
  <2>2. \A i \in Index : Queue'[i] = IF i = index THEN Nothing ELSE Queue[i]
    BY <2>1 DEF TypeOK
  <2>3. CASE index = RemoveIndex
    <3>1. PICK r \in Index : ScanStops(r) /\ RemoveIndex' = r
      BY <1>2, <2>3 DEF remove
    <3>2. TypeOK'
      BY <2>1, <3>1 DEF TypeOK
    <3>3. QED
      BY <1>2, <2>1, <2>2, <2>3, <3>1, <3>2 DEF ScanStops, TypeOK, WindowExact, Index
  <2>4. CASE index # RemoveIndex
    <3>1. RemoveIndex' = RemoveIndex
      BY <1>2, <2>4 DEF remove
    <3>2. TypeOK'
      BY <2>1, <3>1 DEF TypeOK
    <3>3. QED
      BY <1>2, <2>1, <2>2, <2>4, <3>1, <3>2 DEF TypeOK, WindowExact, Index
  <2>5. QED
    BY <2>3, <2>4
<1>3. QED
  BY <1>1, <1>2

\* WindowExact holds for ever: a pop of a queue whose indices differ returns an item.
THEOREM QueueWindow == Spec => [](TypeOK /\ WindowExact)
<1>1. Init => TypeOK /\ WindowExact
  BY WindowInit
<1>2. TypeOK /\ WindowExact /\ [Next]_vars => TypeOK' /\ WindowExact'
  <2>1. SUFFICES ASSUME TypeOK, WindowExact, [Next]_vars
                 PROVE  TypeOK' /\ WindowExact'
    OBVIOUS
  <2>2. CASE \E v \in Value : push(v)
    BY <2>1, <2>2, WindowPush
  <2>3. CASE pop
    BY <2>1, <2>3, WindowRemove DEF pop, PopIndex, TypeOK
  <2>4. CASE \E i \in Index : remove("remove", i)
    BY <2>1, <2>4, WindowRemove
  <2>5. CASE UNCHANGED vars
    BY <2>1, <2>5 DEF vars, TypeOK, WindowExact
  <2>6. QED
    BY <2>1, <2>2, <2>3, <2>4, <2>5 DEF Next
<1>3. QED
  BY <1>1, <1>2, PTL DEF Spec
=============================================================================
