------------------------------ MODULE Iteration ------------------------------
(***************************************************************************)
(* Facts about the loops of the models.  A loop of the code over the items *)
(* of a storage map or a vector is a FoldLeft of its body over a sequence, *)
(* and a storage map is iterated in the order of SetToSortSeq.  The loop   *)
(* body and the property are constants of this module, so that a proof     *)
(* about a loop instantiates it with them: the provers do not instantiate  *)
(* a theorem that has an operator as a parameter.                          *)
(***************************************************************************)
EXTENDS Integers, FiniteSets, SequencesExt, TLAPS,
        NaturalsInduction, WellFoundedInduction, FiniteSetTheorems

CONSTANTS
  Step(_, _, _),   \* Step(ctx, acc, e): one turn of the loop, on element e
  Holds(_, _, _)   \* Holds(ctx, k, acc): what is to hold of acc after k turns

Fold(ctx, base, seq) == FoldLeft(LAMBDA acc, e : Step(ctx, acc, e), base, seq)

-----------------------------------------------------------------------------
(* Least and greatest elements *)

\* A set of natural numbers has a least element.
LEMMA LeastElement ==
  ASSUME NEW T \in SUBSET Nat, T # {}
  PROVE  \E x \in T : \A y \in T : x <= y
<1>1. IsWellFoundedOn(OpToRel(<, Nat), Nat)
  BY NatLessThanWellFounded
<1>2. PICK x \in T : \A y \in T : ~(<<y, x>> \in OpToRel(<, Nat))
  BY <1>1, WFMin
<1>3. ASSUME NEW y \in T, y < x PROVE FALSE
  BY <1>2, <1>3 DEF OpToRel
<1>4. QED
  BY <1>3

\* Max is the greatest element of a set of indices.
LEMMA MaxOfRange ==
  ASSUME NEW k \in Nat, NEW s \in SUBSET (1 .. k), s # {}
  PROVE  Max(s) \in s /\ \A y \in s : y <= Max(s)
<1> DEFINE T == {k - y : y \in s}
<1>1. T \in SUBSET Nat /\ T # {}
  <2>1. \A y \in s : k - y \in Nat
    OBVIOUS
  <2>2. QED
    BY <2>1
<1>2. PICK d \in T : \A y \in T : d <= y
  BY <1>1, LeastElement
<1>3. PICK x \in s : d = k - x
  BY <1>2
<1>4. ASSUME NEW y \in s PROVE x >= y
  <2>1. d <= k - y
    BY <1>2
  <2>2. QED
    BY <2>1, <1>3
<1>5. QED
  BY <1>3, <1>4 DEF Max

-----------------------------------------------------------------------------
(* FoldLeft runs through the sequence *)

\* `iter` is the function that FoldLeft recurs on, over the indices up to k.
IsIter(ctx, base, seq, k, iter) ==
  iter = [s \in SUBSET (1 .. k) |->
            IF s = {} THEN base ELSE Step(ctx, iter[s \ {Max(s)}], seq[Max(s)])]

\* FoldLeft is the value of that function for all the indices.
LEMMA FoldIsIter ==
  ASSUME NEW ctx, NEW base, NEW seq, NEW n \in Nat, DOMAIN seq = 1 .. n
  PROVE  Fold(ctx, base, seq) = (CHOOSE iter : IsIter(ctx, base, seq, n, iter))[1 .. n]
BY DEF Fold, FoldLeft, MapThenFoldSet, IsIter

\* The function for k indices extends to k + 1 of them.
LEMMA IterGrows ==
  ASSUME NEW ctx, NEW base, NEW seq, NEW k \in Nat, NEW g, IsIter(ctx, base, seq, k, g)
  PROVE  \E h : IsIter(ctx, base, seq, k + 1, h)
<1> DEFINE h == [s \in SUBSET (1 .. k + 1) |->
                   IF k + 1 \in s THEN Step(ctx, g[s \ {k + 1}], seq[k + 1]) ELSE g[s]]
<1>1. ASSUME NEW s \in SUBSET (1 .. k + 1), s # {}
      PROVE  h[s] = Step(ctx, h[s \ {Max(s)}], seq[Max(s)])
  <2>1. CASE k + 1 \in s
    <3>0. k + 1 \in Nat
      OBVIOUS
    <3>1. Max(s) \in s /\ k + 1 <= Max(s)
      BY <1>1, <2>1, <3>0, MaxOfRange
    <3>2. Max(s) = k + 1
      <4>1. Max(s) \in 1 .. k + 1
        BY <3>1
      <4>2. QED
        BY <3>1, <4>1
    <3>3. s \ {k + 1} \in SUBSET (1 .. k + 1) /\ k + 1 \notin s \ {k + 1}
      OBVIOUS
    <3>4. h[s \ {k + 1}] = g[s \ {k + 1}]
      BY <3>3
    <3>5. QED
      BY <3>2, <3>4, <2>1
  <2>2. CASE k + 1 \notin s
    <3>1. s \in SUBSET (1 .. k)
      BY <2>2
    <3>2. Max(s) \in s
      BY <3>1, <1>1, MaxOfRange
    <3>3. s \ {Max(s)} \in SUBSET (1 .. k) /\ k + 1 \notin s \ {Max(s)}
      BY <3>1, <2>2
    <3>4. h[s] = g[s]
      BY <2>2
    <3>5. h[s \ {Max(s)}] = g[s \ {Max(s)}]
      BY <3>3
    <3>6. g[s] = Step(ctx, g[s \ {Max(s)}], seq[Max(s)])
      BY <3>1, <1>1 DEF IsIter
    <3>7. QED
      BY <3>4, <3>5, <3>6
  <2>3. QED
    BY <2>1, <2>2
<1>2. h[{}] = base
  <2>1. {} \in SUBSET (1 .. k) /\ {} \in SUBSET (1 .. k + 1) /\ k + 1 \notin {}
    OBVIOUS
  <2>2. g[{}] = base
    BY <2>1 DEF IsIter
  <2>3. QED
    BY <2>1, <2>2
<1>3. \A s \in SUBSET (1 .. k + 1) :
        h[s] = IF s = {} THEN base ELSE Step(ctx, h[s \ {Max(s)}], seq[Max(s)])
  BY <1>1, <1>2
<1>4. h = [s \in SUBSET (1 .. k + 1) |-> h[s]]
  OBVIOUS
<1> HIDE DEF h
<1>5. IsIter(ctx, base, seq, k + 1, h)
  BY <1>3, <1>4 DEF IsIter
<1>6. QED
  BY <1>5

\* So it exists for every number of indices.
LEMMA IterExists ==
  ASSUME NEW ctx, NEW base, NEW seq, NEW n \in Nat
  PROVE  \E g : IsIter(ctx, base, seq, n, g)
<1> DEFINE Bad == {k \in Nat : ~\E g : IsIter(ctx, base, seq, k, g)}
<1>1. SUFFICES ASSUME Bad # {} PROVE FALSE
  OBVIOUS
<1>2. PICK k \in Bad : \A y \in Bad : k <= y
  BY <1>1, LeastElement
<1>3. k # 0
  <2> DEFINE g == [s \in SUBSET (1 .. 0) |-> base]
  <2>1. SUBSET (1 .. 0) = {{}}
    OBVIOUS
  <2>2. IsIter(ctx, base, seq, 0, g)
    BY <2>1 DEF IsIter
  <2>3. QED
    BY <2>2
<1>4. k - 1 \in Nat /\ ~(k <= k - 1)
  BY <1>3
<1>5. PICK g : IsIter(ctx, base, seq, k - 1, g)
  BY <1>4, <1>2
<1>6. \E h : IsIter(ctx, base, seq, k - 1 + 1, h)
  BY <1>5, <1>4, IterGrows
<1>7. k - 1 + 1 = k
  BY <1>4
<1>8. QED
  BY <1>6, <1>7

\* The values of the accumulator before and after every turn.
IsRun(ctx, base, seq, n, run) ==
  /\ run[0] = base
  /\ \A k \in 1 .. n : run[k] = Step(ctx, run[k - 1], seq[k])
  /\ run[n] = Fold(ctx, base, seq)

\* A fold is the last value of a run of the loop: it starts with `base` and every
\* turn takes the next element.
THEOREM FoldRuns ==
  ASSUME NEW ctx, NEW base, NEW n \in Nat, NEW seq, DOMAIN seq = 1 .. n
  PROVE  \E run : IsRun(ctx, base, seq, n, run)
<1> DEFINE it == CHOOSE iter : IsIter(ctx, base, seq, n, iter)
           run == [k \in 0 .. n |-> it[1 .. k]]
<1>1. IsIter(ctx, base, seq, n, it)
  BY IterExists
<1>2. Fold(ctx, base, seq) = it[1 .. n]
  BY FoldIsIter
<1> HIDE DEF it
<1>3. run[n] = Fold(ctx, base, seq)
  BY <1>2
<1>4. run[0] = base
  <2>1. 1 .. 0 = {}
    OBVIOUS
  <2>2. QED
    BY <1>1, <2>1 DEF IsIter
<1>5. ASSUME NEW k \in 1 .. n PROVE run[k] = Step(ctx, run[k - 1], seq[k])
  <2>1. (1 .. k) \in SUBSET (1 .. n) /\ (1 .. k) # {} /\ k \in (1 .. k)
    <3>1. k \in 1 .. k
      OBVIOUS
    <3>2. \A j \in 1 .. k : j \in 1 .. n
      OBVIOUS
    <3>3. QED
      BY <3>1, <3>2
  <2>2. Max(1 .. k) \in 1 .. k /\ k <= Max(1 .. k)
    BY <2>1, MaxOfRange
  <2>3. Max(1 .. k) = k
    BY <2>2
  <2>4. (1 .. k) \ {k} = 1 .. (k - 1)
    OBVIOUS
  <2>5. it[1 .. k] = Step(ctx, it[(1 .. k) \ {Max(1 .. k)}], seq[Max(1 .. k)])
    BY <1>1, <2>1 DEF IsIter
  <2>6. run[k] = it[1 .. k] /\ run[k - 1] = it[1 .. (k - 1)]
    OBVIOUS
  <2>7. QED
    BY <2>3, <2>4, <2>5, <2>6
<1>6. IsRun(ctx, base, seq, n, run)
  BY <1>3, <1>4, <1>5 DEF IsRun
<1>7. QED
  BY <1>6

\* What holds at the start and is kept by every turn holds of the fold.
THEOREM FoldInvariant ==
  ASSUME NEW ctx, NEW base, NEW n \in Nat, NEW seq, DOMAIN seq = 1 .. n,
         Holds(ctx, 0, base),
         \A k \in 1 .. n : \A acc :
           Holds(ctx, k - 1, acc) => Holds(ctx, k, Step(ctx, acc, seq[k]))
  PROVE  Holds(ctx, n, Fold(ctx, base, seq))
<1>1. PICK run : IsRun(ctx, base, seq, n, run)
  BY FoldRuns
<1> DEFINE Bad == {k \in 0 .. n : ~Holds(ctx, k, run[k])}
<1>2. ASSUME Bad # {} PROVE FALSE
  <2>1. Bad \in SUBSET Nat
    OBVIOUS
  <2>2. PICK k \in Bad : \A y \in Bad : k <= y
    BY <1>2, <2>1, LeastElement
  <2>3. k # 0
    BY <1>1 DEF IsRun
  <2>4. k - 1 \in 0 .. n /\ ~(k <= k - 1) /\ k \in 1 .. n
    BY <2>3
  <2>5. Holds(ctx, k - 1, run[k - 1])
    BY <2>4, <2>2
  <2>6. Holds(ctx, k, run[k])
    BY <2>5, <2>4, <1>1 DEF IsRun
  <2>7. QED
    BY <2>6
<1>3. Holds(ctx, n, run[n])
  BY <1>2
<1>4. QED
  BY <1>1, <1>3 DEF IsRun
=============================================================================
