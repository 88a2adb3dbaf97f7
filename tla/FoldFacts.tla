----------------------------- MODULE FoldFacts ------------------------------
(***************************************************************************)
(* What FoldLeft computes, for every operator Op with a parameter.  The    *)
(* modules about code that loops over a sequence instantiate Op with the   *)
(* body of the loop.                                                       *)
(***************************************************************************)
EXTENDS Integers, Sequences, SequencesExt, WellFoundedInduction,
        NaturalsInduction, TLAPS

CONSTANT Op(_, _, _)

Fold(p, base, seq) == FoldLeft(LAMBDA a, x : Op(p, a, x), base, seq)

\* The equation that FoldLeft solves.
Iterates(p, base, seq, S, g) ==
    g = [s \in SUBSET S |->
            IF s = {} THEN base ELSE Op(p, g[s \ {Max(s)}], seq[Max(s)])]

LEMMA FoldIsIteration ==
    ASSUME NEW p, NEW base, NEW seq
    PROVE  Fold(p, base, seq) =
              (CHOOSE g : Iterates(p, base, seq, DOMAIN seq, g))[DOMAIN seq]
  BY DEF Fold, FoldLeft, MapThenFoldSet, Iterates

\* A set of natural numbers that holds 0 and the successors of its members up
\* to n holds all of them.
LEMMA Induction ==
    ASSUME NEW n \in Nat, NEW S, 0 \in S,
           \A i \in 0 .. n : i \in S /\ i < n => i + 1 \in S
    PROVE  \A i \in 0 .. n : i \in S
  <1> DEFINE T == {i \in 0 .. n : i \notin S}
  <1> SUFFICES ASSUME T # {} PROVE FALSE
    OBVIOUS
  <1>1. T \in SUBSET Nat
    OBVIOUS
  <1>2. PICK x \in T : \A y \in T : <<y, x>> \notin OpToRel(<, Nat)
    BY <1>1, WFMin, NatLessThanWellFounded
  <1>3. \A y \in T : ~(y < x)
    BY <1>1, <1>2 DEF OpToRel
  <1>4. x \in 1 .. n
    <2>1. x \in 0 .. n /\ x # 0
      BY <1>2
    <2> QED
      BY <2>1
  <1>5. x - 1 \in 0 .. n /\ x - 1 < n /\ x - 1 + 1 = x /\ x - 1 \notin T
    BY <1>3, <1>4
  <1> QED
    BY <1>2, <1>5

\* The greatest member of a set of indices.
LEMMA MaxOf ==
    ASSUME NEW k \in Nat, NEW s \in SUBSET (1 .. k), k \in s
    PROVE  Max(s) = k
  <1>1. \A x \in s : (\A y \in s : x >= y) <=> x = k
    OBVIOUS
  <1> QED
    BY <1>1 DEF Max

\* The equation has a solution.
LEMMA IterationExists ==
    ASSUME NEW p, NEW base, NEW n \in Nat, NEW seq
    PROVE  \E g : Iterates(p, base, seq, 1 .. n, g)
  <1> DEFINE S == {k \in Nat : \E g : Iterates(p, base, seq, 1 .. k, g)}
  <1>1. 0 \in S
    <2> DEFINE g == [s \in {{}} |-> base]
    <2>1. SUBSET (1 .. 0) = {{}}
      OBVIOUS
    <2>2. Iterates(p, base, seq, 1 .. 0, g)
      BY <2>1 DEF Iterates
    <2> QED
      BY <2>2
  <1>2. ASSUME NEW k \in 0 .. n, k \in S, k < n
        PROVE  k + 1 \in S
    <2>1. PICK g : Iterates(p, base, seq, 1 .. k, g)
      BY <1>2
    <2> DEFINE T == SUBSET (1 .. k + 1)
               h == [s \in T |-> IF k + 1 \in s
                                 THEN Op(p, g[s \ {k + 1}], seq[k + 1])
                                 ELSE g[s]]
    <2>2. ASSUME NEW s \in T, k + 1 \in s
          PROVE  h[s] = IF s = {} THEN base
                        ELSE Op(p, h[s \ {Max(s)}], seq[Max(s)])
      <3>1. Max(s) = k + 1
        BY <2>2, MaxOf
      <3>2. s \ {k + 1} \in T /\ k + 1 \notin s \ {k + 1} /\ s # {}
        BY <2>2
      <3>3. h[s \ {k + 1}] = g[s \ {k + 1}]
        BY <3>2
      <3> QED
        BY <2>2, <3>1, <3>2, <3>3
    <2>3. ASSUME NEW s \in T, k + 1 \notin s
          PROVE  h[s] = IF s = {} THEN base
                        ELSE Op(p, h[s \ {Max(s)}], seq[Max(s)])
      <3>1. s \in SUBSET (1 .. k)
        BY <2>3
      <3>2. h[s] = g[s]
        BY <2>3
      <3>3. s \ {Max(s)} \in T /\ k + 1 \notin s \ {Max(s)}
            /\ s \ {Max(s)} \in SUBSET (1 .. k)
        BY <2>3, <3>1
      <3>4. h[s \ {Max(s)}] = g[s \ {Max(s)}]
        BY <3>3
      <3>5. g[s] = IF s = {} THEN base
                   ELSE Op(p, g[s \ {Max(s)}], seq[Max(s)])
        BY <2>1, <3>1 DEF Iterates
      <3> QED
        BY <3>2, <3>4, <3>5
    <2>4. h = [s \in T |-> IF s = {} THEN base
                           ELSE Op(p, h[s \ {Max(s)}], seq[Max(s)])]
      <3> DEFINE f == [s \in T |-> IF s = {} THEN base
                                   ELSE Op(p, h[s \ {Max(s)}], seq[Max(s)])]
      <3>1. \A s \in T : h[s] = f[s]
        BY <2>2, <2>3
      <3> QED
        BY <3>1
    <2>5. Iterates(p, base, seq, 1 .. k + 1, h)
      BY <2>4 DEF Iterates
    <2> QED
      BY <2>5
  <1> HIDE DEF S
  <1>3. n \in S
    BY <1>1, <1>2, Induction
  <1> QED
    BY <1>3 DEF S

\* What holds of the accumulator before the loop, I[0], and is carried by every
\* turn i of it from I[i - 1] to I[i], holds of the result.
LEMMA FoldInvariant ==
    ASSUME NEW p, NEW base, NEW n \in Nat, NEW seq, DOMAIN seq = 1 .. n,
           NEW I, base \in I[0],
           \A i \in 1 .. n : \A a \in I[i - 1] : Op(p, a, seq[i]) \in I[i]
    PROVE  Fold(p, base, seq) \in I[n]
  <1> DEFINE g == CHOOSE g : Iterates(p, base, seq, 1 .. n, g)
  <1>1. Iterates(p, base, seq, 1 .. n, g)
    BY IterationExists
  <1>2. Fold(p, base, seq) = g[1 .. n]
    BY FoldIsIteration
  <1> HIDE DEF g
  <1> DEFINE S == {k \in Nat : g[1 .. k] \in I[k]}
  <1>3. 0 \in S
    <2>1. g[{}] = base
      BY <1>1 DEF Iterates
    <2>2. 1 .. 0 = {}
      OBVIOUS
    <2> QED
      BY <2>1, <2>2
  <1>4. ASSUME NEW k \in 0 .. n, k \in S, k < n
        PROVE  k + 1 \in S
    <2> HIDE DEF S
    <2>1. 1 .. (k + 1) \in SUBSET (1 .. n) /\ 1 .. (k + 1) # {} /\ k + 1 \in Nat
      <3>1. k \in Nat /\ k + 1 <= n /\ 1 \in 1 .. (k + 1)
        BY <1>4
      <3> QED
        BY <3>1
    <2>2. Max(1 .. k + 1) = k + 1
      BY <2>1, MaxOf
    <2>3. (1 .. k + 1) \ {k + 1} = 1 .. k
      OBVIOUS
    <2>4. g[1 .. k + 1] = Op(p, g[1 .. k], seq[k + 1])
      BY <1>1, <2>1, <2>2, <2>3 DEF Iterates
    <2>5. k + 1 \in 1 .. n /\ g[1 .. k] \in I[(k + 1) - 1]
      BY <1>4 DEF S
    <2> QED
      BY <2>1, <2>4, <2>5 DEF S
  <1> HIDE DEF S
  <1>5. n \in S
    <2>1. \A i \in 0 .. n : i \in S /\ i < n => i + 1 \in S
      BY <1>4
    <2>2. \A i \in 0 .. n : i \in S
      BY <1>3, <2>1, Induction
    <2> QED
      BY <2>2
  <1> QED
    BY <1>2, <1>5 DEF S

\* A loop over one element more is the loop and one turn more.
LEMMA FoldAppend ==
    ASSUME NEW p, NEW base, NEW n \in Nat, NEW seq, NEW ext,
           DOMAIN seq = 1 .. n, DOMAIN ext = 1 .. n + 1,
           \A i \in 1 .. n : ext[i] = seq[i]
    PROVE  Fold(p, base, ext) = Op(p, Fold(p, base, seq), ext[n + 1])
  <1> DEFINE g == CHOOSE g : Iterates(p, base, seq, 1 .. n, g)
             last == Op(p, g[1 .. n], ext[n + 1])
             I == [i \in 0 .. n + 1 |-> IF i = n + 1 THEN {last} ELSE {g[1 .. i]}]
  <1>1. Iterates(p, base, seq, 1 .. n, g)
    BY IterationExists
  <1>2. Fold(p, base, seq) = g[1 .. n]
    BY FoldIsIteration
  <1> HIDE DEF g
  <1>3. base \in I[0]
    <2>1. g[{}] = base
      BY <1>1 DEF Iterates
    <2>2. 1 .. 0 = {} /\ 0 \in 0 .. n + 1 /\ 0 # n + 1
      OBVIOUS
    <2> QED
      BY <2>1, <2>2
  <1>4. ASSUME NEW i \in 1 .. n + 1, NEW a \in I[i - 1]
        PROVE  Op(p, a, ext[i]) \in I[i]
    <2>1. i - 1 \in 0 .. n + 1 /\ i - 1 # n + 1 /\ i \in 0 .. n + 1
      OBVIOUS
    <2>2. a = g[1 .. (i - 1)]
      BY <2>1
    <2>3. CASE i = n + 1
      <3>1. a = g[1 .. n]
        BY <2>2, <2>3
      <3> QED
        BY <2>1, <2>3, <3>1
    <2>4. CASE i # n + 1
      <3>1. i \in 1 .. n /\ 1 .. i \in SUBSET (1 .. n) /\ 1 .. i # {} /\ i \in Nat
        <4>1. i \in 1 .. n /\ i \in Nat /\ 1 \in 1 .. i
          BY <2>4
        <4>2. \A x \in 1 .. i : x \in 1 .. n
          BY <4>1
        <4> QED
          BY <4>1, <4>2
      <3>2. Max(1 .. i) = i
        BY <3>1, MaxOf
      <3>3. (1 .. i) \ {i} = 1 .. (i - 1)
        BY <3>1
      <3>4. g[1 .. i] = Op(p, g[1 .. (i - 1)], seq[i])
        <4>1. g[1 .. i] = Op(p, g[(1 .. i) \ {Max(1 .. i)}], seq[Max(1 .. i)])
          BY <1>1, <3>1 DEF Iterates
        <4> QED
          BY <3>2, <3>3, <4>1
      <3>5. Op(p, a, ext[i]) = g[1 .. i]
        BY <2>2, <3>1, <3>4
      <3> QED
        BY <2>1, <2>4, <3>5
    <2> QED
      BY <2>3, <2>4
  <1> HIDE DEF I
  <1>5. n + 1 \in Nat
    OBVIOUS
  <1>6. Fold(p, base, ext) \in I[n + 1]
    BY <1>3, <1>4, <1>5, FoldInvariant
  <1>7. n + 1 \in 0 .. n + 1
    OBVIOUS
  <1> QED
    BY <1>2, <1>6, <1>7 DEF I
=============================================================================
