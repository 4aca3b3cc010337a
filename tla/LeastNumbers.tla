----------------------------- MODULE LeastNumbers -----------------------------
(***************************************************************************)
(* The least number principle as a statement about sets: with it a proof by*)
(* induction is one about the least counterexample.  And what follows for a*)
(* function defined by recursion on a number.                              *)
(***************************************************************************)
EXTENDS Integers, WellFoundedInduction, TLAPS

(* A set of natural numbers that is not empty has a least one.             *)
LEMMA LeastNumber ==
    ASSUME NEW S \in SUBSET Nat, S # {}
    PROVE  \E m \in S : \A k \in S : m <= k
<1> DEFINE R == {ss \in Nat \X Nat : ss[1] < ss[2]}
<1>1. IsWellFoundedOn(R, Nat)
    BY NatLessThanWellFounded DEF OpToRel
<1>2. \E m \in S : \A k \in S : ~ (<<k, m>> \in R)
    <2> HIDE DEF R
    <2> QED BY <1>1, WFMin
<1>3. ASSUME NEW k \in Nat, NEW m \in Nat, <<k, m>> \notin R
      PROVE  m <= k
    <2>1. <<k, m>>[1] = k /\ <<k, m>>[2] = m
        OBVIOUS
    <2>2. <<k, m>> \in Nat \X Nat
        OBVIOUS
    <2>3. ~ (<<k, m>>[1] < <<k, m>>[2])
        BY <1>3, <2>2, Zenon
    <2> QED BY <2>1, <2>3
<1> HIDE DEF R
<1> QED BY <1>2, <1>3

(* One with an upper bound has a greatest one.                             *)
LEMMA GreatestNumber ==
    ASSUME NEW S \in SUBSET Nat, S # {}, NEW bound \in Nat, \A k \in S : k <= bound
    PROVE  \E m \in S : \A k \in S : k <= m
<1> DEFINE T == {bound - k : k \in S}
<1>0. T # {}
    OBVIOUS
<1>1. ASSUME NEW k \in S
      PROVE  bound - k \in Nat
    <2>1. k \in Nat /\ k <= bound
        OBVIOUS
    <2> QED BY <2>1
<1>2. PICK t \in T : \A u \in T : t <= u
    <2>1. T \in SUBSET Nat
        BY <1>1
    <2> HIDE DEF T
    <2> QED BY <1>0, <2>1, LeastNumber
<1>3. PICK m \in S : t = bound - m
    OBVIOUS
<1>4. ASSUME NEW k \in S
      PROVE  k <= m
    <2>1. bound - k \in T
        OBVIOUS
    <2>2. t <= bound - k
        BY <1>2, <2>1
    <2> QED BY <2>2, <1>3
<1> QED BY <1>4

(* What n steps make of a value, one after the other: a recursive function *)
(* of the number of steps, which has one solution.                         *)
Iterated(n, start, step) ==
    LET after[i \in 0..n] == IF i = 0 THEN start ELSE step[i][after[i - 1]]
    IN  after

Follows(f, n, step) == \A i \in 1..n : f[i] = step[i][f[i - 1]]

(* Each value comes of the one before.                                     *)
LEMMA IteratedSteps ==
    ASSUME NEW T, NEW n \in Nat, NEW start \in T, NEW step \in [1..n -> [T -> T]]
    PROVE  /\ Iterated(n, start, step) \in [0..n -> T]
           /\ Iterated(n, start, step)[0] = start
           /\ Follows(Iterated(n, start, step), n, step)
<1> DEFINE Steps(m, f) == /\ f \in [0..m -> T] /\ f[0] = start
                          /\ \A i \in 1..m : f[i] = step[i][f[i - 1]]
           Bad == {m \in 0..n : ~ \E f : Steps(m, f)}
<1>1. Bad = {}
    <2> SUFFICES ASSUME Bad # {} PROVE FALSE
        OBVIOUS
    <2>1. PICK m \in Bad : \A k \in Bad : m <= k
        <3>1. Bad \in SUBSET Nat
            OBVIOUS
        <3> HIDE DEF Bad
        <3> QED BY <3>1, LeastNumber
    <2>2. m \in 0..n /\ m \in Nat
        OBVIOUS
    <2>3. m # 0
        <3> SUFFICES ASSUME m = 0 PROVE \E f : Steps(0, f)
            BY <2>1
        <3> PICK f : f = [i \in 0..0 |-> start]
            OBVIOUS
        <3>1. Steps(0, f)
            OBVIOUS
        <3> QED BY <3>1
    <2>4. m - 1 \in 0..n /\ m - 1 \notin Bad
        <3>1. m - 1 \in 0..n /\ ~(m <= m - 1)
            BY <2>2, <2>3
        <3> HIDE DEF Bad
        <3> QED BY <2>1, <3>1
    <2>5. PICK f : Steps(m - 1, f)
        BY <2>4
    <2> DEFINE g == [i \in 0..m |-> IF i = m THEN step[m][f[m - 1]] ELSE f[i]]
    <2>6. step[m][f[m - 1]] \in T
        <3>1. f[m - 1] \in T /\ m \in 1..n
            BY <2>2, <2>3, <2>4, <2>5
        <3> QED BY <3>1
    <2>7. g \in [0..m -> T]
        BY <2>2, <2>3, <2>5, <2>6
    <2>8. g[0] = start
        BY <2>2, <2>3, <2>5
    <2>9. ASSUME NEW i \in 1..m
          PROVE  g[i] = step[i][g[i - 1]]
        <3>1. i \in 0..m /\ i - 1 \in 0..m /\ i - 1 # m
            BY <2>2
        <3>2. g[i - 1] = f[i - 1]
            BY <3>1
        <3>3. CASE i = m
            BY <3>1, <3>2, <3>3
        <3>4. CASE i # m
            <4>1. i \in 1..(m - 1) /\ g[i] = f[i]
                BY <2>2, <3>1, <3>4
            <4> QED BY <2>5, <3>2, <4>1
        <3> QED BY <3>3, <3>4
    <2> HIDE DEF g
    <2>10. Steps(m, g)
        BY <2>7, <2>8, <2>9
    <2> QED BY <2>1, <2>10
<1>2. PICK f : Steps(n, f)
    <2>1. n \in 0..n
        OBVIOUS
    <2> HIDE DEF Steps
    <2> QED BY <1>1, <2>1
<1> DEFINE Equation(u) == u = [i \in 0..n |-> IF i = 0 THEN start ELSE step[i][u[i - 1]]]
           after == CHOOSE after : Equation(after)
<1>3. Iterated(n, start, step) = after
    BY DEF Iterated
<1>4. Equation(f)
    <2>1. \A i \in 0..n : f[i] = IF i = 0 THEN start ELSE step[i][f[i - 1]]
        BY <1>2
    <2> QED BY <1>2, <2>1
<1>5. Equation(after)
    <2> HIDE DEF Equation
    <2> QED BY <1>4
<1> HIDE DEF after
<1>6. \A i \in 0..n : after[i] = IF i = 0 THEN start ELSE step[i][after[i - 1]]
    BY <1>5
<1> DEFINE Differ == {i \in 0..n : after[i] # f[i]}
<1>7. Differ = {}
    <2> SUFFICES ASSUME Differ # {} PROVE FALSE
        OBVIOUS
    <2>1. PICK m \in Differ : \A k \in Differ : m <= k
        <3>1. Differ \in SUBSET Nat
            OBVIOUS
        <3> HIDE DEF Differ
        <3> QED BY <3>1, LeastNumber
    <2>2. m \in 0..n /\ m # 0
        BY <1>2, <1>6
    <2>3. m - 1 \in 0..n /\ m - 1 \notin Differ
        BY <2>1, <2>2
    <2>4. after[m - 1] = f[m - 1] /\ m \in 1..n
        BY <2>2, <2>3
    <2> QED BY <1>2, <1>6, <2>1, <2>2, <2>4
<1>8. after = f
    <2>1. \A i \in 0..n : after[i] = f[i]
        BY <1>7
    <2>2. after = [i \in 0..n |-> after[i]]
        BY <1>5
    <2>3. f = [i \in 0..n |-> f[i]]
        BY <1>2
    <2> QED BY <2>1, <2>2, <2>3
<1> QED BY <1>2, <1>3, <1>8 DEF Follows
=============================================================================
