--------------------------- MODULE RecursionProofs ---------------------------
(***************************************************************************)
(* Induction over the naturals, for a set in place of a predicate, and the *)
(* equation of a function defined by recursion over them.                  *)
(***************************************************************************)
EXTENDS Integers, WellFoundedInduction, TLAPS

(* A set of naturals that holds 0 and, with n, n + 1 holds every natural.  *)
LEMMA SetInduction ==
    ASSUME NEW T \in SUBSET Nat, 0 \in T, \A n \in T : n + 1 \in T
    PROVE  \A n \in Nat : n \in T
<1> DEFINE R == {ss \in Nat \X Nat : ss[1] < ss[2]}
<1> SUFFICES ASSUME Nat \ T # {} PROVE FALSE
    OBVIOUS
<1>1. R = OpToRel(<, Nat)
    BY DEF OpToRel
<1>2. IsWellFoundedOn(R, Nat)
    BY <1>1, NatLessThanWellFounded
<1> HIDE DEF R
<1>3. PICK x \in Nat \ T : \A y \in Nat \ T : ~(<<y, x>> \in R)
    BY <1>2, WFMin
<1>4. x - 1 \in Nat /\ x - 1 < x /\ x = (x - 1) + 1
    BY <1>3
<1>5. <<x - 1, x>> \in R
    BY <1>3, <1>4 DEF R
<1>6. x - 1 \in T
    BY <1>3, <1>4, <1>5
<1> QED BY <1>3, <1>4, <1>6

(* f is the sequence that starts with `first` and goes from its value at n *)
(* to its value at n + 1 by step[n].                                       *)
IsSequence(f, S, first, step) ==
    /\ f \in [Nat -> S]
    /\ f[0] = first
    /\ \A n \in Nat : f[n + 1] = step[n][f[n]]

(* There is such a sequence for every start and every step.                *)
LEMMA SequenceExists ==
    ASSUME NEW S, NEW first \in S, NEW step \in [Nat -> [S -> S]]
    PROVE  \E f : IsSequence(f, S, first, step)
(* It is put together from its initial parts, which exist ...              *)
<1> DEFINE Begins(g, n) == /\ g \in [0 .. n -> S]
                           /\ g[0] = first
                           /\ \A i \in 0 .. n - 1 : g[i + 1] = step[i][g[i]]
<1>1. \A n \in Nat : \E g : Begins(g, n)
    <2> DEFINE T == {n \in Nat : \E g : Begins(g, n)}
    <2>1. 0 \in T
        <3> DEFINE g == [i \in 0 .. 0 |-> first]
        <3>1. Begins(g, 0)
            OBVIOUS
        <3> QED BY <3>1
    <2>2. ASSUME NEW n \in T PROVE n + 1 \in T
        <3>1. PICK g : Begins(g, n)
            OBVIOUS
        <3> DEFINE h == [i \in 0 .. n + 1 |-> IF i = n + 1 THEN step[n][g[n]] ELSE g[i]]
        <3>2. n \in Nat /\ n \in 0 .. n /\ step[n][g[n]] \in S
            BY <3>1
        <3>3. h \in [0 .. n + 1 -> S] /\ h[0] = first
            BY <3>1, <3>2
        <3>4. ASSUME NEW i \in 0 .. (n + 1) - 1 PROVE h[i + 1] = step[i][h[i]]
            BY <3>1, <3>2
        <3>5. Begins(h, n + 1)
            BY <3>3, <3>4
        <3> HIDE DEF Begins
        <3> QED BY <3>2, <3>5
    <2> HIDE DEF T, Begins
    <2>3. \A n \in Nat : n \in T
        BY <2>1, <2>2, SetInduction DEF T
    <2> QED BY <2>3 DEF T
(* ... and agree with one another.                                         *)
<1>2. \A i \in Nat : \A m, n \in Nat : \A g, h :
          Begins(g, m) /\ Begins(h, n) /\ i <= m /\ i <= n => g[i] = h[i]
    <2> DEFINE Agree(i) == \A m, n \in Nat : \A g, h :
            Begins(g, m) /\ Begins(h, n) /\ i <= m /\ i <= n => g[i] = h[i]
    <2> DEFINE T == {i \in Nat : Agree(i)}
    <2>1. 0 \in T
        OBVIOUS
    <2>2. ASSUME NEW i \in T PROVE Agree(i + 1)
        <3> HIDE DEF Begins
        <3> SUFFICES ASSUME NEW m \in Nat, NEW n \in Nat, NEW g, NEW h,
                            Begins(g, m), Begins(h, n), i + 1 <= m, i + 1 <= n
                     PROVE  g[i + 1] = h[i + 1]
            OBVIOUS
        <3>1. i \in 0 .. m - 1 /\ i \in 0 .. n - 1 /\ i <= m /\ i <= n
            OBVIOUS
        <3>2. g[i] = h[i]
            <4>1. Agree(i)
                OBVIOUS
            <4> QED BY <3>1, <4>1
        <3> QED BY <3>1, <3>2 DEF Begins
    <2> HIDE DEF Begins, Agree
    <2>3. T \in SUBSET Nat /\ \A i \in T : i + 1 \in T
        BY <2>2
    <2> HIDE DEF T
    <2>4. \A i \in Nat : i \in T
        BY <2>1, <2>3, SetInduction
    <2>5. \A i \in Nat : Agree(i)
        BY <2>4 DEF T
    <2> QED BY <2>5 DEF Agree
<1> DEFINE part(n) == CHOOSE g : Begins(g, n)
           f == [n \in Nat |-> part(n)[n]]
<1> HIDE DEF Begins
<1>3. ASSUME NEW n \in Nat PROVE Begins(part(n), n)
    BY <1>1
<1> HIDE DEF part
<1>4. ASSUME NEW n \in Nat PROVE f[n] \in S
    BY <1>3 DEF Begins
<1>5. f[0] = first
    BY <1>3 DEF Begins
<1>6. ASSUME NEW n \in Nat PROVE f[n + 1] = step[n][f[n]]
    <2>1. n + 1 \in Nat /\ n \in 0 .. (n + 1) - 1 /\ n <= n + 1
        OBVIOUS
    <2>2. part(n + 1)[n + 1] = step[n][part(n + 1)[n]]
        BY <1>3, <2>1 DEF Begins
    <2>3. part(n + 1)[n] = part(n)[n]
        BY <1>2, <1>3, <2>1
    <2> QED BY <2>1, <2>2, <2>3
<1>7. IsSequence(f, S, first, step)
    BY <1>4, <1>5, <1>6 DEF IsSequence
<1> QED BY <1>7
==============================================================================
