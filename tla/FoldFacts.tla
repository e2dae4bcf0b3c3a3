------------------------------- MODULE FoldFacts -------------------------------
(***************************************************************************)
(* Folds and filters of sequences, as the components use them.             *)
(*                                                                         *)
(* The library states induction for operators, which cannot be             *)
(* instantiated here.  A set of naturals has a least element, however: a   *)
(* claim about every prefix is proved by the least prefix that refutes it, *)
(* and the step of a fold is passed as a function instead of an operator.  *)
(***************************************************************************)
EXTENDS Selecting, Integers, FiniteSetsExt, FiniteSetTheorems, WellFoundedInduction, TLAPS

\* A set of natural numbers has a least element.
LEMMA LeastOfNats ==
    ASSUME NEW T, T \subseteq Nat, T # {}
    PROVE  \E x \in T : \A y \in T : x <= y
<1> DEFINE R == {ss \in Nat \X Nat : ss[1] < ss[2]}
<1>1. IsWellFoundedOn(R, Nat)
  BY NatLessThanWellFounded DEF OpToRel
<1> HIDE DEF R
<1>2. PICK x \in T : \A y \in T : ~ (<<y, x>> \in R)
  BY <1>1, WFMin
<1>3. \A y \in T : ~ (y < x)
  BY <1>2 DEF R
<1> QED
  BY <1>3, SMT

\* A set of naturals that has 0, and with k also k + 1 as long as that is at most n,
\* has all of 0 .. n.
LEMMA Upwards ==
    ASSUME NEW n \in Nat, NEW P, 0 \in P,
           \A k \in 0 .. n : k \in P /\ k < n => k + 1 \in P
    PROVE  0 .. n \subseteq P
<1> DEFINE T == (0 .. n) \ P
<1> SUFFICES ASSUME T # {} PROVE FALSE
  OBVIOUS
<1>1. PICK x \in T : \A y \in T : x <= y
  <2>1. T \subseteq Nat
    OBVIOUS
  <2> HIDE DEF T
  <2> QED
    BY <2>1, LeastOfNats
<1>2. x \in Nat /\ x <= n /\ x # 0 /\ x - 1 \in 0 .. n
  OBVIOUS
<1>3. x - 1 \in P
  BY <1>1, <1>2
<1>4. (x - 1) + 1 \in P
  BY <1>2, <1>3
<1> QED
  BY <1>2, <1>4

\* A set of places has a greatest one.
LEMMA MaxOfNats ==
    ASSUME NEW n \in Nat, NEW t, t \subseteq 1 .. n, t # {}
    PROVE  /\ Max(t) \in t
           /\ \A y \in t : y <= Max(t)
<1> DEFINE T == {n - y : y \in t}
<1>1. PICK x \in T : \A y \in T : x <= y
  <2>1. T \subseteq Nat /\ T # {}
    OBVIOUS
  <2> HIDE DEF T
  <2> QED
    BY <2>1, LeastOfNats
<1>2. PICK m \in t : x = n - m
  BY <1>1
<1>3. \A y \in t : n - m <= n - y
  BY <1>1, <1>2
<1>4. \A y \in t : y \in Int /\ m \in Int
  BY <1>2, \A y \in t : y \in 1 .. n
<1>5. \A y \in t : m >= y
  BY <1>3, <1>4
<1>6. \E v \in t : \A y \in t : v >= y
  BY <1>5
<1>7. Max(t) \in t /\ \A y \in t : Max(t) >= y
  BY <1>6 DEF Max
<1> QED
  BY <1>7, <1>4

\* The steps of a fold: op[k][c] is what becomes of c at k.
StaysIn(op, n, C) == \A k \in 1 .. n, c \in C : op[k][c] \in C

\* A fold over 1 .. n, from 1 upwards, has its function of subsets.
IsFold(g, n, base, op) ==
    g = [t \in SUBSET (1 .. n) |-> IF t = {} THEN base ELSE op[Max(t)][g[t \ {Max(t)}]]]

\* A fold over places has a value at every set of them, and stays in the range of its step.
LEMMA FoldExists ==
    ASSUME NEW n \in Nat, NEW C, NEW base \in C, NEW op, StaysIn(op, n, C)
    PROVE  \E g \in [SUBSET (1 .. n) -> C] : IsFold(g, n, base, op)
<1> DEFINE P == {k \in 0 .. n : \E g \in [SUBSET (1 .. k) -> C] : IsFold(g, k, base, op)}
<1>1. 0 \in P
  <2> DEFINE g == [t \in SUBSET (1 .. 0) |-> base]
  <2>1. g \in [SUBSET (1 .. 0) -> C]
    OBVIOUS
  <2>2. \A t \in SUBSET (1 .. 0) : t = {}
    OBVIOUS
  <2>3. IsFold(g, 0, base, op)
    BY <2>2, Zenon DEF IsFold
  <2> QED
    BY <2>1, <2>3
<1>2. ASSUME NEW k \in 0 .. n, k \in P, k < n PROVE k + 1 \in P
  <2>1. PICK g \in [SUBSET (1 .. k) -> C] : IsFold(g, k, base, op)
    BY <1>2
  <2> DEFINE f == [t \in SUBSET (1 .. k + 1) |->
                      IF k + 1 \in t THEN op[k + 1][g[t \ {k + 1}]] ELSE g[t]]
  <2>2. \A t \in SUBSET (1 .. k + 1) : /\ t \ {k + 1} \in SUBSET (1 .. k)
                                       /\ k + 1 \notin t => t \in SUBSET (1 .. k)
    OBVIOUS
  <2>3. k + 1 \in 1 .. n /\ 1 .. k \subseteq 1 .. k + 1 /\ k + 1 \notin 1 .. k
    BY <1>2
  <2>4. f \in [SUBSET (1 .. k + 1) -> C]
    BY <2>2, <2>3 DEF StaysIn
  <2>5. ASSUME NEW t \in SUBSET (1 .. k + 1)
        PROVE  f[t] = IF t = {} THEN base ELSE op[Max(t)][f[t \ {Max(t)}]]
    <3>1. CASE t = {}
      <4>1. f[t] = g[{}]
        BY <3>1, <2>2
      <4>2. g[{}] = base
        BY <2>1, Zenon DEF IsFold
      <4> QED
        BY <3>1, <4>1, <4>2
    <3>2. CASE k + 1 \in t
      <4>1. Max(t) = k + 1
        <5>1. Max(t) \in t /\ \A y \in t : y <= Max(t)
          BY <3>2, MaxOfNats, k + 1 \in Nat, t # {}
        <5> QED
          BY <5>1, <3>2, Max(t) \in 1 .. k + 1
      <4>2. f[t \ {k + 1}] = g[t \ {k + 1}]
        BY <2>2, t \ {k + 1} \in SUBSET (1 .. k + 1)
      <4> QED
        BY <3>2, <4>1, <4>2
    <3>3. CASE t # {} /\ k + 1 \notin t
      <4>1. t \in SUBSET (1 .. k)
        BY <3>3, <2>2
      <4>2. Max(t) \in t
        BY <3>3, <4>1, MaxOfNats, k \in Nat
      <4>3. g[t] = op[Max(t)][g[t \ {Max(t)}]]
        BY <2>1, <3>3, <4>1, Zenon DEF IsFold
      <4>4. f[t \ {Max(t)}] = g[t \ {Max(t)}]
        <5>1. t \ {Max(t)} \in SUBSET (1 .. k + 1) /\ k + 1 \notin t \ {Max(t)}
          BY <3>3
        <5> HIDE DEF f
        <5> QED
          BY <5>1 DEF f
      <4> QED
        BY <3>3, <4>3, <4>4
    <3> QED
      BY <3>1, <3>2, <3>3
  <2>6. IsFold(f, k + 1, base, op)
    <3> DEFINE e == [t \in SUBSET (1 .. k + 1) |->
                        IF t = {} THEN base ELSE op[Max(t)][f[t \ {Max(t)}]]]
    <3>1. \A t \in SUBSET (1 .. k + 1) : f[t] = e[t]
      <4> HIDE DEF f
      <4> QED
        BY <2>5
    <3>2. f = e
      <4>1. DOMAIN f = DOMAIN e /\ f = [t \in DOMAIN f |-> f[t]] /\ e = [t \in DOMAIN e |-> e[t]]
        BY Zenon
      <4>2. DOMAIN f = SUBSET (1 .. k + 1)
        OBVIOUS
      <4> HIDE DEF f, e
      <4> QED
        BY <3>1, <4>1, <4>2
    <3> HIDE DEF f
    <3> QED
      BY <3>2 DEF IsFold
  <2>7. k + 1 \in 0 .. n
    BY <2>3
  <2> HIDE DEF f
  <2> QED
    BY <2>4, <2>6, <2>7
<1>3. 0 .. n \subseteq P
  <2> HIDE DEF P
  <2> QED
    BY <1>1, <1>2, Upwards
<1> QED
  BY <1>3, n \in 0 .. n

\* What a fold does from one prefix to the next.
LEMMA PrefixFacts ==
    ASSUME NEW n \in Nat, NEW k \in 1 .. n
    PROVE  /\ 1 .. k \in SUBSET (1 .. n) /\ 1 .. k # {}
           /\ Max(1 .. k) = k
           /\ (1 .. k) \ {k} = 1 .. k - 1
<1>1. k \in Nat /\ k <= n /\ k \in 1 .. k
  OBVIOUS
<1>2. \A y \in 1 .. k : y \in 1 .. n
  BY <1>1
<1>3. Max(1 .. k) \in 1 .. k /\ \A y \in 1 .. k : y <= Max(1 .. k)
  BY <1>1, MaxOfNats
<1>4. Max(1 .. k) = k
  BY <1>1, <1>3
<1>5. (1 .. k) \ {k} = 1 .. k - 1
  BY <1>1
<1>6. 1 .. k \in SUBSET (1 .. n) /\ 1 .. k # {}
  BY <1>1, <1>2
<1> QED
  BY <1>4, <1>5, <1>6, Zenon

Follows(g, n, C, base, op) ==
    /\ g[{}] = base
    /\ \A k \in 1 .. n : g[1 .. k - 1] \in C => g[1 .. k] = op[k][g[1 .. k - 1]]
Runs(h, n, C, base, op) ==
    /\ \A k \in 0 .. n : h[k] \in C
    /\ h[0] = base
    /\ \A k \in 1 .. n : k - 1 \in 0 .. n /\ h[k] = op[k][h[k - 1]]

\* A fold over 1 .. n runs through its prefixes.
LEMMA FoldPrefixes ==
    ASSUME NEW n \in Nat, NEW C, NEW base \in C, NEW op, StaysIn(op, n, C),
           NEW g, Follows(g, n, C, base, op)
    PROVE  \E h : Runs(h, n, C, base, op) /\ h[n] = g[1 .. n]
<1> DEFINE h == [k \in 0 .. n |-> g[1 .. k]]
           P == {k \in 0 .. n : h[k] \in C}
<1>1. h[0] = base
  BY 1 .. 0 = {} DEF Follows
<1>2. ASSUME NEW k \in 1 .. n, h[k - 1] \in C
      PROVE  h[k] \in C /\ h[k] = op[k][h[k - 1]]
  <2>1. k \in 0 .. n /\ k - 1 \in 0 .. n
    OBVIOUS
  <2>2. h[k - 1] = g[1 .. k - 1] /\ h[k] = g[1 .. k]
    BY <2>1
  <2> HIDE DEF h
  <2> QED
    BY <1>2, <2>2 DEF StaysIn, Follows
<1>3. 0 .. n \subseteq P
  <2>1. 0 \in P
    BY <1>1
  <2>2. ASSUME NEW k \in 0 .. n, k \in P, k < n PROVE k + 1 \in P
    <3>1. k + 1 \in 1 .. n /\ k + 1 \in 0 .. n /\ (k + 1) - 1 = k
      BY <2>2
    <3>2. h[k] \in C
      BY <2>2
    <3> HIDE DEF h
    <3>3. h[k + 1] \in C
      BY <3>1, <3>2, <1>2
    <3> QED
      BY <3>1, <3>3
  <2> HIDE DEF P
  <2> QED
    BY <2>1, <2>2, Upwards
<1>4. \A k \in 0 .. n : h[k] \in C
  BY <1>3
<1>6. h[n] = g[1 .. n]
  OBVIOUS
<1>7. \A k \in 1 .. n : k - 1 \in 0 .. n
  OBVIOUS
<1> QED
  <2> HIDE DEF h
  <2> QED
    BY <1>1, <1>2, <1>4, <1>6, <1>7 DEF Runs

\* G takes the steps of a fold wherever it is in C.
Unfolds(G, n, C, base, op) ==
    /\ G[{}] = base
    /\ \A t \in SUBSET (1 .. n) :
          t # {} /\ G[t \ {Max(t)}] \in C => G[t] = op[Max(t)][G[t \ {Max(t)}]]

\* Such a function runs through the prefixes.
LEMMA FoldRuns ==
    ASSUME NEW n \in Nat, NEW C, NEW base \in C, NEW op, StaysIn(op, n, C), NEW G,
           Unfolds(G, n, C, base, op)
    PROVE  \E h : Runs(h, n, C, base, op) /\ h[n] = G[1 .. n]
<1>1. ASSUME NEW k \in 1 .. n, G[1 .. k - 1] \in C
      PROVE  G[1 .. k] = op[k][G[1 .. k - 1]]
  <2>1. 1 .. k \in SUBSET (1 .. n) /\ 1 .. k # {}
    BY PrefixFacts, Zenon
  <2>2. Max(1 .. k) = k /\ (1 .. k) \ {k} = 1 .. k - 1
    BY PrefixFacts
  <2>3. G[(1 .. k) \ {Max(1 .. k)}] \in C
    BY <1>1, <2>2
  <2>4. G[1 .. k] = op[Max(1 .. k)][G[(1 .. k) \ {Max(1 .. k)}]]
    BY <2>1, <2>3, Zenon DEF Unfolds
  <2> QED
    BY <2>2, <2>4
<1>2. Follows(G, n, C, base, op)
  BY <1>1 DEF Follows, Unfolds
<1> QED
  BY <1>2, FoldPrefixes

-----------------------------------------------------------------------------
\* Only, and what it picks.

\* Selecting element by element: h[k] is what has been picked of the first k.
Selects(h, E, s, S) ==
    /\ \A k \in 0 .. Len(s) : h[k] \in Seq(E)
    /\ h[0] = <<>>
    /\ \A k \in 1 .. Len(s) :
          /\ k - 1 \in 0 .. Len(s)
          /\ h[k] = IF s[k] \in S THEN Append(h[k - 1], s[k]) ELSE h[k - 1]
    /\ h[Len(s)] = Only(s, S)

\* Only runs through the sequence.
LEMMA OnlyFold ==
    ASSUME NEW E, NEW s \in Seq(E), NEW S
    PROVE  \E h : Selects(h, E, s, S)
<1> DEFINE n == Len(s)
           C == Seq(E)
           Step(c, x) == IF x \in S THEN Append(c, x) ELSE c
           Eq(g) == g = [t \in SUBSET (1 .. n) |->
                            IF t = {} THEN <<>> ELSE Step(g[t \ {Max(t)}], s[Max(t)])]
           G == CHOOSE g : Eq(g)
           op == [k \in 1 .. n |-> [c \in C |-> Step(c, s[k])]]
<1>1. Only(s, S) = G[1 .. n]
  <2>1. DOMAIN s = 1 .. n
    OBVIOUS
  <2>2. Only(s, S) = (CHOOSE g : g = [t \in SUBSET DOMAIN s |->
                         IF t = {} THEN <<>>
                         ELSE IF s[Max(t)] \in S THEN Append(g[t \ {Max(t)}], s[Max(t)])
                              ELSE g[t \ {Max(t)}]])[DOMAIN s]
    BY DEF Only, FoldLeft, MapThenFoldSet
  <2> QED
    BY <2>1, <2>2
<1>2. n \in Nat /\ <<>> \in C /\ \A k \in 1 .. n : s[k] \in E
  OBVIOUS
<1>3. \A k \in 1 .. n, c \in C : op[k][c] = Step(c, s[k]) /\ Step(c, s[k]) \in C
  OBVIOUS
<1> HIDE DEF op, n, C, Step
<1>4. StaysIn(op, n, C)
  BY <1>3 DEF StaysIn
<1>5. Eq(G)
  <2>1. PICK g \in [SUBSET (1 .. n) -> C] : IsFold(g, n, <<>>, op)
    BY <1>2, <1>4, FoldExists
  <2>2. ASSUME NEW t \in SUBSET (1 .. n), t # {}
        PROVE  op[Max(t)][g[t \ {Max(t)}]] = Step(g[t \ {Max(t)}], s[Max(t)])
    <3>1. Max(t) \in 1 .. n
      BY <1>2, <2>2, MaxOfNats
    <3>2. g[t \ {Max(t)}] \in C
      BY t \ {Max(t)} \in SUBSET (1 .. n)
    <3> QED
      BY <3>1, <3>2, <1>3
  <2>3. Eq(g)
    BY <2>1, <2>2 DEF IsFold
  <2> HIDE DEF Eq
  <2> QED
    BY <2>3
<1> HIDE DEF G
<1>6. G[{}] = <<>>
  BY <1>5, {} \in SUBSET (1 .. n)
<1>7. \A t \in SUBSET (1 .. n) : t # {} => G[t] = Step(G[t \ {Max(t)}], s[Max(t)])
  BY <1>5
<1> HIDE DEF Eq
<1>8. ASSUME NEW k \in 1 .. n
      PROVE  G[1 .. k] = Step(G[1 .. k - 1], s[k])
  <2>1. 1 .. k \in SUBSET (1 .. n) /\ 1 .. k # {}
    BY <1>2, PrefixFacts, Zenon
  <2>2. Max(1 .. k) = k /\ (1 .. k) \ {k} = 1 .. k - 1
    BY <1>2, PrefixFacts
  <2>3. G[1 .. k] = Step(G[(1 .. k) \ {Max(1 .. k)}], s[Max(1 .. k)])
    BY <1>7, <2>1, Zenon
  <2> QED
    BY <2>2, <2>3
<1>9. Follows(G, n, C, <<>>, op)
  BY <1>3, <1>6, <1>8 DEF Follows
<1>10. PICK h : Runs(h, n, C, <<>>, op) /\ h[n] = G[1 .. n]
  BY <1>2, <1>4, <1>9, FoldPrefixes
<1>11. /\ \A k \in 0 .. n : h[k] \in C
       /\ h[0] = <<>>
       /\ \A k \in 1 .. n : k - 1 \in 0 .. n /\ h[k] = Step(h[k - 1], s[k])
  BY <1>3, <1>10 DEF Runs
<1>12. h[n] = Only(s, S)
  BY <1>1, <1>10
<1>13. Selects(h, E, s, S)
  BY <1>11, <1>12 DEF Selects, n, C, Step
<1> QED
  BY <1>13

\* m places, in increasing order: those up to k whose elements are in S.
Picks(I, m, k, s, S) ==
    /\ \A a \in 1 .. m : I[a] \in 1 .. k /\ s[I[a]] \in S
    /\ \A a, b \in 1 .. m : a < b => I[a] < I[b]
    /\ \A j \in 1 .. k : s[j] \in S => \E a \in 1 .. m : I[a] = j

Paired(s, S, t, T) ==
    \E m \in Nat : \E I :
        /\ Picks(I, m, Len(s), s, S)
        /\ Only(s, S) = [a \in 1 .. m |-> s[I[a]]]
        /\ Only(t, T) = [a \in 1 .. m |-> t[I[a]]]

\* What passes a test in one sequence stands where it does in another whose elements
\* pass the other's test alike.
LEMMA OnlyPair ==
    ASSUME NEW E, NEW s \in Seq(E), NEW S, NEW F, NEW t \in Seq(F), NEW T,
           Len(t) = Len(s),
           \A j \in 1 .. Len(s) : s[j] \in S <=> t[j] \in T
    PROVE  Paired(s, S, t, T)
<1> DEFINE n == Len(s)
<1>1. n \in Nat /\ (\A k \in 1 .. n : s[k] \in E /\ t[k] \in F)
  OBVIOUS
<1> DEFINE Run(x, X, q, A) == /\ \A k \in 0 .. n : x[k] \in Seq(X)
                              /\ x[0] = <<>>
                              /\ \A k \in 1 .. n :
                                    /\ k - 1 \in 0 .. n
                                    /\ x[k] = IF q[k] \in A THEN Append(x[k - 1], q[k])
                                              ELSE x[k - 1]
                              /\ x[n] = Only(q, A)
<1>2. PICK h : Run(h, E, s, S)
  <2>1. PICK h : Selects(h, E, s, S)
    BY OnlyFold
  <2>2. Run(h, E, s, S)
    BY <2>1, Zenon DEF Selects
  <2> HIDE DEF Run
  <2> QED
    BY <2>2
<1>3. PICK g : Run(g, F, t, T)
  <2>1. PICK g : Selects(g, F, t, T)
    BY OnlyFold
  <2>2. Run(g, F, t, T)
    BY <2>1, Zenon DEF Selects
  <2> HIDE DEF Run
  <2> QED
    BY <2>2
<1> HIDE DEF n
<1> DEFINE Both(k, m, I) == /\ Picks(I, m, k, s, S)
                            /\ h[k] = [a \in 1 .. m |-> s[I[a]]]
                            /\ g[k] = [a \in 1 .. m |-> t[I[a]]]
           P == {k \in 0 .. n : \E m \in Nat : \E I : Both(k, m, I)}
<1>4. 0 \in P
  <2>1. Both(0, 0, <<>>)
    <3>1. Picks(<<>>, 0, 0, s, S)
      BY DEF Picks
    <3>2. \A x : [a \in 1 .. 0 |-> x[<<>>[a]]] = <<>>
      OBVIOUS
    <3> QED
      BY <1>2, <1>3, <3>1, <3>2
  <2>2. 0 \in 0 .. n /\ 0 \in Nat
    BY <1>1
  <2> HIDE DEF Both
  <2> QED
    BY <2>1, <2>2
<1>5. ASSUME NEW k \in 0 .. n, k \in P, k < n PROVE k + 1 \in P
  <2>1. k + 1 \in 1 .. n /\ k + 1 \in 0 .. n /\ (k + 1) - 1 = k /\ k \in Nat
    BY <1>1, <1>5
  <2>2. PICK m \in Nat : \E I : Both(k, m, I)
    BY <1>5
  <2>3. PICK I : Both(k, m, I)
    BY <2>2, Zenon
  <2>4. CASE s[k + 1] \notin S
    <3>1. h[k + 1] = h[k] /\ g[k + 1] = g[k]
      BY <1>2, <1>3, <2>1, <2>4 DEF n
    <3>2. Picks(I, m, k + 1, s, S)
      BY <2>1, <2>3, <2>4 DEF Picks
    <3>3. Both(k + 1, m, I)
      BY <2>3, <3>1, <3>2
    <3> HIDE DEF Both
    <3> QED
      BY <2>1, <3>3
  <2>5. CASE s[k + 1] \in S
    <3> DEFINE J == [a \in 1 .. m + 1 |-> IF a = m + 1 THEN k + 1 ELSE I[a]]
    <3>1. h[k + 1] = Append(h[k], s[k + 1]) /\ g[k + 1] = Append(g[k], t[k + 1])
      BY <1>2, <1>3, <2>1, <2>5 DEF n
    <3>2. /\ J[m + 1] = k + 1
          /\ \A a \in 1 .. m : J[a] = I[a] /\ a # m + 1 /\ a \in 1 .. m + 1
          /\ \A a \in 1 .. m + 1 : a = m + 1 \/ a \in 1 .. m
          /\ m + 1 \in 1 .. m + 1
      OBVIOUS
    <3> HIDE DEF J
    <3>3. Picks(J, m + 1, k + 1, s, S)
      <4>1. \A a \in 1 .. m + 1 : J[a] \in 1 .. k + 1 /\ s[J[a]] \in S
        <5>1. \A a \in 1 .. m : J[a] \in 1 .. k /\ s[J[a]] \in S
          BY <2>3, <3>2 DEF Picks
        <5>2. k + 1 \in 1 .. k + 1 /\ 1 .. k \subseteq 1 .. k + 1
          BY <2>1
        <5> QED
          BY <2>5, <3>2, <5>1, <5>2
      <4>2. ASSUME NEW a \in 1 .. m + 1, NEW b \in 1 .. m + 1, a < b PROVE J[a] < J[b]
        <5>1. a \in 1 .. m /\ J[a] = I[a] /\ I[a] \in 1 .. k
          BY <2>3, <3>2, <4>2 DEF Picks
        <5>2. CASE b = m + 1
          BY <2>1, <3>2, <5>1, <5>2
        <5>3. CASE b \in 1 .. m
          BY <2>3, <3>2, <4>2, <5>1, <5>3 DEF Picks
        <5> QED
          BY <3>2, <5>2, <5>3
      <4>3. ASSUME NEW j \in 1 .. k + 1, s[j] \in S PROVE \E a \in 1 .. m + 1 : J[a] = j
        <5>1. CASE j = k + 1
          BY <3>2, <5>1
        <5>2. CASE j # k + 1
          <6>1. j \in 1 .. k
            BY <2>1, <5>2
          <6>2. PICK a \in 1 .. m : I[a] = j
            BY <2>3, <4>3, <6>1 DEF Picks
          <6> QED
            BY <3>2, <6>2
        <5> QED
          BY <5>1, <5>2
      <4> QED
        BY <4>1, <4>2, <4>3 DEF Picks
    <3>4. \A x : Append([a \in 1 .. m |-> x[I[a]]], x[k + 1]) = [a \in 1 .. m + 1 |-> x[J[a]]]
      BY <3>2
    <3>5. Both(k + 1, m + 1, J)
      <4>1. h[k + 1] = [a \in 1 .. m + 1 |-> s[J[a]]]
        <5>1. Append([a \in 1 .. m |-> s[I[a]]], s[k + 1]) = [a \in 1 .. m + 1 |-> s[J[a]]]
          BY <3>4, Zenon
        <5> QED
          BY <2>3, <3>1, <5>1, Zenon
      <4>2. g[k + 1] = [a \in 1 .. m + 1 |-> t[J[a]]]
        <5>1. Append([a \in 1 .. m |-> t[I[a]]], t[k + 1]) = [a \in 1 .. m + 1 |-> t[J[a]]]
          BY <3>4, Zenon
        <5> QED
          BY <2>3, <3>1, <5>1, Zenon
      <4> QED
        BY <3>3, <4>1, <4>2
    <3> HIDE DEF Both
    <3> QED
      BY <2>1, <3>5, m + 1 \in Nat
  <2> QED
    BY <2>4, <2>5
<1>6. n \in P
  <2>1. n \in 0 .. n
    BY <1>1
  <2> HIDE DEF P
  <2> QED
    BY <1>1, <1>4, <1>5, <2>1, Upwards
<1>7. PICK m \in Nat : \E I : Both(n, m, I)
  BY <1>6
<1>8. PICK I : Both(n, m, I)
  BY <1>7, Zenon
<1> QED
  <2>1. /\ Picks(I, m, Len(s), s, S)
        /\ Only(s, S) = [a \in 1 .. m |-> s[I[a]]]
        /\ Only(t, T) = [a \in 1 .. m |-> t[I[a]]]
    BY <1>2, <1>3, <1>8 DEF n
  <2> QED
    BY <2>1, Zenon DEF Paired

\* The same of one sequence.
LEMMA OnlyFacts ==
    ASSUME NEW E, NEW s \in Seq(E), NEW S
    PROVE  \E m \in Nat : \E I : /\ Picks(I, m, Len(s), s, S)
                             /\ Only(s, S) = [a \in 1 .. m |-> s[I[a]]]
<1>1. Len(s) = Len(s) /\ \A j \in 1 .. Len(s) : s[j] \in S <=> s[j] \in S
  OBVIOUS
<1> QED
  BY <1>1, OnlyPair DEF Paired

\* A set of at most one element as a sequence.
LEMMA SeqOfOption ==
    ASSUME NEW S, \A x, y \in S : x = y
    PROVE  /\ SetToSeq(S) = <<>> <=> S = {}
           /\ \A x \in S : SetToSeq(S) = <<x>>
<1>1. CASE S = {}
  <2>1. Cardinality(S) = 0
    BY <1>1, FS_EmptySet
  <2>2. \A f \in [1 .. 0 -> S] : f = <<>>
    OBVIOUS
  <2>3. <<>> \in [1 .. 0 -> S] /\ IsInjective(<<>>)
    BY DEF IsInjective
  <2>4. SetToSeq(S) \in [1 .. 0 -> S]
    BY <2>1, <2>3 DEF SetToSeq
  <2> QED
    BY <1>1, <2>2, <2>4
<1>2. CASE S # {}
  <2>1. PICK x : x \in S
    BY <1>2
  <2>2. S = {x}
    BY <2>1
  <2>3. Cardinality(S) = 1
    BY <2>2, FS_Singleton
  <2>4. <<x>> \in [1 .. 1 -> S] /\ IsInjective(<<x>>)
    BY <2>1 DEF IsInjective
  <2>5. SetToSeq(S) \in [1 .. 1 -> S]
    BY <2>3, <2>4 DEF SetToSeq
  <2>6. SetToSeq(S) = <<x>>
    BY <2>2, <2>5
  <2> QED
    BY <2>2, <2>6
<1> QED
  BY <1>1, <1>2

-----------------------------------------------------------------------------
\* Numbers

\* A finite set of numbers has a greatest one.
LEMMA GreatestExists ==
    ASSUME NEW T \in SUBSET Int, IsFiniteSet(T), T # {}
    PROVE  \E x \in T : \A y \in T : y <= x
<1> DEFINE above(x) == {y \in T : x < y}
           N == {Cardinality(above(x)) : x \in T}
<1>1. \A x \in T : /\ above(x) \in SUBSET T
                   /\ IsFiniteSet(above(x)) /\ Cardinality(above(x)) \in Nat
  BY FS_Subset, FS_CardinalityType
<1>2. PICK m \in N : \A k \in N : m <= k
  <2>1. N \subseteq Nat /\ N # {}
    BY <1>1
  <2> HIDE DEF N
  <2> QED
    BY <2>1, LeastOfNats
<1>3. PICK x \in T : m = Cardinality(above(x))
  BY <1>2
<1>4. ASSUME NEW y \in T, x < y PROVE FALSE
  <2>1. above(y) \in SUBSET above(x) /\ y \in above(x) /\ y \notin above(y)
    <3>1. x \in Int /\ y \in Int /\ \A z \in T : z \in Int
      BY <1>4
    <3>2. \A z \in T : y < z => x < z
      BY <1>4, <3>1
    <3>3. ~(y < y) /\ y \in T
      BY <1>4, <3>1
    <3> QED
      BY <1>4, <3>2, <3>3, Zenon
  <2>2. Cardinality(above(x)) <= Cardinality(above(y))
    BY <1>2, <1>3, <1>4
  <2> HIDE DEF above
  <2>3. /\ Cardinality(above(y)) <= Cardinality(above(x))
        /\ Cardinality(above(x)) = Cardinality(above(y)) => above(x) = above(y)
    BY <1>1, <1>4, <2>1, FS_Subset
  <2>4. Cardinality(above(x)) = Cardinality(above(y))
    BY <1>1, <1>3, <1>4, <2>2, <2>3
  <2> QED
    BY <2>1, <2>3, <2>4
<1>5. \A y \in T : y \in Int /\ x \in Int
  OBVIOUS
<1> QED
  BY <1>4, <1>5

\* The least and the greatest of a finite set of numbers.
LEMMA EndsOfInts ==
    ASSUME NEW T \in SUBSET Int, IsFiniteSet(T), T # {}
    PROVE  /\ Min(T) \in T /\ \A y \in T : Min(T) <= y
           /\ Max(T) \in T /\ \A y \in T : y <= Max(T)
<1>1. PICK x \in T : \A y \in T : y <= x
  BY GreatestExists
<1>2. \E v \in T : \A y \in T : v >= y
  BY <1>1
<1>3. Max(T) \in T /\ \A y \in T : Max(T) >= y
  BY <1>2 DEF Max
<1> DEFINE D == {x - y : y \in T}
<1>4. D \subseteq Nat /\ D # {}
  <2>1. \A y \in T : x \in Int /\ y \in Int /\ y <= x
    BY <1>1
  <2>2. \A y \in T : x - y \in Nat
    BY <2>1
  <2> QED
    BY <2>2
<1>5. PICK d \in D : \A e \in D : d >= e
  <2>1. D \in SUBSET Int /\ IsFiniteSet(D)
    <3> DEFINE f == [y \in T |-> x - y]
    <3>1. f \in Surjection(T, D)
      BY DEF Surjection
    <3> HIDE DEF D, f
    <3> QED
      BY <1>4, <3>1, FS_Surjection
  <2> HIDE DEF D
  <2> QED
    BY <1>4, <2>1, GreatestExists
<1>6. PICK v \in T : d = x - v
  BY <1>5
<1>7. \A y \in T : x - v >= x - y /\ y \in Int /\ v \in Int /\ x \in Int
  BY <1>5, <1>6
<1>8. \E w \in T : \A y \in T : w =< y
  BY <1>7
<1>9. Min(T) \in T /\ \A y \in T : Min(T) =< y
  BY <1>8 DEF Min
<1> QED
  BY <1>3, <1>9

\* The largest of equal parts that fit is between numbers that fit and do not.
LEMMA Parts ==
    ASSUME NEW n \in Nat, NEW d \in Nat \ {0}
    PROVE  \E q \in Nat, p \in Nat : /\ n \div d = q /\ p = d * q
                                     /\ p <= n /\ n < p + d
                                     /\ \A k \in Int : k < q => d * k <= p - d
                                     /\ \A k \in Int : k > q => d * k >= p + d
<1>1. /\ n \div d \in Nat /\ n % d \in Nat
      /\ n % d < d
      /\ n = d * (n \div d) + (n % d)
  OBVIOUS
<1>2. PICK q \in Nat, r \in Nat : q = n \div d /\ r = n % d /\ r < d /\ n = d * q + r
  BY <1>1
<1>3. PICK p \in Nat : p = d * q
  BY <1>2
<1>4. ASSUME NEW k \in Int, k < q PROVE d * k <= p - d
  <2>1. d * q = d * k + d * (q - k) /\ d * (q - k) >= d /\ d * k \in Int /\ d * (q - k) \in Int
    BY <1>4
  <2> QED
    BY <1>3, <2>1
<1>5. ASSUME NEW k \in Int, k > q PROVE d * k >= p + d
  <2>1. d * k = d * q + d * (k - q) /\ d * (k - q) >= d /\ d * k \in Int /\ d * (k - q) \in Int
    BY <1>5
  <2> QED
    BY <1>3, <2>1
<1> QED
  BY <1>2, <1>3, <1>4, <1>5

\* The sign of a quotient.
LEMMA QuotientSign ==
    ASSUME NEW n \in Int, NEW d \in Nat \ {0}
    PROVE  /\ n \div d \in Int
           /\ n < d => n \div d <= 0
           /\ n >= 0 => n \div d >= 0
OBVIOUS

-----------------------------------------------------------------------------
\* Sums over finite sets

\* The element that CHOOSE takes first.
Pick(t) == CHOOSE x \in t : TRUE

\* g adds up f over each subset of S, in the order in which CHOOSE picks elements.
Adds(g, f, S) ==
    g = [t \in SUBSET S |-> IF t = {} THEN 0 ELSE f[Pick(t)] + g[t \ {Pick(t)}]]

\* The sums of f over the subsets of S: any element may be added last.
Sums(g, f, S) ==
    /\ g[{}] = 0
    /\ \A t \in SUBSET S : /\ g[t] \in Int
                           /\ \A x \in t : g[t] = f[x] + g[t \ {x}]

\* Subsets by size.
LEMMA SizeFacts ==
    ASSUME NEW S, IsFiniteSet(S)
    PROVE  /\ Cardinality(S) \in Nat
           /\ \A t \in SUBSET S : /\ Cardinality(t) \in 0 .. Cardinality(S)
                                  /\ Cardinality(t) = 0 <=> t = {}
                                  /\ \A x \in t : Cardinality(t \ {x}) = Cardinality(t) - 1
<1>1. Cardinality(S) \in Nat
  BY FS_CardinalityType
<1>2. ASSUME NEW t \in SUBSET S
      PROVE  /\ Cardinality(t) \in 0 .. Cardinality(S)
             /\ Cardinality(t) = 0 <=> t = {}
             /\ \A x \in t : Cardinality(t \ {x}) = Cardinality(t) - 1
  <2>1. IsFiniteSet(t) /\ Cardinality(t) <= Cardinality(S)
    BY FS_Subset
  <2>2. Cardinality(t) \in Nat
    BY <2>1, FS_CardinalityType
  <2>3. Cardinality(t) = 0 <=> t = {}
    BY <2>1, FS_EmptySet
  <2>4. \A x \in t : Cardinality(t \ {x}) = Cardinality(t) - 1
    BY <2>1, FS_RemoveElement
  <2> QED
    BY <1>1, <2>1, <2>2, <2>3, <2>4
<1> QED
  BY <1>1, <1>2

\* There is such a function of the subsets of a finite set.
LEMMA SumExists ==
    ASSUME NEW S, IsFiniteSet(S), NEW f
    PROVE  \E g : Adds(g, f, S)
<1> DEFINE n == Cardinality(S)
           Small(k) == {t \in SUBSET S : Cardinality(t) <= k}
           Fits(g, k) == \A t \in Small(k) :
                             g[t] = IF t = {} THEN 0 ELSE f[Pick(t)] + g[t \ {Pick(t)}]
           P == {k \in 0 .. n : \E g : Fits(g, k)}
<1>1. /\ n \in Nat
      /\ \A t \in SUBSET S : /\ Cardinality(t) \in 0 .. n
                             /\ Cardinality(t) = 0 <=> t = {}
                             /\ \A x \in t : Cardinality(t \ {x}) = Cardinality(t) - 1
  BY SizeFacts
<1>2. \A t \in SUBSET S : t # {} => Pick(t) \in t /\ t \ {Pick(t)} \in SUBSET S
  BY DEF Pick
<1> HIDE DEF n
<1>3. 0 \in P
  <2> DEFINE g == [t \in SUBSET S |-> 0]
  <2>1. Fits(g, 0)
    BY <1>1
  <2> QED
    BY <1>1, <2>1
<1>4. ASSUME NEW k \in 0 .. n, k \in P, k < n PROVE k + 1 \in P
  <2>1. PICK g : Fits(g, k)
    BY <1>4
  <2> DEFINE h == [t \in SUBSET S |-> IF Cardinality(t) <= k THEN g[t]
                                      ELSE f[Pick(t)] + g[t \ {Pick(t)}]]
  <2>2. ASSUME NEW t \in Small(k + 1)
        PROVE  h[t] = IF t = {} THEN 0 ELSE f[Pick(t)] + h[t \ {Pick(t)}]
    <3>1. t \in SUBSET S /\ Cardinality(t) \in Nat /\ Cardinality(t) <= k + 1
      BY <1>1
    <3>2. t # {} => /\ t \ {Pick(t)} \in SUBSET S
                    /\ Cardinality(t \ {Pick(t)}) = Cardinality(t) - 1
      BY <1>1, <1>2, <3>1
    <3>3. t # {} => h[t \ {Pick(t)}] = g[t \ {Pick(t)}]
      <4> HIDE DEF h
      <4>1. t # {} => Cardinality(t \ {Pick(t)}) <= k
        BY <3>1, <3>2
      <4> QED
        BY <3>2, <4>1 DEF h
    <3>4. CASE Cardinality(t) <= k
      <4>1. h[t] = g[t] /\ t \in Small(k)
        BY <3>1, <3>4
      <4> HIDE DEF h
      <4> QED
        BY <2>1, <3>3, <4>1
    <3>5. CASE ~(Cardinality(t) <= k)
      <4>1. h[t] = f[Pick(t)] + g[t \ {Pick(t)}]
        BY <3>1, <3>5
      <4>2. t # {}
        BY <1>1, <3>1, <3>5
      <4> HIDE DEF h
      <4> QED
        BY <3>3, <4>1, <4>2
    <3> QED
      BY <3>4, <3>5
  <2>3. Fits(h, k + 1)
    BY <2>2
  <2>4. k + 1 \in 0 .. n
    BY <1>1, <1>4
  <2> HIDE DEF h, Fits
  <2> QED
    BY <2>3, <2>4
<1>5. PICK g : Fits(g, n)
  <2>1. 0 .. n \subseteq P
    <3> HIDE DEF P
    <3> QED
      BY <1>1, <1>3, <1>4, Upwards
  <2>2. n \in 0 .. n
    BY <1>1
  <2> QED
    BY <2>1, <2>2
<1> DEFINE e == [t \in SUBSET S |-> g[t]]
<1>6. \A t \in SUBSET S : t \in Small(n)
  BY <1>1
<1>7. \A t \in SUBSET S : e[t] = IF t = {} THEN 0 ELSE f[Pick(t)] + e[t \ {Pick(t)}]
  BY <1>2, <1>5, <1>6
<1>8. Adds(e, f, S)
  BY <1>7 DEF Adds
<1> QED
  BY <1>8

\* In whatever order CHOOSE takes the elements, any of them may be added last.
LEMMA SumAny ==
    ASSUME NEW S, IsFiniteSet(S), NEW f \in [S -> Int], NEW g, Adds(g, f, S)
    PROVE  Sums(g, f, S)
<1> DEFINE n == Cardinality(S)
           Good(t) == g[t] \in Int /\ \A x \in t : g[t] = f[x] + g[t \ {x}]
           P == {k \in 0 .. n : \A t \in SUBSET S : Cardinality(t) <= k => Good(t)}
<1>1. /\ n \in Nat
      /\ \A t \in SUBSET S : /\ Cardinality(t) \in 0 .. n
                             /\ Cardinality(t) = 0 <=> t = {}
                             /\ \A x \in t : Cardinality(t \ {x}) = Cardinality(t) - 1
  BY SizeFacts
<1>2. g[{}] = 0
  BY {} \in SUBSET S DEF Adds
<1>3. \A t \in SUBSET S : t # {} => Pick(t) \in t /\ g[t] = f[Pick(t)] + g[t \ {Pick(t)}]
  BY DEF Adds, Pick
<1> HIDE DEF n
<1>4. 0 \in P
  <2>1. ASSUME NEW t \in SUBSET S, Cardinality(t) <= 0 PROVE Good(t)
    <3>1. t = {}
      BY <1>1, <2>1
    <3> QED
      BY <1>2, <3>1
  <2> HIDE DEF Good
  <2> QED
    BY <1>1, <2>1
<1>5. ASSUME NEW k \in 0 .. n, k \in P, k < n PROVE k + 1 \in P
  <2>1. ASSUME NEW t \in SUBSET S, Cardinality(t) = k + 1 PROVE Good(t)
    <3> DEFINE p == Pick(t)
    <3>1. t # {} /\ p \in t /\ p \in S /\ g[t] = f[p] + g[t \ {p}]
      BY <1>1, <1>3, <2>1
    <3>2. \A x \in t : t \ {x} \in SUBSET S /\ Cardinality(t \ {x}) = k
      BY <1>1, <2>1
    <3> HIDE DEF p
    <3>3. \A x \in t : Good(t \ {x})
      BY <1>5, <3>2
    <3>4. ASSUME NEW x \in t, x # p PROVE g[t] = f[x] + g[t \ {x}]
      <4> DEFINE u == (t \ {p}) \ {x}
      <4>1. u = (t \ {x}) \ {p} /\ x \in t \ {p} /\ p \in t \ {x}
        BY <3>1, <3>4
      <4>2. g[t \ {p}] = f[x] + g[u] /\ g[t \ {x}] = f[p] + g[u]
        BY <3>1, <3>3, <4>1
      <4>3. /\ t \ {p} \in SUBSET S /\ Cardinality(t \ {p}) = k
            /\ u \in SUBSET S /\ Cardinality(u) <= k
        <5>1. t \ {p} \in SUBSET S /\ Cardinality(t \ {p}) = k
          BY <3>1, <3>2
        <5>2. u \in SUBSET S /\ Cardinality(u) = Cardinality(t \ {p}) - 1
          BY <1>1, <4>1, <5>1
        <5> QED
          BY <5>1, <5>2
      <4>4. g[u] \in Int /\ f[x] \in Int /\ f[p] \in Int
        BY <1>5, <3>1, <3>4, <4>3
      <4> HIDE DEF u
      <4> QED
        BY <3>1, <4>2, <4>4
    <3>5. g[t] \in Int
      <4>1. g[t \ {p}] \in Int /\ f[p] \in Int
        BY <3>1, <3>3
      <4> QED
        BY <3>1, <4>1
    <3> QED
      BY <3>1, <3>4, <3>5
  <2>2. ASSUME NEW t \in SUBSET S, Cardinality(t) <= k + 1 PROVE Good(t)
    <3>1. Cardinality(t) <= k \/ Cardinality(t) = k + 1
      BY <1>1, <2>2
    <3> HIDE DEF Good
    <3> QED
      BY <1>5, <2>1, <3>1
  <2>3. k + 1 \in 0 .. n
    BY <1>1, <1>5
  <2> HIDE DEF Good
  <2> QED
    BY <2>2, <2>3
<1>6. \A t \in SUBSET S : Good(t)
  <2>1. 0 .. n \subseteq P
    <3> HIDE DEF P
    <3> QED
      BY <1>1, <1>4, <1>5, Upwards
  <2> HIDE DEF Good
  <2>2. n \in P
    BY <1>1, <2>1
  <2> QED
    BY <1>1, <2>2
<1> QED
  BY <1>2, <1>6 DEF Sums

\* A sum of numbers between two bounds is between so many times the bounds.
LEMMA SumBetween ==
    ASSUME NEW S, IsFiniteSet(S), NEW f \in [S -> Int], NEW g, Sums(g, f, S),
           NEW lo \in Int, NEW hi \in Int, \A x \in S : lo <= f[x] /\ f[x] <= hi
    PROVE  lo * Cardinality(S) <= g[S] /\ g[S] <= hi * Cardinality(S)
<1> DEFINE n == Cardinality(S)
           Good(t) == lo * Cardinality(t) <= g[t] /\ g[t] <= hi * Cardinality(t)
           P == {k \in 0 .. n : \A t \in SUBSET S : Cardinality(t) = k => Good(t)}
<1>1. /\ n \in Nat
      /\ \A t \in SUBSET S : /\ Cardinality(t) \in 0 .. n
                             /\ Cardinality(t) = 0 <=> t = {}
                             /\ \A x \in t : Cardinality(t \ {x}) = Cardinality(t) - 1
  BY SizeFacts
<1> HIDE DEF n
<1>2. 0 \in P
  <2>1. ASSUME NEW t \in SUBSET S, Cardinality(t) = 0 PROVE Good(t)
    <3>1. t = {}
      BY <1>1, <2>1
    <3>2. g[t] = 0
      BY <3>1 DEF Sums
    <3> QED
      BY <2>1, <3>2
  <2> HIDE DEF Good
  <2> QED
    BY <1>1, <2>1
<1>3. ASSUME NEW k \in 0 .. n, k \in P, k < n PROVE k + 1 \in P
  <2>1. ASSUME NEW t \in SUBSET S, Cardinality(t) = k + 1 PROVE Good(t)
    <3>1. PICK x \in t : TRUE
      BY <1>1, <2>1
    <3>2. t \ {x} \in SUBSET S /\ Cardinality(t \ {x}) = k
      BY <1>1, <2>1
    <3>3. lo * k <= g[t \ {x}] /\ g[t \ {x}] <= hi * k
      BY <1>3, <3>2
    <3>4. g[t] = f[x] + g[t \ {x}] /\ g[t \ {x}] \in Int /\ f[x] \in Int
      BY <3>2 DEF Sums
    <3>5. lo * (k + 1) = lo * k + lo /\ hi * (k + 1) = hi * k + hi
      BY <1>3
    <3>6. lo * k \in Int /\ hi * k \in Int
      BY <1>3
    <3>7. lo <= f[x] /\ f[x] <= hi
      OBVIOUS
    <3>8. lo * k + lo <= g[t] /\ g[t] <= hi * k + hi
      BY <3>3, <3>4, <3>6, <3>7
    <3> QED
      BY <2>1, <3>5, <3>8
  <2>2. k + 1 \in 0 .. n
    BY <1>1, <1>3
  <2> HIDE DEF Good
  <2> QED
    BY <2>1, <2>2
<1>4. n \in P
  <2>1. 0 .. n \subseteq P
    <3> HIDE DEF P
    <3> QED
      BY <1>1, <1>2, <1>3, Upwards
  <2> QED
    BY <1>1, <2>1
<1> QED
  BY <1>4 DEF n
=============================================================================
