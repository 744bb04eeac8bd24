----------------------------- MODULE DataTheorems -----------------------------
(***************************************************************************)
(* What the sums of the community modules come to, what filtering a        *)
(* sequence leaves, and what joining two gives.                            *)
(*                                                                         *)
(* MapThenSumSet and FoldSeq take the elements in an order of their own,   *)
(* and are defined by recursion over the subsets of what is left.  That a  *)
(* sum exists, and that any element may be taken out first, is shown by    *)
(* induction on the number of elements, in the form of SetInduction; so is *)
(* what Among keeps, by induction on the length of the sequence.           *)
(***************************************************************************)
EXTENDS Selections, FiniteSetsExt, SequencesExt, FiniteSetTheorems, WellFoundedInduction, TLAPS

\* A set of numbers has a least one.
LEMMA LeastNumber ==
  ASSUME NEW T \in SUBSET Nat, T # {}
  PROVE  \E n \in T : \A m \in T : n <= m
<1>1. PICK n \in T : \A m \in T : ~(<<m, n>> \in OpToRel(<, Nat))
  BY NatLessThanWellFounded, WFMin, Zenon
<1>2. \A m \in T : m < n => <<m, n>> \in OpToRel(<, Nat)
  BY DEF OpToRel
<1>3. \A m \in T : ~(m < n)
  BY <1>1, <1>2
<1>4. n \in Nat /\ \A m \in T : m \in Nat
  OBVIOUS
<1>5. \A m \in T : n <= m
  BY <1>3, <1>4
<1> QED
  BY <1>5

\* A set that holds 0, and with every number the next, holds them all.
LEMMA SetInduction ==
  ASSUME NEW T \in SUBSET Nat, 0 \in T, \A n \in T : n + 1 \in T
  PROVE  T = Nat
<1>1. SUFFICES ASSUME Nat \ T # {} PROVE FALSE
  OBVIOUS
<1>2. PICK n \in Nat \ T : \A m \in Nat \ T : n <= m
  <2>1. Nat \ T \in SUBSET Nat
    OBVIOUS
  <2> QED
    BY <1>1, <2>1, LeastNumber
<1>3. n # 0 /\ n - 1 \in Nat /\ ~(n <= n - 1)
  BY <1>2
<1>4. n - 1 \in T
  BY <1>2, <1>3
<1>5. (n - 1) + 1 \in T /\ (n - 1) + 1 = n
  BY <1>2, <1>4
<1> QED
  BY <1>2, <1>5

----------------------------------------------------------------------------
\* The sum of t over a set, and the table of the sums over its subsets it is read from.
First(s) == CHOOSE x \in s : TRUE
Entry(g, t, s) == IF s = {} THEN 0 ELSE t[First(s)] + g[s \ {First(s)}]
Tables(g, t, S) == g = [s \in SUBSET S |-> Entry(g, t, s)]
Table(t, S) == CHOOSE g : Tables(g, t, S)
SumOver(t, S) == MapThenSumSet(LAMBDA x : t[x], S)

LEMMA SumIsTabled == ASSUME NEW t, NEW S PROVE SumOver(t, S) = Table(t, S)[S]
BY Zenon DEF SumOver, MapThenSumSet, MapThenFoldSet, Table, Tables, Entry, First

\* Taking one element out leaves a smaller set.
LEMMA Smaller ==
  ASSUME NEW s, IsFiniteSet(s), NEW n \in Nat, Cardinality(s) = n + 1, NEW x \in s
  PROVE  IsFiniteSet(s \ {x}) /\ Cardinality(s \ {x}) = n
<1>1. IsFiniteSet(s \ {x}) /\ Cardinality(s \ {x}) = Cardinality(s) - 1
  BY FS_RemoveElement
<1>2. (n + 1) - 1 = n
  OBVIOUS
<1> QED
  BY <1>1, <1>2

LEMMA FirstIsIn == ASSUME NEW s, s # {} PROVE First(s) \in s
BY DEF First

\* Two tables agree where they both have an entry.
LEMMA TablesAgree ==
  ASSUME NEW t, NEW S, NEW g, Tables(g, t, S), NEW U, NEW h, Tables(h, t, U),
         NEW s, s \in SUBSET S, s \in SUBSET U, IsFiniteSet(s)
  PROVE  g[s] = h[s]
<1> DEFINE T == {n \in Nat : \A v : v \in SUBSET S /\ v \in SUBSET U /\ IsFiniteSet(v) /\ Cardinality(v) = n
                                      => g[v] = h[v]}
<1>1. \A v : v \in SUBSET S => g[v] = Entry(g, t, v)
  BY Zenon DEF Tables
<1>2. \A v : v \in SUBSET U => h[v] = Entry(h, t, v)
  BY Zenon DEF Tables
<1>3. 0 \in T
  <2>1. ASSUME NEW v, v \in SUBSET S, v \in SUBSET U, IsFiniteSet(v), Cardinality(v) = 0 PROVE g[v] = h[v]
    <3>1. v = {}
      BY <2>1, FS_EmptySet
    <3> QED
      BY <1>1, <1>2, <2>1, <3>1 DEF Entry
  <2> QED
    BY <2>1
<1>4. ASSUME NEW n \in T PROVE n + 1 \in T
  <2>1. ASSUME NEW v, v \in SUBSET S, v \in SUBSET U, IsFiniteSet(v), Cardinality(v) = n + 1 PROVE g[v] = h[v]
    <3>1. v # {}
      BY <2>1, FS_EmptySet
    <3>2. First(v) \in v
      BY <3>1, FirstIsIn
    <3>3. IsFiniteSet(v \ {First(v)}) /\ Cardinality(v \ {First(v)}) = n
      BY <2>1, <3>2, Smaller
    <3>4. g[v \ {First(v)}] = h[v \ {First(v)}]
      BY <2>1, <3>3
    <3> QED
      BY <1>1, <1>2, <2>1, <3>1, <3>4 DEF Entry
  <2> QED
    BY <2>1
<1>5. T = Nat
  <2> HIDE DEF T
  <2>1. T \in SUBSET Nat
    BY DEF T
  <2> QED
    BY <1>3, <1>4, <2>1, SetInduction
<1>6. Cardinality(s) \in T
  BY <1>5, FS_CardinalityType
<1> QED
  BY <1>6

\* Every finite set has its table.
LEMMA TableExists ==
  ASSUME NEW t, NEW S, IsFiniteSet(S)
  PROVE  Tables(Table(t, S), t, S)
<1> DEFINE Has(s) == Tables(Table(t, s), t, s)
           T == {n \in Nat : \A s : IsFiniteSet(s) /\ Cardinality(s) <= n => Has(s)}
           H(s) == [v \in SUBSET s |-> IF v = {} THEN 0
                                       ELSE t[First(v)] + Table(t, v \ {First(v)})[v \ {First(v)}]]
<1>1. ASSUME NEW s, NEW g, Tables(g, t, s) PROVE Has(s)
  BY <1>1, Zenon DEF Table
<1>2. ASSUME NEW s, IsFiniteSet(s), \A v \in SUBSET s : v # s => Has(v)
      PROVE  Has(s)
  <2>1. ASSUME NEW v \in SUBSET s, v # {} PROVE H(s)[v \ {First(v)}] = Table(t, v \ {First(v)})[v \ {First(v)}]
    <3> DEFINE u == v \ {First(v)}
               w == u \ {First(u)}
    <3>1. First(v) \in v /\ u \in SUBSET s /\ u # s
      BY <2>1, FirstIsIn
    <3>2. Has(u)
      BY <1>2, <3>1
    <3>3. Table(t, u)[u] = Entry(Table(t, u), t, u)
      BY <3>2, Zenon DEF Tables
    <3>4. H(s)[u] = IF u = {} THEN 0 ELSE t[First(u)] + Table(t, w)[w]
      BY <3>1, Zenon
    <3>5. CASE u = {}
      BY <3>3, <3>4, <3>5, Zenon DEF Entry
    <3>6. CASE u # {}
      <4>1. First(u) \in u /\ w \in SUBSET s /\ w # s /\ w \in SUBSET u /\ w \in SUBSET w
        BY <3>1, <3>6, FirstIsIn
      <4>2. Has(w) /\ IsFiniteSet(w)
        BY <1>2, <4>1, FS_Subset
      <4>3. Table(t, u)[w] = Table(t, w)[w]
        BY <3>2, <4>1, <4>2, TablesAgree
      <4> QED
        BY <3>3, <3>4, <3>6, <4>3, Zenon DEF Entry
    <3> QED
      BY <3>5, <3>6
  <2>2. H(s) = [v \in SUBSET s |-> Entry(H(s), t, v)]
    <3>1. \A v \in SUBSET s : H(s)[v] = Entry(H(s), t, v)
      <4> TAKE v \in SUBSET s
      <4>1. H(s)[v] = IF v = {} THEN 0 ELSE t[First(v)] + Table(t, v \ {First(v)})[v \ {First(v)}]
        BY Zenon
      <4> QED
        BY <2>1, <4>1, Zenon DEF Entry
    <3>2. H(s) = [v \in SUBSET s |-> H(s)[v]]
      BY Zenon
    <3> HIDE DEF H
    <3> QED
      BY <3>1, <3>2, Zenon
  <2> HIDE DEF H
  <2>3. Tables(H(s), t, s)
    BY <2>2, Zenon DEF Tables
  <2> QED
    BY <1>1, <2>3
<1> HIDE DEF Has, H
<1>3. 0 \in T
  <2>1. ASSUME NEW s, IsFiniteSet(s), Cardinality(s) <= 0 PROVE Has(s)
    <3>1. s = {}
      BY <2>1, FS_EmptySet, FS_CardinalityType
    <3> QED
      BY <1>2, <2>1, <3>1
  <2> QED
    BY <2>1
<1>4. ASSUME NEW n \in T PROVE n + 1 \in T
  <2>1. ASSUME NEW s, IsFiniteSet(s), Cardinality(s) <= n + 1 PROVE Has(s)
    <3>1. ASSUME NEW v \in SUBSET s, v # s PROVE Has(v)
      <4>1. IsFiniteSet(v) /\ Cardinality(v) <= Cardinality(s) /\ Cardinality(v) # Cardinality(s)
        BY <2>1, <3>1, FS_Subset
      <4>2. Cardinality(v) \in Nat /\ Cardinality(s) \in Nat
        BY <2>1, <4>1, FS_CardinalityType
      <4>3. Cardinality(v) <= n
        BY <2>1, <4>1, <4>2
      <4> QED
        BY <4>1, <4>3
    <3> QED
      BY <1>2, <2>1, <3>1
  <2> QED
    BY <2>1
<1>5. T = Nat
  <2> HIDE DEF T
  <2>1. T \in SUBSET Nat
    BY DEF T
  <2> QED
    BY <1>3, <1>4, <2>1, SetInduction
<1>6. Cardinality(S) \in T /\ Cardinality(S) <= Cardinality(S)
  BY <1>5, FS_CardinalityType
<1>7. Has(S)
  BY <1>6
<1> QED
  BY <1>7 DEF Has

----------------------------------------------------------------------------
\* A sum is 0 of nothing, and else one element's share and the sum of the others.
LEMMA SumOfNothing == ASSUME NEW t PROVE SumOver(t, {}) = 0
<1>1. Tables(Table(t, {}), t, {})
  BY FS_EmptySet, TableExists
<1> QED
  BY <1>1, SumIsTabled, Zenon DEF Tables, Entry

LEMMA SumStep ==
  ASSUME NEW t, NEW S, IsFiniteSet(S), S # {}
  PROVE  SumOver(t, S) = t[First(S)] + SumOver(t, S \ {First(S)})
<1> DEFINE u == S \ {First(S)}
<1>1. Tables(Table(t, S), t, S)
  BY TableExists
<1>2. Table(t, S)[S] = Entry(Table(t, S), t, S)
  BY <1>1, Zenon DEF Tables
<1>3. IsFiniteSet(u) /\ u \in SUBSET S /\ u \in SUBSET u
  BY FS_Subset
<1>4. Tables(Table(t, u), t, u)
  BY <1>3, TableExists
<1>5. Table(t, S)[u] = Table(t, u)[u]
  BY <1>1, <1>3, <1>4, TablesAgree
<1>6. SumOver(t, S) = Table(t, S)[S] /\ SumOver(t, u) = Table(t, u)[u]
  BY SumIsTabled
<1> QED
  BY <1>2, <1>5, <1>6, Zenon DEF Entry

\* A sum of whole numbers is one, and is not below 0 if none of them is.
LEMMA SumType ==
  ASSUME NEW t, NEW S, IsFiniteSet(S), NEW N, N = Int \/ N = Nat, \A x \in S : t[x] \in N
  PROVE  SumOver(t, S) \in N
<1> DEFINE T == {n \in Nat : \A s \in SUBSET S : IsFiniteSet(s) /\ Cardinality(s) = n => SumOver(t, s) \in N}
<1>0. 0 \in N /\ \A a, b \in N : a + b \in N
  OBVIOUS
<1>1. 0 \in T
  <2>1. ASSUME NEW s \in SUBSET S, IsFiniteSet(s), Cardinality(s) = 0 PROVE SumOver(t, s) \in N
    BY <1>0, <2>1, FS_EmptySet, SumOfNothing
  <2> QED
    BY <2>1
<1>2. ASSUME NEW n \in T PROVE n + 1 \in T
  <2>1. ASSUME NEW s \in SUBSET S, IsFiniteSet(s), Cardinality(s) = n + 1 PROVE SumOver(t, s) \in N
    <3>1. s # {}
      BY <2>1, FS_EmptySet
    <3>2. First(s) \in s
      BY <3>1, FirstIsIn
    <3>3. IsFiniteSet(s \ {First(s)}) /\ Cardinality(s \ {First(s)}) = n
      BY <2>1, <3>2, Smaller
    <3>4. SumOver(t, s \ {First(s)}) \in N /\ t[First(s)] \in N
      BY <3>2, <3>3
    <3>5. SumOver(t, s) = t[First(s)] + SumOver(t, s \ {First(s)})
      BY <2>1, <3>1, SumStep
    <3> QED
      BY <1>0, <3>4, <3>5
  <2> QED
    BY <2>1
<1>3. T = Nat
  <2> HIDE DEF T
  <2>1. T \in SUBSET Nat
    BY DEF T
  <2> QED
    BY <1>1, <1>2, <2>1, SetInduction
<1>4. Cardinality(S) \in T
  BY <1>3, FS_CardinalityType
<1> QED
  BY <1>4

\* Any element may be taken out first.
LEMMA SumWithout ==
  ASSUME NEW t, NEW S, IsFiniteSet(S), \A x \in S : t[x] \in Int, NEW e \in S
  PROVE  SumOver(t, S) = t[e] + SumOver(t, S \ {e})
<1> DEFINE T == {n \in Nat : \A s \in SUBSET S : \A x \in s :
                   IsFiniteSet(s) /\ Cardinality(s) = n => SumOver(t, s) = t[x] + SumOver(t, s \ {x})}
<1>1. 0 \in T
  <2>1. ASSUME NEW s \in SUBSET S, NEW x \in s, IsFiniteSet(s), Cardinality(s) = 0 PROVE FALSE
    BY <2>1, FS_EmptySet
  <2> QED
    BY <2>1
<1>2. ASSUME NEW n \in T PROVE n + 1 \in T
  <2>1. ASSUME NEW s \in SUBSET S, NEW x \in s, IsFiniteSet(s), Cardinality(s) = n + 1
        PROVE  SumOver(t, s) = t[x] + SumOver(t, s \ {x})
    <3> DEFINE f == First(s)
               v == s \ {f}
               w == s \ {x}
               r == (s \ {f}) \ {x}
    <3>1. s # {} /\ f \in s
      BY FirstIsIn
    <3>2. SumOver(t, s) = t[f] + SumOver(t, v)
      BY <2>1, <3>1, SumStep
    <3>3. IsFiniteSet(v) /\ Cardinality(v) = n /\ IsFiniteSet(w) /\ Cardinality(w) = n
      BY <2>1, <3>1, Smaller
    <3>4. CASE x = f
      BY <3>2, <3>4
    <3>5. CASE x # f
      <4>1. x \in v /\ f \in w /\ v \in SUBSET S /\ w \in SUBSET S /\ w \ {f} = r
        BY <3>1, <3>5
      <4>2. SumOver(t, v) = t[x] + SumOver(t, r)
        BY <3>3, <4>1
      <4>3. SumOver(t, w) = t[f] + SumOver(t, w \ {f})
        BY <3>3, <4>1
      <4>4. IsFiniteSet(r) /\ \A y \in r : t[y] \in Int
        BY <3>3, FS_Subset
      <4>5. SumOver(t, r) \in Int /\ t[f] \in Int /\ t[x] \in Int
        BY <3>1, <4>4, SumType
      <4> HIDE DEF f, v, w, r
      <4>6. SumOver(t, w) = t[f] + SumOver(t, r)
        BY <4>1, <4>3
      <4>7. SumOver(t, s) = t[x] + SumOver(t, w)
        BY <3>2, <4>2, <4>5, <4>6
      <4> QED
        BY <4>7 DEF w
    <3> QED
      BY <3>4, <3>5
  <2> QED
    BY <2>1
<1>3. T = Nat
  <2> HIDE DEF T
  <2>1. T \in SUBSET Nat
    BY DEF T
  <2> QED
    BY <1>1, <1>2, <2>1, SetInduction
<1>4. Cardinality(S) \in T
  BY <1>3, FS_CardinalityType
<1> QED
  BY <1>4

----------------------------------------------------------------------------
\* The sum of a sequence is the sum over its positions.
Total(s) == FoldSeq(+, 0, s)

LEMMA TotalIsSum == ASSUME NEW s PROVE Total(s) = SumOver(s, DOMAIN s)
BY Zenon DEF Total, FoldSeq, FoldFunction, FoldFunctionOnSet, SumOver, MapThenSumSet

\* Functions that agree on a set have the same sum over it.
LEMMA SumSame ==
  ASSUME NEW S, IsFiniteSet(S), NEW t, NEW u, \A x \in S : t[x] = u[x]
  PROVE  SumOver(t, S) = SumOver(u, S)
<1> DEFINE T == {n \in Nat : \A s \in SUBSET S : IsFiniteSet(s) /\ Cardinality(s) = n
                               => SumOver(t, s) = SumOver(u, s)}
<1>1. 0 \in T
  <2>1. ASSUME NEW s \in SUBSET S, IsFiniteSet(s), Cardinality(s) = 0 PROVE SumOver(t, s) = SumOver(u, s)
    BY <2>1, FS_EmptySet, SumOfNothing
  <2> QED
    BY <2>1
<1>2. ASSUME NEW n \in T PROVE n + 1 \in T
  <2>1. ASSUME NEW s \in SUBSET S, IsFiniteSet(s), Cardinality(s) = n + 1 PROVE SumOver(t, s) = SumOver(u, s)
    <3>1. s # {}
      BY <2>1, FS_EmptySet
    <3>2. First(s) \in s /\ t[First(s)] = u[First(s)]
      BY <3>1, FirstIsIn
    <3>3. IsFiniteSet(s \ {First(s)}) /\ Cardinality(s \ {First(s)}) = n
      BY <2>1, <3>2, Smaller
    <3>4. SumOver(t, s \ {First(s)}) = SumOver(u, s \ {First(s)})
      BY <3>2, <3>3
    <3>5. /\ SumOver(t, s) = t[First(s)] + SumOver(t, s \ {First(s)})
          /\ SumOver(u, s) = u[First(s)] + SumOver(u, s \ {First(s)})
      BY <2>1, <3>1, SumStep
    <3> QED
      BY <3>2, <3>4, <3>5
  <2> QED
    BY <2>1
<1>3. T = Nat
  <2> HIDE DEF T
  <2>1. T \in SUBSET Nat
    BY DEF T
  <2> QED
    BY <1>1, <1>2, <2>1, SetInduction
<1>4. Cardinality(S) \in T
  BY <1>3, FS_CardinalityType
<1> QED
  BY <1>4

LEMMA TotalType ==
  ASSUME NEW N, N = Int \/ N = Nat, NEW s \in Seq(N)
  PROVE  Total(s) \in N
<1>1. DOMAIN s = 1 .. Len(s) /\ Len(s) \in Nat /\ \A i \in 1 .. Len(s) : s[i] \in N
  OBVIOUS
<1>2. IsFiniteSet(1 .. Len(s))
  BY <1>1, FS_Interval
<1>3. SumOver(s, 1 .. Len(s)) \in N
  BY <1>1, <1>2, SumType
<1> QED
  BY <1>1, <1>3, TotalIsSum

LEMMA TotalOfNothing == Total(<< >>) = 0
<1>1. DOMAIN << >> = {}
  OBVIOUS
<1> QED
  BY <1>1, TotalIsSum, SumOfNothing

\* The sum over the first n + 1 positions is the sum over the first n and the next element.
LEMMA SumOfPrefix ==
  ASSUME NEW t, NEW n \in Nat, \A i \in 1 .. n + 1 : t[i] \in Int
  PROVE  SumOver(t, 1 .. n + 1) = SumOver(t, 1 .. n) + t[n + 1] /\ SumOver(t, 1 .. n) \in Int
<1>1. IsFiniteSet(1 .. n + 1) /\ IsFiniteSet(1 .. n)
  BY FS_Interval
<1>2. n + 1 \in 1 .. n + 1 /\ (1 .. n + 1) \ {n + 1} = 1 .. n
  OBVIOUS
<1>3. SumOver(t, 1 .. n + 1) = t[n + 1] + SumOver(t, (1 .. n + 1) \ {n + 1})
  BY <1>1, <1>2, SumWithout
<1>4. \A i \in 1 .. n : t[i] \in Int
  OBVIOUS
<1>5. SumOver(t, 1 .. n) \in Int
  BY <1>1, <1>4, SumType
<1>6. t[n + 1] \in Int
  BY <1>2
<1>7. SumOver(t, 1 .. n + 1) = t[n + 1] + SumOver(t, 1 .. n)
  BY <1>2, <1>3, Zenon
<1> QED
  BY <1>5, <1>6, <1>7

\* What comes one after the other adds up.
LEMMA TotalOfConcat ==
  ASSUME NEW s \in Seq(Int), NEW u \in Seq(Int)
  PROVE  Total(s \o u) = Total(s) + Total(u)
<1> DEFINE m == Len(s)
           c == s \o u
           T == {n \in Nat : n <= Len(u) => SumOver(c, 1 .. m + n) = SumOver(s, 1 .. m) + SumOver(u, 1 .. n)}
<1>1. /\ m \in Nat /\ Len(u) \in Nat /\ Len(c) = m + Len(u)
      /\ DOMAIN s = 1 .. m /\ DOMAIN u = 1 .. Len(u) /\ DOMAIN c = 1 .. m + Len(u)
      /\ \A i \in 1 .. m : c[i] = s[i] /\ s[i] \in Int
      /\ \A i \in 1 .. Len(u) : c[m + i] = u[i] /\ u[i] \in Int
      /\ \A i \in 1 .. m + Len(u) : c[i] \in Int
  OBVIOUS
<1>2. IsFiniteSet(1 .. m) /\ SumOver(s, 1 .. m) \in Int
  BY <1>1, FS_Interval, SumType
<1> HIDE DEF c, m
<1>3. 0 \in T
  <2>1. SumOver(c, 1 .. m) = SumOver(s, 1 .. m)
    BY <1>1, <1>2, SumSame
  <2>2. m + 0 = m /\ 1 .. 0 = {}
    BY <1>1
  <2>3. SumOver(u, 1 .. 0) = 0
    BY <2>2, SumOfNothing
  <2> QED
    BY <1>2, <2>1, <2>2, <2>3
<1>4. ASSUME NEW n \in T PROVE n + 1 \in T
  <2>1. ASSUME n + 1 <= Len(u)
        PROVE  SumOver(c, 1 .. m + (n + 1)) = SumOver(s, 1 .. m) + SumOver(u, 1 .. n + 1)
    <3>1. n <= Len(u) /\ n + 1 \in 1 .. Len(u) /\ m + n \in Nat /\ (m + n) + 1 = m + (n + 1)
      BY <1>1, <2>1
    <3>2. SumOver(c, 1 .. m + n) = SumOver(s, 1 .. m) + SumOver(u, 1 .. n)
      BY <3>1
    <3>3. (\A i \in 1 .. n + 1 : u[i] \in Int) /\ (\A i \in 1 .. (m + n) + 1 : c[i] \in Int)
      BY <1>1, <2>1
    <3>4. SumOver(u, 1 .. n + 1) = SumOver(u, 1 .. n) + u[n + 1] /\ SumOver(u, 1 .. n) \in Int
      BY <3>3, SumOfPrefix
    <3>5. SumOver(c, 1 .. (m + n) + 1) = SumOver(c, 1 .. m + n) + c[(m + n) + 1]
      BY <3>1, <3>3, SumOfPrefix
    <3>6. c[m + (n + 1)] = u[n + 1] /\ u[n + 1] \in Int
      BY <1>1, <3>1
    <3> QED
      BY <1>2, <3>1, <3>2, <3>4, <3>5, <3>6
  <2> QED
    BY <2>1
<1>5. T = Nat
  <2> HIDE DEF T
  <2>1. T \in SUBSET Nat
    BY DEF T
  <2> QED
    BY <1>3, <1>4, <2>1, SetInduction
<1>6. SumOver(c, 1 .. m + Len(u)) = SumOver(s, 1 .. m) + SumOver(u, 1 .. Len(u))
  <2>1. Len(u) \in T
    BY <1>1, <1>5
  <2> QED
    BY <1>1, <2>1
<1>7. Total(c) = Total(s) + Total(u)
  BY <1>1, <1>6, TotalIsSum
<1> QED
  BY <1>7 DEF c

LEMMA TotalOfOne == ASSUME NEW n \in Int PROVE Total(<<n>>) = n
<1>1. DOMAIN <<n>> = 1 .. 1 /\ <<n>>[1] = n /\ 1 .. 0 = {} /\ 0 + 1 = 1
  OBVIOUS
<1>2. SumOver(<<n>>, 1 .. 0 + 1) = SumOver(<<n>>, 1 .. 0) + <<n>>[0 + 1]
  <2> DEFINE s == <<n>>
  <2>1. \A i \in 1 .. 0 + 1 : s[i] \in Int
    OBVIOUS
  <2> HIDE DEF s
  <2>2. SumOver(s, 1 .. 0 + 1) = SumOver(s, 1 .. 0) + s[0 + 1]
    BY <2>1, SumOfPrefix
  <2> QED
    BY <2>2 DEF s
<1>3. SumOver(<<n>>, 1 .. 0) = 0
  BY <1>1, SumOfNothing
<1> QED
  BY <1>1, <1>2, <1>3, TotalIsSum

LEMMA TotalOfAppend ==
  ASSUME NEW s \in Seq(Int), NEW n \in Int
  PROVE  Total(Append(s, n)) = Total(s) + n
<1>1. Append(s, n) = s \o <<n>> /\ <<n>> \in Seq(Int)
  OBVIOUS
<1> QED
  BY <1>1, TotalOfConcat, TotalOfOne

----------------------------------------------------------------------------
\* One more element: what is kept of the first n, given what is kept of those before.
Grown(g, s, G, n) == IF n = 0 THEN << >> ELSE IF s[n] \in G THEN Append(g[n - 1], s[n]) ELSE g[n - 1]
Keeps(g, s, G, n) == g = [m \in 0 .. n |-> Grown(g, s, G, m)]
KeptOf(s, G) == CHOOSE g : Keeps(g, s, G, Len(s))

LEMMA AmongIsKept == ASSUME NEW s, NEW G PROVE Among(s, G) = KeptOf(s, G)[Len(s)]
BY Zenon DEF Among, KeptOf, Keeps, Grown

LEMMA KeptExists ==
  ASSUME NEW s, NEW G, Len(s) \in Nat
  PROVE  Keeps(KeptOf(s, G), s, G, Len(s))
<1> DEFINE T == {n \in Nat : \E g : Keeps(g, s, G, n)}
<1>1. 0 \in T
  <2> DEFINE g == [m \in 0 .. 0 |-> << >>]
  <2>1. \A m \in 0 .. 0 : Grown(g, s, G, m) = << >>
    BY DEF Grown
  <2>2. Keeps(g, s, G, 0)
    BY <2>1 DEF Keeps
  <2> QED
    BY <2>2
<1>2. ASSUME NEW n \in T PROVE n + 1 \in T
  <2>1. n \in Nat
    OBVIOUS
  <2>2. PICK g : Keeps(g, s, G, n)
    OBVIOUS
  <2> DEFINE h == [m \in 0 .. n + 1 |-> IF m <= n THEN g[m] ELSE Grown(g, s, G, n + 1)]
  <2>3. \A m \in 0 .. n : h[m] = g[m] /\ g[m] = Grown(g, s, G, m)
    BY <2>1, <2>2, SMTT(30) DEF Keeps
  <2>4. h[n + 1] = Grown(g, s, G, n + 1)
    BY <2>1
  <2>5. h = [m \in 0 .. n + 1 |-> h[m]]
    OBVIOUS
  <2> HIDE DEF h
  <2>6. ASSUME NEW m \in 0 .. n + 1 PROVE h[m] = Grown(h, s, G, m)
    <3>1. m # 0 => m - 1 \in 0 .. n /\ h[m - 1] = g[m - 1]
      BY <2>1, <2>3
    <3>2. Grown(h, s, G, m) = Grown(g, s, G, m)
      BY <3>1 DEF Grown
    <3>3. m \in 0 .. n \/ m = n + 1
      BY <2>1
    <3> QED
      BY <2>3, <2>4, <3>2, <3>3
  <2>7. Keeps(h, s, G, n + 1)
    BY <2>5, <2>6 DEF Keeps
  <2> QED
    BY <2>1, <2>7
<1>3. T = Nat
  <2>1. T \in SUBSET Nat
    OBVIOUS
  <2> HIDE DEF T
  <2> QED
    BY <1>1, <1>2, <2>1, SetInduction
<1>4. \E g : Keeps(g, s, G, Len(s))
  BY <1>3
<1> QED
  BY <1>4 DEF KeptOf

\* What is kept are elements of the sequence that are to be kept, no more than there are, the first of them
\* first, and nothing only where there is none.
LEMMA AmongIs ==
  ASSUME NEW S, NEW s \in Seq(S), NEW G
  PROVE  /\ Among(s, G) \in Seq(S) /\ Len(Among(s, G)) <= Len(s)
         /\ \A i \in DOMAIN Among(s, G) : Among(s, G)[i] \in G /\ \E j \in DOMAIN s : Among(s, G)[i] = s[j]
         /\ (\A j \in DOMAIN s : s[j] \notin G) => Among(s, G) = << >>
         /\ \A j \in DOMAIN s : s[j] \in G /\ (\A m \in 1 .. j - 1 : s[m] \notin G) =>
              Among(s, G) # << >> /\ Among(s, G)[1] = s[j]
         /\ \A j \in DOMAIN s : s[j] \in G => \E i \in DOMAIN Among(s, G) : Among(s, G)[i] = s[j]
         /\ (\E j \in DOMAIN s : s[j] \notin G) => Len(Among(s, G)) < Len(s)
<1> DEFINE k == KeptOf(s, G)
           Right(q, n) == /\ q \in Seq(S) /\ Len(q) <= n
                          /\ \A i \in DOMAIN q : q[i] \in G /\ \E j \in 1 .. n : q[i] = s[j]
                          /\ (\A j \in 1 .. n : s[j] \notin G) => q = << >>
                          /\ \A j \in 1 .. n : s[j] \in G /\ (\A m \in 1 .. j - 1 : s[m] \notin G) =>
                               q # << >> /\ q[1] = s[j]
                          /\ \A j \in 1 .. n : s[j] \in G => \E i \in DOMAIN q : q[i] = s[j]
                          /\ (\E j \in 1 .. n : s[j] \notin G) => Len(q) < n
           T == {n \in Nat : n <= Len(s) => Right(k[n], n)}
<1>0. Len(s) \in Nat /\ DOMAIN s = 1 .. Len(s) /\ \A i \in 1 .. Len(s) : s[i] \in S
  OBVIOUS
<1>1. \A n \in 0 .. Len(s) : k[n] = Grown(k, s, G, n)
  <2>1. Keeps(k, s, G, Len(s))
    BY <1>0, KeptExists
  <2> HIDE DEF k
  <2> QED
    BY <2>1, <1>0 DEF Keeps
<1> HIDE DEF k
<1>2. 0 \in T
  <2>1. k[0] = << >>
    BY <1>0, <1>1 DEF Grown
  <2>2. << >> \in Seq(S) /\ Len(<< >>) <= 0 /\ DOMAIN << >> = {} /\ 1 .. 0 = {}
    OBVIOUS
  <2>3. Right(<< >>, 0)
    BY <2>2
  <2> HIDE DEF Right
  <2> QED
    BY <2>1, <2>3
<1>3. ASSUME NEW n \in T PROVE n + 1 \in T
  <2> SUFFICES ASSUME n + 1 <= Len(s) PROVE Right(k[n + 1], n + 1)
    OBVIOUS
  <2>0. n \in Nat /\ n + 1 \in 1 .. Len(s)
    BY <1>0
  <2> DEFINE q == k[n]
             x == s[n + 1]
             r == k[n + 1]
  <2>1. Right(q, n)
    BY <1>0, <2>0
  <2>2. r = IF x \in G THEN Append(q, x) ELSE q
    <3>1. k[n + 1] = Grown(k, s, G, n + 1) /\ n + 1 # 0 /\ (n + 1) - 1 = n
      BY <1>0, <1>1, <2>0
    <3> QED
      BY <3>1 DEF Grown
  <2>3. x \in S
    BY <1>0, <2>0
  <2>4. 1 .. n + 1 = 1 .. n \cup {n + 1} /\ x = s[n + 1]
    BY <2>0
  <2> HIDE DEF q, x, r
  <2>5. CASE x \notin G
    <3>1. r = q
      BY <2>2, <2>5
    <3>2. \A j \in 1 .. n + 1 : s[j] \in G => j \in 1 .. n
      BY <2>4, <2>5
    <3>3. Len(q) <= n + 1 /\ Len(q) < n + 1
      BY <2>0, <2>1
    <3>4. (\A j \in 1 .. n + 1 : s[j] \notin G) => q = << >>
      BY <2>1, <2>4
    <3>5. \A j \in 1 .. n + 1 : s[j] \in G /\ (\A m \in 1 .. j - 1 : s[m] \notin G) => q # << >> /\ q[1] = s[j]
      BY <2>1, <3>2
    <3>6. Right(q, n + 1)
      BY <2>1, <2>4, <3>2, <3>3, <3>4, <3>5
    <3> HIDE DEF Right
    <3> QED
      BY <3>1, <3>6 DEF r
  <2>6. CASE x \in G
    <3>1. /\ q \in Seq(S) /\ Len(q) \in Nat /\ DOMAIN q = 1 .. Len(q) /\ r = Append(q, x)
          /\ Len(q) <= n
      BY <2>1, <2>2, <2>6
    <3>2. /\ r \in Seq(S) /\ Len(r) = Len(q) + 1 /\ DOMAIN r = 1 .. Len(q) + 1 /\ r # << >>
          /\ \A i \in 1 .. Len(q) : r[i] = q[i]
          /\ r[Len(q) + 1] = x
      <4>1. \A u \in Seq(S), e \in S :
              /\ Append(u, e) \in Seq(S) /\ Len(Append(u, e)) = Len(u) + 1
              /\ DOMAIN Append(u, e) = 1 .. Len(u) + 1 /\ Append(u, e)[Len(u) + 1] = e
              /\ \A i \in 1 .. Len(u) : Append(u, e)[i] = u[i]
        OBVIOUS
      <4>2. Len(<< >>) = 0 /\ Len(r) # 0
        BY <2>3, <3>1, <4>1
      <4>3. r # << >>
        BY <4>2, Zenon
      <4> QED
        BY <2>3, <3>1, <4>1, <4>3
    <3>3. ASSUME NEW i \in DOMAIN r PROVE r[i] \in G /\ \E j \in 1 .. n + 1 : r[i] = s[j]
      <4>1. i \in 1 .. Len(q) \/ i = Len(q) + 1
        BY <3>1, <3>2
      <4>2. CASE i \in 1 .. Len(q)
        <5>1. q[i] \in G /\ \E j \in 1 .. n : q[i] = s[j]
          BY <2>1, <3>1, <4>2
        <5> QED
          BY <2>4, <3>2, <4>2, <5>1
      <4>3. CASE i = Len(q) + 1
        BY <2>4, <2>6, <3>2, <4>3
      <4> QED
        BY <4>1, <4>2, <4>3
    <3>4. \E j \in 1 .. n + 1 : s[j] \in G
      BY <2>4, <2>6
    <3>5. ASSUME NEW j \in 1 .. n + 1, s[j] \in G, \A m \in 1 .. j - 1 : s[m] \notin G PROVE r[1] = s[j]
      <4>1. CASE j \in 1 .. n
        <5>1. q # << >> /\ q[1] = s[j]
          BY <2>1, <3>5, <4>1
        <5>2. 1 \in 1 .. Len(q)
          BY <3>1, <5>1
        <5> QED
          BY <3>2, <5>1, <5>2
      <4>2. CASE j = n + 1
        <5>1. \A m \in 1 .. n : s[m] \notin G
          BY <2>0, <3>5, <4>2
        <5>2. q = << >> /\ Len(q) = 0
          BY <2>1, <5>1
        <5> QED
          BY <2>4, <3>2, <4>2, <5>2
      <4> QED
        BY <2>4, <4>1, <4>2
    <3>6. Right(r, n + 1)
      <4>1. Len(r) <= n + 1
        BY <2>0, <3>1, <3>2
      <4>2. ASSUME NEW j \in 1 .. n + 1, s[j] \in G PROVE \E i \in DOMAIN r : r[i] = s[j]
        <5>1. CASE j \in 1 .. n
          <6>1. PICK i \in DOMAIN q : q[i] = s[j]
            BY <2>1, <4>2, <5>1
          <6> QED
            BY <3>1, <3>2, <6>1
        <5>2. CASE j = n + 1
          BY <2>4, <3>1, <3>2, <5>2
        <5> QED
          BY <2>4, <5>1, <5>2
      <4>3. (\E j \in 1 .. n + 1 : s[j] \notin G) => Len(r) < n + 1
        BY <2>0, <2>1, <2>4, <2>6, <3>1, <3>2
      <4> QED
        BY <3>2, <3>3, <3>4, <3>5, <4>1, <4>2, <4>3
    <3> HIDE DEF Right
    <3> QED
      BY <3>6 DEF r
  <2> QED
    BY <2>5, <2>6
<1>4. T = Nat
  <2>1. T \in SUBSET Nat
    OBVIOUS
  <2> HIDE DEF T
  <2> QED
    BY <1>2, <1>3, <2>1, SetInduction
<1>5. Right(k[Len(s)], Len(s))
  <2>1. Len(s) \in T
    BY <1>0, <1>4
  <2> HIDE DEF Right
  <2> QED
    BY <1>0, <2>1
<1>6. Among(s, G) = k[Len(s)]
  BY AmongIsKept DEF k
<1> QED
  BY <1>0, <1>5, <1>6

\* Of a sequence that names nothing twice, what is kept names nothing twice.
Distinct(s) == \A i, j \in DOMAIN s : s[i] = s[j] => i = j

LEMMA AmongDistinct ==
  ASSUME NEW S, NEW s \in Seq(S), NEW G, Distinct(s)
  PROVE  Distinct(Among(s, G))
<1> DEFINE k == KeptOf(s, G)
           Right(q, n) == q \in Seq(S) /\ Distinct(q) /\ \A i \in DOMAIN q : \E j \in 1 .. n : q[i] = s[j]
           T == {n \in Nat : n <= Len(s) => Right(k[n], n)}
<1>0. Len(s) \in Nat /\ DOMAIN s = 1 .. Len(s) /\ \A i \in 1 .. Len(s) : s[i] \in S
  OBVIOUS
<1>1. \A n \in 0 .. Len(s) : k[n] = Grown(k, s, G, n)
  <2>1. Keeps(k, s, G, Len(s))
    BY <1>0, KeptExists
  <2> HIDE DEF k
  <2> QED
    BY <2>1, <1>0 DEF Keeps
<1> HIDE DEF k
<1>2. 0 \in T
  <2>1. k[0] = << >>
    BY <1>0, <1>1 DEF Grown
  <2>2. << >> \in Seq(S) /\ DOMAIN << >> = {}
    OBVIOUS
  <2>3. Right(<< >>, 0)
    BY <2>2 DEF Distinct
  <2> HIDE DEF Right
  <2> QED
    BY <2>1, <2>3
<1>3. ASSUME NEW n \in T PROVE n + 1 \in T
  <2> SUFFICES ASSUME n + 1 <= Len(s) PROVE Right(k[n + 1], n + 1)
    OBVIOUS
  <2>0. n \in Nat /\ n + 1 \in 1 .. Len(s)
    BY <1>0
  <2> DEFINE q == k[n]
             x == s[n + 1]
             r == k[n + 1]
  <2>1. Right(q, n)
    BY <1>0, <2>0
  <2>2. r = IF x \in G THEN Append(q, x) ELSE q
    <3>1. k[n + 1] = Grown(k, s, G, n + 1) /\ n + 1 # 0 /\ (n + 1) - 1 = n
      BY <1>0, <1>1, <2>0
    <3> QED
      BY <3>1 DEF Grown
  <2>3. x \in S
    BY <1>0, <2>0
  <2>4. 1 .. n + 1 = 1 .. n \cup {n + 1} /\ x = s[n + 1]
    BY <2>0
  <2>5. \A j \in 1 .. n : s[j] # x
    <3>1. \A j \in 1 .. n : j \in DOMAIN s /\ j # n + 1 /\ n + 1 \in DOMAIN s
      BY <1>0, <2>0
    <3> QED
      BY <2>4, <3>1 DEF Distinct
  <2> HIDE DEF q, x, r
  <2>6. Right(q, n + 1)
    BY <2>1, <2>4
  <2>7. x \in G => Right(Append(q, x), n + 1)
    <3>1. q \in Seq(S) /\ Len(q) \in Nat /\ DOMAIN q = 1 .. Len(q)
      BY <2>1
    <3>2. /\ Append(q, x) \in Seq(S) /\ DOMAIN Append(q, x) = 1 .. Len(q) + 1
          /\ Append(q, x)[Len(q) + 1] = x /\ \A i \in 1 .. Len(q) : Append(q, x)[i] = q[i]
      BY <2>3, <3>1
    <3> DEFINE a == Append(q, x)
    <3> HIDE DEF a
    <3>3. /\ a \in Seq(S) /\ DOMAIN a = 1 .. Len(q) + 1 /\ a[Len(q) + 1] = x
          /\ \A i \in 1 .. Len(q) : a[i] = q[i]
      BY <3>2 DEF a
    <3>4. \A i \in 1 .. Len(q) : q[i] # x /\ \E j \in 1 .. n : q[i] = s[j]
      BY <2>1, <2>5, <3>1
    <3>5. ASSUME NEW i \in DOMAIN a PROVE i \in 1 .. Len(q) \/ i = Len(q) + 1
      BY <3>1, <3>3
    <3>6. Distinct(a)
      BY <2>1, <3>1, <3>3, <3>4, <3>5 DEF Distinct
    <3>7. \A i \in DOMAIN a : \E j \in 1 .. n + 1 : a[i] = s[j]
      BY <2>4, <3>3, <3>4, <3>5, SMTT(30)
    <3> QED
      BY <3>3, <3>6, <3>7 DEF a
  <2> HIDE DEF Right
  <2>8. Right(r, n + 1)
    BY <2>2, <2>6, <2>7
  <2> QED
    BY <2>8 DEF r
<1>4. T = Nat
  <2>1. T \in SUBSET Nat
    OBVIOUS
  <2> HIDE DEF T
  <2> QED
    BY <1>2, <1>3, <2>1, SetInduction
<1>5. Right(k[Len(s)], Len(s))
  <2>1. Len(s) \in T
    BY <1>0, <1>4
  <2> HIDE DEF Right
  <2> QED
    BY <1>0, <2>1
<1>6. Among(s, G) = k[Len(s)]
  BY AmongIsKept DEF k
<1> QED
  BY <1>5, <1>6

\* A sequence that names nothing twice is as long as it names things.
LEMMA DistinctLength ==
  ASSUME NEW S, NEW s \in Seq(S), Distinct(s)
  PROVE  IsFiniteSet(ToSet(s)) /\ Cardinality(ToSet(s)) = Len(s)
<1>1. Len(s) \in Nat /\ DOMAIN s = 1 .. Len(s)
  OBVIOUS
<1>2. s \in [1 .. Len(s) -> ToSet(s)]
  BY <1>1 DEF ToSet
<1>3. s \in Bijection(1 .. Len(s), ToSet(s))
  BY <1>1, <1>2 DEF Distinct, Bijection, Injection, Surjection, IsInjective, ToSet
<1>4. ExistsBijection(1 .. Len(s), ToSet(s))
  BY <1>3 DEF ExistsBijection
<1> QED
  BY <1>1, <1>4, FS_CountingElements, FS_NatBijection

----------------------------------------------------------------------------
\* Sequences are equal when they are equal position by position.
LEMMA SameSequence ==
  ASSUME NEW S, NEW s \in Seq(S), NEW u \in Seq(S), Len(s) = Len(u), \A i \in 1 .. Len(s) : s[i] = u[i]
  PROVE  s = u
OBVIOUS

\* A sequence with the elements of one and then those of another is the two joined.
LEMMA Joined ==
  ASSUME NEW S, NEW s \in Seq(S), NEW u \in Seq(S), NEW v \in Seq(S),
         Len(v) = Len(s) + Len(u),
         \A i \in 1 .. Len(s) : v[i] = s[i], \A j \in 1 .. Len(u) : v[Len(s) + j] = u[j]
  PROVE  s \o u = v
<1> DEFINE w == s \o u
<1>1. w \in Seq(S) /\ Len(w) = Len(s) + Len(u) /\ Len(s) \in Nat /\ Len(u) \in Nat
  OBVIOUS
<1>2. \A i \in 1 .. Len(s) : w[i] = s[i]
  OBVIOUS
<1>3. \A i \in 1 .. Len(u) : w[Len(s) + i] = u[i]
  OBVIOUS
<1> HIDE DEF w
<1>4. ASSUME NEW i \in 1 .. Len(w) PROVE w[i] = v[i]
  <2>1. CASE i <= Len(s)
    BY <1>1, <1>2, <2>1
  <2>2. CASE i > Len(s)
    <3> DEFINE j == i - Len(s)
    <3>1. j \in 1 .. Len(u) /\ i = Len(s) + j
      BY <1>1, <2>2
    <3> HIDE DEF j
    <3>2. w[Len(s) + j] = u[j] /\ v[Len(s) + j] = u[j]
      BY <1>3, <3>1
    <3> QED BY <3>1, <3>2
  <2> QED BY <1>1, <2>1, <2>2
<1>5. w = v
  BY <1>1, <1>4, SameSequence
<1> QED BY <1>5 DEF w

\* Two sequences joined have the elements of the one, and then those of the other.
LEMMA OneThenOther ==
  ASSUME NEW S, NEW s \in Seq(S), NEW u \in Seq(S)
  PROVE  /\ s \o u \in Seq(S) /\ Len(s \o u) = Len(s) + Len(u) /\ Len(s) \in Nat /\ Len(u) \in Nat
         /\ \A i \in 1 .. Len(s) : (s \o u)[i] = s[i]
         /\ \A i \in 1 .. Len(u) : (s \o u)[Len(s) + i] = u[i]
OBVIOUS

\* One more element put before a sequence.
InFront(row, rows) == <<row>> \o rows

LEMMA RowInFront ==
  ASSUME NEW S, NEW row \in S, NEW rows \in Seq(S)
  PROVE  /\ InFront(row, rows) \in Seq(S) /\ Len(InFront(row, rows)) = Len(rows) + 1
         /\ \A i \in DOMAIN rows : \E j \in DOMAIN InFront(row, rows) : InFront(row, rows)[j] = rows[i]
         /\ 1 \in DOMAIN InFront(row, rows) /\ InFront(row, rows)[1] = row
         /\ \A j \in DOMAIN InFront(row, rows) :
              InFront(row, rows)[j] = row \/ \E i \in DOMAIN rows : InFront(row, rows)[j] = rows[i]
<1> DEFINE one == <<row>>
           all == InFront(row, rows)
<1>1. one \in Seq(S) /\ Len(one) = 1 /\ one[1] = row
  OBVIOUS
<1>0. all = one \o rows
  BY DEF InFront
<1> HIDE DEF one, all
<1>2. all \in Seq(S) /\ Len(all) = Len(one) + Len(rows) /\ Len(rows) \in Nat /\ Len(one) \in Nat
  BY <1>0, <1>1, OneThenOther, Zenon
<1>3. \A i \in 1 .. Len(one) : all[i] = one[i]
  BY <1>0, <1>1, OneThenOther, Zenon
<1>4. \A i \in 1 .. Len(rows) : all[Len(one) + i] = rows[i]
  <2>1. \A i \in 1 .. Len(rows) : (one \o rows)[Len(one) + i] = rows[i]
    <3>1. one \in Seq(S)
      BY <1>1
    <3> QED
      BY ONLY OneThenOther, <3>1, rows \in Seq(S)
  <2> QED
    BY <1>0, <2>1, Zenon
<1>5. DOMAIN all = 1 .. Len(rows) + 1 /\ DOMAIN rows = 1 .. Len(rows) /\ Len(all) = Len(rows) + 1
  BY <1>1, <1>2
<1>6. 1 \in DOMAIN all /\ all[1] = row
  BY <1>1, <1>2, <1>3, <1>5
<1>7. ASSUME NEW i \in DOMAIN rows PROVE \E j \in DOMAIN all : all[j] = rows[i]
  <2>1. i \in 1 .. Len(rows) /\ 1 + i \in DOMAIN all
    BY <1>2, <1>5
  <2>2. all[1 + i] = rows[i]
    BY <1>1, <1>4, <2>1
  <2> QED
    BY <2>1, <2>2
<1>8. ASSUME NEW j \in DOMAIN all PROVE all[j] = row \/ \E i \in DOMAIN rows : all[j] = rows[i]
  <2>1. CASE j = 1
    BY <1>6, <2>1
  <2>2. CASE j # 1
    <3> DEFINE i == j - 1
    <3>1. i \in 1 .. Len(rows) /\ j = 1 + i
      BY <1>2, <1>5, <2>2
    <3> HIDE DEF i
    <3>2. all[1 + i] = rows[i]
      BY <1>1, <1>4, <3>1
    <3> QED
      BY <1>5, <3>1, <3>2
  <2> QED
    BY <2>1, <2>2
<1> QED
  BY <1>2, <1>5, <1>6, <1>7, <1>8 DEF all

\* What is kept of a sequence grows from front to back.
LEMMA KeptGrows ==
  ASSUME NEW s, NEW G, Len(s) \in Nat
  PROVE  /\ KeptOf(s, G)[0] = << >>
         /\ \A n \in 0 .. Len(s) - 1 : KeptOf(s, G)[n + 1] =
              IF s[n + 1] \in G THEN Append(KeptOf(s, G)[n], s[n + 1]) ELSE KeptOf(s, G)[n]
<1> DEFINE k == KeptOf(s, G)
<1>1. Keeps(k, s, G, Len(s))
  BY KeptExists
<1> HIDE DEF k
<1>2. \A n \in 0 .. Len(s) : k[n] = Grown(k, s, G, n)
  BY <1>1 DEF Keeps
<1>3. k[0] = << >>
  BY <1>2 DEF Grown
<1>4. ASSUME NEW n \in 0 .. Len(s) - 1
      PROVE  k[n + 1] = IF s[n + 1] \in G THEN Append(k[n], s[n + 1]) ELSE k[n]
  <2>1. n + 1 \in 0 .. Len(s) /\ n + 1 # 0 /\ (n + 1) - 1 = n
    OBVIOUS
  <2> QED
    BY <1>2, <2>1 DEF Grown
<1> QED
  BY <1>3, <1>4 DEF k

LEMMA AppendJoined ==
  ASSUME NEW S, NEW q \in Seq(S), NEW r \in Seq(S), NEW e \in S
  PROVE  Append(q \o r, e) = q \o Append(r, e) /\ Append(r, e) \in Seq(S)
<1> DEFINE v == Append(q \o r, e)
           a == Append(r, e)
           j == q \o r
<1>1. j \in Seq(S) /\ Len(j) = Len(q) + Len(r) /\ Len(q) \in Nat /\ Len(r) \in Nat
  OBVIOUS
<1>2. /\ \A i \in 1 .. Len(q) : j[i] = q[i]
      /\ \A i \in 1 .. Len(r) : j[Len(q) + i] = r[i]
  OBVIOUS
<1>3. a \in Seq(S) /\ Len(a) = Len(r) + 1 /\ a[Len(r) + 1] = e /\ \A i \in 1 .. Len(r) : a[i] = r[i]
  OBVIOUS
<1>4. v = Append(j, e)
  OBVIOUS
<1> HIDE DEF j, a
<1>5. v \in Seq(S) /\ Len(v) = Len(j) + 1 /\ v[Len(j) + 1] = e /\ \A i \in 1 .. Len(j) : v[i] = j[i]
  BY <1>1, <1>4
<1> HIDE DEF v
<1>6. \A i \in 1 .. Len(q) : v[i] = q[i]
  BY <1>1, <1>2, <1>5
<1>7. ASSUME NEW i \in 1 .. Len(a) PROVE v[Len(q) + i] = a[i]
  <2>1. CASE i = Len(r) + 1
    BY <1>1, <1>3, <1>5, <2>1
  <2>2. CASE i \in 1 .. Len(r)
    BY <1>1, <1>2, <1>3, <1>5, <2>2
  <2> QED
    BY <1>1, <1>3, <2>1, <2>2
<1>8. Len(v) = Len(q) + Len(a)
  BY <1>1, <1>3, <1>5
<1>9. q \o a = v
  BY <1>3, <1>5, <1>6, <1>7, <1>8, Joined
<1> QED
  BY <1>3, <1>9 DEF v, a

\* Two sets that agree on what a sequence has.
Alike(s, G, H) == \A i \in DOMAIN s : s[i] \in G <=> s[i] \in H

\* Of two sequences joined, what is kept is what is kept of each, by the same choice.
LEMMA AmongJoined ==
  ASSUME NEW S, NEW s \in Seq(S), NEW u \in Seq(S), NEW G, NEW H, NEW K,
         Alike(s, G, H), Alike(u, G, K)
  PROVE  Among(s \o u, G) = Among(s, H) \o Among(u, K)
<1> DEFINE c == s \o u
           k == KeptOf(c, G)
           h == KeptOf(s, H)
           m == KeptOf(u, K)
           T == {n \in Nat : n <= Len(s) => k[n] = h[n] /\ h[n] \in Seq(S)}
<1>0. /\ Len(s) \in Nat /\ DOMAIN s = 1 .. Len(s) /\ \A i \in 1 .. Len(s) : s[i] \in S /\ c[i] = s[i]
      /\ Len(u) \in Nat /\ DOMAIN u = 1 .. Len(u) /\ \A i \in 1 .. Len(u) : u[i] \in S /\ c[Len(s) + i] = u[i]
      /\ Len(c) = Len(s) + Len(u)
  BY OneThenOther
<1>1. /\ k[0] = << >> /\ h[0] = << >> /\ m[0] = << >>
      /\ \A n \in 0 .. Len(c) - 1 : k[n + 1] = IF c[n + 1] \in G THEN Append(k[n], c[n + 1]) ELSE k[n]
      /\ \A n \in 0 .. Len(s) - 1 : h[n + 1] = IF s[n + 1] \in H THEN Append(h[n], s[n + 1]) ELSE h[n]
      /\ \A n \in 0 .. Len(u) - 1 : m[n + 1] = IF u[n + 1] \in K THEN Append(m[n], u[n + 1]) ELSE m[n]
  <2>1. Len(c) \in Nat
    BY <1>0
  <2>2. \A q, F : Len(q) \in Nat =>
          /\ KeptOf(q, F)[0] = << >>
          /\ \A n \in 0 .. Len(q) - 1 : KeptOf(q, F)[n + 1] =
               IF q[n + 1] \in F THEN Append(KeptOf(q, F)[n], q[n + 1]) ELSE KeptOf(q, F)[n]
    BY KeptGrows, Zenon
  <2> HIDE DEF c
  <2>3. /\ k[0] = << >>
        /\ \A n \in 0 .. Len(c) - 1 : k[n + 1] = IF c[n + 1] \in G THEN Append(k[n], c[n + 1]) ELSE k[n]
    BY <2>1, <2>2
  <2>4. Len(s) \in Nat /\ Len(u) \in Nat
    BY <1>0
  <2>5. /\ h[0] = << >>
        /\ \A n \in 0 .. Len(s) - 1 : h[n + 1] = IF s[n + 1] \in H THEN Append(h[n], s[n + 1]) ELSE h[n]
    BY <2>2, <2>4
  <2>6. /\ m[0] = << >>
        /\ \A n \in 0 .. Len(u) - 1 : m[n + 1] = IF u[n + 1] \in K THEN Append(m[n], u[n + 1]) ELSE m[n]
    BY <2>2, <2>4
  <2> QED
    BY <2>3, <2>5, <2>6
<1>2. Among(c, G) = k[Len(c)] /\ Among(s, H) = h[Len(s)] /\ Among(u, K) = m[Len(u)]
  BY AmongIsKept
<1> HIDE DEF c, k, h, m
<1>3. 0 \in T
  <2>1. << >> \in Seq(S)
    OBVIOUS
  <2> QED
    BY <1>1, <2>1
<1>4. ASSUME NEW n \in T PROVE n + 1 \in T
  <2> SUFFICES ASSUME n + 1 <= Len(s) PROVE k[n + 1] = h[n + 1] /\ h[n + 1] \in Seq(S)
    OBVIOUS
  <2>1. n \in 0 .. Len(s) - 1 /\ n \in 0 .. Len(c) - 1 /\ n + 1 \in 1 .. Len(s)
    BY <1>0
  <2>2. k[n] = h[n] /\ h[n] \in Seq(S)
    BY <1>0, <2>1
  <2>3. c[n + 1] = s[n + 1] /\ s[n + 1] \in S /\ (s[n + 1] \in G <=> s[n + 1] \in H)
    BY <1>0, <2>1 DEF Alike
  <2>4. k[n + 1] = IF s[n + 1] \in H THEN Append(h[n], s[n + 1]) ELSE h[n]
    BY <1>1, <2>1, <2>2, <2>3
  <2>5. h[n + 1] = IF s[n + 1] \in H THEN Append(h[n], s[n + 1]) ELSE h[n]
    BY <1>1, <2>1
  <2>6. Append(h[n], s[n + 1]) \in Seq(S)
    BY <2>2, <2>3
  <2> QED
    BY <2>2, <2>4, <2>5, <2>6
<1>5. Len(s) \in T
  <2>1. T \in SUBSET Nat
    OBVIOUS
  <2> HIDE DEF T
  <2>2. T = Nat
    BY <1>3, <1>4, <2>1, SetInduction
  <2> QED
    BY <1>0, <2>2
<1>6. k[Len(s)] = h[Len(s)] /\ h[Len(s)] \in Seq(S)
  BY <1>0, <1>5
<1> DEFINE J(n) == h[Len(s)] \o m[n]
           Right(n) == k[Len(s) + n] = J(n) /\ m[n] \in Seq(S)
           U == {n \in Nat : n <= Len(u) => Right(n)}
<1>7. J(0) = h[Len(s)] /\ m[0] \in Seq(S)
  <2>1. \A q \in Seq(S) : q \o << >> = q /\ << >> \in Seq(S)
    OBVIOUS
  <2> QED
    BY <1>1, <1>6, <2>1
<1>8. ASSUME NEW n \in 0 .. Len(u) - 1, m[n] \in Seq(S)
      PROVE  /\ m[n + 1] \in Seq(S)
             /\ J(n + 1) = IF u[n + 1] \in K THEN Append(J(n), u[n + 1]) ELSE J(n)
  <2>1. u[n + 1] \in S
    BY <1>0
  <2>2. m[n + 1] = IF u[n + 1] \in K THEN Append(m[n], u[n + 1]) ELSE m[n]
    BY <1>1
  <2> DEFINE q == h[Len(s)]
             r == m[n]
             e == u[n + 1]
  <2>3. Append(q \o r, e) = q \o Append(r, e) /\ Append(r, e) \in Seq(S)
    <3>2. \A x, y \in Seq(S), z \in S : Append(x \o y, z) = x \o Append(y, z) /\ Append(y, z) \in Seq(S)
      BY AppendJoined, Zenon
    <3>1. q \in Seq(S) /\ r \in Seq(S) /\ e \in S
      BY <1>6, <1>8, <2>1
    <3> HIDE DEF q, r, e
    <3> QED
      BY <3>1, <3>2, Zenon
  <2> QED
    BY <1>8, <2>2, <2>3, Zenon
<1> HIDE DEF J
<1>9. Right(0)
  <2>1. Len(s) + 0 = Len(s)
    BY <1>0
  <2> QED
    BY <1>6, <1>7, <2>1
<1>10. ASSUME NEW n \in U, n + 1 <= Len(u) PROVE Right(n + 1)
  <2>1. /\ n \in 0 .. Len(u) - 1 /\ Len(s) + n \in 0 .. Len(c) - 1 /\ n + 1 \in 1 .. Len(u)
        /\ Len(s) + (n + 1) = (Len(s) + n) + 1 /\ n <= Len(u)
    <3>1. n \in Nat /\ n + 1 <= Len(u)
      BY <1>10
    <3> QED
      BY <1>0, <3>1
  <2>2. k[Len(s) + n] = J(n) /\ m[n] \in Seq(S)
    BY <2>1
  <2>3. c[(Len(s) + n) + 1] = u[n + 1] /\ (u[n + 1] \in G <=> u[n + 1] \in K)
    BY <1>0, <2>1 DEF Alike
  <2>4. k[(Len(s) + n) + 1] = IF u[n + 1] \in K THEN Append(J(n), u[n + 1]) ELSE J(n)
    BY <1>1, <2>1, <2>2, <2>3
  <2> QED
    BY <1>8, <2>1, <2>2, <2>4
<1>11. Right(Len(u))
  <2>1. U \in SUBSET Nat
    OBVIOUS
  <2> HIDE DEF Right
  <2>2. 0 \in U /\ \A n \in U : n + 1 \in U
    BY <1>9, <1>10
  <2> HIDE DEF U
  <2>3. U = Nat
    BY <2>1, <2>2, SetInduction
  <2>4. Len(u) \in U /\ Len(u) <= Len(u)
    BY <1>0, <2>3
  <2> QED
    BY <2>4 DEF U
<1>12. Among(c, G) = k[Len(s) + Len(u)]
  BY <1>0, <1>2
<1> QED
  BY <1>2, <1>11, <1>12, Zenon DEF c, J
===============================================================================
