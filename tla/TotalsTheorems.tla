--------------------------- MODULE TotalsTheorems ---------------------------
(***************************************************************************)
(* What the invariants about sums need to know of Total, for every finite  *)
(* domain and every U64Max.                                                *)
(***************************************************************************)
EXTENDS Totals, FiniteSetTheorems, TLAPS

\* A total of amounts is a natural number.
LEMMA TotalType ==
    ASSUME NEW S, IsFiniteSet(S), NEW f \in [S -> U64]
    PROVE  IsFiniteSet(Units(f)) /\ Total(f) \in Nat
<1>1. IsFiniteSet(1 .. U64Max)
  BY FS_Interval, U64Assumption
<1>2. IsFiniteSet(S \X (1 .. U64Max))
  BY <1>1, FS_Product
<1>3. Units(f) \in SUBSET (S \X (1 .. U64Max))
  BY DEF Units
<1>4. IsFiniteSet(Units(f))
  BY <1>2, <1>3, FS_Subset
<1> QED
  BY <1>4, FS_CardinalityType DEF Total

\* Nothing anywhere totals nothing.
LEMMA TotalZero ==
    ASSUME NEW S, NEW f \in [S -> U64], \A k \in S : f[k] = 0
    PROVE  Total(f) = 0
<1>1. Units(f) = {}
  <2> SUFFICES ASSUME NEW u \in Units(f) PROVE FALSE
    OBVIOUS
  <2>1. u[1] \in S /\ u[2] \in 1 .. U64Max /\ u[2] <= f[u[1]]
    BY DEF Units
  <2> QED
    BY <2>1, U64Assumption
<1> QED
  BY <1>1, FS_EmptySet DEF Total

\* Crediting one entry by n raises the total by n.
LEMMA TotalCredit ==
    ASSUME NEW S, IsFiniteSet(S), NEW f \in [S -> U64], NEW k \in S,
           NEW n \in Nat, f[k] + n <= U64Max
    PROVE  Total([f EXCEPT ![k] = f[k] + n]) = Total(f) + n
<1> DEFINE g == [f EXCEPT ![k] = f[k] + n]
           New == {k} \X (f[k] + 1 .. f[k] + n)
<1> USE U64Assumption
<1>1. f[k] \in Nat /\ f[k] + n \in Nat
  BY DEF U64
<1>2. IsFiniteSet(New) /\ Cardinality(New) = n
  <2> DEFINE lo == f[k] + 1
             hi == f[k] + n
  <2>1. lo \in Int /\ hi \in Int /\ (lo > hi => n = 0) /\ hi - lo + 1 = n
    BY <1>1
  <2>2. IsFiniteSet(lo .. hi) /\ Cardinality(lo .. hi) = n
    <3> HIDE DEF lo, hi
    <3> QED
      BY <2>1, FS_Interval
  <2>3. IsFiniteSet({k}) /\ Cardinality({k}) = 1
    BY FS_Singleton
  <2>4. /\ IsFiniteSet({k} \X (lo .. hi))
        /\ Cardinality({k} \X (lo .. hi)) = 1 * n
    <3> HIDE DEF lo, hi
    <3> QED
      BY <2>2, <2>3, FS_Product
  <2> QED
    BY <2>4
<1>3. IsFiniteSet(Units(f)) /\ Cardinality(Units(f)) \in Nat
  BY TotalType DEF Total
<1>4. Units(f) \cap New = {}
  <2> SUFFICES ASSUME NEW u \in Units(f), u \in New PROVE FALSE
    OBVIOUS
  <2>1. u[2] <= f[u[1]] /\ u[2] \in Int
    BY DEF Units
  <2>2. u[1] = k /\ u[2] >= f[k] + 1
    BY <1>1
  <2> QED
    BY <1>1, <2>1, <2>2
<1>5. Units(g) = Units(f) \cup New
  <2>1. ASSUME NEW s \in S, NEW i \in 1 .. U64Max
        PROVE  i <= g[s] <=> i <= f[s] \/ (s = k /\ i \in f[k] + 1 .. f[k] + n)
    <3>1. CASE s = k
      BY <1>1, <3>1
    <3>2. CASE s # k
      BY <3>2
    <3> QED
      BY <3>1, <3>2
  <2>2. New \subseteq S \X (1 .. U64Max)
    BY <1>1
  <2>3. DOMAIN g = S /\ DOMAIN f = S
    OBVIOUS
  <2>4. ASSUME NEW u \in S \X (1 .. U64Max)
        PROVE  u \in Units(g) <=> u \in Units(f) \cup New
    <3>1. PICK s \in S, i \in 1 .. U64Max : u = <<s, i>>
      OBVIOUS
    <3>2. u \in Units(g) <=> i <= g[s]
      BY <2>3, <3>1 DEF Units
    <3>3. u \in Units(f) <=> i <= f[s]
      BY <2>3, <3>1 DEF Units
    <3>4. u \in New <=> s = k /\ i \in f[k] + 1 .. f[k] + n
      BY <3>1
    <3> QED
      BY <2>1, <3>2, <3>3, <3>4
  <2> HIDE DEF g, New
  <2>5. Units(g) \subseteq S \X (1 .. U64Max)
    BY <2>3 DEF Units
  <2>6. Units(f) \subseteq S \X (1 .. U64Max)
    BY <2>3 DEF Units
  <2> QED
    BY <2>2, <2>4, <2>5, <2>6
<1>6. Cardinality(Units(g)) = Cardinality(Units(f)) + n
  <2> HIDE DEF g, New
  <2>1. Cardinality(Units(f) \cap New) = 0
    BY <1>4, FS_EmptySet
  <2>2. Cardinality(Units(f) \cup New)
          = Cardinality(Units(f)) + Cardinality(New) - Cardinality(Units(f) \cap New)
    BY <1>2, <1>3, FS_Union
  <2> QED
    BY <1>2, <1>3, <1>5, <2>1, <2>2
<1> QED
  BY <1>6 DEF Total

\* Debiting one entry by n lowers the total by n.
LEMMA TotalDebit ==
    ASSUME NEW S, IsFiniteSet(S), NEW f \in [S -> U64], NEW k \in S,
           NEW n \in Nat, n <= f[k]
    PROVE  Total([f EXCEPT ![k] = f[k] - n]) = Total(f) - n
<1> DEFINE g == [f EXCEPT ![k] = f[k] - n]
           h == [g EXCEPT ![k] = g[k] + n]
<1>1. g \in [S -> U64]
  BY U64Assumption DEF U64
<1>2. g[k] + n = f[k] /\ f[k] <= U64Max
  BY U64Assumption DEF U64
<1>3. f = h
  BY <1>2
<1>4. Total(g) \in Nat /\ Total(f) \in Nat
  BY <1>1, TotalType
<1>5. Total(h) = Total(g) + n
  <2> HIDE DEF g
  <2> QED
    BY <1>1, <1>2, TotalCredit, ZenonT(60)
<1> HIDE DEF g, h
<1>6. Total(f) = Total(g) + n
  BY <1>3, <1>5
<1>7. Total(g) = Total(f) - n
  BY <1>4, <1>6
<1> QED
  BY <1>7 DEF g

\* Moving n from one entry to another leaves the total alone.
LEMMA TotalMove ==
    ASSUME NEW S, IsFiniteSet(S), NEW f \in [S -> U64], NEW g \in [S -> U64],
           NEW a \in S, NEW b \in S, a # b, NEW n \in Nat,
           g[a] = f[a] - n, g[b] = f[b] + n,
           \A k \in S : k # a /\ k # b => g[k] = f[k]
    PROVE  Total(g) = Total(f)
<1> DEFINE h == [f EXCEPT ![a] = f[a] - n]
           i == [h EXCEPT ![b] = h[b] + n]
<1>1. n <= f[a] /\ f[b] + n <= U64Max
  BY U64Assumption DEF U64
<1>2. h \in [S -> U64] /\ h[b] + n <= U64Max
  BY <1>1, U64Assumption DEF U64
<1>3. i = g
  BY U64Assumption DEF U64
<1>4. Total(h) = Total(f) - n
  BY <1>1, TotalDebit, ZenonT(60)
<1>5. Total(i) = Total(h) + n
  <2> HIDE DEF h
  <2> QED
    BY <1>2, TotalCredit
<1>6. Total(f) \in Nat
  BY TotalType
<1> HIDE DEF h, i
<1> QED
  BY <1>3, <1>4, <1>5, <1>6

\* No entry exceeds the total.
LEMMA TotalBounds ==
    ASSUME NEW S, IsFiniteSet(S), NEW f \in [S -> U64], NEW a \in S
    PROVE  f[a] <= Total(f)
<1>1. PICK x \in Nat : x = f[a] /\ x <= f[a]
  BY U64Assumption DEF U64
<1> DEFINE g == [f EXCEPT ![a] = f[a] - x]
<1>2. g \in [S -> U64]
  BY U64Assumption, <1>1 DEF U64
<1>3. Total(g) = Total(f) - x
  BY <1>1, TotalDebit, ZenonT(60)
<1>4. Total(g) \in Nat /\ Total(f) \in Nat
  BY <1>2, TotalType
<1> HIDE DEF g
<1> QED
  BY <1>1, <1>3, <1>4

\* No two entries together exceed the total.
LEMMA TotalBoundsTwo ==
    ASSUME NEW S, IsFiniteSet(S), NEW f \in [S -> U64],
           NEW a \in S, NEW b \in S, a # b
    PROVE  f[a] + f[b] <= Total(f)
<1>1. PICK x \in Nat, y \in Nat :
         x = f[a] /\ y = f[b] /\ x <= f[a] /\ y <= f[b]
  BY U64Assumption DEF U64
<1> DEFINE g == [f EXCEPT ![a] = f[a] - x]
           h == [g EXCEPT ![b] = g[b] - y]
<1>2. g \in [S -> U64] /\ y <= g[b]
  BY U64Assumption, <1>1 DEF U64
<1>3. h \in [S -> U64]
  BY U64Assumption, <1>1, <1>2 DEF U64
<1>4. Total(g) = Total(f) - x
  BY <1>1, TotalDebit, ZenonT(60)
<1>5. Total(h) = Total(g) - y
  <2> HIDE DEF g
  <2> QED
    BY <1>2, TotalDebit, ZenonT(60)
<1>6. Total(h) \in Nat /\ Total(g) \in Nat /\ Total(f) \in Nat
  BY <1>2, <1>3, TotalType
<1> HIDE DEF g, h
<1> QED
  BY <1>1, <1>4, <1>5, <1>6

=============================================================================
