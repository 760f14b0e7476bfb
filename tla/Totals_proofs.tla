--------------------------- MODULE Totals_proofs ----------------------------
(***************************************************************************)
(* Lemmas about the total of a ledger with finitely many entries: what     *)
(* writing one entry, or adding one, does to it.                           *)
(***************************************************************************)
EXTENDS Totals, FiniteSetTheorems, TLAPS

LEMMA UnitsOf ==
  ASSUME NEW S, NEW f \in [S -> Nat], NEW u
  PROVE  u \in Units(f) <=> \E x \in S : \E n \in 1..f[x] : u = <<x, n>>
  BY DEF Units

\* A column: the units of one entry.
LEMMA Column ==
  ASSUME NEW x, NEW n \in Nat
  PROVE  /\ IsFiniteSet({x} \X (1..n))
         /\ Cardinality({x} \X (1..n)) = n
<1>1. IsFiniteSet(1..n) /\ Cardinality(1..n) = n
  BY FS_Interval
<1>2. IsFiniteSet({x}) /\ Cardinality({x}) = 1
  BY FS_Singleton
<1>3. QED
  BY <1>1, <1>2, FS_Product

LEMMA UnitsFinite ==
  ASSUME NEW S, IsFiniteSet(S), NEW f \in [S -> Nat]
  PROVE  IsFiniteSet(Units(f))
<1> DEFINE column == [x \in S |-> {x} \X (1..f[x])]
           columns == {{x} \X (1..f[x]) : x \in S}
<1>1. column \in Surjection(S, columns)
  BY DEF Surjection
<1>2. IsFiniteSet(columns)
  <2> HIDE DEF column, columns
  <2>1. QED
    BY <1>1, FS_Surjection
<1>3. ASSUME NEW c \in columns
      PROVE  IsFiniteSet(c)
  <2>1. PICK x \in S : c = {x} \X (1..f[x])
    OBVIOUS
  <2>2. f[x] \in Nat
    OBVIOUS
  <2>3. QED
    BY <2>1, <2>2, Column
<1>4. Units(f) = UNION columns
  BY DEF Units
<1> HIDE DEF columns
<1>5. QED
  BY <1>2, <1>3, <1>4, FS_UNION

\* A total is a number, and no entry exceeds it.
LEMMA TotalType ==
  ASSUME NEW S, IsFiniteSet(S), NEW f \in [S -> Nat]
  PROVE  Total(f) \in Nat
  BY UnitsFinite, FS_CardinalityType DEF Total

\* Two ledgers that agree but at x, where the first may have no entry: their
\* totals differ by what x holds.
LEMMA WithoutEntry ==
  ASSUME NEW S, IsFiniteSet(S), NEW f \in [S -> Nat], NEW x \in S
  PROVE  /\ IsFiniteSet({u \in Units(f) : u[1] # x})
         /\ Total(f) = Cardinality({u \in Units(f) : u[1] # x}) + f[x]
<1> DEFINE rest == {u \in Units(f) : u[1] # x}
           here == {x} \X (1..f[x])
<1>1. IsFiniteSet(Units(f))
  BY UnitsFinite
<1>2. IsFiniteSet(rest) /\ Cardinality(rest) \in Nat
  BY <1>1, FS_Subset, FS_CardinalityType
<1>3. IsFiniteSet(here) /\ Cardinality(here) = f[x] /\ f[x] \in Nat
  BY Column
<1>4. Units(f) = rest \cup here
  BY UnitsOf
<1>5. rest \cap here = {}
  OBVIOUS
<1>6. Cardinality(rest \cap here) = 0
  BY <1>5, FS_EmptySet
<1>7. Cardinality(rest \cup here) = Cardinality(rest) + Cardinality(here)
  <2> HIDE DEF rest, here
  <2>1. Cardinality(rest \cup here)
           = Cardinality(rest) + Cardinality(here) - Cardinality(rest \cap here)
    BY <1>2, <1>3, FS_Union
  <2>2. QED
    BY <1>2, <1>3, <1>6, <2>1
<1>8. Total(f) = Cardinality(rest) + f[x]
  BY <1>3, <1>4, <1>7 DEF Total
<1>9. QED
  BY <1>2, <1>8

\* Two ledgers that agree everywhere else differ by what they hold at x.
LEMMA TotalChange ==
  ASSUME NEW S, IsFiniteSet(S), NEW f \in [S -> Nat], NEW g \in [S -> Nat],
         NEW x \in S, \A y \in S : y # x => g[y] = f[y]
  PROVE  /\ Total(g) = Total(f) - f[x] + g[x]
         /\ f[x] <= Total(f)
<1> DEFINE restf == {u \in Units(f) : u[1] # x}
           restg == {u \in Units(g) : u[1] # x}
<1>1. restf = restg
  BY UnitsOf
<1>2. /\ Total(f) = Cardinality(restf) + f[x]
      /\ Total(g) = Cardinality(restg) + g[x]
      /\ Cardinality(restf) \in Nat
  BY WithoutEntry, FS_CardinalityType
<1> HIDE DEF restf, restg
<1>3. QED
  BY <1>1, <1>2

\* One entry written.
LEMMA TotalWrite ==
  ASSUME NEW S, IsFiniteSet(S), NEW f \in [S -> Nat], NEW x \in S, NEW v \in Nat
  PROVE  /\ Total([f EXCEPT ![x] = v]) = Total(f) - f[x] + v
         /\ f[x] <= Total(f)
         /\ Total(f) \in Nat
<1> DEFINE g == [f EXCEPT ![x] = v]
<1>1. g \in [S -> Nat] /\ g[x] = v /\ \A y \in S : y # x => g[y] = f[y]
  OBVIOUS
<1> HIDE DEF g
<1>2. Total(g) = Total(f) - f[x] + v /\ f[x] <= Total(f)
  BY <1>1, TotalChange
<1>3. QED
  BY <1>2, TotalType DEF g

\* One entry added.
LEMMA TotalGrow ==
  ASSUME NEW S, IsFiniteSet(S), NEW f \in [S -> Nat], NEW x, x \notin S,
         NEW g \in [S \cup {x} -> Nat], \A y \in S : g[y] = f[y]
  PROVE  Total(g) = Total(f) + g[x]
<1> DEFINE rest == {u \in Units(g) : u[1] # x}
<1>1. IsFiniteSet(S \cup {x})
  BY FS_AddElement
<1>2. Total(g) = Cardinality(rest) + g[x]
  BY <1>1, WithoutEntry
<1>3. rest = Units(f)
  BY UnitsOf
<1>4. QED
  BY <1>2, <1>3 DEF Total

\* A ledger of zeros, an empty one included.
LEMMA TotalZero ==
  ASSUME NEW S, NEW f \in [S -> Nat], \A x \in S : f[x] = 0
  PROVE  Total(f) = 0
<1>1. Units(f) = {}
  <2>1. \A x \in S : 1..f[x] = {}
    OBVIOUS
  <2>2. QED
    BY <2>1, UnitsOf
<1>2. QED
  BY <1>1, FS_EmptySet DEF Total

\* A ledger of one entry.
LEMMA TotalOne ==
  ASSUME NEW x, NEW f \in [{x} -> Nat]
  PROVE  Total(f) = f[x]
<1>1. IsFiniteSet({x})
  BY FS_Singleton
<1> DEFINE rest == {u \in Units(f) : u[1] # x}
<1>2. Total(f) = Cardinality(rest) + f[x]
  BY <1>1, WithoutEntry
<1>3. rest = {}
  BY UnitsOf
<1>4. f[x] \in Nat
  OBVIOUS
<1>5. QED
  BY <1>2, <1>3, <1>4, FS_EmptySet
=============================================================================
