---------------------------- MODULE TotalsProofs ----------------------------
(* What Total does when one entry of the map changes. *)
EXTENDS Totals, FiniteSetTheorems, TLAPS

\* One column of units is as tall as its entry.
LEMMA ColumnSize ==
  ASSUME NEW p, NEW n \in Nat
  PROVE  IsFiniteSet({p} \X (1..n)) /\ Cardinality({p} \X (1..n)) = n
<1>1. IsFiniteSet({p}) /\ Cardinality({p}) = 1
  BY FS_Singleton
<1>2. IsFiniteSet(1..n) /\ Cardinality(1..n) = n
  <2>1. 1 \in Int /\ n \in Int
    OBVIOUS
  <2>2. IsFiniteSet(1..n) /\ Cardinality(1..n) = IF 1 > n THEN 0 ELSE n - 1 + 1
    BY <2>1, FS_Interval
  <2>3. (IF 1 > n THEN 0 ELSE n - 1 + 1) = n
    OBVIOUS
  <2> QED BY <2>2, <2>3
<1>3. /\ IsFiniteSet({p} \X (1..n))
      /\ Cardinality({p} \X (1..n)) = Cardinality({p}) * Cardinality(1..n)
  BY <1>1, <1>2, FS_Product
<1>4. 1 * n = n
  OBVIOUS
<1> QED BY <1>1, <1>2, <1>3, <1>4

\* The units of a finite map are finite, so its total is a natural number.
LEMMA UnitsFinite ==
  ASSUME NEW P, IsFiniteSet(P), NEW f \in [P -> Nat]
  PROVE  IsFiniteSet(Units(f)) /\ Total(f) \in Nat
<1> DEFINE g == [x \in P |-> {x} \X (1..f[x])]
           T == {{x} \X (1..f[x]) : x \in P}
<1>1. g \in Surjection(P, T)
  BY DEF Surjection
<1>2. IsFiniteSet(T)
  BY <1>1, FS_Surjection DEF ExistsSurjection
<1>3. ASSUME NEW x \in P PROVE IsFiniteSet({x} \X (1..f[x]))
  <2>1. f[x] \in Nat
    OBVIOUS
  <2> QED BY <2>1, ColumnSize
<1>4. IsFiniteSet(UNION T)
  BY <1>2, <1>3, FS_UNION
<1> QED
  BY <1>4, FS_CardinalityType DEF Units, Total

\* A map that is zero everywhere totals zero.
LEMMA TotalZero ==
  ASSUME NEW P, NEW f \in [P -> Nat], \A x \in P : f[x] = 0
  PROVE  Total(f) = 0
<1>1. Units(f) = {}
  BY DEF Units
<1> QED
  BY <1>1, FS_EmptySet DEF Total

\* Each entry is covered by the total.
LEMMA TotalCovers ==
  ASSUME NEW P, IsFiniteSet(P), NEW f \in [P -> Nat], NEW p \in P
  PROVE  f[p] <= Total(f)
<1>1. {p} \X (1..f[p]) \in SUBSET Units(f)
  BY DEF Units
<1>2. f[p] \in Nat
  OBVIOUS
<1>3. Cardinality({p} \X (1..f[p])) = f[p]
  BY <1>2, ColumnSize
<1> QED
  BY <1>1, <1>3, UnitsFinite, FS_Subset DEF Total

\* Changing one entry changes the total by the same difference.
LEMMA TotalChange ==
  ASSUME NEW P, IsFiniteSet(P), NEW f \in [P -> Nat], NEW g \in [P -> Nat],
         NEW p \in P, \A x \in P \ {p} : g[x] = f[x]
  PROVE  Total(g) = Total(f) - f[p] + g[p]
<1> DEFINE R == UNION {{x} \X (1..f[x]) : x \in P \ {p}}
           U(n) == {p} \X (1..n)
<1>1. Units(f) = R \cup U(f[p]) /\ Units(g) = R \cup U(g[p])
  BY DEF Units
<1>2. R \cap U(f[p]) = {} /\ R \cap U(g[p]) = {}
  OBVIOUS
<1>3. IsFiniteSet(R)
  BY <1>1, UnitsFinite, FS_Subset
<1>4. ASSUME NEW n \in Nat PROVE IsFiniteSet(U(n)) /\ Cardinality(U(n)) = n
  BY ColumnSize
<1>5. Cardinality(R) \in Nat
  BY <1>3, FS_CardinalityType
<1>6. ASSUME NEW n \in Nat, R \cap U(n) = {}
      PROVE  Cardinality(R \cup U(n)) = Cardinality(R) + n
  <2>1. IsFiniteSet(U(n)) /\ Cardinality(U(n)) = n
    BY <1>4
  <2>2. Cardinality(R \cup U(n))
          = Cardinality(R) + Cardinality(U(n)) - Cardinality(R \cap U(n))
    BY <1>3, <2>1, FS_Union
  <2>3. Cardinality(R \cap U(n)) = 0
    BY <1>6, FS_EmptySet
  <2> QED BY <1>5, <2>1, <2>2, <2>3
<1>7. f[p] \in Nat /\ g[p] \in Nat
  OBVIOUS
<1>8. Total(f) = Cardinality(R) + f[p]
  BY <1>1, <1>2, <1>6, <1>7 DEF Total
<1>9. Total(g) = Cardinality(R) + g[p]
  BY <1>1, <1>2, <1>6, <1>7 DEF Total
<1> QED
  BY <1>5, <1>7, <1>8, <1>9

\* A map whose entries are shared out between two others totals both.
LEMMA TotalSplit ==
  ASSUME NEW P, IsFiniteSet(P), NEW f \in [P -> Nat], NEW g \in [P -> Nat],
         NEW h \in [P -> Nat],
         \A x \in P : \/ g[x] = 0 /\ f[x] = h[x]
                      \/ h[x] = 0 /\ f[x] = g[x]
  PROVE  Total(f) = Total(g) + Total(h)
<1>1. Units(f) = Units(g) \cup Units(h)
  BY DEF Units
<1>2. Units(g) \cap Units(h) = {}
  BY DEF Units
<1>3. /\ IsFiniteSet(Units(g)) /\ IsFiniteSet(Units(h))
      /\ Total(g) \in Nat /\ Total(h) \in Nat
  BY UnitsFinite
<1>4. Cardinality(Units(g) \cup Units(h))
        = Cardinality(Units(g)) + Cardinality(Units(h)) - Cardinality(Units(g) \cap Units(h))
  BY <1>3, FS_Union
<1>5. Cardinality(Units(g) \cap Units(h)) = 0
  BY <1>2, FS_EmptySet
<1> QED BY <1>1, <1>3, <1>4, <1>5 DEF Total

\* The total over two disjoint domains is that over the first and that over the second.
LEMMA TotalUnion ==
  ASSUME NEW A, NEW B, IsFiniteSet(A), IsFiniteSet(B), A \cap B = {},
         NEW f \in [A -> Nat], NEW g \in [B -> Nat], NEW h \in [A \cup B -> Nat],
         \A x \in A : h[x] = f[x], \A x \in B : h[x] = g[x]
  PROVE  Total(h) = Total(f) + Total(g)
<1>1. Units(h) = Units(f) \cup Units(g)
  BY DEF Units
<1>2. Units(f) \cap Units(g) = {}
  BY DEF Units
<1>3. /\ IsFiniteSet(Units(f)) /\ IsFiniteSet(Units(g))
      /\ Total(f) \in Nat /\ Total(g) \in Nat
  BY UnitsFinite
<1>4. Cardinality(Units(f) \cup Units(g))
        = Cardinality(Units(f)) + Cardinality(Units(g)) - Cardinality(Units(f) \cap Units(g))
  BY <1>3, FS_Union
<1>5. Cardinality(Units(f) \cap Units(g)) = 0
  BY <1>2, FS_EmptySet
<1> QED BY <1>1, <1>3, <1>4, <1>5 DEF Total

\* The total over one element is its entry.
LEMMA TotalOne ==
  ASSUME NEW p, NEW f \in [{p} -> Nat]
  PROVE  Total(f) = f[p]
<1>1. Units(f) = {p} \X (1..f[p])
  BY DEF Units
<1>2. f[p] \in Nat
  OBVIOUS
<1> QED BY <1>1, <1>2, ColumnSize DEF Total
=============================================================================
