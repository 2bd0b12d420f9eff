--------------------------- MODULE TablesTheorems ---------------------------
(***************************************************************************)
(* What a SUM over a table column satisfies: it is a natural number, it is *)
(* monotone, and taking one key out subtracts that key's value.            *)
(***************************************************************************)
EXTENDS Tables, FiniteSetTheorems, TLAPS

\* A column over finitely many rows stands for finitely many units.
LEMMA UnitsFinite ==
    ASSUME NEW S, IsFiniteSet(S), NEW b \in [S -> Nat]
    PROVE  IsFiniteSet(Units(b))
<1> DEFINE unitsOf == [k \in S |-> {k} \X (1 .. b[k])]
           family  == {{k} \X (1 .. b[k]) : k \in S}
<1>1. unitsOf \in Surjection(S, family)
  BY DEF Surjection
<1>2. IsFiniteSet(family)
  BY <1>1, FS_Surjection
<1>3. ASSUME NEW k \in S PROVE IsFiniteSet({k} \X (1 .. b[k]))
  <2>1. b[k] \in Nat
    OBVIOUS
  <2>2. IsFiniteSet(1 .. b[k])
    BY <2>1, FS_Interval
  <2>3. IsFiniteSet({k})
    BY FS_Singleton
  <2> QED
    BY <2>2, <2>3, FS_Product
<1>4. \A T \in family : IsFiniteSet(T)
  BY <1>3
<1>5. IsFiniteSet(UNION family)
  BY <1>2, <1>4, FS_UNION
<1> QED
  BY <1>5 DEF Units

\* A sum is a natural number.
LEMMA TotalType ==
    ASSUME NEW S, IsFiniteSet(S), NEW b \in [S -> Nat]
    PROVE  TotalBytes(b) \in Nat
BY UnitsFinite, FS_CardinalityType DEF TotalBytes

\* The empty sum.
LEMMA TotalEmpty ==
    ASSUME NEW b, DOMAIN b = {}
    PROVE  TotalBytes(b) = 0
<1>1. Units(b) = {}
  BY DEF Units
<1> QED
  BY <1>1, FS_EmptySet DEF TotalBytes

\* A sum over two disjoint sets of keys is the sum of the sums.
LEMMA TotalDisjoint ==
    ASSUME NEW S, IsFiniteSet(S), NEW b \in [S -> Nat],
           NEW U, NEW V, U \cup V = S, U \cap V = {}
    PROVE  TotalBytes(b) = TotalBytes([k \in U |-> b[k]]) + TotalBytes([k \in V |-> b[k]])
<1> DEFINE bu == [k \in U |-> b[k]]
           bv == [k \in V |-> b[k]]
<1>1. IsFiniteSet(U) /\ IsFiniteSet(V) /\ bu \in [U -> Nat] /\ bv \in [V -> Nat]
  BY FS_Subset
<1>2. IsFiniteSet(Units(bu)) /\ IsFiniteSet(Units(bv))
  BY <1>1, UnitsFinite
<1>3. Units(b) = Units(bu) \cup Units(bv)
  BY DEF Units
<1>4. Units(bu) \cap Units(bv) = {}
  BY DEF Units
<1>5. Cardinality(Units(b)) = Cardinality(Units(bu)) + Cardinality(Units(bv)) - 0
  BY <1>2, <1>3, <1>4, FS_Union, FS_EmptySet
<1>6. Cardinality(Units(bu)) \in Nat /\ Cardinality(Units(bv)) \in Nat
  BY <1>2, FS_CardinalityType
<1> QED
  BY <1>5, <1>6 DEF TotalBytes

\* The sum over a single key is that key's value.
LEMMA TotalOne ==
    ASSUME NEW k, NEW n \in Nat
    PROVE  TotalBytes([x \in {k} |-> n]) = n
<1>1. Units([x \in {k} |-> n]) = {k} \X (1 .. n)
  BY DEF Units
<1>2. IsFiniteSet(1 .. n) /\ Cardinality(1 .. n) = n
  BY FS_Interval
<1>3. IsFiniteSet({k}) /\ Cardinality({k}) = 1
  BY FS_Singleton
<1>4. Cardinality({k} \X (1 .. n)) = 1 * n
  BY <1>2, <1>3, FS_Product
<1>5. 1 * n = n
  OBVIOUS
<1>6. Cardinality(Units([x \in {k} |-> n])) = n
  BY <1>1, <1>4, <1>5
<1> QED
  BY <1>6, Zenon DEF TotalBytes

\* Taking one key out of a sum subtracts its value.
LEMMA TotalRemove ==
    ASSUME NEW S, IsFiniteSet(S), NEW b \in [S -> Nat], NEW k \in S
    PROVE  /\ TotalBytes([x \in S \ {k} |-> b[x]]) \in Nat
           /\ TotalBytes(b) = TotalBytes([x \in S \ {k} |-> b[x]]) + b[k]
<1>1. TotalBytes(b) = TotalBytes([x \in S \ {k} |-> b[x]]) + TotalBytes([x \in {k} |-> b[x]])
  BY TotalDisjoint, (S \ {k}) \cup {k} = S, (S \ {k}) \cap {k} = {}
<1>2. [x \in {k} |-> b[x]] = [x \in {k} |-> b[k]]
  OBVIOUS
<1>3. TotalBytes([x \in {k} |-> b[k]]) = b[k]
  BY TotalOne, b[k] \in Nat
<1>4. IsFiniteSet(S \ {k}) /\ [x \in S \ {k} |-> b[x]] \in [S \ {k} -> Nat]
  BY FS_RemoveElement
<1> QED
  BY <1>1, <1>2, <1>3, <1>4, TotalType

\* A sum over fewer keys is no larger.
LEMMA TotalMonotone ==
    ASSUME NEW S, IsFiniteSet(S), NEW b \in [S -> Nat], NEW T \in SUBSET S
    PROVE  TotalBytes([x \in T |-> b[x]]) <= TotalBytes(b)
<1>1. Units([x \in T |-> b[x]]) \in SUBSET Units(b)
  BY DEF Units
<1> QED
  BY <1>1, UnitsFinite, FS_Subset DEF TotalBytes
=============================================================================
