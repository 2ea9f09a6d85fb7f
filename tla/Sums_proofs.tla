----------------------------- MODULE Sums_proofs -----------------------------
(***************************************************************************)
(* What the proofs about money need to know of the fee, a natural number,  *)
(* and of sums: they are natural numbers, they grow by the value that is   *)
(* added, and they add up over disjoint sets.                              *)
(***************************************************************************)
EXTENDS PaymentStatus, Sums, FiniteSetTheorems, TLAPS

\* The fee of orchestrator.rs:201 is never negative.
LEMMA FeeIsNat ==
    ASSUME NEW n \in Nat
    PROVE  /\ Fee(n) \in Nat /\ ExactFee(n) \in Nat
           /\ Fee(n) = IF n \in Short THEN ExactFee(n) - 1 ELSE ExactFee(n)
<1> DEFINE x == n * FeeNum
<1>1. x \in Nat /\ FeeDen \in Nat /\ FeeDen > 0
  BY FeeAssumption
<1>2. n \in Short => x > 0 /\ x % FeeDen = 0
  BY FeeAssumption
<1>3. ExactFee(n) = x \div FeeDen
  BY DEF ExactFee
<1> HIDE DEF x
<1>4. x \div FeeDen \in Nat /\ (x < FeeDen => x % FeeDen = x)
  BY <1>1
<1>5. ASSUME n \in Short
      PROVE  x \div FeeDen # 0
  <2>1. FeeDen =< x
    BY <1>1, <1>2, <1>4, <1>5
  <2>2. x < FeeDen * (x \div FeeDen) + FeeDen
    BY <1>1
  <2>3. QED
    BY <1>1, <2>1, <2>2
<1>6. QED
  BY <1>3, <1>4, <1>5 DEF Fee

\* Nothing is charged on nothing.
LEMMA NoFee == Fee(0) = 0
<1>1. 0 \notin Short
  BY FeeAssumption
<1>2. QED
  BY <1>1, FeeAssumption DEF Fee, ExactFee

\* Induction over a finite set, with the sets that have the property given as a
\* set: what holds for {} and survives the addition of an element holds for all.
LEMMA SubsetInduction ==
    ASSUME NEW S, IsFiniteSet(S), NEW G, {} \in G,
           \A T \in SUBSET S : \A x \in S \ T : T \in G => T \cup {x} \in G
    PROVE  S \in G
  <1> DEFINE Bad == (SUBSET S) \ G
             R == StrictSubsetOrdering(S)
  <1> SUFFICES ASSUME S \notin G PROVE FALSE
    OBVIOUS
  <1>1. Bad # {} /\ Bad \subseteq SUBSET S
    OBVIOUS
  <1>2. IsWellFoundedOn(R, SUBSET S)
    BY FS_StrictSubsetOrderingWellFounded, FS_FiniteSubsetsOfFinite
  <1>3. PICK T \in Bad : \A U \in Bad : ~(<<U, T>> \in R)
    <2> HIDE DEF Bad, R
    <2> QED
      BY <1>1, <1>2, WFMin
  <1>4. PICK x \in T : TRUE
    BY <1>3
  <1> DEFINE U == T \ {x}
  <1>5. U \in SUBSET S /\ U # T /\ U \subseteq T /\ x \in S \ U /\ U \cup {x} = T
    BY <1>3, <1>4
  <1>6. U \in G
    BY <1>3, <1>5 DEF StrictSubsetOrdering
  <1> QED
    BY <1>3, <1>5, <1>6

\* The units of a function are those of its values.
LEMMA UnitsMember ==
    ASSUME NEW w, NEW u
    PROVE  u \in Units(w) <=> \E x \in DOMAIN w : \E i \in 1..w[x] : u = <<x, i>>
  BY DEF Units

\* The units of one value.
LEMMA UnitsOfOne ==
    ASSUME NEW x, NEW n \in Nat
    PROVE  /\ IsFiniteSet({x} \X (1..n))
           /\ Cardinality({x} \X (1..n)) = n
  <1>1. IsFiniteSet({x}) /\ Cardinality({x}) = 1
    BY FS_Singleton
  <1>2. IsFiniteSet(1..n) /\ Cardinality(1..n) = n
    BY FS_Interval
  <1>3. /\ IsFiniteSet({x} \X (1..n))
        /\ Cardinality({x} \X (1..n)) = Cardinality({x}) * Cardinality(1..n)
    BY <1>1, <1>2, FS_Product
  <1> QED
    BY <1>1, <1>2, <1>3

\* The units of a function on a finite set are finitely many.
LEMMA UnitsFinite ==
    ASSUME NEW S, IsFiniteSet(S), NEW w \in [S -> Nat]
    PROVE  IsFiniteSet(Units(w))
  <1> DEFINE On(T) == UNION {{x} \X (1..w[x]) : x \in T}
             G == {T \in SUBSET S : IsFiniteSet(On(T))}
  <1>1. {} \in G
    BY FS_EmptySet
  <1>2. ASSUME NEW T \in SUBSET S, NEW x \in S \ T, T \in G PROVE T \cup {x} \in G
    <2>1. On(T \cup {x}) = On(T) \cup ({x} \X (1..w[x]))
      OBVIOUS
    <2>2. IsFiniteSet(On(T)) /\ IsFiniteSet({x} \X (1..w[x]))
      BY <1>2, UnitsOfOne
    <2>3. IsFiniteSet(On(T) \cup ({x} \X (1..w[x])))
      BY <2>2, FS_Union
    <2> QED
      BY <2>1, <2>3
  <1>3. S \in G
    <2> HIDE DEF G
    <2> QED
      BY <1>1, <1>2, SubsetInduction
  <1> QED
    BY <1>3 DEF Units

\* A sum is a natural number.
THEOREM SumNat ==
    ASSUME NEW S, IsFiniteSet(S), NEW w \in [S -> Nat]
    PROVE  SumOf(w) \in Nat
  BY UnitsFinite, FS_CardinalityType DEF SumOf

\* Sums add up over disjoint sets.
THEOREM SumDisjoint ==
    ASSUME NEW S, IsFiniteSet(S), NEW T, IsFiniteSet(T), S \cap T = {},
           NEW w \in [S \cup T -> Nat]
    PROVE  SumOf(w) = SumOf([x \in S |-> w[x]]) + SumOf([x \in T |-> w[x]])
  <1> DEFINE u == [x \in S |-> w[x]]
             v == [x \in T |-> w[x]]
  <1>1. u \in [S -> Nat] /\ v \in [T -> Nat]
    OBVIOUS
  <1>2. IsFiniteSet(Units(u)) /\ IsFiniteSet(Units(v))
    BY <1>1, UnitsFinite
  <1>3. Units(w) = Units(u) \cup Units(v)
    BY DEF Units
  <1>4. Units(u) \cap Units(v) = {}
    BY DEF Units
  <1>5. Cardinality(Units(u) \cup Units(v)) =
           Cardinality(Units(u)) + Cardinality(Units(v)) - Cardinality({})
    BY <1>2, <1>4, FS_Union
  <1>6. Cardinality(Units(u)) \in Nat /\ Cardinality(Units(v)) \in Nat
    BY <1>2, FS_CardinalityType
  <1> HIDE DEF u, v
  <1>7. SumOf(w) = SumOf(u) + SumOf(v)
    BY <1>3, <1>5, <1>6, FS_EmptySet DEF SumOf
  <1> QED
    BY <1>7 DEF u, v

\* The sum over no rows.
LEMMA SumEmpty ==
    ASSUME NEW w \in [{} -> Nat]
    PROVE  SumOf(w) = 0
  <1>1. Units(w) = {}
    BY DEF Units
  <1> QED
    BY <1>1, FS_EmptySet DEF SumOf

\* The sum over one row.
LEMMA SumSingle ==
    ASSUME NEW x, NEW w \in [{x} -> Nat]
    PROVE  SumOf(w) = w[x]
  <1>1. Units(w) = {x} \X (1..w[x])
    BY DEF Units
  <1> QED
    BY <1>1, UnitsOfOne DEF SumOf

\* A row that is added adds its value.
THEOREM SumAdd ==
    ASSUME NEW S, IsFiniteSet(S), NEW x, x \notin S, NEW w \in [S \cup {x} -> Nat]
    PROVE  SumOf(w) = SumOf([y \in S |-> w[y]]) + w[x]
  <1> DEFINE v == [y \in {x} |-> w[y]]
  <1>1. v \in [{x} -> Nat] /\ v[x] = w[x]
    OBVIOUS
  <1>2. SumOf(v) = w[x]
    BY <1>1, SumSingle
  <1>3. IsFiniteSet({x}) /\ S \cap {x} = {}
    BY FS_Singleton
  <1>4. SumOf(w) = SumOf([y \in S |-> w[y]]) + SumOf(v)
    BY <1>3, SumDisjoint
  <1> QED
    BY <1>2, <1>4

\* More rows and larger values never make a sum smaller.
THEOREM SumMonotone ==
    ASSUME NEW T, IsFiniteSet(T), NEW S \in SUBSET T,
           NEW v \in [S -> Nat], NEW w \in [T -> Nat],
           \A x \in S : v[x] =< w[x]
    PROVE  SumOf(v) =< SumOf(w)
  <1>1. IsFiniteSet(Units(w))
    BY UnitsFinite
  <1>2. Units(v) \subseteq Units(w)
    <2> SUFFICES ASSUME NEW u \in Units(v) PROVE u \in Units(w)
      OBVIOUS
    <2>1. PICK x \in S : \E i \in 1..v[x] : u = <<x, i>>
      BY UnitsMember
    <2>2. PICK i \in 1..v[x] : u = <<x, i>>
      BY <2>1
    <2>3. v[x] \in Nat /\ w[x] \in Nat /\ v[x] =< w[x] /\ x \in DOMAIN w
      OBVIOUS
    <2>4. i \in 1..w[x]
      BY <2>3
    <2> QED
      BY <2>2, <2>3, <2>4, UnitsMember
  <1> QED
    BY <1>1, <1>2, FS_Subset DEF SumOf
=============================================================================
