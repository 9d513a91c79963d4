---------------------------- MODULE SumsTheorems ----------------------------
(* What the proofs need of sums and of the sizes of finite sets.           *)
EXTENDS Sums, FiniteSetTheorems, TLAPS

(* Membership, with the pairs taken apart.                                 *)
LEMMA UnitsOf ==
  ASSUME NEW f, NEW S, NEW u
  PROVE  u \in Units(f, S) <=> \E x \in S : \E n \in 1..f[x] : u = <<x, n>>
BY DEF Units

(* The units of one element.                                               *)
LEMMA PieceSize ==
  ASSUME NEW x, NEW n \in Nat
  PROVE  IsFiniteSet({x} \X (1..n)) /\ Cardinality({x} \X (1..n)) = n
<1>1. IsFiniteSet({x}) /\ Cardinality({x}) = 1
  BY FS_Singleton
<1>2. IsFiniteSet(1..n) /\ Cardinality(1..n) = n
  BY FS_Interval
<1>3. /\ Cardinality({x} \X (1..n)) = Cardinality({x}) * Cardinality(1..n)
      /\ IsFiniteSet({x} \X (1..n))
  BY <1>1, <1>2, FS_Product
<1> QED BY <1>1, <1>2, <1>3

(* A finite set has finitely many units.                                   *)
LEMMA UnitsFinite ==
  ASSUME NEW S, IsFiniteSet(S), NEW f, \A x \in S : f[x] \in Nat
  PROVE  IsFiniteSet(Units(f, S)) /\ SumOver(f, S) \in Nat
<1> DEFINE piece == [x \in S |-> {x} \X (1..f[x])]
           pieces == {{x} \X (1..f[x]) : x \in S}
<1>1. piece \in Surjection(S, pieces)
  BY DEF Surjection
<1>2. IsFiniteSet(pieces)
  BY <1>1, FS_Surjection
<1>3. ASSUME NEW T \in pieces PROVE IsFiniteSet(T)
  <2>1. PICK x \in S : T = {x} \X (1..f[x])
    OBVIOUS
  <2> QED BY <2>1, PieceSize
<1>4. IsFiniteSet(Units(f, S))
  BY <1>2, <1>3, FS_UNION DEF Units
<1> QED BY <1>4, FS_CardinalityType DEF SumOver

(* Nothing sums to nothing.                                                *)
LEMMA SumOfNone ==
  ASSUME NEW f
  PROVE  SumOver(f, {}) = 0
<1>1. Units(f, {}) = {}
  BY DEF Units
<1> QED BY <1>1, FS_EmptySet DEF SumOver

LEMMA SumOfZeros ==
  ASSUME NEW S, NEW f, \A x \in S : f[x] = 0
  PROVE  SumOver(f, S) = 0
<1>1. ASSUME NEW u \in Units(f, S) PROVE FALSE
  <2>1. PICK x \in S : \E n \in 1..f[x] : u = <<x, n>>
    BY UnitsOf
  <2>2. 1..f[x] = {}
    BY <2>1
  <2> QED BY <2>1, <2>2
<1>2. Units(f, S) = {}
  BY <1>1
<1> QED BY <1>2, FS_EmptySet DEF SumOver

(* One element more adds what it has.                                      *)
LEMMA SumAdd ==
  ASSUME NEW S, IsFiniteSet(S), NEW x, x \notin S,
         NEW f, \A y \in S \cup {x} : f[y] \in Nat
  PROVE  SumOver(f, S \cup {x}) = SumOver(f, S) + f[x]
<1> DEFINE new == {x} \X (1..f[x])
<1>1. Units(f, S \cup {x}) = Units(f, S) \cup new
  BY DEF Units
<1>2. IsFiniteSet(new) /\ Cardinality(new) = f[x]
  BY PieceSize
<1>3. IsFiniteSet(Units(f, S)) /\ SumOver(f, S) \in Nat
  BY UnitsFinite
<1>4. Units(f, S) \cap new = {}
  BY DEF Units
<1>5. Cardinality(Units(f, S) \cap new) = 0
  BY <1>4, FS_EmptySet
<1>6. Cardinality(Units(f, S) \cup new) =
        Cardinality(Units(f, S)) + Cardinality(new) - Cardinality(Units(f, S) \cap new)
  BY <1>2, <1>3, FS_Union
<1>7. /\ SumOver(f, S) = Cardinality(Units(f, S))
      /\ SumOver(f, S \cup {x}) = Cardinality(Units(f, S) \cup new)
  BY <1>1 DEF SumOver
<1> HIDE DEF new
<1> QED BY <1>2, <1>3, <1>5, <1>6, <1>7

(* The sum depends on the values over the set only.                        *)
LEMMA SumSame ==
  ASSUME NEW S, NEW f, NEW g, \A x \in S : f[x] = g[x]
  PROVE  SumOver(f, S) = SumOver(g, S)
<1>1. Units(f, S) = Units(g, S)
  BY DEF Units
<1> QED BY <1>1 DEF SumOver

(* More elements that each have no less have no less together.             *)
LEMMA SumMonotone ==
  ASSUME NEW S, NEW T, S \subseteq T, IsFiniteSet(T), NEW f, NEW g,
         \A x \in T : g[x] \in Nat, \A x \in S : f[x] \in Nat /\ f[x] <= g[x]
  PROVE  SumOver(f, S) <= SumOver(g, T)
<1>1. ASSUME NEW u \in Units(f, S) PROVE u \in Units(g, T)
  <2>1. PICK x \in S : \E n \in 1..f[x] : u = <<x, n>>
    BY UnitsOf
  <2>2. PICK n \in 1..f[x] : u = <<x, n>>
    BY <2>1
  <2>3. x \in T /\ n \in 1..g[x]
    OBVIOUS
  <2> QED BY <2>2, <2>3, UnitsOf
<1>2. IsFiniteSet(Units(g, T))
  BY UnitsFinite
<1> QED BY <1>1, <1>2, FS_Subset DEF SumOver

(* One element less, and one element that changes.                         *)
LEMMA SumRemove ==
  ASSUME NEW S, IsFiniteSet(S), NEW x \in S, NEW f, \A y \in S : f[y] \in Nat
  PROVE  SumOver(f, S) = SumOver(f, S \ {x}) + f[x] /\ SumOver(f, S \ {x}) \in Nat
<1>1. IsFiniteSet(S \ {x}) /\ x \notin S \ {x} /\ (S \ {x}) \cup {x} = S
  BY FS_RemoveElement
<1>2. \A y \in S \ {x} : f[y] \in Nat
  OBVIOUS
<1> QED BY <1>1, <1>2, SumAdd, UnitsFinite

LEMMA SumChange ==
  ASSUME NEW S, IsFiniteSet(S), NEW x \in S, NEW f, NEW g,
         \A y \in S : f[y] \in Nat /\ g[y] \in Nat,
         \A y \in S \ {x} : f[y] = g[y]
  PROVE  SumOver(g, S) = SumOver(f, S) - f[x] + g[x]
<1>1. SumOver(f, S \ {x}) = SumOver(g, S \ {x})
  BY SumSame
<1>2. /\ SumOver(f, S) = SumOver(f, S \ {x}) + f[x] /\ SumOver(f, S \ {x}) \in Nat
      /\ SumOver(g, S) = SumOver(g, S \ {x}) + g[x]
  BY SumRemove
<1> QED BY <1>1, <1>2

(* A set that grows only now and then, one element at a time, has no more  *)
(* elements than it grew times.                                            *)
LEMMA OneMoreElement ==
  ASSUME NEW S, NEW T, NEW x, NEW n \in Nat, T \subseteq S \cup {x},
         IsFiniteSet(S), Cardinality(S) <= n
  PROVE  IsFiniteSet(T) /\ Cardinality(T) <= n + 1
<1>1. IsFiniteSet(S \cup {x}) /\ Cardinality(S \cup {x}) <= Cardinality(S) + 1
  <2>1. /\ IsFiniteSet(S \cup {x})
        /\ Cardinality(S \cup {x}) = IF x \in S THEN Cardinality(S) ELSE Cardinality(S) + 1
    BY FS_AddElement
  <2>2. Cardinality(S) \in Nat
    BY FS_CardinalityType
  <2> QED BY <2>1, <2>2
<1>2. IsFiniteSet(T) /\ Cardinality(T) <= Cardinality(S \cup {x})
  BY <1>1, FS_Subset
<1>3. Cardinality(S) \in Nat /\ Cardinality(T) \in Nat /\ Cardinality(S \cup {x}) \in Nat
  BY <1>1, <1>2, FS_CardinalityType
<1> QED BY <1>1, <1>2, <1>3

LEMMA NoMoreElements ==
  ASSUME NEW S, NEW T, NEW n \in Nat, T \subseteq S, IsFiniteSet(S), Cardinality(S) <= n
  PROVE  IsFiniteSet(T) /\ Cardinality(T) <= n
<1>1. IsFiniteSet(T) /\ Cardinality(T) <= Cardinality(S)
  BY FS_Subset
<1>2. Cardinality(S) \in Nat /\ Cardinality(T) \in Nat
  BY <1>1, FS_CardinalityType
<1> QED BY <1>1, <1>2
=============================================================================
