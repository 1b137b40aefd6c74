---------------------------- MODULE SumTheorems ----------------------------
(***************************************************************************)
(* Sums of natural numbers over a finite set, SumFunctionOnSet of Functions: *)
(* a sum is the number of units of its terms, from which the laws that the   *)
(* proofs use follow.  Then recursion up to a number: that it has a solution, *)
(* and that what holds at 0 and passes on holds to its end.                  *)
(***************************************************************************)
EXTENDS Integers, Functions, FiniteSetTheorems, WellFoundedInduction, TLAPS

LEMMA SumIs ==
  ASSUME NEW f, NEW S
  PROVE  SumFunctionOnSet(f, S) =
           LET iter[s \in SUBSET S] ==
                 IF s = {} THEN 0 ELSE LET x == CHOOSE x \in s : TRUE IN f[x] + iter[s \ {x}]
           IN iter[S]
BY DEF SumFunctionOnSet, FoldFunctionOnSet, MapThenFoldSet

(* A sum of natural numbers counts the units of its terms.                   *)
Units(f, S) == UNION {{x} \X (1..f[x]) : x \in S}
AllNat(f, S) == IsFiniteSet(S) /\ \A x \in S : f[x] \in Nat

LEMMA UnitsOfOne ==
  ASSUME NEW x, NEW n \in Nat
  PROVE  IsFiniteSet({x} \X (1..n)) /\ Cardinality({x} \X (1..n)) = n
<1>1. IsFiniteSet({x}) /\ Cardinality({x}) = 1
  BY FS_Singleton
<1>2. IsFiniteSet(1..n) /\ Cardinality(1..n) = n
  BY FS_Interval
<1>3. /\ IsFiniteSet({x} \X (1..n))
      /\ Cardinality({x} \X (1..n)) = Cardinality({x}) * Cardinality(1..n)
  BY <1>1, <1>2, FS_Product
<1> QED
  BY <1>1, <1>2, <1>3

LEMMA UnitsSplit ==
  ASSUME NEW f, NEW S, NEW x, x \notin S
  PROVE  /\ Units(f, S \cup {x}) = Units(f, S) \cup ({x} \X (1..f[x]))
         /\ Units(f, S) \cap ({x} \X (1..f[x])) = {}
<1>1. Units(f, S \cup {x}) = Units(f, S) \cup ({x} \X (1..f[x]))
  BY DEF Units
<1>2. ASSUME NEW u \in Units(f, S), u \in {x} \X (1..f[x]) PROVE FALSE
  <2> PICK y \in S : u \in {y} \X (1..f[y])
    BY DEF Units
  <2>1. u[1] = y /\ u[1] = x
    BY <1>2
  <2> QED
    BY <2>1
<1> QED
  BY <1>1, <1>2

LEMMA UnitsWith ==
  ASSUME NEW f, NEW S, NEW x, x \notin S, f[x] \in Nat, IsFiniteSet(Units(f, S))
  PROVE  /\ IsFiniteSet(Units(f, S \cup {x}))
         /\ Cardinality(Units(f, S \cup {x})) = f[x] + Cardinality(Units(f, S))
<1> DEFINE U == Units(f, S)
           X == {x} \X (1..f[x])
<1>1. Units(f, S \cup {x}) = U \cup X /\ U \cap X = {}
  BY UnitsSplit
<1>2. IsFiniteSet(X) /\ Cardinality(X) = f[x] /\ IsFiniteSet(U)
  BY UnitsOfOne
<1> HIDE DEF U, X
<1>3. /\ IsFiniteSet(U \cup X)
      /\ Cardinality(U \cup X) = Cardinality(U) + Cardinality(X) - Cardinality(U \cap X)
  BY <1>2, FS_Union
<1>4. Cardinality({}) = 0
  BY FS_EmptySet
<1>5. Cardinality(U) \in Nat
  BY <1>2, FS_CardinalityType
<1> PICK u \in Nat : u = Cardinality(U)
  BY <1>5
<1>6. Cardinality(U \cup X) = u + f[x] - Cardinality(U \cap X)
  BY <1>2, <1>3
<1>7. Cardinality(U \cap X) = 0
  BY <1>1, <1>4
<1>8. Cardinality(U \cup X) = f[x] + u
  BY <1>6, <1>7
<1> QED
  BY <1>1, <1>3, <1>8 DEF U

LEMMA UnitsOfNone == ASSUME NEW f PROVE IsFiniteSet(Units(f, {})) /\ Cardinality(Units(f, {})) = 0
<1>1. Units(f, {}) = {}
  BY DEF Units
<1> QED
  BY <1>1, FS_EmptySet

(* What fails for a set of terms fails first for a set that is not empty.     *)
LEMMA LeastOf ==
  ASSUME NEW S, IsFiniteSet(S), NEW Bad \in SUBSET SUBSET S, Bad # {}
  PROVE  \E T \in Bad : \A s \in SUBSET T : s # T => s \notin Bad
<1> DEFINE sizes == {Cardinality(T) : T \in Bad}
<1>1. \A T \in SUBSET S : IsFiniteSet(T) /\ Cardinality(T) \in Nat
  BY FS_Subset, FS_CardinalityType
<1>2. sizes \subseteq Nat /\ sizes # {}
  BY <1>1
<1> HIDE DEF sizes
<1>3. PICK n \in sizes : \A m \in sizes : <<m, n>> \notin OpToRel(<, Nat)
  BY <1>2, NatLessThanWellFounded, WFMin
<1>4. PICK T \in Bad : Cardinality(T) = n
  BY DEF sizes
<1>5. ASSUME NEW s \in SUBSET T, s # T, s \in Bad PROVE FALSE
  <2>1. IsFiniteSet(T) /\ Cardinality(T) \in Nat /\ Cardinality(s) \in Nat
    BY <1>1, <1>5
  <2>2. Cardinality(s) < Cardinality(T)
    BY <1>5, <2>1, FS_Subset
  <2>3. Cardinality(s) \in sizes
    BY <1>5 DEF sizes
  <2> QED
    BY <1>3, <1>4, <2>1, <2>2, <2>3 DEF OpToRel
<1> QED
  BY <1>4, <1>5

LEMMA UnitsFinite ==
  ASSUME NEW f, NEW S, AllNat(f, S)
  PROVE  IsFiniteSet(Units(f, S)) /\ Cardinality(Units(f, S)) \in Nat
<1> DEFINE Bad == {T \in SUBSET S : ~IsFiniteSet(Units(f, T))}
<1>1. Bad = {}
  <2> SUFFICES ASSUME Bad # {} PROVE FALSE
    OBVIOUS
  <2>7. IsFiniteSet(S) /\ Bad \in SUBSET SUBSET S
    BY DEF AllNat
  <2>1. PICK T \in Bad : \A s \in SUBSET T : s # T => s \notin Bad
    <3> HIDE DEF Bad
    <3> QED
      BY <2>7, LeastOf
  <2> PICK x : x \in T
    BY UnitsOfNone
  <2> DEFINE rest == T \ {x}
  <2>2. rest \in SUBSET S /\ rest # T /\ rest \cup {x} = T /\ x \notin rest /\ f[x] \in Nat
    BY DEF AllNat
  <2>3. IsFiniteSet(Units(f, rest))
    BY <2>1, <2>2
  <2> HIDE DEF rest
  <2>4. IsFiniteSet(Units(f, rest \cup {x}))
    BY <2>2, <2>3, UnitsWith
  <2> QED
    BY <2>2, <2>4
<1>2. IsFiniteSet(Units(f, S))
  BY <1>1
<1> QED
  BY <1>2, FS_CardinalityType

LEMMA SumCounts ==
  ASSUME NEW f, NEW S, AllNat(f, S)
  PROVE  SumFunctionOnSet(f, S) = Cardinality(Units(f, S))
<1> DEFINE one(s) == CHOOSE x \in s : TRUE
           Solves(g) == g = [s \in SUBSET S |-> IF s = {} THEN 0 ELSE f[one(s)] + g[s \ {one(s)}]]
           count == [s \in SUBSET S |-> Cardinality(Units(f, s))]
           iter == CHOOSE g : Solves(g)
<1>1. SumFunctionOnSet(f, S) = iter[S]
  BY SumIs
<1>2. \A s \in SUBSET S : AllNat(f, s)
  BY FS_Subset DEF AllNat
<1>3. ASSUME NEW s \in SUBSET S, s # {}
      PROVE  /\ s \ {one(s)} \in SUBSET S /\ s \ {one(s)} # s /\ f[one(s)] \in Nat
             /\ Cardinality(Units(f, s)) = f[one(s)] + Cardinality(Units(f, s \ {one(s)}))
  <2> PICK x : x = one(s)
    OBVIOUS
  <2>1. x \in s
    BY <1>3
  <2> HIDE DEF one
  <2> DEFINE rest == s \ {x}
  <2>2. rest \in SUBSET S /\ rest # s /\ rest \cup {x} = s /\ x \notin rest /\ f[x] \in Nat
    BY <2>1 DEF AllNat
  <2> HIDE DEF rest
  <2>3. IsFiniteSet(Units(f, rest))
    BY <1>2, <2>2, UnitsFinite
  <2>4. Cardinality(Units(f, rest \cup {x})) = f[x] + Cardinality(Units(f, rest))
    BY <2>2, <2>3, UnitsWith
  <2> QED
    BY <2>2, <2>4 DEF rest
<1> HIDE DEF one
<1>4. Solves(count)
  <2>1. \A s \in SUBSET S : count[s] = IF s = {} THEN 0 ELSE f[one(s)] + count[s \ {one(s)}]
    BY <1>3, UnitsOfNone
  <2>2. count = [s \in SUBSET S |-> count[s]]
    OBVIOUS
  <2> QED
    BY <2>1, <2>2
<1>5. Solves(iter)
  BY <1>4
<1> HIDE DEF iter
<1>6. \A s \in SUBSET S : iter[s] = IF s = {} THEN 0 ELSE f[one(s)] + iter[s \ {one(s)}]
  BY <1>5
<1> DEFINE Bad == {s \in SUBSET S : iter[s] # count[s]}
<1>7. Bad = {}
  <2> SUFFICES ASSUME Bad # {} PROVE FALSE
    OBVIOUS
  <2>7. IsFiniteSet(S) /\ Bad \in SUBSET SUBSET S
    BY DEF AllNat
  <2>1. PICK T \in Bad : \A s \in SUBSET T : s # T => s \notin Bad
    <3> HIDE DEF Bad
    <3> QED
      BY <2>7, LeastOf
  <2>2. T # {}
    BY <1>6, UnitsOfNone
  <2>3. T \ {one(T)} \in SUBSET S /\ T \ {one(T)} # T
    BY <1>3, <2>2
  <2>4. iter[T \ {one(T)}] = count[T \ {one(T)}]
    BY <2>1, <2>3
  <2>5. iter[T] = f[one(T)] + iter[T \ {one(T)}]
    BY <1>6, <2>2
  <2>6. count[T] = f[one(T)] + count[T \ {one(T)}]
    BY <1>3, <2>2, <2>3
  <2> QED
    BY <2>4, <2>5, <2>6
<1> QED
  BY <1>1, <1>7

LEMMA SumIsNat ==
  ASSUME NEW f, NEW S, AllNat(f, S) PROVE SumFunctionOnSet(f, S) \in Nat
BY SumCounts, UnitsFinite

LEMMA SumOfNone == ASSUME NEW f PROVE SumFunctionOnSet(f, {}) = 0
<1>1. AllNat(f, {})
  BY FS_EmptySet DEF AllNat
<1> QED
  BY <1>1, SumCounts, UnitsOfNone

(* One term more.                                                            *)
LEMMA SumWith ==
  ASSUME NEW f, NEW S, AllNat(f, S), NEW x, x \notin S, f[x] \in Nat
  PROVE  AllNat(f, S \cup {x}) /\ SumFunctionOnSet(f, S \cup {x}) = f[x] + SumFunctionOnSet(f, S)
<1>1. AllNat(f, S \cup {x})
  BY FS_AddElement DEF AllNat
<1>2. IsFiniteSet(Units(f, S))
  BY UnitsFinite
<1>3. Cardinality(Units(f, S \cup {x})) = f[x] + Cardinality(Units(f, S))
  BY <1>2, UnitsWith
<1> QED
  BY <1>1, <1>3, SumCounts

(* Terms that are not more, of a set that is not larger.                      *)
LEMMA SumGrows ==
  ASSUME NEW f, NEW S, NEW g, NEW T, AllNat(f, S), AllNat(g, T), S \subseteq T,
         \A x \in S : f[x] <= g[x]
  PROVE  SumFunctionOnSet(f, S) <= SumFunctionOnSet(g, T)
<1>1. ASSUME NEW u \in Units(f, S) PROVE u \in Units(g, T)
  <2> PICK x \in S : u \in {x} \X (1..f[x])
    BY DEF Units
  <2>1. f[x] \in Nat /\ g[x] \in Nat /\ f[x] <= g[x]
    BY DEF AllNat
  <2>2. u \in {x} \X (1..g[x])
    BY <2>1
  <2> QED
    BY <2>2 DEF Units
<1>2. IsFiniteSet(Units(g, T))
  BY UnitsFinite
<1>3. Cardinality(Units(f, S)) <= Cardinality(Units(g, T))
  BY <1>1, <1>2, FS_Subset
<1> QED
  BY <1>3, SumCounts

LEMMA SumSame ==
  ASSUME NEW f, NEW S, NEW g, AllNat(f, S), \A x \in S : f[x] = g[x]
  PROVE  AllNat(g, S) /\ SumFunctionOnSet(g, S) = SumFunctionOnSet(f, S)
<1>1. AllNat(g, S)
  BY DEF AllNat
<1>2. Units(g, S) = Units(f, S)
  BY DEF Units
<1> QED
  BY <1>1, <1>2, SumCounts

(* One term changes.                                                         *)
LEMMA SumChanges ==
  ASSUME NEW f, NEW S, AllNat(f, S), NEW x \in S, NEW g, g[x] \in Nat, \A y \in S \ {x} : g[y] = f[y]
  PROVE  AllNat(g, S) /\ SumFunctionOnSet(g, S) = SumFunctionOnSet(f, S) - f[x] + g[x]
<1> DEFINE rest == S \ {x}
<1>1. rest \cup {x} = S /\ x \notin rest /\ \A y \in rest : g[y] = f[y]
  OBVIOUS
<1>2. AllNat(f, rest) /\ f[x] \in Nat
  BY FS_Subset DEF AllNat
<1> HIDE DEF rest
<1>3. AllNat(g, rest) /\ SumFunctionOnSet(g, rest) = SumFunctionOnSet(f, rest)
  BY <1>1, <1>2, SumSame
<1>4. SumFunctionOnSet(f, rest) \in Nat
  BY <1>2, SumIsNat
<1>5. SumFunctionOnSet(f, rest \cup {x}) = f[x] + SumFunctionOnSet(f, rest)
  BY <1>1, <1>2, SumWith
<1>6. AllNat(g, rest \cup {x}) /\ SumFunctionOnSet(g, rest \cup {x}) = g[x] + SumFunctionOnSet(g, rest)
  BY <1>1, <1>3, SumWith
<1> PICK a \in Nat : a = SumFunctionOnSet(f, rest)
  BY <1>4
<1>7. AllNat(g, S) /\ SumFunctionOnSet(g, S) = g[x] + a
  BY <1>1, <1>3, <1>6
<1>8. SumFunctionOnSet(f, S) = f[x] + a
  BY <1>1, <1>5
<1>9. g[x] + a = (f[x] + a) - f[x] + g[x]
  BY <1>2
<1> QED
  BY <1>7, <1>8, <1>9

LEMMA SumOfZeros ==
  ASSUME NEW f, NEW S, AllNat(f, S), \A x \in S : f[x] = 0 PROVE SumFunctionOnSet(f, S) = 0
<1>1. Units(f, S) = {}
  BY DEF Units
<1> QED
  BY <1>1, SumCounts, FS_EmptySet

(* One term for each of several places adds up to the terms of what is there. *)
AtPlaces(f, B) == {f[i] : i \in B}
PlacesWeigh(terms, f, B, S, weight) ==
  /\ IsFiniteSet(B) /\ \A i, j \in B : f[i] = f[j] => i = j
  /\ \A i \in B : f[i] \in S /\ terms[i] = weight[f[i]]
Outweighs(y, x, S, at, weight) ==
  \A m \in S : weight[m] \in Nat /\ x[m] + (IF m \in at THEN weight[m] ELSE 0) <= y[m]

LEMMA SumOfPlaces ==
  ASSUME NEW x, NEW y, NEW S, AllNat(x, S), AllNat(y, S), NEW f, NEW B, NEW weight, NEW terms,
         PlacesWeigh(terms, f, B, S, weight), Outweighs(y, x, S, AtPlaces(f, B), weight)
  PROVE  AllNat(terms, B) /\ SumFunctionOnSet(x, S) + SumFunctionOnSet(terms, B) <= SumFunctionOnSet(y, S)
<1> DEFINE at(T) == {f[i] : i \in T}
           z(T) == [m \in S |-> x[m] + (IF m \in at(T) THEN weight[m] ELSE 0)]
           Good(T) == SumFunctionOnSet(z(T), S) = SumFunctionOnSet(x, S) + SumFunctionOnSet(terms, T)
           Bad == {T \in SUBSET B : ~Good(T)}
<1>1. /\ IsFiniteSet(B) /\ \A i, j \in B : f[i] = f[j] => i = j
      /\ \A i \in B : f[i] \in S /\ weight[f[i]] \in Nat /\ terms[i] = weight[f[i]]
      /\ \A m \in S : x[m] + (IF m \in {f[i] : i \in B} THEN weight[m] ELSE 0) <= y[m]
  BY DEF PlacesWeigh, Outweighs, AtPlaces
<1>2. \A T \in SUBSET B : AllNat(terms, T) /\ AllNat(z(T), S)
  <2> SUFFICES ASSUME NEW T \in SUBSET B PROVE AllNat(terms, T) /\ AllNat(z(T), S)
    OBVIOUS
  <2>1. AllNat(terms, T)
    BY <1>1, FS_Subset DEF AllNat
  <2>2. \A m \in at(T) : weight[m] \in Nat
    BY <1>1
  <2>3. \A m \in S : z(T)[m] \in Nat
    BY <2>2 DEF AllNat
  <2>4. IsFiniteSet(S)
    BY DEF AllNat
  <2> QED
    BY <2>1, <2>3, <2>4 DEF AllNat
<1>3. SumFunctionOnSet(x, S) \in Nat
  BY SumIsNat
<1>4. Good({})
  <2>1. \A m \in S : x[m] = z({})[m]
    BY DEF AllNat
  <2> HIDE DEF z
  <2>2. SumFunctionOnSet(z({}), S) = SumFunctionOnSet(x, S)
    BY <2>1, SumSame
  <2>3. SumFunctionOnSet(terms, {}) = 0
    BY SumOfNone
  <2> QED
    BY <1>3, <2>2, <2>3
<1>5. ASSUME NEW T \in SUBSET B, NEW i \in B, i \notin T, Good(T) PROVE Good(T \cup {i})
  <2> DEFINE U == T \cup {i}
             n == f[i]
  <2>1. n \in S /\ n \notin at(T) /\ at(U) = at(T) \cup {n} /\ weight[n] \in Nat
    BY <1>1, <1>5
  <2>2. z(U)[n] = x[n] + weight[n] /\ z(T)[n] = x[n] /\ x[n] \in Nat
    BY <2>1 DEF AllNat
  <2>3. \A m \in S \ {n} : z(U)[m] = z(T)[m]
    BY <2>1
  <2>4. U \in SUBSET B /\ AllNat(z(T), S) /\ AllNat(terms, T)
    BY <1>2, <1>5
  <2>5. z(U)[n] \in Nat
    BY <2>1, <2>2
  <2> HIDE DEF z, at, n, U
  <2>6. SumFunctionOnSet(z(U), S) = SumFunctionOnSet(z(T), S) - z(T)[n] + z(U)[n]
    BY <2>1, <2>3, <2>4, <2>5, SumChanges
  <2>7. terms[i] = weight[n] /\ terms[i] \in Nat
    BY <1>1, <1>5, <2>1 DEF n
  <2>8. SumFunctionOnSet(terms, U) = terms[i] + SumFunctionOnSet(terms, T)
    BY <1>5, <2>4, <2>7, SumWith DEF U
  <2>9. SumFunctionOnSet(terms, T) \in Nat /\ SumFunctionOnSet(z(T), S) \in Nat
    BY <2>4, SumIsNat
  <2> QED
    BY <1>3, <1>5, <2>2, <2>6, <2>7, <2>8, <2>9 DEF U
<1>6. Bad = {}
  <2> SUFFICES ASSUME Bad # {} PROVE FALSE
    OBVIOUS
  <2>1. Bad \in SUBSET SUBSET B
    OBVIOUS
  <2>2. PICK T \in Bad : \A s \in SUBSET T : s # T => s \notin Bad
    <3> HIDE DEF Bad
    <3> QED
      BY <1>1, <2>1, LeastOf
  <2> HIDE DEF Good
  <2>3. PICK i : i \in T
    BY <1>4, <2>2
  <2>4. T \ {i} \in SUBSET B /\ i \in B /\ i \notin T \ {i} /\ T = (T \ {i}) \cup {i}
    BY <2>2, <2>3
  <2>5. Good(T \ {i})
    BY <2>2, <2>3, <2>4
  <2>6. Good((T \ {i}) \cup {i})
    BY <1>5, <2>4, <2>5
  <2> QED
    BY <2>2, <2>4, <2>6
<1>7. Good(B)
  BY <1>6
<1>8. \A m \in S : z(B)[m] <= y[m]
  BY <1>1
<1>9. AllNat(z(B), S) /\ AllNat(terms, B)
  BY <1>2
<1> HIDE DEF z
<1>10. SumFunctionOnSet(z(B), S) <= SumFunctionOnSet(y, S)
  BY <1>8, <1>9, SumGrows
<1> QED
  BY <1>7, <1>9, <1>10

LEMMA SumOfOnes ==
  ASSUME NEW f, NEW S, IsFiniteSet(S), \A x \in S : f[x] = 1
  PROVE  AllNat(f, S) /\ SumFunctionOnSet(f, S) = Cardinality(S)
<1>1. AllNat(f, S)
  BY DEF AllNat
<1> DEFINE Bad == {T \in SUBSET S : SumFunctionOnSet(f, T) # Cardinality(T)}
<1>2. Bad = {}
  <2> SUFFICES ASSUME Bad # {} PROVE FALSE
    OBVIOUS
  <2>1. Bad \in SUBSET SUBSET S
    OBVIOUS
  <2>2. PICK T \in Bad : \A s \in SUBSET T : s # T => s \notin Bad
    <3> HIDE DEF Bad
    <3> QED
      BY <2>1, LeastOf
  <2>3. PICK x : x \in T
    BY <2>2, SumOfNone, FS_EmptySet
  <2> DEFINE rest == T \ {x}
  <2>4. rest \in SUBSET S /\ rest # T /\ rest \cup {x} = T /\ x \notin rest /\ f[x] = 1
    BY <2>2, <2>3
  <2> HIDE DEF rest
  <2>5. SumFunctionOnSet(f, rest) = Cardinality(rest) /\ IsFiniteSet(rest) /\ AllNat(f, rest)
    BY <1>1, <2>2, <2>4, FS_Subset DEF AllNat
  <2>6. SumFunctionOnSet(f, rest \cup {x}) = 1 + SumFunctionOnSet(f, rest)
    BY <2>4, <2>5, SumWith
  <2>7. Cardinality(rest \cup {x}) = Cardinality(rest) + 1 /\ Cardinality(rest) \in Nat
    BY <2>4, <2>5, FS_AddElement, FS_CardinalityType
  <2>9. SumFunctionOnSet(f, T) = 1 + SumFunctionOnSet(f, rest) /\ Cardinality(T) = Cardinality(rest) + 1
    BY <2>4, <2>6, <2>7
  <2>8. SumFunctionOnSet(f, T) = Cardinality(T)
    BY <2>5, <2>7, <2>9
  <2> QED
    BY <2>2, <2>8
<1> QED
  BY <1>1, <1>2

(* Terms that each have one at least as large to themselves.                  *)
LEMMA SumInjects ==
  ASSUME NEW f, NEW S, AllNat(f, S), NEW g, NEW T, AllNat(g, T), NEW phi,
         \A x \in S : phi[x] \in T /\ f[x] <= g[phi[x]],
         \A x, y \in S : phi[x] = phi[y] => x = y
  PROVE  SumFunctionOnSet(f, S) <= SumFunctionOnSet(g, T)
<1> DEFINE psi == [u \in Units(f, S) |-> <<phi[u[1]], u[2]>>]
<1>1. ASSUME NEW u \in Units(f, S)
      PROVE  u[1] \in S /\ u = <<u[1], u[2]>> /\ psi[u] \in Units(g, T)
  <2> PICK x \in S : u \in {x} \X (1..f[x])
    BY DEF Units
  <2>1. u[1] = x /\ u[2] \in 1..f[x] /\ u = <<u[1], u[2]>>
    OBVIOUS
  <2>2. f[x] \in Nat /\ g[phi[x]] \in Nat /\ f[x] <= g[phi[x]] /\ phi[x] \in T
    BY DEF AllNat
  <2>3. u[2] \in 1..g[phi[x]]
    BY <2>1, <2>2
  <2>4. <<phi[x], u[2]>> \in {phi[x]} \X (1..g[phi[x]])
    BY <2>3
  <2>5. <<phi[x], u[2]>> \in Units(g, T)
    BY <2>2, <2>4 DEF Units
  <2> QED
    BY <2>1, <2>5
<1>2. ASSUME NEW u \in Units(f, S), NEW v \in Units(f, S), psi[u] = psi[v] PROVE u = v
  <2>1. phi[u[1]] = phi[v[1]] /\ u[2] = v[2]
    BY <1>2
  <2> QED
    BY <1>1, <2>1
<1>3. psi \in Injection(Units(f, S), Units(g, T))
  BY <1>1, <1>2 DEF Injection, IsInjective
<1>4. IsFiniteSet(Units(g, T))
  BY UnitsFinite
<1>5. Cardinality(Units(f, S)) <= Cardinality(Units(g, T))
  BY <1>3, <1>4, FS_Injection
<1> QED
  BY <1>5, SumCounts

(* Two sets of terms.                                                        *)
LEMMA SumJoins ==
  ASSUME NEW f, NEW S, NEW T, AllNat(f, S), AllNat(f, T), S \cap T = {}
  PROVE  /\ AllNat(f, S \cup T)
         /\ SumFunctionOnSet(f, S \cup T) = SumFunctionOnSet(f, S) + SumFunctionOnSet(f, T)
<1>1. AllNat(f, S \cup T)
  BY FS_Union DEF AllNat
<1> DEFINE A == Units(f, S)
           B == Units(f, T)
<1>2. Units(f, S \cup T) = A \cup B
  BY DEF Units
<1>3. A \cap B = {}
  <2> SUFFICES ASSUME NEW u \in A, u \in B PROVE FALSE
    OBVIOUS
  <2>1. PICK x \in S : u \in {x} \X (1..f[x])
    BY DEF Units
  <2>2. PICK y \in T : u \in {y} \X (1..f[y])
    BY DEF Units
  <2>3. u[1] = x /\ u[1] = y
    BY <2>1, <2>2
  <2> QED
    BY <2>3
<1>4. IsFiniteSet(A) /\ IsFiniteSet(B) /\ Cardinality(A) \in Nat /\ Cardinality(B) \in Nat
  BY UnitsFinite
<1>5. SumFunctionOnSet(f, S) = Cardinality(A) /\ SumFunctionOnSet(f, T) = Cardinality(B)
      /\ SumFunctionOnSet(f, S \cup T) = Cardinality(Units(f, S \cup T))
  BY <1>1, SumCounts
<1> HIDE DEF A, B
<1>6. Cardinality(A \cup B) = Cardinality(A) + Cardinality(B) - Cardinality(A \cap B)
  BY <1>4, FS_Union
<1>7. Cardinality(A \cap B) = 0
  BY <1>3, FS_EmptySet
<1>8. Cardinality(A \cup B) = Cardinality(A) + Cardinality(B)
  BY <1>4, <1>6, <1>7
<1> QED
  BY <1>1, <1>2, <1>5, <1>8

(* Terms that are sums themselves, over parts that have nothing in common.    *)
Parts(X, P, f, sums, all) ==
  /\ IsFiniteSet(X)
  /\ \A x \in X : AllNat(f, P[x]) /\ sums[x] = SumFunctionOnSet(f, P[x])
  /\ \A x, y \in X : x # y => P[x] \cap P[y] = {}
  /\ \A t : t \in all <=> \E x \in X : t \in P[x]

LEMMA SumOfParts ==
  ASSUME NEW X, NEW P, NEW f, NEW sums, NEW whole, Parts(X, P, f, sums, whole)
  PROVE  /\ AllNat(sums, X) /\ AllNat(f, whole)
         /\ SumFunctionOnSet(sums, X) = SumFunctionOnSet(f, whole)
<1> DEFINE all(s) == UNION {P[x] : x \in s}
           Good(s) == AllNat(f, all(s)) /\ SumFunctionOnSet(sums, s) = SumFunctionOnSet(f, all(s))
           Bad == {s \in SUBSET X : ~Good(s)}
<1>0. /\ IsFiniteSet(X)
      /\ \A x \in X : AllNat(f, P[x]) /\ sums[x] = SumFunctionOnSet(f, P[x])
      /\ \A x, y \in X : x # y => P[x] \cap P[y] = {}
      /\ \A t : t \in whole <=> \E x \in X : t \in P[x]
  BY DEF Parts
<1>1. AllNat(sums, X)
  BY <1>0, SumIsNat DEF AllNat
<1>2. Good({})
  <2>1. all({}) = {}
    OBVIOUS
  <2>2. AllNat(f, {})
    BY FS_EmptySet DEF AllNat
  <2> HIDE DEF all
  <2> QED
    BY <2>1, <2>2, SumOfNone
<1>3. ASSUME NEW s \in SUBSET X, NEW x \in X, x \notin s, Good(s) PROVE Good(s \cup {x})
  <2>1. all(s \cup {x}) = all(s) \cup P[x] /\ all(s) \cap P[x] = {}
    BY <1>0, <1>3
  <2>2. AllNat(sums, s) /\ sums[x] \in Nat
    BY <1>1, <1>3, FS_Subset DEF AllNat
  <2> HIDE DEF all
  <2>3. AllNat(f, all(s) \cup P[x])
        /\ SumFunctionOnSet(f, all(s) \cup P[x]) = SumFunctionOnSet(f, all(s)) + SumFunctionOnSet(f, P[x])
    <3>1. AllNat(f, all(s)) /\ AllNat(f, P[x])
      BY <1>0, <1>3
    <3> QED
      BY <2>1, <3>1, SumJoins
  <2>4. SumFunctionOnSet(sums, s \cup {x}) = sums[x] + SumFunctionOnSet(sums, s)
    BY <1>3, <2>2, SumWith
  <2>5. SumFunctionOnSet(sums, s) \in Nat
    BY <2>2, SumIsNat
  <2>6. SumFunctionOnSet(f, P[x]) = sums[x] /\ SumFunctionOnSet(f, all(s)) = SumFunctionOnSet(sums, s)
    BY <1>0, <1>3
  <2> PICK a \in Nat, b \in Nat : a = sums[x] /\ b = SumFunctionOnSet(sums, s)
    BY <2>2, <2>5
  <2>7. SumFunctionOnSet(f, all(s) \cup P[x]) = b + a /\ SumFunctionOnSet(sums, s \cup {x}) = a + b
    BY <2>3, <2>4, <2>6
  <2>8. SumFunctionOnSet(f, all(s) \cup P[x]) = SumFunctionOnSet(sums, s \cup {x})
    BY <2>7
  <2> QED
    BY <2>1, <2>3, <2>8
<1>4. Bad = {}
  <2> SUFFICES ASSUME Bad # {} PROVE FALSE
    OBVIOUS
  <2>1. Bad \in SUBSET SUBSET X
    OBVIOUS
  <2>2. PICK s \in Bad : \A r \in SUBSET s : r # s => r \notin Bad
    <3> HIDE DEF Bad
    <3> QED
      BY <1>0, <2>1, LeastOf
  <2> HIDE DEF Good
  <2>3. PICK x : x \in s
    BY <1>2, <2>2
  <2>4. s \ {x} \in SUBSET X /\ x \in X /\ x \notin s \ {x} /\ s = (s \ {x}) \cup {x}
    BY <2>2, <2>3
  <2>5. Good(s \ {x})
    BY <2>2, <2>3, <2>4
  <2>6. Good((s \ {x}) \cup {x})
    BY <1>3, <2>4, <2>5
  <2> QED
    BY <2>2, <2>4, <2>6
<1>5. Good(X)
  BY <1>4
<1>6. all(X) = whole
  BY <1>0
<1> QED
  BY <1>1, <1>5, <1>6

(* Equal terms.                                                              *)
LEMMA SumOfSame ==
  ASSUME NEW f, NEW S, IsFiniteSet(S), NEW n \in Nat, \A x \in S : f[x] = n
  PROVE  AllNat(f, S) /\ SumFunctionOnSet(f, S) = n * Cardinality(S)
<1>1. AllNat(f, S)
  BY DEF AllNat
<1>2. Units(f, S) = S \X (1..n)
  BY DEF Units
<1>3. IsFiniteSet(1..n) /\ Cardinality(1..n) = n
  BY FS_Interval
<1>4. Cardinality(S \X (1..n)) = Cardinality(S) * n
  BY <1>3, FS_Product
<1>5. Cardinality(S) \in Nat
  BY FS_CardinalityType
<1> QED
  BY <1>1, <1>2, <1>4, <1>5, SumCounts

-----------------------------------------------------------------------------
(* Steps up to a number, without an operator to instantiate: a set that      *)
(* holds 0 and passes on to the next holds all of them.                      *)
LEMMA UpTo ==
  ASSUME NEW N \in Nat, NEW G, 0 \in G, \A n \in 1..N : n - 1 \in G => n \in G
  PROVE  \A n \in 0..N : n \in G
<1> DEFINE Bad == (0..N) \ G
<1> SUFFICES ASSUME Bad # {} PROVE FALSE
  OBVIOUS
<1>1. PICK n \in Bad : \A m \in Bad : <<m, n>> \notin OpToRel(<, Nat)
  <2>1. Bad \subseteq Nat
    OBVIOUS
  <2> HIDE DEF Bad
  <2> QED
    BY <2>1, NatLessThanWellFounded, WFMin
<1>2. n \in 1..N /\ n - 1 \in 0..N
  OBVIOUS
<1>3. n - 1 \in Bad
  BY <1>2
<1>4. <<n - 1, n>> \in OpToRel(<, Nat)
  BY <1>2 DEF OpToRel
<1> QED
  BY <1>1, <1>3, <1>4

(* Such a recursion has a solution.                                          *)
Recursion(g, A, N, start, step) ==
  g \in [0..N -> A] /\ g[0] = start /\ \A n \in 1..N : g[n] = step[<<g[n - 1], n>>]

LEMMA RecursionUpTo ==
  ASSUME NEW A, NEW N \in Nat, NEW start \in A, NEW step \in [A \X (1..N) -> A]
  PROVE  \E g : Recursion(g, A, N, start, step)
<1> DEFINE Solves(g, n) == g[0] = start /\ \A k \in 1..n : g[k] = step[<<g[k - 1], k>>]
           G == {n \in 0..N : \E g \in [0..n -> A] : Solves(g, n)}
<1>1. 0 \in G
  <2> DEFINE g == [k \in 0..0 |-> start]
  <2>1. g \in [0..0 -> A] /\ g[0] = start
    OBVIOUS
  <2>2. Solves(g, 0)
    BY <2>1
  <2>3. \E f \in [0..0 -> A] : Solves(f, 0)
    BY <2>1, <2>2
  <2>4. 0 \in 0..N
    OBVIOUS
  <2> QED
    BY <2>3, <2>4
<1>2. ASSUME NEW n \in 1..N, n - 1 \in G PROVE n \in G
  <2>1. PICK g \in [0..(n - 1) -> A] : Solves(g, n - 1)
    BY <1>2
  <2> DEFINE h == [k \in 0..n |-> IF k = n THEN step[<<g[n - 1], n>>] ELSE g[k]]
  <2>2. h \in [0..n -> A]
    OBVIOUS
  <2>3. ASSUME NEW k \in 1..n PROVE h[k] = step[<<h[k - 1], k>>]
    <3>1. k \in 0..n /\ k - 1 \in 0..n /\ k - 1 # n /\ (k # n => k \in 1..(n - 1))
      OBVIOUS
    <3>2. \A i \in 0..n : h[i] = IF i = n THEN step[<<g[n - 1], n>>] ELSE g[i]
      OBVIOUS
    <3> HIDE DEF h
    <3>3. h[k - 1] = g[k - 1]
      BY <3>1, <3>2
    <3>4. CASE k = n
      <4>1. h[k] = step[<<g[k - 1], k>>]
        BY <3>1, <3>4, <3>2
      <4> QED
        BY <3>3, <4>1
    <3>5. CASE k # n
      <4>1. h[k] = g[k]
        BY <3>1, <3>5, <3>2
      <4>2. g[k] = step[<<g[k - 1], k>>]
        BY <2>1, <3>1, <3>5
      <4> QED
        BY <3>3, <4>1, <4>2
    <3> QED
      BY <3>4, <3>5
  <2>4. h[0] = start
    BY <2>1
  <2>5. Solves(h, n)
    BY <2>3, <2>4
  <2> HIDE DEF h
  <2> QED
    BY <2>2, <2>5
<1>3. \A n \in 0..N : n \in G
  <2> HIDE DEF G
  <2> QED
    BY <1>1, <1>2, UpTo
<1>4. N \in G
  BY <1>3
<1> QED
  BY <1>4 DEF Recursion
=============================================================================
