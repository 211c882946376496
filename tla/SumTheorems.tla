---------------------------- MODULE SumTheorems ----------------------------
(* What the sums of the models are: SumFunctionOnSet of the community        *)
(* modules is a fold that takes the elements in an unknown order.  For a     *)
(* finite set the recursive function behind the fold exists, the order does  *)
(* not matter, and the sum grows by f[x] with an element x.  The proofs by   *)
(* induction take the least counterexample, the size of a set being a        *)
(* natural number.                                                           *)
EXTENDS Integers, FiniteSets, Functions, FiniteSetsExt, FiniteSetTheorems, WellFoundedInduction, TLAPS

LEMMA LeastNat ==
    ASSUME NEW T \in SUBSET Nat, T # {}
    PROVE  \E n \in T : \A m \in T : n <= m
<1> DEFINE R == {ss \in Nat \X Nat : ss[1] < ss[2]}
<1>1. IsWellFoundedOn(R, Nat)
  BY NatLessThanWellFounded DEF OpToRel
<1>2. PICK n \in T : \A y \in T : ~(<<y, n>> \in R)
  BY <1>1, WFMin
<1>3. ASSUME NEW m \in T PROVE n <= m
  <2>1. m \in Nat /\ n \in Nat /\ <<m, n>> \notin R
    BY <1>2
  <2>2. <<m, n>> \in Nat \X Nat /\ <<m, n>>[1] = m /\ <<m, n>>[2] = n
    BY <2>1
  <2>3. ~(m < n)
    BY <2>1, <2>2
  <2> QED BY <2>1, <2>3
<1> QED BY <1>3

(* The smallest set of a family, in size. *)
LEMMA SmallestSet ==
    ASSUME NEW F, F # {}, \A S \in F : IsFiniteSet(S)
    PROVE  \E S \in F : \A U \in F : Cardinality(S) <= Cardinality(U)
<1> DEFINE T == {Cardinality(S) : S \in F}
<1>1. T \in SUBSET Nat /\ T # {}
  BY FS_CardinalityType
<1>2. PICK n \in T : \A m \in T : n <= m
  BY <1>1, LeastNat
<1> QED BY <1>2

-----------------------------------------------------------------------------
(* The function the fold computes with. *)

Pick(s) == CHOOSE x \in s : TRUE
LEMMA PickIn == ASSUME NEW s, s # {} PROVE Pick(s) \in s
BY DEF Pick

\* One step of the fold, from a function that is right for smaller sets.
Take(f, g, s) == IF s = {} THEN 0 ELSE f[Pick(s)] + g[s \ {Pick(s)}]
Fold(f, S) == CHOOSE g : g = [s \in SUBSET S |-> Take(f, g, s)]

LEMMA SumIsFold ==
    ASSUME NEW f, NEW S PROVE SumFunctionOnSet(f, S) = Fold(f, S)[S]
BY DEF SumFunctionOnSet, FoldFunctionOnSet, MapThenFoldSet, Fold, Take, Pick

LEMMA Smaller ==
    ASSUME NEW s, IsFiniteSet(s), NEW x \in s
    PROVE  /\ IsFiniteSet(s \ {x}) /\ Cardinality(s) \in Nat /\ Cardinality(s \ {x}) \in Nat
           /\ Cardinality(s \ {x}) = Cardinality(s) - 1
BY FS_RemoveElement, FS_CardinalityType

(* A function that obeys the fold on sets of up to n elements exists for     *)
(* every n, and so one that obeys it on all subsets of a finite set.         *)
Obeys(f, S, g, n) ==
    /\ g = [s \in SUBSET S |-> g[s]]
    /\ \A s \in SUBSET S : Cardinality(s) <= n => g[s] = Take(f, g, s)

LEMMA FoldsUpTo ==
    ASSUME NEW f, NEW S, IsFiniteSet(S)
    PROVE  \A n \in Nat : \E g : Obeys(f, S, g, n)
<1> DEFINE T == {n \in Nat : ~\E g : Obeys(f, S, g, n)}
<1> SUFFICES ASSUME T # {} PROVE FALSE
  OBVIOUS
<1>1. PICK n \in T : \A m \in T : n <= m
  BY LeastNat
<1>2. \A s \in SUBSET S : IsFiniteSet(s) /\ Cardinality(s) \in Nat
  BY FS_Subset, FS_CardinalityType
<1>3. n # 0
  <2> SUFFICES ASSUME n = 0 PROVE FALSE
    OBVIOUS
  <2> DEFINE g == [s \in SUBSET S |-> 0]
  <2>1. \A s \in SUBSET S : Cardinality(s) <= 0 => s = {}
    BY <1>2, FS_EmptySet
  <2>2. Obeys(f, S, g, 0)
    BY <2>1 DEF Obeys, Take
  <2> QED BY <2>2
<1>4. n - 1 \in Nat /\ n - 1 \notin T
  BY <1>1, <1>3
<1>5. PICK g : Obeys(f, S, g, n - 1)
  BY <1>4
<1> DEFINE h == [s \in SUBSET S |-> IF Cardinality(s) = n THEN Take(f, g, s) ELSE g[s]]
<1>6. ASSUME NEW s \in SUBSET S, Cardinality(s) <= n PROVE h[s] = Take(f, h, s)
  <2>1. CASE s = {}
    <3>1. Cardinality(s) = 0
      BY <2>1, FS_EmptySet
    <3>2. Cardinality(s) # n /\ Cardinality(s) <= n - 1
      BY <1>3, <1>4, <3>1
    <3>3. h[s] = g[s] /\ g[s] = Take(f, g, s)
      BY <1>5, <3>2 DEF Obeys
    <3> QED BY <2>1, <3>3 DEF Take
  <2>2. CASE s # {}
    <3>1. Pick(s) \in s /\ s \ {Pick(s)} \in SUBSET S
      BY <2>2, PickIn
    <3>2. Cardinality(s \ {Pick(s)}) = Cardinality(s) - 1 /\ Cardinality(s) \in Nat
      BY <1>2, <3>1, Smaller
    <3>3. h[s \ {Pick(s)}] = g[s \ {Pick(s)}]
      BY <1>6, <3>1, <3>2
    <3>4. Take(f, h, s) = Take(f, g, s)
      BY <3>3 DEF Take
    <3>5. CASE Cardinality(s) = n
      BY <3>4, <3>5
    <3>6. CASE Cardinality(s) # n
      <4>1. h[s] = g[s] /\ Cardinality(s) <= n - 1
        BY <1>4, <1>6, <3>2, <3>6
      <4> QED BY <1>5, <3>4, <4>1 DEF Obeys
    <3> QED BY <3>5, <3>6
  <2> QED BY <2>1, <2>2
<1>7. Obeys(f, S, h, n)
  BY <1>6 DEF Obeys
<1> QED BY <1>7

LEMMA FoldStep ==
    ASSUME NEW f, NEW S, IsFiniteSet(S)
    PROVE  \A s \in SUBSET S : Fold(f, S)[s] = Take(f, Fold(f, S), s)
<1>1. Cardinality(S) \in Nat /\ \A s \in SUBSET S : Cardinality(s) <= Cardinality(S)
  BY FS_Subset, FS_CardinalityType
<1>2. PICK g : Obeys(f, S, g, Cardinality(S))
  BY <1>1, FoldsUpTo
<1>3. \A s \in SUBSET S : g[s] = Take(f, g, s)
  BY <1>1, <1>2 DEF Obeys
<1>4. g = [s \in SUBSET S |-> g[s]]
  BY <1>2 DEF Obeys
<1>5. g = [s \in SUBSET S |-> Take(f, g, s)]
  BY <1>3, <1>4
<1>6. Fold(f, S) = [s \in SUBSET S |-> Take(f, Fold(f, S), s)]
  BY <1>5 DEF Fold
<1> QED BY <1>6

(* On a smaller set the fold is the same. *)
LEMMA FoldLocal ==
    ASSUME NEW f, NEW S, IsFiniteSet(S), NEW U \in SUBSET S
    PROVE  \A s \in SUBSET U : Fold(f, U)[s] = Fold(f, S)[s]
<1> DEFINE F == {s \in SUBSET U : Fold(f, U)[s] # Fold(f, S)[s]}
<1> SUFFICES ASSUME F # {} PROVE FALSE
  OBVIOUS
<1>1. IsFiniteSet(U) /\ \A s \in SUBSET U : IsFiniteSet(s) /\ Cardinality(s) \in Nat
  BY FS_Subset, FS_CardinalityType
<1>2. PICK s \in F : \A t \in F : Cardinality(s) <= Cardinality(t)
  BY <1>1, SmallestSet
<1>3. /\ Fold(f, U)[s] = Take(f, Fold(f, U), s)
      /\ Fold(f, S)[s] = Take(f, Fold(f, S), s)
  BY <1>1, FoldStep
<1>4. CASE s = {}
  BY <1>2, <1>3, <1>4 DEF Take
<1>5. CASE s # {}
  <2>1. Pick(s) \in s /\ s \ {Pick(s)} \in SUBSET U
    BY <1>5, PickIn
  <2>2. Cardinality(s \ {Pick(s)}) = Cardinality(s) - 1 /\ Cardinality(s) \in Nat
    BY <1>1, <2>1, Smaller
  <2>3. s \ {Pick(s)} \notin F
    BY <1>1, <1>2, <2>1, <2>2
  <2>4. Fold(f, U)[s \ {Pick(s)}] = Fold(f, S)[s \ {Pick(s)}]
    BY <2>1, <2>3
  <2> QED BY <1>2, <1>3, <2>4 DEF Take
<1> QED BY <1>4, <1>5

(* The sum takes one element, then the rest. *)
LEMMA SumTakes ==
    ASSUME NEW f, NEW S, IsFiniteSet(S), S # {}
    PROVE  Pick(S) \in S /\ SumFunctionOnSet(f, S) = f[Pick(S)] + SumFunctionOnSet(f, S \ {Pick(S)})
<1> DEFINE U == S \ {Pick(S)}
<1>1. Pick(S) \in S
  BY PickIn
<1>2. Fold(f, S)[S] = f[Pick(S)] + Fold(f, S)[U]
  BY FoldStep DEF Take
<1>3. Fold(f, U)[U] = Fold(f, S)[U]
  BY FoldLocal
<1> QED BY <1>1, <1>2, <1>3, SumIsFold

-----------------------------------------------------------------------------
(* The facts the proofs cite. *)

LEMMA SumEmpty == \A f : SumFunctionOnSet(f, {}) = 0
<1> SUFFICES ASSUME NEW f PROVE SumFunctionOnSet(f, {}) = 0
  OBVIOUS
<1>1. Fold(f, {})[{}] = 0
  BY FS_EmptySet, FoldStep DEF Take
<1> QED BY <1>1, SumIsFold

LEMMA SumType ==
    ASSUME NEW f, NEW S, IsFiniteSet(S), \A x \in S : f[x] \in Int
    PROVE  SumFunctionOnSet(f, S) \in Int
<1> DEFINE F == {s \in SUBSET S : SumFunctionOnSet(f, s) \notin Int}
<1> SUFFICES ASSUME F # {} PROVE FALSE
  OBVIOUS
<1>1. \A s \in SUBSET S : IsFiniteSet(s) /\ Cardinality(s) \in Nat
  BY FS_Subset, FS_CardinalityType
<1>2. PICK s \in F : \A t \in F : Cardinality(s) <= Cardinality(t)
  BY <1>1, SmallestSet
<1>3. s # {}
  BY <1>2, SumEmpty
<1>4. Pick(s) \in s /\ SumFunctionOnSet(f, s) = f[Pick(s)] + SumFunctionOnSet(f, s \ {Pick(s)})
  BY <1>1, <1>3, SumTakes
<1>5. s \ {Pick(s)} \notin F
  BY <1>1, <1>2, <1>4, Smaller
<1> HIDE DEF F
<1>6. SumFunctionOnSet(f, s \ {Pick(s)}) \in Int /\ f[Pick(s)] \in Int
  BY <1>2, <1>4, <1>5 DEF F
<1> QED BY <1>2, <1>4, <1>6 DEF F

(* Any element may be taken first. *)
LEMMA SumRemove ==
    ASSUME NEW f, NEW S, IsFiniteSet(S), \A x \in S : f[x] \in Int, NEW x \in S
    PROVE  SumFunctionOnSet(f, S) = f[x] + SumFunctionOnSet(f, S \ {x})
<1> DEFINE Total(s) == SumFunctionOnSet(f, s)
           F == {s \in SUBSET S : \E y \in s : Total(s) # f[y] + Total(s \ {y})}
<1> HIDE DEF Total
<1> SUFFICES ASSUME F # {} PROVE FALSE
  BY DEF Total
<1>1. \A s \in SUBSET S : IsFiniteSet(s) /\ Cardinality(s) \in Nat /\ Total(s) \in Int
  BY FS_Subset, FS_CardinalityType, SumType DEF Total
<1>2. PICK s \in F : \A t \in F : Cardinality(s) <= Cardinality(t)
  BY <1>1, SmallestSet
<1>3. PICK y \in s : Total(s) # f[y] + Total(s \ {y})
  BY <1>2
<1> DEFINE c == Pick(s)
<1>4. c \in s /\ Total(s) = f[c] + Total(s \ {c})
  BY <1>1, <1>3, SumTakes DEF Total
<1> HIDE DEF c
<1>5. c # y
  BY <1>3, <1>4
<1>6. ASSUME NEW z \in s PROVE s \ {z} \in SUBSET S /\ s \ {z} \notin F
  <2>1. s \in SUBSET S /\ s \ {z} \in SUBSET S
    BY <1>2
  <2>2. Cardinality(s \ {z}) = Cardinality(s) - 1 /\ Cardinality(s) \in Nat
    BY <1>1, <2>1, Smaller
  <2> HIDE DEF F
  <2>3. ASSUME s \ {z} \in F PROVE FALSE
    BY <1>2, <2>2, <2>3
  <2> QED BY <2>1, <2>3
<1>7. /\ Total(s \ {c}) = f[y] + Total((s \ {c}) \ {y})
      /\ Total(s \ {y}) = f[c] + Total((s \ {y}) \ {c})
  <2>1. s \ {c} \notin F /\ s \ {y} \notin F /\ y \in s \ {c} /\ c \in s \ {y}
    BY <1>3, <1>4, <1>5, <1>6
  <2>2. s \ {c} \in SUBSET S /\ s \ {y} \in SUBSET S
    BY <1>3, <1>4, <1>6
  <2> QED BY <2>1, <2>2
<1>8. (s \ {c}) \ {y} = (s \ {y}) \ {c}
  OBVIOUS
<1>9. f[c] \in Int /\ f[y] \in Int /\ Total((s \ {c}) \ {y}) \in Int
  BY <1>1, <1>2, <1>3, <1>4
<1> QED BY <1>3, <1>4, <1>7, <1>8, <1>9

LEMMA SumAdd ==
    ASSUME NEW f, NEW S, IsFiniteSet(S), NEW x, x \notin S, f[x] \in Int, \A y \in S : f[y] \in Int
    PROVE  SumFunctionOnSet(f, S \cup {x}) = f[x] + SumFunctionOnSet(f, S)
<1>1. IsFiniteSet(S \cup {x}) /\ (S \cup {x}) \ {x} = S
  BY FS_AddElement
<1> QED BY <1>1, SumRemove

(* The sums of functions that agree on the set are equal. *)
LEMMA SumSame ==
    ASSUME NEW f, NEW g, NEW S, IsFiniteSet(S), \A x \in S : f[x] = g[x]
    PROVE  SumFunctionOnSet(f, S) = SumFunctionOnSet(g, S)
<1> DEFINE F == {s \in SUBSET S : SumFunctionOnSet(f, s) # SumFunctionOnSet(g, s)}
<1> SUFFICES ASSUME F # {} PROVE FALSE
  OBVIOUS
<1>1. \A s \in SUBSET S : IsFiniteSet(s) /\ Cardinality(s) \in Nat
  BY FS_Subset, FS_CardinalityType
<1>2. PICK s \in F : \A t \in F : Cardinality(s) <= Cardinality(t)
  BY <1>1, SmallestSet
<1>3. s # {}
  BY <1>2, SumEmpty
<1>4. /\ Pick(s) \in s
      /\ SumFunctionOnSet(f, s) = f[Pick(s)] + SumFunctionOnSet(f, s \ {Pick(s)})
      /\ SumFunctionOnSet(g, s) = g[Pick(s)] + SumFunctionOnSet(g, s \ {Pick(s)})
  BY <1>1, <1>3, SumTakes
<1>5. s \ {Pick(s)} \notin F
  BY <1>1, <1>2, <1>4, Smaller
<1> HIDE DEF F
<1>6. SumFunctionOnSet(f, s \ {Pick(s)}) = SumFunctionOnSet(g, s \ {Pick(s)})
  BY <1>4, <1>5, <1>2 DEF F
<1> QED BY <1>2, <1>4, <1>6 DEF F

(* One value changed. *)
LEMMA SumUpdate ==
    ASSUME NEW f, NEW g, NEW S, IsFiniteSet(S), NEW x \in S,
           \A y \in S : f[y] \in Int, g[x] \in Int, \A y \in S \ {x} : g[y] = f[y]
    PROVE  SumFunctionOnSet(g, S) = SumFunctionOnSet(f, S) + (g[x] - f[x])
<1>1. IsFiniteSet(S \ {x}) /\ \A y \in S : g[y] \in Int
  BY FS_RemoveElement
<1>2. SumFunctionOnSet(g, S \ {x}) = SumFunctionOnSet(f, S \ {x})
  BY <1>1, SumSame
<1>3. SumFunctionOnSet(f, S \ {x}) \in Int
  BY <1>1, SumType
<1>4. /\ SumFunctionOnSet(g, S) = g[x] + SumFunctionOnSet(g, S \ {x})
      /\ SumFunctionOnSet(f, S) = f[x] + SumFunctionOnSet(f, S \ {x})
  BY <1>1, SumRemove
<1> QED BY <1>1, <1>2, <1>3, <1>4

(* A sum is on the side of its parts. *)
LEMMA SumSign ==
    ASSUME NEW f, NEW S, IsFiniteSet(S), \A x \in S : f[x] \in Nat
    PROVE  /\ SumFunctionOnSet(f, S) \in Nat
           /\ \A x \in S : f[x] <= SumFunctionOnSet(f, S)
<1> DEFINE F == {s \in SUBSET S : SumFunctionOnSet(f, s) \notin Nat}
<1>0. \A s \in SUBSET S : IsFiniteSet(s) /\ Cardinality(s) \in Nat
  BY FS_Subset, FS_CardinalityType
<1>1. F = {}
  <2> SUFFICES ASSUME F # {} PROVE FALSE
    OBVIOUS
  <2>2. PICK s \in F : \A t \in F : Cardinality(s) <= Cardinality(t)
    BY <1>0, SmallestSet
  <2>3. s # {}
    BY <2>2, SumEmpty
  <2>4. Pick(s) \in s /\ SumFunctionOnSet(f, s) = f[Pick(s)] + SumFunctionOnSet(f, s \ {Pick(s)})
    BY <1>0, <2>3, SumTakes
  <2>5. s \ {Pick(s)} \notin F
    BY <1>0, <2>2, <2>4, Smaller
  <2> HIDE DEF F
  <2>6. SumFunctionOnSet(f, s \ {Pick(s)}) \in Nat /\ f[Pick(s)] \in Nat
    BY <2>2, <2>4, <2>5 DEF F
  <2> QED BY <2>2, <2>4, <2>6 DEF F
<1>2. SumFunctionOnSet(f, S) \in Nat
  BY <1>1
<1>3. ASSUME NEW x \in S PROVE f[x] <= SumFunctionOnSet(f, S)
  <2>1. SumFunctionOnSet(f, S) = f[x] + SumFunctionOnSet(f, S \ {x})
    BY SumRemove
  <2>2. SumFunctionOnSet(f, S \ {x}) \in Nat /\ f[x] \in Nat
    BY <1>1
  <2> QED BY <2>1, <2>2
<1> QED BY <1>2, <1>3

(* Sums of two functions add up. *)
LEMMA SumOfSums ==
    ASSUME NEW f, NEW g, NEW h, NEW S, IsFiniteSet(S),
           \A x \in S : f[x] \in Int /\ g[x] \in Int /\ h[x] = f[x] + g[x]
    PROVE  SumFunctionOnSet(h, S) = SumFunctionOnSet(f, S) + SumFunctionOnSet(g, S)
<1> DEFINE Wrong(s) == SumFunctionOnSet(h, s) # SumFunctionOnSet(f, s) + SumFunctionOnSet(g, s)
           F == {s \in SUBSET S : Wrong(s)}
<1> SUFFICES ASSUME F # {} PROVE FALSE
  OBVIOUS
<1>1. \A s \in SUBSET S : IsFiniteSet(s) /\ Cardinality(s) \in Nat
  BY FS_Subset, FS_CardinalityType
<1>2. PICK s \in F : \A t \in F : Cardinality(s) <= Cardinality(t)
  BY <1>1, SmallestSet
<1>3. s # {}
  <2>1. ~Wrong({})
    BY SumEmpty
  <2> QED BY <1>2, <2>1
<1> DEFINE c == Pick(s)
<1>4. /\ c \in s
      /\ SumFunctionOnSet(f, s) = f[c] + SumFunctionOnSet(f, s \ {c})
      /\ SumFunctionOnSet(g, s) = g[c] + SumFunctionOnSet(g, s \ {c})
      /\ SumFunctionOnSet(h, s) = h[c] + SumFunctionOnSet(h, s \ {c})
  BY <1>1, <1>3, SumTakes
<1>5. s \ {c} \notin F /\ s \ {c} \in SUBSET S
  BY <1>1, <1>2, <1>4, Smaller
<1> HIDE DEF c
<1>6. ~Wrong(s \ {c}) /\ Wrong(s)
  BY <1>2, <1>5
<1>7. /\ f[c] \in Int /\ g[c] \in Int /\ h[c] = f[c] + g[c]
      /\ SumFunctionOnSet(f, s \ {c}) \in Int /\ SumFunctionOnSet(g, s \ {c}) \in Int
  BY <1>1, <1>2, <1>4, <1>5, SumType
<1> QED BY <1>4, <1>6, <1>7

(* Where f is 0 nothing is added. *)
LEMMA SumOnPart ==
    ASSUME NEW f, NEW S, IsFiniteSet(S), NEW U \in SUBSET S,
           \A x \in S : f[x] \in Int, \A x \in S \ U : f[x] = 0
    PROVE  SumFunctionOnSet(f, S) = SumFunctionOnSet(f, U)
<1> DEFINE Wrong(s) == SumFunctionOnSet(f, s) # SumFunctionOnSet(f, s \cap U)
           F == {s \in SUBSET S : Wrong(s)}
<1> SUFFICES ASSUME F # {} PROVE FALSE
  <2>1. S \cap U = U
    OBVIOUS
  <2> QED BY <2>1
<1>1. \A s \in SUBSET S : IsFiniteSet(s) /\ Cardinality(s) \in Nat
  BY FS_Subset, FS_CardinalityType
<1>2. PICK s \in F : \A t \in F : Cardinality(s) <= Cardinality(t)
  BY <1>1, SmallestSet
<1>3. s # {}
  BY <1>2
<1> DEFINE c == Pick(s)
           r == s \ {c}
<1>4. c \in s /\ SumFunctionOnSet(f, s) = f[c] + SumFunctionOnSet(f, r)
  BY <1>1, <1>3, SumTakes
<1> HIDE DEF c
<1>5. r \in SUBSET S /\ Cardinality(r) = Cardinality(s) - 1 /\ Cardinality(s) \in Nat
  BY <1>1, <1>2, <1>4, Smaller
<1> HIDE DEF F
<1>6. ~Wrong(r)
  BY <1>2, <1>5 DEF F
<1>7. /\ s \in SUBSET S /\ Wrong(s) /\ IsFiniteSet(s \cap U) /\ IsFiniteSet(r \cap U)
      /\ SumFunctionOnSet(f, r \cap U) \in Int
  <2>1. s \in SUBSET S /\ Wrong(s) /\ s \cap U \in SUBSET S /\ r \cap U \in SUBSET S
    BY <1>2, <1>5 DEF F
  <2>2. IsFiniteSet(s \cap U) /\ IsFiniteSet(r \cap U)
    BY <1>1, <2>1
  <2> QED BY <2>1, <2>2, SumType
<1>8. CASE c \in U
  <2>1. (s \cap U) \ {c} = r \cap U
    OBVIOUS
  <2>2. SumFunctionOnSet(f, s \cap U) = f[c] + SumFunctionOnSet(f, r \cap U)
    BY <1>4, <1>7, <1>8, <2>1, SumRemove
  <2> QED BY <1>4, <1>6, <1>7, <2>2
<1>9. CASE c \notin U
  <2>1. s \cap U = r \cap U /\ f[c] = 0
    BY <1>4, <1>7, <1>9
  <2>2. SumFunctionOnSet(f, r) = SumFunctionOnSet(f, s \cap U)
    BY <1>6, <2>1
  <2>3. SumFunctionOnSet(f, s \cap U) \in Int
    BY <1>7, <2>1
  <2> QED BY <1>4, <1>7, <2>1, <2>2, <2>3
<1> QED BY <1>8, <1>9

LEMMA SumOfZeros ==
    ASSUME NEW f, NEW S, IsFiniteSet(S), \A x \in S : f[x] = 0
    PROVE  SumFunctionOnSet(f, S) = 0
BY SumOnPart, SumEmpty

LEMMA SumNegative ==
    ASSUME NEW f, NEW S, IsFiniteSet(S), \A x \in S : f[x] \in Int /\ f[x] <= 0
    PROVE  SumFunctionOnSet(f, S) \in Int /\ SumFunctionOnSet(f, S) <= 0
<1> DEFINE g == [x \in S |-> -f[x]]
           h == [x \in S |-> 0]
<1>1. SumFunctionOnSet(h, S) = SumFunctionOnSet(f, S) + SumFunctionOnSet(g, S)
  <2>1. \A x \in S : f[x] \in Int /\ g[x] \in Int /\ h[x] = f[x] + g[x]
    OBVIOUS
  <2> HIDE DEF g, h
  <2> QED BY <2>1, SumOfSums
<1>2. SumFunctionOnSet(h, S) = 0
  BY SumOfZeros
<1>3. SumFunctionOnSet(g, S) \in Nat
  <2>1. \A x \in S : g[x] \in Nat
    OBVIOUS
  <2> HIDE DEF g
  <2> QED BY <2>1, SumSign
<1>4. SumFunctionOnSet(f, S) \in Int
  BY SumType
<1> QED BY <1>1, <1>2, <1>3, <1>4

(* The sum over two sets that share nothing. *)
LEMMA SumOfUnion ==
    ASSUME NEW f, NEW S, NEW U, IsFiniteSet(S), IsFiniteSet(U), S \cap U = {},
           \A x \in S \cup U : f[x] \in Int
    PROVE  SumFunctionOnSet(f, S \cup U) = SumFunctionOnSet(f, S) + SumFunctionOnSet(f, U)
<1> DEFINE g == [x \in S \cup U |-> IF x \in S THEN f[x] ELSE 0]
           h == [x \in S \cup U |-> IF x \in S THEN 0 ELSE f[x]]
<1>1. IsFiniteSet(S \cup U)
  BY FS_Union
<1>2. /\ \A x \in S \cup U : g[x] \in Int /\ h[x] \in Int /\ f[x] = g[x] + h[x]
      /\ \A x \in S : g[x] = f[x]
      /\ \A x \in U : h[x] = f[x]
      /\ \A x \in (S \cup U) \ S : g[x] = 0
      /\ \A x \in (S \cup U) \ U : h[x] = 0
  OBVIOUS
<1> HIDE DEF g, h
<1>3. SumFunctionOnSet(f, S \cup U) = SumFunctionOnSet(g, S \cup U) + SumFunctionOnSet(h, S \cup U)
  BY <1>1, <1>2, SumOfSums
<1>4. SumFunctionOnSet(g, S \cup U) = SumFunctionOnSet(g, S)
  BY <1>1, <1>2, SumOnPart
<1>5. SumFunctionOnSet(h, S \cup U) = SumFunctionOnSet(h, U)
  BY <1>1, <1>2, SumOnPart
<1> QED BY <1>2, <1>3, <1>4, <1>5, SumSame

LEMMA SumSingleton ==
    ASSUME NEW f, NEW x, f[x] \in Int
    PROVE  SumFunctionOnSet(f, {x}) = f[x]
<1>1. IsFiniteSet({}) /\ {} \cup {x} = {x}
  BY FS_EmptySet
<1>2. SumFunctionOnSet(f, {} \cup {x}) = f[x] + SumFunctionOnSet(f, {})
  BY <1>1, SumAdd
<1> QED BY <1>1, <1>2, SumEmpty

(* A sum taken part by part: g says to which part an element belongs, h[p]   *)
(* is the sum of the part p.                                                 *)
SumsOfParts(f, g, h, Part, S, P) ==
    /\ \A x \in S : f[x] \in Int /\ g[x] \in P
    /\ \A p \in P : Part[p] = {x \in S : g[x] = p} /\ h[p] = SumFunctionOnSet(f, Part[p])

LEMMA SumByParts ==
    ASSUME NEW f, NEW g, NEW h, NEW Part, NEW S, NEW P, IsFiniteSet(S), IsFiniteSet(P),
           SumsOfParts(f, g, h, Part, S, P)
    PROVE  SumFunctionOnSet(h, P) = SumFunctionOnSet(f, S)
<1> DEFINE Of(s) == {x \in S : g[x] \in s}
           Wrong(s) == SumFunctionOnSet(h, s) # SumFunctionOnSet(f, Of(s))
           F == {s \in SUBSET P : Wrong(s)}
<1> SUFFICES ASSUME F # {} PROVE FALSE
  <2>1. Of(P) = S
    BY DEF SumsOfParts
  <2>2. ~Wrong(P)
    OBVIOUS
  <2> QED BY <2>1, <2>2
<1>1. \A s \in SUBSET P : IsFiniteSet(s) /\ Cardinality(s) \in Nat
  BY FS_Subset, FS_CardinalityType
<1>2. PICK s \in F : \A t \in F : Cardinality(s) <= Cardinality(t)
  BY <1>1, SmallestSet
<1>3. s # {}
  <2>1. Of({}) = {}
    OBVIOUS
  <2>2. ~Wrong({})
    BY <2>1, SumEmpty
  <2> QED BY <1>2, <2>2
<1> DEFINE c == Pick(s)
           r == s \ {c}
<1>4. c \in s /\ SumFunctionOnSet(h, s) = h[c] + SumFunctionOnSet(h, r)
  BY <1>1, <1>2, <1>3, SumTakes
<1> HIDE DEF c
<1>5. r \in SUBSET P /\ Cardinality(r) = Cardinality(s) - 1 /\ Cardinality(s) \in Nat
  BY <1>1, <1>2, <1>4, Smaller
<1> HIDE DEF F
<1>6. ~Wrong(r) /\ Wrong(s) /\ c \in P
  BY <1>2, <1>4, <1>5 DEF F
<1>7. h[c] = SumFunctionOnSet(f, Of({c}))
  <2>1. Of({c}) = Part[c]
    BY <1>6 DEF SumsOfParts
  <2> QED BY <1>6, <2>1 DEF SumsOfParts
<1>8. /\ Of(s) = Of({c}) \cup Of(r) /\ Of({c}) \cap Of(r) = {}
      /\ Of({c}) \in SUBSET S /\ Of(r) \in SUBSET S
  BY <1>4
<1>9. /\ IsFiniteSet(Of({c})) /\ IsFiniteSet(Of(r))
      /\ \A x \in Of({c}) \cup Of(r) : f[x] \in Int
  BY <1>8, FS_Subset DEF SumsOfParts
<1> HIDE DEF Of, r
<1>10. SumFunctionOnSet(f, Of({c}) \cup Of(r)) = SumFunctionOnSet(f, Of({c})) + SumFunctionOnSet(f, Of(r))
  BY ONLY <1>8, <1>9, SumOfUnion
<1> QED BY <1>4, <1>6, <1>7, <1>8, <1>10
=============================================================================
