-------------------------------- MODULE Sums --------------------------------
(***************************************************************************)
(* What SumFunctionOnSet computes, for any finite set: the order in which  *)
(* its fold takes the elements plays no part, so a sum can be split,       *)
(* compared and bounded element by element.                                *)
(*                                                                         *)
(* Each induction is on the size of a set, as the least of the sizes for   *)
(* which the claim would fail.                                             *)
(***************************************************************************)
EXTENDS FiniteSetTheorems, TLAPS

(* A set of naturals has a least element.                                  *)
LEMMA LeastNat ==
  ASSUME NEW T \in SUBSET Nat, T # {}
  PROVE  \E n \in T : \A m \in T : n <= m
<1>1. PICK n \in T : \A m \in T : ~(<<m, n>> \in OpToRel(<, Nat))
  BY NatLessThanWellFounded, WFMin
<1>2. ASSUME NEW m \in T PROVE n <= m
  <2>1. ~(m < n)
    BY <1>1 DEF OpToRel
  <2> QED
    BY <2>1
<1> QED
  BY <1>2

\* The element the fold takes, and what it makes of the rest
Pick(s) == CHOOSE x \in s : TRUE
Body(f, g, s) == IF s = {} THEN 0 ELSE f[Pick(s)] + g[s \ {Pick(s)}]
Solves(f, S, g) == g = [s \in SUBSET S |-> Body(f, g, s)]

(* The fold chooses a solution of its equation.                            *)
LEMMA SumIs ==
  ASSUME NEW f, NEW S
  PROVE  SumFunctionOnSet(f, S) = (CHOOSE g : Solves(f, S, g))[S]
BY DEF SumFunctionOnSet, FoldFunctionOnSet, MapThenFoldSet, Solves, Body, Pick

(* Taking an element from a finite set makes it smaller.                   *)
LEMMA Smaller ==
  ASSUME NEW S, IsFiniteSet(S), NEW s \in SUBSET S
  PROVE  /\ IsFiniteSet(s) /\ Cardinality(s) \in Nat
         /\ Cardinality(s) <= Cardinality(S) /\ Cardinality(S) \in Nat
         /\ Cardinality(s) = 0 <=> s = {}
         /\ \A x \in s : /\ s \ {x} \in SUBSET S /\ IsFiniteSet(s \ {x})
                         /\ Cardinality(s \ {x}) = Cardinality(s) - 1
         /\ s # {} => Pick(s) \in s
<1>1. IsFiniteSet(s) /\ Cardinality(s) <= Cardinality(S)
  BY FS_Subset
<1>2. Cardinality(s) \in Nat /\ Cardinality(S) \in Nat
  BY <1>1, FS_CardinalityType
<1>3. Cardinality(s) = 0 <=> s = {}
  BY <1>1, FS_EmptySet
<1>4. \A x \in s : IsFiniteSet(s \ {x}) /\ Cardinality(s \ {x}) = Cardinality(s) - 1
  BY <1>1, FS_RemoveElement
<1>5. s # {} => Pick(s) \in s
  BY DEF Pick
<1> QED
  BY <1>1, <1>2, <1>3, <1>4, <1>5

(* A family of parts of a finite set has a smallest member.                *)
LEMMA LeastSet ==
  ASSUME NEW S, IsFiniteSet(S), NEW U \in SUBSET (SUBSET S), U # {}
  PROVE  \E s \in U : \A x \in s : s \ {x} \notin U
<1> DEFINE N == {Cardinality(s) : s \in U}
<1>1. N \in SUBSET Nat /\ N # {}
  BY Smaller
<1>2. PICK n \in N : \A m \in N : n <= m
  BY <1>1, LeastNat
<1>3. PICK s \in U : \A r \in U : Cardinality(s) <= Cardinality(r)
  BY <1>2
<1>4. ASSUME NEW x \in s PROVE s \ {x} \notin U
  <2>1. Cardinality(s \ {x}) = Cardinality(s) - 1 /\ Cardinality(s) \in Nat
    BY <1>3, Smaller
  <2>2. ~(Cardinality(s) <= Cardinality(s \ {x}))
    BY <2>1
  <2> QED
    BY <1>3, <2>2
<1> QED
  BY <1>4

(* There is one: a table that is right for the small sets can be extended. *)
LEMMA Solvable ==
  ASSUME NEW S, IsFiniteSet(S), NEW f, \A x \in S : f[x] \in Int
  PROVE  \E g \in [SUBSET S -> Int] : Solves(f, S, g)
<1> DEFINE P(n) == \E g \in [SUBSET S -> Int] :
                     \A s \in SUBSET S : Cardinality(s) <= n => g[s] = Body(f, g, s)
<1>1. P(0)
  <2> DEFINE g == [s \in SUBSET S |-> 0]
  <2>1. g \in [SUBSET S -> Int]
    OBVIOUS
  <2>2. ASSUME NEW s \in SUBSET S, Cardinality(s) <= 0 PROVE g[s] = Body(f, g, s)
    <3>1. s = {}
      BY <2>2, Smaller
    <3> QED
      BY <3>1 DEF Body
  <2> QED
    BY <2>1, <2>2
<1>2. ASSUME NEW n \in Nat, P(n) PROVE P(n + 1)
  <2>1. PICK g \in [SUBSET S -> Int] :
           \A s \in SUBSET S : Cardinality(s) <= n => g[s] = Body(f, g, s)
    BY <1>2
  <2> DEFINE h == [s \in SUBSET S |-> Body(f, g, s)]
  <2>2. ASSUME NEW s \in SUBSET S PROVE Body(f, g, s) \in Int
    <3>1. CASE s = {}
      BY <3>1 DEF Body
    <3>2. CASE s # {}
      <4>1. Pick(s) \in s /\ s \ {Pick(s)} \in SUBSET S
        BY <3>2, Smaller
      <4> QED
        BY <3>2, <4>1 DEF Body
    <3> QED
      BY <3>1, <3>2
  <2>3. h \in [SUBSET S -> Int]
    BY <2>2
  <2>4. ASSUME NEW s \in SUBSET S, Cardinality(s) <= n + 1 PROVE h[s] = Body(f, h, s)
    <3>1. CASE s = {}
      BY <3>1 DEF Body
    <3>2. CASE s # {}
      <4>1. /\ Pick(s) \in s /\ s \ {Pick(s)} \in SUBSET S
            /\ Cardinality(s \ {Pick(s)}) = Cardinality(s) - 1 /\ Cardinality(s) \in Nat
        BY <3>2, Smaller
      <4>2. Cardinality(s \ {Pick(s)}) <= n
        BY <2>4, <4>1
      <4>3. h[s \ {Pick(s)}] = g[s \ {Pick(s)}]
        BY <2>1, <4>1, <4>2
      <4> QED
        BY <3>2, <4>3 DEF Body
    <3> QED
      BY <3>1, <3>2
  <2> HIDE DEF h
  <2> QED
    BY <2>3, <2>4
<1>3. ASSUME NEW n \in Nat PROVE P(n)
  <2> DEFINE T == {k \in Nat : ~P(k)}
  <2> HIDE DEF P
  <2>1. SUFFICES ASSUME T # {} PROVE FALSE
    OBVIOUS
  <2>2. PICK k \in T : \A m \in T : k <= m
    BY <2>1, LeastNat
  <2>3. k # 0
    BY <1>1
  <2>4. k - 1 \in Nat /\ k - 1 \notin T
    BY <2>2, <2>3
  <2>5. P(k - 1 + 1)
    BY <1>2, <2>4
  <2> QED
    BY <2>2, <2>5
<1>4. PICK g \in [SUBSET S -> Int] :
        \A s \in SUBSET S : Cardinality(s) <= Cardinality(S) => g[s] = Body(f, g, s)
  BY <1>3, FS_CardinalityType
<1>5. \A s \in SUBSET S : g[s] = Body(f, g, s)
  BY <1>4, Smaller
<1>6. g = [s \in SUBSET S |-> Body(f, g, s)]
  BY <1>5
<1> QED
  BY <1>6 DEF Solves

(* Two solutions agree where both are defined.                             *)
LEMMA Agree ==
  ASSUME NEW S, NEW T, IsFiniteSet(S), NEW f, NEW e, \A x \in S \cap T : f[x] = e[x],
         NEW g, Solves(f, S, g), NEW h, Solves(e, T, h)
  PROVE  \A s \in SUBSET (S \cap T) : g[s] = h[s]
<1> DEFINE U == {s \in SUBSET (S \cap T) : g[s] # h[s]}
<1>1. SUFFICES ASSUME U # {} PROVE FALSE
  OBVIOUS
<1>2. U \in SUBSET (SUBSET S)
  OBVIOUS
<1> HIDE DEF U
<1>3. PICK s \in U : \A x \in s : s \ {x} \notin U
  BY <1>1, <1>2, LeastSet
<1> USE DEF U
<1>4. s \in SUBSET S /\ s \in SUBSET T /\ g[s] = Body(f, g, s) /\ h[s] = Body(e, h, s)
  BY <1>3 DEF Solves
<1>5. s # {}
  BY <1>3, <1>4 DEF Body
<1>6. Pick(s) \in s /\ s \ {Pick(s)} \in SUBSET (S \cap T)
  BY <1>3, <1>4, <1>5, Smaller
<1>7. g[s \ {Pick(s)}] = h[s \ {Pick(s)}]
  BY <1>3, <1>6
<1>8. f[Pick(s)] = e[Pick(s)]
  BY <1>3, <1>6
<1> QED
  BY <1>3, <1>4, <1>5, <1>7, <1>8 DEF Body

\* The table of the sums of all parts of a set
Table(f, S, g) ==
  /\ g \in [SUBSET S -> Int] /\ Solves(f, S, g)
  /\ \A s \in SUBSET S : SumFunctionOnSet(f, s) = g[s]

(* The sum of a set is what the fold over any larger set says of it.       *)
LEMMA SumOfPart ==
  ASSUME NEW S, IsFiniteSet(S), NEW f, \A x \in S : f[x] \in Int
  PROVE  \E g : Table(f, S, g)
<1>1. PICK g \in [SUBSET S -> Int] : Solves(f, S, g)
  BY Solvable
<1>2. ASSUME NEW s \in SUBSET S PROVE SumFunctionOnSet(f, s) = g[s]
  <2>1. IsFiniteSet(s) /\ \A x \in s : f[x] \in Int
    BY FS_Subset
  <2>2. \E h : Solves(f, s, h)
    BY <2>1, Solvable
  <2> DEFINE h == CHOOSE h : Solves(f, s, h)
  <2>3. Solves(f, s, h)
    BY <2>2
  <2>4. SumFunctionOnSet(f, s) = h[s]
    BY SumIs
  <2> HIDE DEF h
  <2>5. \A r \in SUBSET (s \cap S) : h[r] = g[r]
    BY <1>1, <2>1, <2>3, Agree
  <2>6. s \in SUBSET (s \cap S)
    OBVIOUS
  <2> QED
    BY <2>4, <2>5, <2>6
<1> QED
  BY <1>1, <1>2 DEF Table

(* Nothing adds up to 0; a sum is an integer.                              *)
LEMMA SumTyped ==
  ASSUME NEW S, IsFiniteSet(S), NEW f, \A x \in S : f[x] \in Int
  PROVE  SumFunctionOnSet(f, S) \in Int /\ SumFunctionOnSet(f, {}) = 0
<1>1. PICK g : Table(f, S, g)
  BY SumOfPart
<1>2. g[{}] = Body(f, g, {})
  BY <1>1 DEF Table, Solves
<1> QED
  BY <1>1, <1>2 DEF Table, Body

(* The sum depends on the values at the elements only.                     *)
LEMMA SumSame ==
  ASSUME NEW S, IsFiniteSet(S), NEW f, NEW e, \A x \in S : f[x] \in Int /\ e[x] = f[x]
  PROVE  SumFunctionOnSet(e, S) = SumFunctionOnSet(f, S)
<1>1. PICK g : Table(f, S, g)
  BY SumOfPart
<1>2. PICK h : Table(e, S, h)
  BY SumOfPart
<1>3. \A s \in SUBSET (S \cap S) : g[s] = h[s]
  BY <1>1, <1>2, Agree DEF Table
<1> QED
  BY <1>1, <1>2, <1>3 DEF Table

(* Any element can be taken out of a sum, not only the one the fold takes. *)
LEMMA SumRemove ==
  ASSUME NEW S, IsFiniteSet(S), NEW f, \A x \in S : f[x] \in Int, NEW x \in S
  PROVE  SumFunctionOnSet(f, S) = f[x] + SumFunctionOnSet(f, S \ {x})
<1>1. PICK g : Table(f, S, g)
  BY SumOfPart
<1> DEFINE U == {s \in SUBSET S : ~\A y \in s : g[s] = f[y] + g[s \ {y}]}
<1>2. SUFFICES ASSUME U # {} PROVE FALSE
  <2>1. S \notin U
    BY <1>2
  <2>2. g[S] = f[x] + g[S \ {x}]
    BY <2>1
  <2>3. SumFunctionOnSet(f, S) = g[S] /\ SumFunctionOnSet(f, S \ {x}) = g[S \ {x}]
    BY <1>1 DEF Table
  <2> QED
    BY <2>2, <2>3
<1>3. PICK s \in U : \A z \in s : s \ {z} \notin U
  <2>1. U \in SUBSET (SUBSET S)
    OBVIOUS
  <2> QED
    BY <1>2, <2>1, LeastSet
<1>4. PICK y \in s : g[s] # f[y] + g[s \ {y}]
  BY <1>3
<1> DEFINE c == Pick(s)
<1>5. s \in SUBSET S /\ s # {} /\ c \in s /\ g[s] = f[c] + g[s \ {c}]
  BY <1>1, <1>3, <1>4, Smaller DEF Table, Solves, Body
<1> HIDE DEF c
<1>6. c # y
  BY <1>4, <1>5
<1> DEFINE rest == g[(s \ {c}) \ {y}]
<1>7. g[s \ {c}] = f[y] + rest
  BY <1>3, <1>4, <1>5, <1>6
<1>8. g[s \ {y}] = f[c] + rest
  <2>1. (s \ {y}) \ {c} = (s \ {c}) \ {y}
    OBVIOUS
  <2>2. g[s \ {y}] = f[c] + g[(s \ {y}) \ {c}]
    BY <1>3, <1>4, <1>5, <1>6
  <2> QED
    BY <2>1, <2>2
<1>9. rest \in Int /\ f[y] \in Int /\ f[c] \in Int
  BY <1>1, <1>4, <1>5 DEF Table
<1> HIDE DEF rest
<1>10. f[c] + (f[y] + rest) = f[y] + (f[c] + rest)
  BY <1>9
<1> QED
  BY <1>4, <1>5, <1>7, <1>8, <1>10

(* The sum of a set is the sums of a part and of the rest.                 *)
LEMMA SumSplit ==
  ASSUME NEW S, IsFiniteSet(S), NEW f, \A x \in S : f[x] \in Int, NEW A \in SUBSET S
  PROVE  SumFunctionOnSet(f, S) = SumFunctionOnSet(f, A) + SumFunctionOnSet(f, S \ A)
<1> DEFINE U == {s \in SUBSET A : SumFunctionOnSet(f, s \cup (S \ A)) #
                                    SumFunctionOnSet(f, s) + SumFunctionOnSet(f, S \ A)}
<1>0. IsFiniteSet(A) /\ A \cup (S \ A) = S
  BY FS_Subset
<1>1. SUFFICES ASSUME U # {} PROVE FALSE
  BY <1>0
<1>2. U \in SUBSET (SUBSET A)
  OBVIOUS
<1> HIDE DEF U
<1>3. PICK s \in U : \A x \in s : s \ {x} \notin U
  BY <1>0, <1>1, <1>2, LeastSet
<1> USE DEF U
<1> DEFINE w == s \cup (S \ A)
<1>4. /\ IsFiniteSet(s) /\ IsFiniteSet(w) /\ IsFiniteSet(S \ A) /\ s \in SUBSET A
      /\ w \in SUBSET S
  BY <1>0, <1>3, FS_Subset
<1>5. /\ SumFunctionOnSet(f, S \ A) \in Int /\ SumFunctionOnSet(f, s) \in Int
      /\ SumFunctionOnSet(f, {}) = 0
  BY <1>4, SumTyped
<1>6. s # {}
  <2>1. SUFFICES ASSUME s = {} PROVE FALSE
    OBVIOUS
  <2>2. w = S \ A
    BY <2>1
  <2> QED
    BY <1>3, <1>5, <2>1, <2>2
<1>7. PICK x \in s : TRUE
  BY <1>6
<1>8. s \ {x} \in SUBSET A /\ s \ {x} \notin U
  BY <1>3, <1>4, <1>7
<1>9. SumFunctionOnSet(f, s) = f[x] + SumFunctionOnSet(f, s \ {x})
  BY <1>4, <1>7, SumRemove
<1>10. SumFunctionOnSet(f, w) = f[x] + SumFunctionOnSet(f, w \ {x})
  BY <1>4, <1>7, SumRemove
<1>11. w \ {x} = (s \ {x}) \cup (S \ A)
  BY <1>4, <1>7
<1>12. SumFunctionOnSet(f, s \ {x}) \in Int /\ f[x] \in Int
  BY <1>4, <1>7, SumTyped, FS_Subset
<1>13. SumFunctionOnSet(f, w \ {x}) = SumFunctionOnSet(f, s \ {x}) + SumFunctionOnSet(f, S \ A)
  BY <1>8, <1>11
<1>14. SumFunctionOnSet(f, w) = SumFunctionOnSet(f, s) + SumFunctionOnSet(f, S \ A)
  BY <1>5, <1>9, <1>10, <1>12, <1>13
<1> QED
  BY <1>3, <1>14

(* A sum of sums, the second scaled, is the sum of the sums.               *)
LEMMA SumLinear ==
  ASSUME NEW S, IsFiniteSet(S), NEW f, NEW e, NEW h, NEW k \in Int,
         \A x \in S : f[x] \in Int /\ e[x] \in Int /\ h[x] = f[x] + k * e[x]
  PROVE  SumFunctionOnSet(h, S) = SumFunctionOnSet(f, S) + k * SumFunctionOnSet(e, S)
<1> DEFINE U == {s \in SUBSET S : SumFunctionOnSet(h, s) #
                                    SumFunctionOnSet(f, s) + k * SumFunctionOnSet(e, s)}
<1>1. SUFFICES ASSUME U # {} PROVE FALSE
  OBVIOUS
<1>2. U \in SUBSET (SUBSET S)
  OBVIOUS
<1>3. \A x \in S : h[x] \in Int
  OBVIOUS
<1> HIDE DEF U
<1>4. PICK s \in U : \A x \in s : s \ {x} \notin U
  BY <1>1, <1>2, LeastSet
<1> USE DEF U
<1>5. s \in SUBSET S /\ IsFiniteSet(s)
  BY <1>4, FS_Subset
<1>6. s # {}
  <2>1. SumFunctionOnSet(h, {}) = 0 /\ SumFunctionOnSet(f, {}) = 0 /\ SumFunctionOnSet(e, {}) = 0
    BY <1>3, SumTyped
  <2> QED
    BY <1>4, <2>1
<1>7. PICK x \in s : TRUE
  BY <1>6
<1> DEFINE r == s \ {x}
<1>8. /\ SumFunctionOnSet(h, s) = h[x] + SumFunctionOnSet(h, r)
      /\ SumFunctionOnSet(f, s) = f[x] + SumFunctionOnSet(f, r)
      /\ SumFunctionOnSet(e, s) = e[x] + SumFunctionOnSet(e, r)
  BY <1>3, <1>5, <1>7, SumRemove
<1>9. r \in SUBSET S /\ IsFiniteSet(r)
  BY <1>5, FS_Subset
<1>10. SumFunctionOnSet(f, r) \in Int /\ SumFunctionOnSet(e, r) \in Int
  BY <1>9, SumTyped
<1>11. SumFunctionOnSet(h, r) = SumFunctionOnSet(f, r) + k * SumFunctionOnSet(e, r)
  BY <1>4, <1>7, <1>9
<1>12. f[x] \in Int /\ e[x] \in Int /\ h[x] = f[x] + k * e[x]
  BY <1>5, <1>7
<1>13. ASSUME NEW a \in Int, NEW b \in Int, NEW c \in Int, NEW d \in Int
       PROVE  (a + k * b) + (c + k * d) = (a + c) + k * (b + d)
  OBVIOUS
<1> HIDE DEF r
<1>14. SumFunctionOnSet(h, s) = SumFunctionOnSet(f, s) + k * SumFunctionOnSet(e, s)
  BY <1>8, <1>10, <1>11, <1>12, <1>13
<1> QED
  BY <1>4, <1>14

(* A sum of values between 0 and k is between 0 and k times their number.  *)
LEMMA SumBounds ==
  ASSUME NEW S, IsFiniteSet(S), NEW f, NEW k \in Nat,
         \A x \in S : f[x] \in Int /\ 0 <= f[x] /\ f[x] <= k
  PROVE  0 <= SumFunctionOnSet(f, S) /\ SumFunctionOnSet(f, S) <= k * Cardinality(S)
<1> DEFINE Good(s) == 0 <= SumFunctionOnSet(f, s) /\ SumFunctionOnSet(f, s) <= k * Cardinality(s)
<1> DEFINE U == {s \in SUBSET S : ~Good(s)}
<1>1. SUFFICES ASSUME U # {} PROVE FALSE
  OBVIOUS
<1>2. U \in SUBSET (SUBSET S)
  OBVIOUS
<1> HIDE DEF U
<1>4. PICK s \in U : \A x \in s : s \ {x} \notin U
  BY <1>1, <1>2, LeastSet
<1> USE DEF U
<1>5. s \in SUBSET S /\ IsFiniteSet(s) /\ ~Good(s)
  BY <1>4, FS_Subset
<1>6. s # {}
  <2>1. SumFunctionOnSet(f, {}) = 0 /\ Cardinality({}) = 0
    BY SumTyped, FS_EmptySet
  <2>2. Good({})
    BY <2>1
  <2> QED
    BY <1>5, <2>2
<1>7. PICK x \in s : TRUE
  BY <1>6
<1> DEFINE r == s \ {x}
<1>8. SumFunctionOnSet(f, s) = f[x] + SumFunctionOnSet(f, r)
  BY <1>5, <1>7, SumRemove
<1>9. r \in SUBSET S /\ IsFiniteSet(r)
  BY <1>5, FS_Subset
<1>10. SumFunctionOnSet(f, r) \in Int
  BY <1>9, SumTyped
<1>11. Good(r)
  BY <1>4, <1>7, <1>9
<1>12. Cardinality(r) = Cardinality(s) - 1 /\ Cardinality(s) \in Nat
  BY <1>5, <1>7, FS_RemoveElement, FS_CardinalityType
<1>13. f[x] \in Int /\ 0 <= f[x] /\ f[x] <= k
  BY <1>5, <1>7
<1>14. k * Cardinality(s) = k * (Cardinality(s) - 1) + k /\ k * (Cardinality(s) - 1) \in Int
  <2>1. \A n \in Nat : k * n = k * (n - 1) + k /\ k * (n - 1) \in Int
    OBVIOUS
  <2> QED
    BY <1>12, <2>1
<1> HIDE DEF r
<1>15. Good(s)
  BY <1>8, <1>10, <1>11, <1>12, <1>13, <1>14
<1> QED
  BY <1>5, <1>15

(* Zeros add up to 0.                                                      *)
LEMMA SumZero ==
  ASSUME NEW S, IsFiniteSet(S), NEW f, \A x \in S : f[x] = 0
  PROVE  SumFunctionOnSet(f, S) = 0
<1>1. \A x \in S : f[x] \in Int /\ 0 <= f[x] /\ f[x] <= 0
  OBVIOUS
<1>2. 0 \in Nat
  OBVIOUS
<1>3. 0 <= SumFunctionOnSet(f, S) /\ SumFunctionOnSet(f, S) <= 0 * Cardinality(S)
  BY <1>1, <1>2, SumBounds, Zenon
<1>4. SumFunctionOnSet(f, S) \in Int /\ Cardinality(S) \in Nat
  BY <1>1, SumTyped, FS_CardinalityType
<1> QED
  BY <1>3, <1>4

(* Naturals add up to a natural.                                           *)
LEMMA SumNat ==
  ASSUME NEW S, IsFiniteSet(S), NEW f, \A x \in S : f[x] \in Nat
  PROVE  SumFunctionOnSet(f, S) \in Nat
<1> DEFINE U == {s \in SUBSET S : SumFunctionOnSet(f, s) \notin Nat}
<1>1. SUFFICES ASSUME U # {} PROVE FALSE
  OBVIOUS
<1>2. U \in SUBSET (SUBSET S)
  OBVIOUS
<1>3. \A x \in S : f[x] \in Int
  OBVIOUS
<1> HIDE DEF U
<1>4. PICK s \in U : \A x \in s : s \ {x} \notin U
  BY <1>1, <1>2, LeastSet
<1> USE DEF U
<1>5. s \in SUBSET S /\ IsFiniteSet(s)
  BY <1>4, FS_Subset
<1>6. s # {}
  <2>1. SumFunctionOnSet(f, {}) = 0
    BY <1>3, SumTyped
  <2> QED
    BY <1>4, <2>1
<1>7. PICK x \in s : TRUE
  BY <1>6
<1>8. SumFunctionOnSet(f, s) = f[x] + SumFunctionOnSet(f, s \ {x})
  BY <1>3, <1>5, <1>7, SumRemove
<1>9. SumFunctionOnSet(f, s \ {x}) \in Nat /\ f[x] \in Nat
  BY <1>4, <1>5, <1>7
<1> QED
  BY <1>4, <1>8, <1>9

(* A sum is below another when each value that counts is, and counts there.*)
LEMMA SumBelow ==
  ASSUME NEW S, IsFiniteSet(S), NEW T, IsFiniteSet(T), NEW f, NEW e,
         \A x \in S : f[x] \in Nat, \A x \in T : e[x] \in Nat,
         \A x \in S : f[x] # 0 => x \in T /\ f[x] <= e[x]
  PROVE  /\ SumFunctionOnSet(f, S) \in Nat /\ SumFunctionOnSet(e, T) \in Nat
         /\ SumFunctionOnSet(f, S) <= SumFunctionOnSet(e, T)
<1> DEFINE C == S \cap T
           A == S \ C
           B == T \ C
           d == [x \in C |-> e[x] - f[x]]
<1>1. /\ C \in SUBSET S /\ C \in SUBSET T /\ \A x \in A : f[x] = 0
      /\ \A x \in C : f[x] \in Int /\ d[x] \in Nat /\ d[x] \in Int /\ e[x] = f[x] + 1 * d[x]
      /\ \A x \in S : f[x] \in Int
      /\ \A x \in T : e[x] \in Int
      /\ \A x \in B : e[x] \in Nat
  OBVIOUS
<1>2. IsFiniteSet(C) /\ IsFiniteSet(A) /\ IsFiniteSet(B)
  BY FS_Subset
<1>3. SumFunctionOnSet(f, S) = SumFunctionOnSet(f, C) + SumFunctionOnSet(f, S \ C)
  BY <1>1, SumSplit
<1>4. SumFunctionOnSet(e, T) = SumFunctionOnSet(e, C) + SumFunctionOnSet(e, T \ C)
  BY <1>1, SumSplit
<1> HIDE DEF C, A, B, d
<1>5. SumFunctionOnSet(f, A) = 0
  BY <1>1, <1>2, SumZero
<1>6. SumFunctionOnSet(e, B) \in Nat /\ SumFunctionOnSet(d, C) \in Nat
  BY <1>1, <1>2, SumNat
<1>7. SumFunctionOnSet(e, C) = SumFunctionOnSet(f, C) + 1 * SumFunctionOnSet(d, C)
  BY <1>1, <1>2, SumLinear
<1>8. SumFunctionOnSet(f, S) \in Nat /\ SumFunctionOnSet(e, T) \in Nat
  BY SumNat
<1>9. SumFunctionOnSet(f, C) \in Int
  BY <1>1, <1>2, SumTyped
<1> QED
  BY <1>3, <1>4, <1>5, <1>6, <1>7, <1>8, <1>9 DEF A, B

(* Ones for the members of a part count it.                                *)
LEMMA SumOnes ==
  ASSUME NEW S, IsFiniteSet(S), NEW A \in SUBSET S, NEW f,
         \A x \in A : f[x] = 1, \A x \in S \ A : f[x] = 0
  PROVE  SumFunctionOnSet(f, S) = Cardinality(A)
<1>1. \A x \in S : f[x] \in Int
  OBVIOUS
<1>2. IsFiniteSet(A) /\ IsFiniteSet(S \ A)
  BY FS_Subset
<1>3. SumFunctionOnSet(f, S) = SumFunctionOnSet(f, A) + SumFunctionOnSet(f, S \ A)
  BY <1>1, SumSplit
<1>4. SumFunctionOnSet(f, S \ A) = 0
  BY <1>2, SumZero
<1>5. SumFunctionOnSet(f, A) = Cardinality(A)
  <2> DEFINE U == {s \in SUBSET A : SumFunctionOnSet(f, s) # Cardinality(s)}
  <2>2. SUFFICES ASSUME U # {} PROVE FALSE
    OBVIOUS
  <2>3. U \in SUBSET (SUBSET A)
    OBVIOUS
  <2> HIDE DEF U
  <2>4. PICK s \in U : \A x \in s : s \ {x} \notin U
    BY <1>2, <2>2, <2>3, LeastSet
  <2> USE DEF U
  <2>5. s \in SUBSET A /\ IsFiniteSet(s)
    BY <1>2, <2>4, FS_Subset
  <2>6. s # {}
    BY <1>1, <2>4, SumTyped, FS_EmptySet
  <2>7. PICK x \in s : TRUE
    BY <2>6
  <2>8. SumFunctionOnSet(f, s) = f[x] + SumFunctionOnSet(f, s \ {x})
    BY <1>1, <2>5, <2>7, SumRemove
  <2>9. Cardinality(s \ {x}) = Cardinality(s) - 1 /\ Cardinality(s) \in Nat
    BY <2>5, <2>7, FS_RemoveElement, FS_CardinalityType
  <2>10. SumFunctionOnSet(f, s \ {x}) = Cardinality(s \ {x})
    BY <2>4, <2>5, <2>7
  <2> QED
    BY <2>4, <2>5, <2>7, <2>8, <2>9, <2>10
<1> QED
  BY <1>2, <1>3, <1>4, <1>5, FS_CardinalityType
=============================================================================
