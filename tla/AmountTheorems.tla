--------------------------- MODULE AmountTheorems ---------------------------
(***************************************************************************)
(* Amounts and their sums, for the proofs of several components.           *)
(*                                                                         *)
(* Sums: the models write them as SumFunctionOnSet(f, S), a fold that      *)
(* takes the elements of S in an order CHOOSE picks.  What is proved is    *)
(* that the order does not matter, and what else the reconciler's, the     *)
(* ledger's and the projections' proofs need of sums.  The library states  *)
(* induction for an operator, which no prover can instantiate;             *)
(* FiniteInduction states it for a set of sets instead, so that a proof    *)
(* only has to name that set.                                              *)
(*                                                                         *)
(* Amounts: the contract of the posting rules that settlement and the      *)
(* reconciler share, for every fill and whatever the units of quantities   *)
(* and prices.                                                             *)
(***************************************************************************)
EXTENDS Postings, SequenceTheorems, Functions, FiniteSetsExt, FiniteSetTheorems, TLAPS

-----------------------------------------------------------------------------
(* Sums over finite sets.                                                  *)

\* A non-empty set of subsets of a finite set has a minimal element.
LEMMA MinimalSubset ==
    ASSUME NEW S, IsFiniteSet(S), NEW T \in SUBSET SUBSET S, T # {}
    PROVE  \E s \in T : \A r \in T : r \subseteq s => r = s
<1>1. T \subseteq FiniteSubsetsOf(S)
  BY FS_FiniteSubsetsOfFinite
<1>2. \E s \in T : \A r \in T : <<r, s>> \notin StrictSubsetOrdering(S)
  BY <1>1, WFMin, FS_StrictSubsetOrderingWellFounded
<1> QED BY <1>2 DEF StrictSubsetOrdering

\* Induction over a finite set: what holds of the empty set and is preserved
\* when an element is added holds of the whole set.
LEMMA FiniteInduction ==
    ASSUME NEW S, IsFiniteSet(S), NEW T,
           {} \in T,
           \A s \in SUBSET S : \A x \in S \ s : s \in T => s \cup {x} \in T
    PROVE  \A s \in SUBSET S : s \in T
<1> SUFFICES ASSUME ~\A s \in SUBSET S : s \in T
             PROVE  FALSE
  OBVIOUS
<1> DEFINE Bad == (SUBSET S) \ T
<1>0. Bad \in SUBSET SUBSET S /\ Bad # {}
  OBVIOUS
<1> HIDE DEF Bad
<1>1. PICK s \in Bad : \A r \in Bad : r \subseteq s => r = s
  BY <1>0, MinimalSubset
<1> USE DEF Bad
<1>2. PICK x \in s : TRUE
  BY <1>1
<1>3. s \ {x} \in T
  BY <1>1, <1>2
<1>4. s = (s \ {x}) \cup {x} /\ x \in S \ (s \ {x}) /\ s \ {x} \in SUBSET S
  BY <1>1, <1>2
<1> QED BY <1>1, <1>3, <1>4

\* Induction up to n: what holds of 0 and is passed on to the next number.
THEOREM UpwardInduction ==
    ASSUME NEW n \in Nat, NEW T, 0 \in T, \A k \in 0..(n - 1) : k \in T => k + 1 \in T
    PROVE  \A k \in 0..n : k \in T
<1> SUFFICES ASSUME ~\A k \in 0..n : k \in T
             PROVE  FALSE
  OBVIOUS
<1> DEFINE Bad == (0..n) \ T
<1>1. Bad \subseteq Nat /\ Bad # {}
  OBVIOUS
<1> HIDE DEF Bad
<1>2. PICK k \in Bad : \A j \in Bad : <<j, k>> \notin OpToRel(<, Nat)
  BY <1>1, WFMin, NatLessThanWellFounded
<1>3. \A j \in Bad : ~(j < k)
  BY <1>1, <1>2 DEF OpToRel
<1>4. k \in 0..n /\ k \notin T /\ k # 0
  BY <1>2 DEF Bad
<1>5. k - 1 \in 0..(n - 1) /\ k - 1 \in 0..n /\ k - 1 < k /\ (k - 1) + 1 = k
  BY <1>4
<1>6. k - 1 \in T
  BY <1>3, <1>5 DEF Bad
<1> QED BY <1>4, <1>5, <1>6

\* The last index of a prefix, which a fold over a sequence takes first.
LEMMA MaxOf ==
    ASSUME NEW n \in Nat, NEW s \in SUBSET (1..n), n \in s
    PROVE  Max(s) = n
<1>1. \A x \in s : (\A y \in s : x >= y) <=> x = n
  OBVIOUS
<1>2. Max(s) = CHOOSE x \in s : \A y \in s : x >= y
  BY DEF Max
<1> QED BY <1>1, <1>2

-----------------------------------------------------------------------------
(* The fold is well defined.                                               *)

\* The element the fold takes first.
Pick(s) == CHOOSE x \in s : TRUE

\* g is the function the fold computes with.
Iterates(g, f, S) ==
    g = [s \in SUBSET S |-> IF s = {} THEN 0 ELSE f[Pick(s)] + g[s \ {Pick(s)}]]

LEMMA SumIsIterate == \A f, S : SumFunctionOnSet(f, S) = (CHOOSE g : Iterates(g, f, S))[S]
BY Zenon DEF SumFunctionOnSet, FoldFunctionOnSet, MapThenFoldSet, Iterates, Pick

LEMMA IteratesValues ==
    ASSUME NEW f, NEW S, NEW g, Iterates(g, f, S)
    PROVE  \A s \in SUBSET S :
              /\ s = {} => g[s] = 0
              /\ s # {} => Pick(s) \in s /\ g[s] = f[Pick(s)] + g[s \ {Pick(s)}]
<1>1. \A s : s # {} => Pick(s) \in s
  BY DEF Pick
<1> QED BY <1>1 DEF Iterates

LEMMA IteratesUnique ==
    ASSUME NEW f, NEW S, IsFiniteSet(S),
           NEW g, Iterates(g, f, S), NEW h, Iterates(h, f, S)
    PROVE  g = h
<1> DEFINE Differ == {s \in SUBSET S : g[s] # h[s]}
<1>1. ASSUME Differ # {}
      PROVE  FALSE
  <2>1. Differ \in SUBSET SUBSET S
    OBVIOUS
  <2>2. PICK s \in Differ : \A r \in Differ : r \subseteq s => r = s
    <3> HIDE DEF Differ
    <3> QED BY <1>1, <2>1, MinimalSubset
  <2>3. s \in SUBSET S /\ s # {}
    BY <2>2, IteratesValues
  <2>4. /\ Pick(s) \in s
        /\ g[s] = f[Pick(s)] + g[s \ {Pick(s)}]
        /\ h[s] = f[Pick(s)] + h[s \ {Pick(s)}]
    BY <2>3, IteratesValues
  <2>5. g[s \ {Pick(s)}] = h[s \ {Pick(s)}]
    BY <2>2, <2>4
  <2> QED BY <2>2, <2>4, <2>5
<1>2. \A s \in SUBSET S : g[s] = h[s]
  BY <1>1
<1>3. g = [s \in SUBSET S |-> g[s]] /\ h = [s \in SUBSET S |-> h[s]]
  BY DEF Iterates
<1> QED BY <1>2, <1>3

LEMMA IteratesRestrict ==
    ASSUME NEW f, NEW S, NEW g, Iterates(g, f, S), NEW r \in SUBSET S
    PROVE  Iterates([s \in SUBSET r |-> g[s]], f, r)
<1> DEFINE h == [s \in SUBSET r |-> g[s]]
<1>1. ASSUME NEW s \in SUBSET r
      PROVE  g[s] = IF s = {} THEN 0 ELSE f[Pick(s)] + h[s \ {Pick(s)}]
  <2>1. s \in SUBSET S /\ h[s \ {Pick(s)}] = g[s \ {Pick(s)}]
    OBVIOUS
  <2> HIDE DEF h
  <2>2. g[s] = IF s = {} THEN 0 ELSE f[Pick(s)] + g[s \ {Pick(s)}]
    BY <2>1, IteratesValues
  <2> QED BY <2>1, <2>2
<1> QED BY <1>1 DEF Iterates

LEMMA IteratesExists ==
    ASSUME NEW f, NEW S, IsFiniteSet(S)
    PROVE  \E g : Iterates(g, f, S)
<1> DEFINE Bad == {s \in SUBSET S : ~\E g : Iterates(g, f, s)}
           G(r) == CHOOSE g : Iterates(g, f, r)
<1> SUFFICES ASSUME Bad # {}
             PROVE  FALSE
  OBVIOUS
<1>1. PICK s \in Bad : \A r \in Bad : r \subseteq s => r = s
  <2>1. Bad \in SUBSET SUBSET S
    OBVIOUS
  <2> HIDE DEF Bad
  <2> QED BY <2>1, MinimalSubset
<1>2. \A r \in SUBSET s : r # s => Iterates(G(r), f, r)
  BY <1>1
<1> HIDE DEF G
<1> DEFINE g == [r \in SUBSET s |->
                    IF r = {} THEN 0
                    ELSE f[Pick(r)] + G(r \ {Pick(r)})[r \ {Pick(r)}]]
<1>3. ASSUME NEW q \in SUBSET s, q # s
      PROVE  g[q] = G(q)[q]
  <2>1. Iterates(G(q), f, q)
    BY <1>2, <1>3
  <2>2. CASE q = {}
    BY <2>1, <2>2, IteratesValues
  <2>3. CASE q # {}
    <3> DEFINE p == q \ {Pick(q)}
    <3>1. Pick(q) \in q /\ G(q)[q] = f[Pick(q)] + G(q)[p]
      BY <2>1, <2>3, IteratesValues
    <3>2. g[q] = f[Pick(q)] + G(p)[p]
      BY <2>3
    <3> HIDE DEF g
    <3>3. p \in SUBSET s /\ p # s /\ p \in SUBSET q /\ p \in SUBSET S
      BY <1>3, <3>1
    <3>4. Iterates(G(p), f, p)
      BY <1>2, <3>3
    <3>5. Iterates([t \in SUBSET p |-> G(q)[t]], f, p)
      BY <2>1, <3>3, IteratesRestrict
    <3>6. IsFiniteSet(p)
      BY <3>3, FS_Subset
    <3>7. G(p) = [t \in SUBSET p |-> G(q)[t]]
      BY <3>4, <3>5, <3>6, IteratesUnique
    <3>8. G(p)[p] = G(q)[p]
      BY <3>7
    <3> QED BY <3>1, <3>2, <3>8
  <2> QED BY <2>2, <2>3
<1>4. Iterates(g, f, s)
  <2>1. ASSUME NEW r \in SUBSET s, r # {}
        PROVE  G(r \ {Pick(r)})[r \ {Pick(r)}] = g[r \ {Pick(r)}]
    <3>1. Pick(r) \in r
      BY <2>1 DEF Pick
    <3> HIDE DEF g
    <3>2. r \ {Pick(r)} \in SUBSET s /\ r \ {Pick(r)} # s
      BY <3>1
    <3> QED BY <1>3, <3>2
  <2>2. ASSUME NEW r \in SUBSET s
        PROVE  (IF r = {} THEN 0
                ELSE f[Pick(r)] + G(r \ {Pick(r)})[r \ {Pick(r)}])
               = (IF r = {} THEN 0 ELSE f[Pick(r)] + g[r \ {Pick(r)}])
    <3> HIDE DEF g
    <3> QED BY <2>1
  <2>3. g = [r \in SUBSET s |-> IF r = {} THEN 0 ELSE f[Pick(r)] + g[r \ {Pick(r)}]]
    BY <2>2
  <2> QED BY <2>3 DEF Iterates
<1> QED BY <1>1, <1>4
-----------------------------------------------------------------------------
(* Sums of integers.                                                       *)

LEMMA SumEmpty == \A f : SumFunctionOnSet(f, {}) = 0
<1> TAKE f
<1>1. IsFiniteSet({})
  BY FS_EmptySet
<1>2. Iterates(CHOOSE g : Iterates(g, f, {}), f, {})
  BY <1>1, IteratesExists
<1> QED BY <1>2, IteratesValues, SumIsIterate

LEMMA SumPick ==
    ASSUME NEW S, IsFiniteSet(S), S # {}, NEW f
    PROVE  /\ Pick(S) \in S
           /\ SumFunctionOnSet(f, S) = f[Pick(S)] + SumFunctionOnSet(f, S \ {Pick(S)})
<1> DEFINE r == S \ {Pick(S)}
           g == CHOOSE g : Iterates(g, f, S)
           h == CHOOSE h : Iterates(h, f, r)
<1>1. IsFiniteSet(r) /\ r \in SUBSET S /\ S \in SUBSET S
  BY FS_RemoveElement
<1>2. Iterates(g, f, S) /\ Iterates(h, f, r)
  BY <1>1, IteratesExists
<1>3. SumFunctionOnSet(f, S) = g[S] /\ SumFunctionOnSet(f, r) = h[r]
  BY SumIsIterate
<1> HIDE DEF g, h
<1>4. Pick(S) \in S /\ g[S] = f[Pick(S)] + g[r]
  <2>1. \A s \in SUBSET S : s # {} => Pick(s) \in s /\ g[s] = f[Pick(s)] + g[s \ {Pick(s)}]
    BY <1>2, IteratesValues
  <2> QED BY <1>1, <2>1
<1> HIDE DEF r
<1>5. Iterates([s \in SUBSET r |-> g[s]], f, r)
  BY <1>1, <1>2, IteratesRestrict
<1>6. h = [s \in SUBSET r |-> g[s]]
  BY <1>1, <1>2, <1>5, IteratesUnique
<1>7. h[r] = g[r]
  BY <1>6
<1> QED BY <1>3, <1>4, <1>7 DEF r

\* A sum of integers is an integer, of naturals a natural.
LEMMA SumType ==
    ASSUME NEW S, IsFiniteSet(S), NEW f, NEW Type, Type \in {Int, Nat},
           \A x \in S : f[x] \in Type
    PROVE  SumFunctionOnSet(f, S) \in Type
<1> DEFINE Bad == {s \in SUBSET S : SumFunctionOnSet(f, s) \notin Type}
<1> SUFFICES ASSUME Bad # {}
             PROVE  FALSE
  OBVIOUS
<1>1. PICK s \in Bad : \A r \in Bad : r \subseteq s => r = s
  <2>1. Bad \in SUBSET SUBSET S
    OBVIOUS
  <2> HIDE DEF Bad
  <2> QED BY <2>1, MinimalSubset
<1>2. IsFiniteSet(s) /\ s # {}
  <2>1. 0 \in Type
    OBVIOUS
  <2> QED BY <1>1, <2>1, FS_Subset, SumEmpty
<1>3. Pick(s) \in s /\ SumFunctionOnSet(f, s) = f[Pick(s)] + SumFunctionOnSet(f, s \ {Pick(s)})
  BY <1>2, SumPick
<1>4. SumFunctionOnSet(f, s \ {Pick(s)}) \in Type /\ f[Pick(s)] \in Type
  BY <1>1, <1>3
<1>5. \A i, j \in Type : i + j \in Type
  OBVIOUS
<1> QED BY <1>1, <1>3, <1>4, <1>5

\* Any element may be taken first.
LEMMA SumRemove ==
    ASSUME NEW S, IsFiniteSet(S), NEW f, \A x \in S : f[x] \in Int
    PROVE  \A x \in S : SumFunctionOnSet(f, S) = f[x] + SumFunctionOnSet(f, S \ {x})
<1> DEFINE Sum(s) == SumFunctionOnSet(f, s)
           Bad == {s \in SUBSET S : ~\A x \in s : Sum(s) = f[x] + Sum(s \ {x})}
<1>0. \A s \in SUBSET S : Sum(s) \in Int
  BY FS_Subset, SumType
<1> SUFFICES ASSUME Bad # {}
             PROVE  FALSE
  OBVIOUS
<1>1. PICK s \in Bad : \A r \in Bad : r \subseteq s => r = s
  <2>1. Bad \in SUBSET SUBSET S
    OBVIOUS
  <2> HIDE DEF Bad
  <2> QED BY <2>1, MinimalSubset
<1>2. PICK x \in s : Sum(s) # f[x] + Sum(s \ {x})
  BY <1>1
<1> DEFINE y == Pick(s)
<1>3. y \in s /\ Sum(s) = f[y] + Sum(s \ {y})
  BY <1>1, FS_Subset, SumPick
<1> HIDE DEF y, Sum
<1>4. x # y
  BY <1>2, <1>3
<1>5. Sum(s \ {y}) = f[x] + Sum((s \ {y}) \ {x})
  BY <1>1, <1>3, <1>4
<1>6. Sum(s \ {x}) = f[y] + Sum((s \ {x}) \ {y})
  BY <1>1, <1>3, <1>4
<1> DEFINE rest == Sum((s \ {x}) \ {y})
<1>7. Sum((s \ {y}) \ {x}) = rest
  <2>1. (s \ {y}) \ {x} = (s \ {x}) \ {y}
    OBVIOUS
  <2> QED BY <2>1
<1>8. f[x] \in Int /\ f[y] \in Int /\ rest \in Int
  BY <1>0, <1>1, <1>3
<1> HIDE DEF rest
<1>9. Sum(s) = f[y] + (f[x] + rest) /\ Sum(s \ {x}) = f[y] + rest
  BY <1>3, <1>5, <1>6, <1>7 DEF rest
<1> QED BY <1>2, <1>8, <1>9

LEMMA SumAdd ==
    ASSUME NEW S, IsFiniteSet(S), NEW x, x \notin S, NEW f,
           \A y \in S \cup {x} : f[y] \in Int
    PROVE  SumFunctionOnSet(f, S \cup {x}) = f[x] + SumFunctionOnSet(f, S)
<1>1. IsFiniteSet(S \cup {x}) /\ (S \cup {x}) \ {x} = S
  BY FS_AddElement
<1>2. \A y \in S \cup {x} : SumFunctionOnSet(f, S \cup {x})
                               = f[y] + SumFunctionOnSet(f, (S \cup {x}) \ {y})
  BY <1>1, SumRemove
<1> QED BY <1>1, <1>2

\* Only the values of the function on the set count.
LEMMA SumSame ==
    ASSUME NEW S, IsFiniteSet(S), NEW f, NEW g,
           \A x \in S : f[x] \in Int /\ f[x] = g[x]
    PROVE  SumFunctionOnSet(f, S) = SumFunctionOnSet(g, S)
<1> DEFINE Good == {s \in SUBSET S : SumFunctionOnSet(f, s) = SumFunctionOnSet(g, s)}
<1>1. {} \in Good
  BY SumEmpty
<1>2. ASSUME NEW s \in SUBSET S, NEW x \in S \ s, s \in Good
      PROVE  s \cup {x} \in Good
  <2>1. IsFiniteSet(s)
    BY FS_Subset
  <2>2. /\ SumFunctionOnSet(f, s \cup {x}) = f[x] + SumFunctionOnSet(f, s)
        /\ SumFunctionOnSet(g, s \cup {x}) = g[x] + SumFunctionOnSet(g, s)
    BY <2>1, SumAdd
  <2> QED BY <1>2, <2>2
<1> HIDE DEF Good
<1>3. \A s \in SUBSET S : s \in Good
  BY <1>1, <1>2, FiniteInduction
<1> QED BY <1>3 DEF Good

\* A sum over two disjoint sets.
LEMMA SumUnion ==
    ASSUME NEW S, IsFiniteSet(S), NEW T, IsFiniteSet(T), S \cap T = {},
           NEW f, \A x \in S \cup T : f[x] \in Int
    PROVE  SumFunctionOnSet(f, S \cup T) = SumFunctionOnSet(f, S) + SumFunctionOnSet(f, T)
<1> DEFINE Sum(s) == SumFunctionOnSet(f, s)
           Good == {t \in SUBSET T : Sum(S \cup t) = Sum(S) + Sum(t)}
<1>0. \A s \in SUBSET (S \cup T) : IsFiniteSet(s) /\ Sum(s) \in Int
  <2>1. IsFiniteSet(S \cup T)
    BY FS_Union
  <2> QED BY <2>1, FS_Subset, SumType
<1>1. {} \in Good
  <2>1. Sum({}) = 0 /\ S \cup {} = S /\ Sum(S) \in Int
    BY <1>0, SumEmpty
  <2> QED BY <2>1
<1>2. ASSUME NEW t \in SUBSET T, NEW x \in T \ t, t \in Good
      PROVE  t \cup {x} \in Good
  <2>1. IsFiniteSet(t) /\ IsFiniteSet(S \cup t) /\ x \notin S \cup t
    BY <1>0
  <2>2. /\ Sum(t \cup {x}) = f[x] + Sum(t)
        /\ Sum((S \cup t) \cup {x}) = f[x] + Sum(S \cup t)
    BY <2>1, SumAdd
  <2>3. /\ S \cup (t \cup {x}) = (S \cup t) \cup {x}
        /\ Sum(S) \in Int /\ Sum(t) \in Int /\ f[x] \in Int
    BY <1>0
  <2>4. Sum(S \cup t) = Sum(S) + Sum(t)
    BY <1>2
  <2> HIDE DEF Sum
  <2>5. Sum(S \cup (t \cup {x})) = f[x] + (Sum(S) + Sum(t))
    BY <2>2, <2>3, <2>4
  <2>6. Sum(S \cup (t \cup {x})) = Sum(S) + Sum(t \cup {x})
    BY <2>2, <2>3, <2>5
  <2> QED BY <2>6
<1> HIDE DEF Good
<1>3. \A t \in SUBSET T : t \in Good
  BY <1>1, <1>2, FiniteInduction
<1> QED BY <1>3 DEF Good

\* The sum of two functions is the sum of their sums.
THEOREM SumOfSums ==
    ASSUME NEW S, IsFiniteSet(S), NEW f, NEW g, NEW h,
           \A x \in S : f[x] \in Int /\ g[x] \in Int /\ h[x] = f[x] + g[x]
    PROVE  SumFunctionOnSet(h, S) = SumFunctionOnSet(f, S) + SumFunctionOnSet(g, S)
<1> DEFINE Sum(k, s) == SumFunctionOnSet(k, s)
           Good == {s \in SUBSET S : Sum(h, s) = Sum(f, s) + Sum(g, s)}
<1>1. {} \in Good
  BY SumEmpty
<1>2. ASSUME NEW s \in SUBSET S, NEW x \in S \ s, s \in Good
      PROVE  s \cup {x} \in Good
  <2>1. IsFiniteSet(s)
    BY FS_Subset
  <2>2. /\ Sum(f, s \cup {x}) = f[x] + Sum(f, s)
        /\ Sum(g, s \cup {x}) = g[x] + Sum(g, s)
    BY <2>1, SumAdd
  <2>3. Sum(h, s \cup {x}) = h[x] + Sum(h, s)
    <3>1. \A y \in s \cup {x} : h[y] \in Int
      OBVIOUS
    <3> QED BY <2>1, <3>1, SumAdd
  <2>4. /\ Sum(f, s) \in Int /\ Sum(g, s) \in Int
        /\ f[x] \in Int /\ g[x] \in Int /\ h[x] = f[x] + g[x]
    BY <2>1, SumType
  <2>5. Sum(h, s) = Sum(f, s) + Sum(g, s)
    BY <1>2
  <2> HIDE DEF Sum
  <2>6. Sum(h, s \cup {x}) = Sum(f, s \cup {x}) + Sum(g, s \cup {x})
    BY <2>2, <2>3, <2>4, <2>5
  <2> QED BY <2>6
<1> HIDE DEF Good
<1>3. \A s \in SUBSET S : s \in Good
  BY <1>1, <1>2, FiniteInduction
<1> QED BY <1>3 DEF Good

\* A sum is monotone in its function.
THEOREM SumMonotone ==
    ASSUME NEW S, IsFiniteSet(S), NEW f, NEW g,
           \A x \in S : f[x] \in Int /\ g[x] \in Int /\ f[x] <= g[x]
    PROVE  SumFunctionOnSet(f, S) <= SumFunctionOnSet(g, S)
<1> DEFINE Sum(k, s) == SumFunctionOnSet(k, s)
           Good == {s \in SUBSET S : Sum(f, s) <= Sum(g, s)}
<1>1. {} \in Good
  BY SumEmpty
<1>2. ASSUME NEW s \in SUBSET S, NEW x \in S \ s, s \in Good
      PROVE  s \cup {x} \in Good
  <2>1. IsFiniteSet(s)
    BY FS_Subset
  <2>2. /\ Sum(f, s \cup {x}) = f[x] + Sum(f, s)
        /\ Sum(g, s \cup {x}) = g[x] + Sum(g, s)
    BY <2>1, SumAdd
  <2>3. /\ Sum(f, s) \in Int /\ Sum(g, s) \in Int
        /\ f[x] \in Int /\ g[x] \in Int /\ f[x] <= g[x]
    BY <2>1, SumType
  <2>4. Sum(f, s) <= Sum(g, s)
    BY <1>2
  <2> HIDE DEF Sum
  <2>5. Sum(f, s \cup {x}) <= Sum(g, s \cup {x})
    BY <2>2, <2>3, <2>4
  <2> QED BY <2>5
<1> HIDE DEF Good
<1>3. \A s \in SUBSET S : s \in Good
  BY <1>1, <1>2, FiniteInduction
<1> QED BY <1>3 DEF Good

\* A sum of natural numbers is zero only if all of them are.
LEMMA SumPositive ==
    ASSUME NEW S, IsFiniteSet(S), NEW f, \A x \in S : f[x] \in Nat, NEW y \in S, f[y] # 0
    PROVE  SumFunctionOnSet(f, S) \in Nat /\ SumFunctionOnSet(f, S) # 0
<1>1. SumFunctionOnSet(f, S) = f[y] + SumFunctionOnSet(f, S \ {y})
  BY SumRemove
<1>2. IsFiniteSet(S \ {y}) /\ \A x \in S \ {y} : f[x] \in Nat
  BY FS_RemoveElement
<1>3. SumFunctionOnSet(f, S \ {y}) \in Nat
  BY <1>2, SumType
<1> QED BY <1>1, <1>3

\* A sum is zero when all its terms are.
LEMMA SumZero ==
    ASSUME NEW S, IsFiniteSet(S), NEW f, \A x \in S : f[x] = 0
    PROVE  SumFunctionOnSet(f, S) = 0
<1> DEFINE Good == {s \in SUBSET S : SumFunctionOnSet(f, s) = 0}
<1>1. {} \in Good
  BY SumEmpty
<1>2. ASSUME NEW s \in SUBSET S, NEW x \in S \ s, s \in Good
      PROVE  s \cup {x} \in Good
  <2>1. IsFiniteSet(s) /\ \A y \in s \cup {x} : f[y] \in Int
    BY FS_Subset
  <2>2. SumFunctionOnSet(f, s \cup {x}) = f[x] + SumFunctionOnSet(f, s)
    BY <2>1, SumAdd
  <2> QED BY <1>2, <2>2
<1> HIDE DEF Good
<1>3. \A s \in SUBSET S : s \in Good
  BY <1>1, <1>2, FiniteInduction
<1> QED BY <1>3 DEF Good

\* Rows first or columns first: a table of integers has one sum.
LEMMA SumOfTable ==
    ASSUME NEW S, IsFiniteSet(S), NEW T, IsFiniteSet(T), NEW f,
           \A x \in S, y \in T : f[x][y] \in Int
    PROVE  SumFunctionOnSet([x \in S |-> SumFunctionOnSet(f[x], T)], S)
         = SumFunctionOnSet([y \in T |-> SumFunctionOnSet([x \in S |-> f[x][y]], S)], T)
<1> DEFINE Column(s, y) == SumFunctionOnSet([x \in s |-> f[x][y]], s)
           rows == [x \in S |-> SumFunctionOnSet(f[x], T)]
           columns(s) == [y \in T |-> Column(s, y)]
           Good == {s \in SUBSET S : SumFunctionOnSet(rows, s) = SumFunctionOnSet(columns(s), T)}
<1>0. \A x \in S : rows[x] \in Int
  BY SumType
<1>1. {} \in Good
  <2>1. \A y \in T : columns({})[y] = 0
    BY SumEmpty
  <2>2. SumFunctionOnSet(columns({}), T) = 0
    <3> HIDE DEF columns
    <3> QED BY <2>1, SumZero
  <2> QED BY <2>2, SumEmpty
<1>2. ASSUME NEW s \in SUBSET S, NEW x \in S \ s, s \in Good
      PROVE  s \cup {x} \in Good
  <2>1. IsFiniteSet(s) /\ s \cup {x} \in SUBSET S
    BY FS_Subset
  <2>2. SumFunctionOnSet(rows, s \cup {x}) = rows[x] + SumFunctionOnSet(rows, s)
    BY <1>0, <2>1, SumAdd
  <2>3. ASSUME NEW y \in T
        PROVE  /\ columns(s)[y] \in Int
               /\ columns(s \cup {x})[y] = f[x][y] + columns(s)[y]
    <3> DEFINE g == [z \in s |-> f[z][y]]
               h == [z \in s \cup {x} |-> f[z][y]]
    <3>1. \A z \in s : g[z] \in Int /\ g[z] = h[z]
      OBVIOUS
    <3>2. (\A z \in s \cup {x} : h[z] \in Int) /\ h[x] = f[x][y]
      OBVIOUS
    <3> HIDE DEF g, h
    <3>3. SumFunctionOnSet(h, s \cup {x}) = h[x] + SumFunctionOnSet(h, s)
      BY <2>1, <3>2, SumAdd
    <3>4. SumFunctionOnSet(g, s) = SumFunctionOnSet(h, s)
      BY <2>1, <3>1, SumSame
    <3>5. SumFunctionOnSet(g, s) \in Int
      BY <2>1, <3>1, SumType
    <3> QED BY <3>2, <3>3, <3>4, <3>5 DEF g, h
  <2> HIDE DEF columns
  <2>4. SumFunctionOnSet(columns(s \cup {x}), T)
          = SumFunctionOnSet(f[x], T) + SumFunctionOnSet(columns(s), T)
    BY <2>3, SumOfSums
  <2>5. SumFunctionOnSet(rows, s) = SumFunctionOnSet(columns(s), T)
    BY <1>2
  <2>6. rows[x] = SumFunctionOnSet(f[x], T)
    OBVIOUS
  <2>7. SumFunctionOnSet(rows, s \cup {x}) = SumFunctionOnSet(columns(s \cup {x}), T)
    <3> HIDE DEF rows
    <3> QED BY <2>2, <2>4, <2>5, <2>6
  <2> QED BY <2>1, <2>7
<1> HIDE DEF Good
<1>3. \A s \in SUBSET S : s \in Good
  BY <1>1, <1>2, FiniteInduction
<1> QED BY <1>3 DEF Good

-----------------------------------------------------------------------------
(* The posting rules.                                                      *)

Assets == {"USD", "BTC", "ETH"}

LEMMA AssetTable ==
    /\ DOMAIN ASSETS = Assets
    /\ \A a \in Assets : /\ ASSETS[a].index \in 1..3
                         /\ ASSETS[a].scale \in Nat \ {0}
    /\ \A a, b \in Assets : ASSETS[a].index = ASSETS[b].index => a = b
BY DEF ASSETS, Assets

\* An account id tells its entity and its asset: no two accounts of the chart
\* share an id, so no posting can land on a neighbour's account.
THEOREM AccountIdsUnique ==
    ASSUME NEW d \in Entities, NEW e \in Entities, NEW a \in Assets, NEW b \in Assets,
           account_id(d, a) = account_id(e, b)
    PROVE  d = e /\ a = b
<1>1. /\ d \in 1..4 /\ e \in 1..4
      /\ ASSETS[a].index \in 1..3 /\ ASSETS[b].index \in 1..3
  BY AssetTable DEF Entities, CUSTOMER, VENUE, FEE, CLEARING
<1>2. d * 10 + ASSETS[a].index = e * 10 + ASSETS[b].index
  BY DEF account_id
<1>3. d = e /\ ASSETS[a].index = ASSETS[b].index
  BY <1>1, <1>2
<1> QED BY <1>3, AssetTable

LEMMA LedgerOfAccount ==
    ASSUME NEW e \in Entities, NEW a \in Assets
    PROVE  ledger_of(account_id(e, a)) = ASSETS[a].ledger
<1>1. e \in 1..4 /\ ASSETS[a].index \in 1..3
  BY AssetTable DEF Entities, CUSTOMER, VENUE, FEE, CLEARING
<1>2. account_id(e, a) % 10 = ASSETS[a].index
  BY <1>1 DEF account_id
<1>3. \A b \in DOMAIN ASSETS : ASSETS[b].index = account_id(e, a) % 10 <=> b = a
  BY <1>2, AssetTable
<1>4. (CHOOSE b \in DOMAIN ASSETS : ASSETS[b].index = account_id(e, a) % 10) = a
  BY <1>3, AssetTable
<1> QED BY <1>4 DEF ledger_of

\* The commission is a tenth of a percent of the quote amount, rounded down to
\* a whole minor unit: never negative, never more, and less than one unit less.
THEOREM FeeBounds ==
    ASSUME NEW n \in Nat
    PROVE  /\ compute_fee(n) \in Nat
           /\ 1000 * compute_fee(n) <= n
           /\ n < 1000 * (compute_fee(n) + 1)
BY DEF compute_fee, FEE_BPS

\* Python's round: the result is within half a unit of the exact ratio.
THEOREM RoundsToNearest ==
    ASSUME NEW n \in Int, NEW d \in Nat \ {0}
    PROVE  /\ RoundRatio(n, d) \in Int
           /\ 2 * (n - d * RoundRatio(n, d)) <= d
           /\ 2 * (d * RoundRatio(n, d) - n) <= d
<1> DEFINE q == n \div d
           r == n % d
<1>1. q \in Int /\ r \in Int /\ 0 <= r /\ r < d /\ n = d * q + r
  OBVIOUS
<1> HIDE DEF q, r
<1>2. d * (q + 1) = d * q + d /\ d * q \in Int
  BY <1>1
<1>3. CASE 2 * r < d \/ (2 * r = d /\ q % 2 = 0)
  <2>1. RoundRatio(n, d) = q
    BY <1>3 DEF RoundRatio, q, r
  <2> QED BY <1>1, <1>2, <1>3, <2>1
<1>4. CASE ~(2 * r < d \/ (2 * r = d /\ q % 2 = 0))
  <2>1. RoundRatio(n, d) = q + 1
    BY <1>4 DEF RoundRatio, q, r
  <2>2. 2 * r >= d
    BY <1>1, <1>4
  <2> QED BY <1>1, <1>2, <2>1, <2>2
<1> QED BY <1>3, <1>4

-----------------------------------------------------------------------------
(* The movements of an accepted fill.                                      *)

LEMMA AcceptedFill ==
    ASSUME NEW fill, Accepted(fill)
    PROVE  /\ fill.base \in Assets /\ fill.quote \in Assets
           /\ quote_amount(fill) > 0 /\ base_amount(fill) > 0
BY AssetTable DEF Accepted

\* The amounts of a fill are integers: minor units.
LEMMA AmountsAreIntegers ==
    ASSUME NEW fill, fill.base \in Assets, fill.quote \in Assets,
           fill.qty \in Int, fill.price \in Int
    PROVE  quote_amount(fill) \in Int /\ base_amount(fill) \in Int
<1>1. ASSUME NEW n \in Int, NEW unit \in Nat \ {0}, NEW scale \in Nat \ {0}
      PROVE  ScaledAmount(n, unit, scale) \in Int
  <2>1. CASE scale >= unit
    BY <2>1 DEF ScaledAmount
  <2>2. CASE scale < unit
    <3>1. unit \div scale \in Nat \ {0}
      BY <2>2
    <3> QED BY <2>2, <3>1, RoundsToNearest DEF ScaledAmount
  <2> QED BY <2>1, <2>2
<1>2. QtyUnit * PriceUnit \in Nat \ {0} /\ fill.qty * fill.price \in Int
  BY UnitsAssumption
<1> QED BY <1>1, <1>2, UnitsAssumption, AssetTable DEF quote_amount, base_amount

\* A movement of compute_postings: who is on either side of it, and how much.
LEMMA MovementShapes ==
    ASSUME NEW trade, NEW fill, Accepted(fill)
    PROVE  LET s == compute_postings(trade, fill)
               clearing == account_id(CLEARING, fill.base)
           IN  /\ Len(s) \in {3, 4}
               /\ \E buyer, seller \in {CUSTOMER, VENUE} :
                    /\ buyer # seller
                    /\ buyer = CUSTOMER <=> fill.side = "buy"
                    /\ s[1] = Movement(trade, "quote", account_id(buyer, fill.quote),
                                       account_id(seller, fill.quote),
                                       quote_amount(fill), fill.quote)
                    /\ s[2] = Movement(trade, "base_in", account_id(seller, fill.base),
                                       clearing, base_amount(fill), fill.base)
                    /\ s[3] = Movement(trade, "base_out", clearing,
                                       account_id(buyer, fill.base),
                                       base_amount(fill), fill.base)
               /\ Len(s) = 4 <=> compute_fee(quote_amount(fill)) > 0
               /\ Len(s) = 4 =>
                    /\ s[4] = Movement(trade, "fee", account_id(CUSTOMER, fill.quote),
                                       account_id(FEE, fill.quote),
                                       compute_fee(quote_amount(fill)), fill.quote)
<1> DEFINE fee == compute_fee(quote_amount(fill))
           buyer == IF fill.side = "buy" THEN CUSTOMER ELSE VENUE
           seller == IF fill.side = "buy" THEN VENUE ELSE CUSTOMER
           clearing == account_id(CLEARING, fill.base)
           m1 == Movement(trade, "quote", account_id(buyer, fill.quote),
                          account_id(seller, fill.quote), quote_amount(fill), fill.quote)
           m2 == Movement(trade, "base_in", account_id(seller, fill.base), clearing,
                          base_amount(fill), fill.base)
           m3 == Movement(trade, "base_out", clearing, account_id(buyer, fill.base),
                          base_amount(fill), fill.base)
           m4 == Movement(trade, "fee", account_id(CUSTOMER, fill.quote),
                          account_id(FEE, fill.quote), fee, fill.quote)
           s == compute_postings(trade, fill)
           traded == <<m1, m2, m3>>
<1>1. s = IF fee > 0 THEN Append(traded, m4) ELSE traded
  BY DEF compute_postings
<1>2. /\ buyer \in {CUSTOMER, VENUE} /\ seller \in {CUSTOMER, VENUE} /\ buyer # seller
      /\ buyer = CUSTOMER <=> fill.side = "buy"
  BY DEF CUSTOMER, VENUE
<1> HIDE DEF fee, m1, m2, m3, m4, s
<1>3. CASE fee > 0
  <2>1. s = Append(traded, m4)
    BY <1>1, <1>3
  <2> DEFINE S == {m1, m2, m3, m4}
  <2>2. traded \in Seq(S) /\ m4 \in S
    OBVIOUS
  <2>3. Len(traded) = 3 /\ traded[1] = m1 /\ traded[2] = m2 /\ traded[3] = m3
    OBVIOUS
  <2> HIDE DEF S, traded
  <2>4. /\ Len(s) = Len(traded) + 1 /\ s[Len(traded) + 1] = m4
        /\ \A j \in 1..Len(traded) : s[j] = traded[j]
    BY <2>1, <2>2, AppendProperties
  <2>5. Len(s) = 4 /\ s[1] = m1 /\ s[2] = m2 /\ s[3] = m3 /\ s[4] = m4
    BY <2>3, <2>4
  <2> QED BY <1>2, <1>3, <2>5 DEF m1, m2, m3, m4, s, fee
<1>4. CASE ~(fee > 0)
  <2>1. s = <<m1, m2, m3>>
    BY <1>1, <1>4
  <2>2. Len(s) = 3 /\ s[1] = m1 /\ s[2] = m2 /\ s[3] = m3
    BY <2>1
  <2>3. ~(compute_fee(quote_amount(fill)) > 0)
    BY <1>4 DEF fee
  <2> QED BY <1>2, <2>2, <2>3 DEF m1, m2, m3, s
<1> QED BY <1>3, <1>4

\* Double entry, ledger by ledger: every movement of an accepted fill is of a
\* positive amount, between two different accounts, both on the movement's own
\* ledger, as TigerBeetle demands.
THEOREM DoubleEntry ==
    ASSUME NEW trade, NEW fill, Accepted(fill), fill.qty \in Int, fill.price \in Int,
           NEW i \in 1..Len(compute_postings(trade, fill))
    PROVE  LET m == compute_postings(trade, fill)[i]
           IN  /\ m.amount \in Nat \ {0}
               /\ m.debit # m.credit
               /\ ledger_of(m.debit) = m.ledger /\ ledger_of(m.credit) = m.ledger
<1> DEFINE s == compute_postings(trade, fill)
           Sound(m) == /\ m.amount \in Nat \ {0}
                       /\ m.debit # m.credit
                       /\ ledger_of(m.debit) = m.ledger /\ ledger_of(m.credit) = m.ledger
<1>1. ASSUME NEW name, NEW d \in Entities, NEW e \in Entities, d # e, NEW a \in Assets,
             NEW n \in Nat \ {0}
      PROVE  Sound(Movement(trade, name, account_id(d, a), account_id(e, a), n, a))
  BY <1>1, AccountIdsUnique, LedgerOfAccount DEF Movement
<1>2. /\ CUSTOMER \in Entities /\ VENUE \in Entities /\ FEE \in Entities
      /\ CLEARING \in Entities
      /\ FEE # CUSTOMER /\ CLEARING \notin {CUSTOMER, VENUE}
  BY DEF Entities, CUSTOMER, VENUE, FEE, CLEARING
<1> HIDE DEF Sound, s
<1>3. /\ quote_amount(fill) \in Nat \ {0} /\ base_amount(fill) \in Nat \ {0}
      /\ compute_fee(quote_amount(fill)) \in Nat
  <2>1. /\ quote_amount(fill) \in Int /\ quote_amount(fill) > 0
        /\ base_amount(fill) \in Int /\ base_amount(fill) > 0
    BY AcceptedFill, AmountsAreIntegers
  <2>2. quote_amount(fill) \in Nat /\ quote_amount(fill) # 0
        /\ base_amount(fill) \in Nat \ {0}
    BY <2>1
  <2> QED BY <2>2, FeeBounds
<1>4. Sound(s[1]) /\ Sound(s[2]) /\ Sound(s[3]) /\ (Len(s) = 4 => Sound(s[4]))
  BY <1>1, <1>2, <1>3, MovementShapes, AcceptedFill DEF s
<1>5. Len(s) \in {3, 4} /\ i \in 1..Len(s)
  BY MovementShapes DEF s
<1>6. i \in {1, 2, 3} \/ (Len(s) = 4 /\ i = 4)
  <2>1. CASE Len(s) = 3
    BY <1>5, <2>1
  <2>2. CASE Len(s) = 4
    BY <1>5, <2>2
  <2> QED BY <1>5, <2>1, <2>2
<1>7. Sound(s[i])
  BY <1>6, <1>4
<1> QED BY <1>7 DEF Sound, s

\* The clearing account is a pass-through: what base_in brings, base_out takes
\* away, and no other movement of the trade touches it.
THEOREM ClearingPassThrough ==
    ASSUME NEW trade, NEW fill, Accepted(fill)
    PROVE  LET s == compute_postings(trade, fill)
               clearing == account_id(CLEARING, fill.base)
           IN  /\ s[2].credit = clearing /\ s[3].debit = clearing
               /\ s[2].amount = s[3].amount
               /\ \A i \in 1..Len(s) : /\ s[i].credit = clearing => i = 2
                                       /\ s[i].debit = clearing => i = 3
<1> DEFINE s == compute_postings(trade, fill)
           clearing == account_id(CLEARING, fill.base)
<1>1. /\ CUSTOMER \in Entities /\ VENUE \in Entities /\ FEE \in Entities
      /\ CLEARING \in Entities /\ CLEARING \notin {CUSTOMER, VENUE, FEE}
  BY DEF Entities, CUSTOMER, VENUE, FEE, CLEARING
<1>2. \A e \in {CUSTOMER, VENUE, FEE}, a \in Assets : account_id(e, a) # clearing
  BY <1>1, AccountIdsUnique, AcceptedFill
<1>3. /\ s[2].credit = clearing /\ s[3].debit = clearing /\ s[2].amount = s[3].amount
      /\ s[1].credit # clearing /\ s[1].debit # clearing
      /\ s[2].debit # clearing /\ s[3].credit # clearing
      /\ Len(s) = 4 => s[4].credit # clearing /\ s[4].debit # clearing
  <2>1. PICK buyer, seller \in {CUSTOMER, VENUE} :
            /\ s[1] = Movement(trade, "quote", account_id(buyer, fill.quote),
                               account_id(seller, fill.quote),
                               quote_amount(fill), fill.quote)
            /\ s[2] = Movement(trade, "base_in", account_id(seller, fill.base),
                               clearing, base_amount(fill), fill.base)
            /\ s[3] = Movement(trade, "base_out", clearing,
                               account_id(buyer, fill.base),
                               base_amount(fill), fill.base)
    BY MovementShapes
  <2>2. Len(s) = 4 =>
            s[4] = Movement(trade, "fee", account_id(CUSTOMER, fill.quote),
                            account_id(FEE, fill.quote),
                            compute_fee(quote_amount(fill)), fill.quote)
    BY MovementShapes
  <2> HIDE DEF s, clearing
  <2> QED BY <1>2, <2>1, <2>2, AcceptedFill DEF Movement
<1>4. Len(s) \in {3, 4}
  BY MovementShapes
<1> HIDE DEF s, clearing
<1>5. \A i \in 1..Len(s) : i \in {1, 2, 3} \/ (Len(s) = 4 /\ i = 4)
  <2>1. CASE Len(s) = 3
    BY <2>1
  <2>2. CASE Len(s) = 4
    BY <2>2
  <2> QED BY <1>4, <2>1, <2>2
<1>6. \A i \in 1..Len(s) : /\ s[i].credit = clearing => i = 2
                           /\ s[i].debit = clearing => i = 3
  BY <1>3, <1>5
<1> QED BY <1>3, <1>6 DEF s, clearing
=============================================================================
