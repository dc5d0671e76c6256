------------------------------ MODULE FiniteSums ------------------------------
(***************************************************************************)
(* Sums over finite sets, for any set and any integers.  The community      *)
(* modules define SumFunctionOnSet by a recursion over the set, taking one  *)
(* chosen member after the other.  That the recursion has a solution, and   *)
(* every law below, is shown by a smallest counterexample among the finite  *)
(* subsets: strict inclusion is well founded on them.                       *)
(***************************************************************************)
EXTENDS Integers, FiniteSets, Functions, FiniteSetTheorems, WellFoundedInduction, TLAPS

(* The member a sum takes next. *)
Pick(S) == CHOOSE x \in S : TRUE

(* One unfolding of the recursion of a sum. *)
Unfold(f, h, s) == IF s = {} THEN 0 ELSE f[Pick(s)] + h[s \ {Pick(s)}]

(* h is a solution of the recursion on the sets of T. *)
Iterates(f, T, h) == h = [s \in T |-> Unfold(f, h, s)]

(* The solution on the subsets of S. *)
Iterate(f, S) == CHOOSE h : Iterates(f, SUBSET S, h)

(* The sum of the community modules is that recursion. *)
LEMMA SumIsIterate ==
    ASSUME NEW f, NEW S
    PROVE SumFunctionOnSet(f, S) = Iterate(f, S)[S]
BY DEF SumFunctionOnSet, FoldFunctionOnSet, MapThenFoldSet, Iterate, Iterates, Unfold, Pick

(* Induction over the finite subsets of a finite set: what fails for some of them
   fails for a smallest one. *)
LEMMA SmallestSubset ==
    ASSUME NEW S, IsFiniteSet(S), NEW B, B \subseteq SUBSET S, B # {}
    PROVE \E T \in B : \A U \in B : U \subseteq T => U = T
<1>1. B \subseteq FiniteSubsetsOf(S)
  BY FS_FiniteSubsetsOfFinite
<1>2. IsWellFoundedOn(StrictSubsetOrdering(S), FiniteSubsetsOf(S))
  BY FS_StrictSubsetOrderingWellFounded
<1>3. PICK T \in B : \A U \in B : <<U, T>> \notin StrictSubsetOrdering(S)
  BY <1>1, <1>2, WFMin
<1>4. \A U \in B : U \subseteq T => U = T
  BY <1>3 DEF StrictSubsetOrdering
<1> QED BY <1>4

(* Among natural numbers there is a smallest. *)
LEMMA SmallestNumber ==
    ASSUME NEW B, B \subseteq Nat, B # {}
    PROVE \E n \in B : \A m \in B : n <= m
<1> DEFINE Less == {ss \in Nat \X Nat : ss[1] < ss[2]}
<1>1. IsWellFoundedOn(Less, Nat)
  BY NatLessThanWellFounded, Zenon DEF OpToRel
<1>2. PICK n \in B : \A m \in B : <<m, n>> \notin Less
  <2> HIDE DEF Less
  <2> QED BY <1>1, WFMin
<1>3. ASSUME NEW m \in B PROVE n <= m
  <2>1. <<m, n>> \in Nat \X Nat /\ <<m, n>>[1] = m /\ <<m, n>>[2] = n
    OBVIOUS
  <2>2. ~ (<<m, n>>[1] < <<m, n>>[2])
    BY <2>1, <1>2
  <2> QED BY <2>1, <2>2
<1> QED BY <1>3

(* What a sum takes next is a member of the set. *)
LEMMA PickIsMember ==
    ASSUME NEW S, S # {}
    PROVE Pick(S) \in S
BY DEF Pick

(* The recursion of a sum over a finite set has a solution. *)
LEMMA IterateExists ==
    ASSUME NEW f, NEW S, IsFiniteSet(S)
    PROVE Iterates(f, SUBSET S, Iterate(f, S))
<1> DEFINE Small(n) == {s \in SUBSET S : Cardinality(s) <= n}
           Bad == {n \in Nat : ~ \E h : Iterates(f, Small(n), h)}
<1>1. 0 \notin Bad
  <2> DEFINE h == [s \in Small(0) |-> 0]
  <2>1. \A s \in Small(0) : s = {}
    BY FS_Subset, FS_EmptySet, FS_CardinalityType
  <2>2. Iterates(f, Small(0), h)
    BY <2>1 DEF Iterates, Unfold
  <2> QED BY <2>2
<1>2. ASSUME NEW n \in Nat, n \notin Bad PROVE n + 1 \notin Bad
  <2>1. PICK h : Iterates(f, Small(n), h)
    BY <1>2
  <2> DEFINE g == [s \in Small(n + 1) |-> Unfold(f, h, s)]
  <2>2. \A s \in Small(n + 1) : s # {} => s \ {Pick(s)} \in Small(n)
    <3> SUFFICES ASSUME NEW s \in Small(n + 1), s # {} PROVE s \ {Pick(s)} \in Small(n)
      OBVIOUS
    <3>1. IsFiniteSet(s) /\ Pick(s) \in s
      BY FS_Subset, PickIsMember
    <3>2. Cardinality(s \ {Pick(s)}) = Cardinality(s) - 1 /\ Cardinality(s) \in Nat
      BY <3>1, FS_RemoveElement, FS_CardinalityType
    <3> QED BY <3>2
  <2>3. \A s \in Small(n) : s \in Small(n + 1)
    <3>1. \A s \in Small(n) : Cardinality(s) \in Nat
      BY FS_Subset, FS_CardinalityType
    <3> QED BY <3>1
  <2>4. \A s \in Small(n) : g[s] = h[s]
    BY <2>1, <2>3 DEF Iterates
  <2>5. \A s \in Small(n + 1) : Unfold(f, g, s) = Unfold(f, h, s)
    <3> HIDE DEF Small, g
    <3> QED BY <2>2, <2>4 DEF Unfold
  <2>6. Iterates(f, Small(n + 1), g)
    BY <2>5 DEF Iterates
  <2> QED BY <2>6
<1>3. Bad = {}
  <2> SUFFICES ASSUME Bad # {} PROVE FALSE
    OBVIOUS
  <2>1. PICK n \in Bad : \A m \in Bad : n <= m
    <3> HIDE DEF Bad
    <3>1. Bad \subseteq Nat
      BY DEF Bad
    <3> QED BY <3>1, SmallestNumber
  <2>2. n # 0 /\ n \in Nat
    BY <2>1, <1>1
  <2> HIDE DEF Bad, Small
  <2>3. n - 1 \in Nat /\ ~ (n <= n - 1) /\ (n - 1) + 1 = n
    BY <2>2
  <2>4. n - 1 \notin Bad
    BY <2>1, <2>3
  <2>5. (n - 1) + 1 \notin Bad
    BY <2>3, <2>4, <1>2
  <2> QED BY <2>1, <2>3, <2>5
<1>4. Small(Cardinality(S)) = SUBSET S /\ Cardinality(S) \in Nat
  BY FS_Subset, FS_CardinalityType
<1>5. \E h : Iterates(f, SUBSET S, h)
  BY <1>3, <1>4
<1> QED BY <1>5 DEF Iterate

(* A sum over any subset is read off the iteration over the whole. *)
LEMMA SumOfSubset ==
    ASSUME NEW f, NEW S, IsFiniteSet(S), NEW T, T \subseteq S
    PROVE SumFunctionOnSet(f, T) = Iterate(f, S)[T]
<1> DEFINE g == Iterate(f, S)
           h == Iterate(f, T)
           Bad == {U \in SUBSET T : h[U] # g[U]}
<1>1. Iterates(f, SUBSET S, g) /\ Iterates(f, SUBSET T, h)
  BY IterateExists, FS_Subset
<1> HIDE DEF g, h
<1>2. \A U \in SUBSET T : g[U] = Unfold(f, g, U) /\ h[U] = Unfold(f, h, U)
  BY <1>1 DEF Iterates
<1>3. Bad = {}
  <2> SUFFICES ASSUME Bad # {} PROVE FALSE
    OBVIOUS
  <2>1. Bad \subseteq SUBSET T /\ IsFiniteSet(T)
    BY FS_Subset
  <2>2. PICK U \in Bad : \A V \in Bad : V \subseteq U => V = U
    <3> HIDE DEF Bad
    <3> QED BY <2>1, SmallestSubset
  <2>3. U # {}
    BY <2>2, <1>2 DEF Unfold
  <2>4. Pick(U) \in U
    BY <2>3, PickIsMember
  <2>5. U \ {Pick(U)} \notin Bad
    BY <2>2, <2>4
  <2>6. h[U \ {Pick(U)}] = g[U \ {Pick(U)}]
    BY <2>5
  <2> QED BY <2>6, <2>3, <1>2, <2>2 DEF Unfold
<1>4. h[T] = g[T]
  BY <1>3
<1> QED BY <1>4, SumIsIterate DEF g, h

(* A sum over no member is 0. *)
LEMMA SumEmpty ==
    ASSUME NEW f
    PROVE SumFunctionOnSet(f, {}) = 0
<1>1. Iterates(f, SUBSET {}, Iterate(f, {}))
  BY IterateExists, FS_EmptySet
<1> QED BY <1>1, SumIsIterate DEF Iterates, Unfold

(* A sum is the chosen member plus the sum of the rest. *)
LEMMA SumPick ==
    ASSUME NEW f, NEW S, IsFiniteSet(S), S # {}
    PROVE SumFunctionOnSet(f, S) = f[Pick(S)] + SumFunctionOnSet(f, S \ {Pick(S)})
<1>1. Iterates(f, SUBSET S, Iterate(f, S))
  BY IterateExists
<1>2. SumFunctionOnSet(f, S \ {Pick(S)}) = Iterate(f, S)[S \ {Pick(S)}]
  BY SumOfSubset
<1> QED BY <1>1, <1>2, SumIsIterate DEF Iterates, Unfold

---------------------------------------------------------------------------

(* A sum of integers is an integer. *)
LEMMA SumInt ==
    ASSUME NEW S, IsFiniteSet(S), NEW f, \A x \in S : f[x] \in Int
    PROVE SumFunctionOnSet(f, S) \in Int
<1> DEFINE Bad == {T \in SUBSET S : SumFunctionOnSet(f, T) \notin Int}
<1> SUFFICES ASSUME Bad # {} PROVE FALSE
  OBVIOUS
<1>1. PICK T \in Bad : \A U \in Bad : U \subseteq T => U = T
  <2>1. Bad \subseteq SUBSET S
    OBVIOUS
  <2> HIDE DEF Bad
  <2> QED BY <2>1, SmallestSubset
<1>2. T # {} /\ IsFiniteSet(T)
  <2>1. {} \notin Bad
    BY SumEmpty
  <2> QED BY <2>1, <1>1, FS_Subset
<1>3. Pick(T) \in T
  BY <1>2, PickIsMember
<1>4. T \ {Pick(T)} \notin Bad
  BY <1>1, <1>3
<1> QED BY <1>1, <1>2, <1>3, <1>4, SumPick

(* Any member may be taken out of a sum. *)
LEMMA SumTake ==
    ASSUME NEW S, IsFiniteSet(S), NEW f, \A x \in S : f[x] \in Int, NEW a \in S
    PROVE SumFunctionOnSet(f, S) = f[a] + SumFunctionOnSet(f, S \ {a})
<1> DEFINE Good(T, x) == SumFunctionOnSet(f, T) = f[x] + SumFunctionOnSet(f, T \ {x})
           Bad == {T \in SUBSET S : \E x \in T : ~Good(T, x)}
<1> SUFFICES ASSUME Bad # {} PROVE FALSE
  OBVIOUS
<1>1. PICK T \in Bad : \A U \in Bad : U \subseteq T => U = T
  <2>1. Bad \subseteq SUBSET S
    OBVIOUS
  <2> HIDE DEF Bad
  <2> QED BY <2>1, SmallestSubset
<1>2. PICK x \in T : ~Good(T, x)
  BY <1>1
<1> DEFINE p == Pick(T)
<1>3. p \in T /\ IsFiniteSet(T) /\ T \subseteq S
  BY <1>1, <1>2, PickIsMember, FS_Subset
<1>4. Good(T, p)
  BY <1>3, SumPick
<1>5. p # x
  BY <1>2, <1>4
<1>6. Good(T \ {p}, x) /\ Good(T \ {x}, p)
  <2> HIDE DEF Good, p
  <2>1. T \ {p} \notin Bad /\ T \ {x} \notin Bad
    BY <1>1, <1>2, <1>3
  <2> QED BY <2>1, <1>2, <1>3, <1>5
<1>7. (T \ {p}) \ {x} = (T \ {x}) \ {p}
  OBVIOUS
<1>8. SumFunctionOnSet(f, (T \ {x}) \ {p}) \in Int /\ f[x] \in Int /\ f[p] \in Int
  <2>1. IsFiniteSet((T \ {x}) \ {p}) /\ (T \ {x}) \ {p} \subseteq S
    BY <1>3, FS_Subset
  <2> QED BY <2>1, <1>3, SumInt
<1> DEFINE rest == SumFunctionOnSet(f, (T \ {x}) \ {p})
<1>9. /\ SumFunctionOnSet(f, T) = f[p] + (f[x] + rest)
      /\ SumFunctionOnSet(f, T \ {x}) = f[p] + rest
  BY <1>4, <1>6, <1>7
<1>10. rest \in Int /\ f[x] \in Int /\ f[p] \in Int
  BY <1>8
<1> HIDE DEF p, rest, Bad
<1>11. SumFunctionOnSet(f, T) = f[x] + SumFunctionOnSet(f, T \ {x})
  BY <1>9, <1>10
<1> QED BY <1>2, <1>11

(* Functions that agree on a set have the same sum over it. *)
LEMMA SumSame ==
    ASSUME NEW S, IsFiniteSet(S), NEW f, NEW g, \A x \in S : f[x] = g[x]
    PROVE SumFunctionOnSet(f, S) = SumFunctionOnSet(g, S)
<1> DEFINE Bad == {T \in SUBSET S : SumFunctionOnSet(f, T) # SumFunctionOnSet(g, T)}
<1> SUFFICES ASSUME Bad # {} PROVE FALSE
  OBVIOUS
<1>1. PICK T \in Bad : \A U \in Bad : U \subseteq T => U = T
  <2>1. Bad \subseteq SUBSET S
    OBVIOUS
  <2> HIDE DEF Bad
  <2> QED BY <2>1, SmallestSubset
<1>2. T # {} /\ IsFiniteSet(T)
  BY <1>1, SumEmpty, FS_Subset
<1>3. Pick(T) \in T
  BY <1>2, PickIsMember
<1>4. T \ {Pick(T)} \notin Bad
  BY <1>1, <1>3
<1> QED BY <1>1, <1>2, <1>3, <1>4, SumPick

(* Changing one member changes the sum by as much. *)
LEMMA SumChange ==
    ASSUME NEW S, IsFiniteSet(S), NEW f, NEW g, NEW a \in S,
           \A x \in S : f[x] \in Int /\ g[x] \in Int,
           \A x \in S \ {a} : f[x] = g[x]
    PROVE SumFunctionOnSet(g, S) = SumFunctionOnSet(f, S) + g[a] - f[a]
<1>1. IsFiniteSet(S \ {a})
  BY FS_RemoveElement
<1>2. SumFunctionOnSet(f, S \ {a}) = SumFunctionOnSet(g, S \ {a})
  BY <1>1, SumSame
<1>3. SumFunctionOnSet(f, S \ {a}) \in Int
  BY <1>1, SumInt
<1>4. /\ SumFunctionOnSet(f, S) = f[a] + SumFunctionOnSet(f, S \ {a})
      /\ SumFunctionOnSet(g, S) = g[a] + SumFunctionOnSet(g, S \ {a})
  BY SumTake
<1> QED BY <1>2, <1>3, <1>4

(* A member that is not smaller everywhere does not have a smaller sum. *)
LEMMA SumMonotone ==
    ASSUME NEW S, IsFiniteSet(S), NEW f, NEW g,
           \A x \in S : f[x] \in Int /\ g[x] \in Int /\ f[x] <= g[x]
    PROVE SumFunctionOnSet(f, S) <= SumFunctionOnSet(g, S)
<1> DEFINE Bad == {T \in SUBSET S : ~(SumFunctionOnSet(f, T) <= SumFunctionOnSet(g, T))}
<1> SUFFICES ASSUME Bad # {} PROVE FALSE
  OBVIOUS
<1>1. PICK T \in Bad : \A U \in Bad : U \subseteq T => U = T
  <2>1. Bad \subseteq SUBSET S
    OBVIOUS
  <2> HIDE DEF Bad
  <2> QED BY <2>1, SmallestSubset
<1>2. T # {} /\ IsFiniteSet(T)
  <2>1. {} \notin Bad
    BY SumEmpty
  <2> QED BY <2>1, <1>1, FS_Subset
<1>3. Pick(T) \in T
  BY <1>2, PickIsMember
<1>4. T \ {Pick(T)} \notin Bad
  BY <1>1, <1>3
<1>5. IsFiniteSet(T \ {Pick(T)})
  BY <1>2, FS_RemoveElement
<1>6. /\ SumFunctionOnSet(f, T \ {Pick(T)}) \in Int
      /\ SumFunctionOnSet(g, T \ {Pick(T)}) \in Int
  BY <1>5, <1>1, SumInt
<1>7. /\ SumFunctionOnSet(f, T) = f[Pick(T)] + SumFunctionOnSet(f, T \ {Pick(T)})
      /\ SumFunctionOnSet(g, T) = g[Pick(T)] + SumFunctionOnSet(g, T \ {Pick(T)})
  BY <1>2, SumPick
<1> QED BY <1>1, <1>3, <1>4, <1>6, <1>7

(* A sum of natural numbers is one. *)
LEMMA SumNat ==
    ASSUME NEW S, IsFiniteSet(S), NEW f, \A x \in S : f[x] \in Nat
    PROVE SumFunctionOnSet(f, S) \in Nat
<1> DEFINE Bad == {T \in SUBSET S : SumFunctionOnSet(f, T) \notin Nat}
<1> SUFFICES ASSUME Bad # {} PROVE FALSE
  OBVIOUS
<1>1. PICK T \in Bad : \A U \in Bad : U \subseteq T => U = T
  <2>1. Bad \subseteq SUBSET S
    OBVIOUS
  <2> HIDE DEF Bad
  <2> QED BY <2>1, SmallestSubset
<1>2. T # {} /\ IsFiniteSet(T)
  <2>1. {} \notin Bad
    BY SumEmpty
  <2> QED BY <2>1, <1>1, FS_Subset
<1>3. Pick(T) \in T
  BY <1>2, PickIsMember
<1>4. T \ {Pick(T)} \notin Bad
  BY <1>1, <1>3
<1> QED BY <1>1, <1>2, <1>3, <1>4, SumPick

(* A sum splits over a subset and the rest. *)
LEMMA SumSplit ==
    ASSUME NEW S, IsFiniteSet(S), NEW f, \A x \in S : f[x] \in Int, NEW R \in SUBSET S
    PROVE SumFunctionOnSet(f, S) = SumFunctionOnSet(f, R) + SumFunctionOnSet(f, S \ R)
<1> DEFINE Left(T) == S \ (R \ T)
           Bad == {T \in SUBSET R : SumFunctionOnSet(f, Left(T)) #
                                     SumFunctionOnSet(f, T) + SumFunctionOnSet(f, S \ R)}
<1>0. IsFiniteSet(R) /\ IsFiniteSet(S \ R) /\ SumFunctionOnSet(f, S \ R) \in Int
  BY FS_Subset, SumInt
<1> SUFFICES ASSUME Bad # {} PROVE FALSE
  <2> SUFFICES R \notin Bad
    OBVIOUS
  <2>1. Left(R) = S
    OBVIOUS
  <2> QED BY <2>1
<1>1. PICK T \in Bad : \A U \in Bad : U \subseteq T => U = T
  <2>1. Bad \subseteq SUBSET R
    OBVIOUS
  <2> HIDE DEF Bad
  <2> QED BY <2>1, <1>0, SmallestSubset
<1>2. T # {} /\ IsFiniteSet(T)
  <2>1. Left({}) = S \ R
    OBVIOUS
  <2>2. {} \notin Bad
    BY <2>1, <1>0, SumEmpty
  <2> QED BY <2>2, <1>1, <1>0, FS_Subset
<1> DEFINE p == Pick(T)
<1>3. p \in T /\ p \in S
  BY <1>1, <1>2, PickIsMember
<1>4. T \ {p} \notin Bad
  BY <1>1, <1>3
<1>5. Left(T \ {p}) = Left(T) \ {p} /\ p \in Left(T)
  BY <1>3
<1>6. IsFiniteSet(Left(T)) /\ Left(T) \subseteq S /\ IsFiniteSet(T \ {p})
  BY <1>2, FS_Subset, FS_RemoveElement
<1>7. SumFunctionOnSet(f, Left(T)) = f[p] + SumFunctionOnSet(f, Left(T) \ {p})
  BY <1>5, <1>6, SumTake
<1>8. SumFunctionOnSet(f, T) = f[p] + SumFunctionOnSet(f, T \ {p})
  BY <1>2, SumPick
<1>9. SumFunctionOnSet(f, T \ {p}) \in Int /\ f[p] \in Int
  BY <1>1, <1>3, <1>6, SumInt
<1>10. SumFunctionOnSet(f, Left(T) \ {p}) =
         SumFunctionOnSet(f, T \ {p}) + SumFunctionOnSet(f, S \ R)
  BY <1>1, <1>4, <1>5
<1>11. SumFunctionOnSet(f, Left(T)) # SumFunctionOnSet(f, T) + SumFunctionOnSet(f, S \ R)
  BY <1>1
<1> HIDE DEF p, Left, Bad
<1> QED BY <1>0, <1>7, <1>8, <1>9, <1>10, <1>11

(* A sum of zeros is zero. *)
LEMMA SumZero ==
    ASSUME NEW S, IsFiniteSet(S), NEW f, \A x \in S : f[x] = 0
    PROVE SumFunctionOnSet(f, S) = 0
<1> DEFINE Bad == {T \in SUBSET S : SumFunctionOnSet(f, T) # 0}
<1> SUFFICES ASSUME Bad # {} PROVE FALSE
  OBVIOUS
<1>1. PICK T \in Bad : \A U \in Bad : U \subseteq T => U = T
  <2>1. Bad \subseteq SUBSET S
    OBVIOUS
  <2> HIDE DEF Bad
  <2> QED BY <2>1, SmallestSubset
<1>2. IsFiniteSet(T)
  BY FS_Subset
<1>3. CASE T = {}
  BY <1>3, SumEmpty
<1>4. CASE T # {}
  <2>1. PICK a \in T : TRUE
    BY <1>4
  <2>2. SumFunctionOnSet(f, T) = f[a] + SumFunctionOnSet(f, T \ {a})
    BY <1>2, SumTake
  <2>3. SumFunctionOnSet(f, T \ {a}) = 0
    BY <1>1
  <2> QED BY <2>2, <2>3
<1> QED BY <1>3, <1>4

(* A sum can be taken over another index set: where h picks a different index for
   every x, the sum of g over the x is the sum of f over the indices picked. *)
LEMMA SumImage ==
    ASSUME NEW S, IsFiniteSet(S), NEW R, IsFiniteSet(R), NEW h \in [S -> R],
           \A x, y \in S : h[x] = h[y] => x = y,
           NEW f, \A i \in R : f[i] \in Int,
           NEW g, \A x \in S : g[x] = f[h[x]]
    PROVE SumFunctionOnSet(g, S) = SumFunctionOnSet(f, {h[x] : x \in S})
<1> DEFINE Image(T) == {h[x] : x \in T}
           Bad == {T \in SUBSET S : SumFunctionOnSet(g, T) # SumFunctionOnSet(f, Image(T))}
<1> SUFFICES ASSUME Bad # {} PROVE FALSE
  OBVIOUS
<1>1. PICK T \in Bad : \A U \in Bad : U \subseteq T => U = T
  <2>1. Bad \subseteq SUBSET S
    OBVIOUS
  <2> HIDE DEF Bad
  <2> QED BY <2>1, SmallestSubset
<1>2. /\ T \subseteq S /\ IsFiniteSet(T)
      /\ Image(T) \subseteq R /\ IsFiniteSet(Image(T))
  BY FS_Subset
<1>3. CASE T = {}
  <2>1. Image(T) = {}
    BY <1>3
  <2>2. SumFunctionOnSet(g, {}) = 0 /\ SumFunctionOnSet(f, {}) = 0
    BY SumEmpty
  <2> HIDE DEF Image
  <2>3. SumFunctionOnSet(g, T) = SumFunctionOnSet(f, Image(T))
    BY <1>3, <2>1, <2>2
  <2> QED BY <2>3
<1>4. CASE T # {}
  <2>1. PICK a \in T : TRUE
    BY <1>4
  <2>2. Image(T \ {a}) = Image(T) \ {h[a]} /\ h[a] \in Image(T)
    BY <1>2
  <2>3. \A x \in T : g[x] \in Int
    BY <1>2
  <2>4. \A i \in Image(T) : f[i] \in Int
    BY <1>2
  <2>5. SumFunctionOnSet(g, T) = g[a] + SumFunctionOnSet(g, T \ {a})
    BY <1>2, <2>1, <2>3, SumTake
  <2>6. SumFunctionOnSet(f, Image(T)) = f[h[a]] + SumFunctionOnSet(f, Image(T) \ {h[a]})
    <3> HIDE DEF Image
    <3> QED BY <1>2, <2>2, <2>4, SumTake
  <2>7. SumFunctionOnSet(g, T \ {a}) = SumFunctionOnSet(f, Image(T \ {a}))
    BY <1>1, <2>1
  <2>8. g[a] = f[h[a]]
    BY <1>2
  <2>9. SumFunctionOnSet(g, T) = SumFunctionOnSet(f, Image(T))
    <3> HIDE DEF Image
    <3> QED BY <2>2, <2>5, <2>6, <2>7, <2>8
  <2> QED BY <2>9
<1> QED BY <1>3, <1>4

(* A part of numbers that are not negative sums up to no more than all of them. *)
LEMMA SumPart ==
    ASSUME NEW S, IsFiniteSet(S), NEW R \in SUBSET S, NEW f, \A x \in S : f[x] \in Nat
    PROVE SumFunctionOnSet(f, R) <= SumFunctionOnSet(f, S)
<1>1. SumFunctionOnSet(f, S) = SumFunctionOnSet(f, R) + SumFunctionOnSet(f, S \ R)
  BY SumSplit
<1>2. SumFunctionOnSet(f, R) \in Nat /\ SumFunctionOnSet(f, S \ R) \in Nat
  BY FS_Subset, SumNat
<1> QED BY <1>1, <1>2

(* The sum of two functions is the function of their sums. *)
LEMMA SumPlus ==
    ASSUME NEW S, IsFiniteSet(S), NEW f, NEW g, NEW h,
           \A x \in S : f[x] \in Int /\ g[x] \in Int /\ h[x] = f[x] + g[x]
    PROVE SumFunctionOnSet(h, S) = SumFunctionOnSet(f, S) + SumFunctionOnSet(g, S)
<1> DEFINE Bad == {T \in SUBSET S : SumFunctionOnSet(h, T) #
                                       SumFunctionOnSet(f, T) + SumFunctionOnSet(g, T)}
<1> SUFFICES ASSUME Bad # {} PROVE FALSE
  OBVIOUS
<1>1. PICK T \in Bad : \A U \in Bad : U \subseteq T => U = T
  <2>1. Bad \subseteq SUBSET S
    OBVIOUS
  <2> HIDE DEF Bad
  <2> QED BY <2>1, SmallestSubset
<1>2. IsFiniteSet(T) /\ T \subseteq S
  BY FS_Subset
<1>3. CASE T = {}
  BY <1>3, SumEmpty
<1>4. CASE T # {}
  <2>1. PICK a \in T : TRUE
    BY <1>4
  <2>2. \A x \in T : f[x] \in Int /\ g[x] \in Int /\ h[x] \in Int /\ h[x] = f[x] + g[x]
    BY <1>2
  <2>3. /\ SumFunctionOnSet(f, T) = f[a] + SumFunctionOnSet(f, T \ {a})
        /\ SumFunctionOnSet(g, T) = g[a] + SumFunctionOnSet(g, T \ {a})
        /\ SumFunctionOnSet(h, T) = h[a] + SumFunctionOnSet(h, T \ {a})
    BY <1>2, <2>2, SumTake
  <2>4. SumFunctionOnSet(h, T \ {a}) = SumFunctionOnSet(f, T \ {a}) + SumFunctionOnSet(g, T \ {a})
    BY <1>1
  <2>5. /\ SumFunctionOnSet(f, T \ {a}) \in Int /\ SumFunctionOnSet(g, T \ {a}) \in Int
        /\ f[a] \in Int /\ g[a] \in Int /\ h[a] = f[a] + g[a]
    <3>1. IsFiniteSet(T \ {a}) /\ \A x \in T \ {a} : f[x] \in Int /\ g[x] \in Int
      BY <1>2, <2>2, FS_Subset
    <3> QED BY <2>2, <3>1, SumInt
  <2> QED BY <2>3, <2>4, <2>5
<1> QED BY <1>3, <1>4
===============================================================================
