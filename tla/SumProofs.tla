------------------------------ MODULE SumProofs ------------------------------
(***************************************************************************)
(* Lemmas about sums over finite sets, which money, weights and costs are  *)
(* computed by.  SumFunctionOnSet folds the set in some order; that the    *)
(* order does not matter, and what one more element adds, is proved from   *)
(* the least counterexample.                                               *)
(***************************************************************************)
EXTENDS Integers, FiniteSetsExt, TLAPS, FiniteSetTheorems, WellFoundedInduction

\* A set of natural numbers that is not empty has a least.
LEMMA Smallest ==
  ASSUME NEW S \in SUBSET Nat, S # {}
  PROVE  \E x \in S : \A y \in S : x <= y
<1>1. PICK x \in S : \A y \in S : ~(<<y, x>> \in OpToRel(<, Nat))
  BY WFMin, NatLessThanWellFounded, Zenon
<1>2. \A y \in S : x <= y
  <2> TAKE y \in S
  <2>1. x \in Nat /\ y \in Nat
    OBVIOUS
  <2>2. ~(y < x)
    <3> SUFFICES ASSUME y < x PROVE FALSE
      OBVIOUS
    <3>1. <<y, x>> \in Nat \X Nat /\ <<y, x>>[1] < <<y, x>>[2]
      BY <2>1
    <3>2. <<y, x>> \in OpToRel(<, Nat)
      BY <3>1, Zenon DEF OpToRel
    <3>3. QED
      BY <1>1, <3>2
  <2>3. QED
    BY <2>1, <2>2
<1>3. QED
  BY <1>2

\* G gives every part of S its sum, in whatever order it is taken apart.
Additive(G, v, S) ==
  /\ G \in [SUBSET S -> Int]
  /\ G[{}] = 0
  /\ \A T \in SUBSET S : \A x \in T : G[T] = v[x] + G[T \ {x}]

Summed(v, S) == \A x \in S : v[x] \in Int

\* One element more.
LEMMA AdditiveGrows ==
  ASSUME NEW S, NEW z \in S, NEW v, Summed(v, S), NEW H, Additive(H, v, S \ {z})
  PROVE  \E G : Additive(G, v, S)
<1> DEFINE G == [T \in SUBSET S |-> IF z \in T THEN v[z] + H[T \ {z}] ELSE H[T]]
<1>1. \A T \in SUBSET S : T \ {z} \in SUBSET (S \ {z}) /\ H[T \ {z}] \in Int
  BY DEF Additive
<1>2. \A T \in SUBSET S : z \notin T => T \in SUBSET (S \ {z}) /\ T \ {z} = T
  OBVIOUS
<1>3. v[z] \in Int
  BY DEF Summed
<1>4. G \in [SUBSET S -> Int]
  <2>1. ASSUME NEW T \in SUBSET S
        PROVE  (IF z \in T THEN v[z] + H[T \ {z}] ELSE H[T]) \in Int
    <3>1. z \in T => v[z] + H[T \ {z}] \in Int
      BY <1>1, <1>3
    <3>2. z \notin T => H[T] \in Int
      BY <1>1, <1>2
    <3>3. QED
      BY <3>1, <3>2
  <2>2. QED
    BY <2>1
<1>5. G[{}] = 0
  BY DEF Additive
<1>6. ASSUME NEW T \in SUBSET S, NEW x \in T
      PROVE  G[T] = v[x] + G[T \ {x}]
  <2>1. T \ {x} \in SUBSET S /\ v[x] \in Int
    BY DEF Summed
  <2>2. CASE x = z
    <3>1. G[T] = v[z] + H[T \ {z}]
      BY <2>2
    <3>2. G[T \ {x}] = H[T \ {z}]
      BY <2>1, <2>2
    <3>3. QED
      BY <2>2, <3>1, <3>2
  <2>3. CASE x # z /\ z \in T
    <3>1. x \in T \ {z} /\ (T \ {z}) \ {x} = (T \ {x}) \ {z} /\ z \in T \ {x}
      BY <2>3
    <3>2. H[T \ {z}] = v[x] + H[(T \ {z}) \ {x}]
      BY <1>1, <3>1 DEF Additive
    <3>3. PICK h \in Int : h = H[(T \ {x}) \ {z}]
      BY <1>1, <2>1
    <3>4. G[T] = v[z] + (v[x] + h)
      BY <2>3, <3>1, <3>2, <3>3
    <3>5. G[T \ {x}] = v[z] + h
      BY <2>1, <3>1, <3>3
    <3>6. QED
      BY <1>3, <2>1, <3>4, <3>5
  <2>4. CASE z \notin T
    <3>1. T \in SUBSET (S \ {z}) /\ z \notin T \ {x}
      BY <2>4
    <3>2. H[T] = v[x] + H[T \ {x}]
      BY <3>1 DEF Additive
    <3>3. QED
      BY <2>1, <2>4, <3>1, <3>2
  <2>5. QED
    BY <2>2, <2>3, <2>4
<1>7. Additive(G, v, S)
  <2> HIDE DEF G
  <2>1. QED
    BY <1>4, <1>5, <1>6 DEF Additive
<1>8. QED
  BY <1>7

\* Every finite set has a sum.
LEMMA SumExists ==
  ASSUME NEW S, IsFiniteSet(S), NEW v, Summed(v, S)
  PROVE  \E G : Additive(G, v, S)
<1> DEFINE Lacking == {n \in Nat : \E T \in SUBSET S :
                         Cardinality(T) = n /\ ~\E G : Additive(G, v, T)}
<1>1. SUFFICES Lacking = {}
  <2>1. Cardinality(S) \in Nat
    BY FS_CardinalityType
  <2>2. QED
    BY <2>1
<1>2. SUFFICES ASSUME Lacking # {} PROVE FALSE
  OBVIOUS
<1>3. PICK n \in Lacking : \A m \in Lacking : n <= m
  <2>1. Lacking \in SUBSET Nat
    OBVIOUS
  <2> HIDE DEF Lacking
  <2>2. QED
    BY <1>2, <2>1, Smallest
<1>4. PICK T \in SUBSET S : Cardinality(T) = n /\ ~\E G : Additive(G, v, T)
  BY <1>3
<1>5. IsFiniteSet(T) /\ n \in Nat /\ Summed(v, T)
  BY <1>3, FS_Subset DEF Summed
<1>6. CASE T = {}
  <2> DEFINE G == [U \in SUBSET T |-> 0]
  <2>1. Additive(G, v, T)
    BY <1>6 DEF Additive
  <2>2. QED
    BY <1>4, <2>1
<1>7. CASE T # {}
  <2>1. PICK z \in T : TRUE
    BY <1>7
  <2>2. Cardinality(T \ {z}) = n - 1 /\ n - 1 \in Nat
    <3>1. IsFiniteSet(T \ {z}) /\ Cardinality(T \ {z}) = n - 1
      BY <1>4, <1>5, <2>1, FS_RemoveElement
    <3>2. QED
      BY <3>1, FS_CardinalityType
  <2>3. ~(n - 1 \in Lacking)
    <3> HIDE DEF Lacking
    <3>1. QED
      BY <1>3, <1>5
  <2>4. PICK H : Additive(H, v, T \ {z})
    BY <2>2, <2>3
  <2>5. QED
    BY <1>4, <1>5, <2>1, <2>4, AdditiveGrows
<1>8. QED
  BY <1>6, <1>7

\* It is what the fold computes.
LEMMA SumIsAdditive ==
  ASSUME NEW S, IsFiniteSet(S), NEW v, NEW G, Additive(G, v, S)
  PROVE  \A R \in SUBSET S : SumFunctionOnSet(v, R) = G[R]
<1> TAKE R \in SUBSET S
<1> DEFINE pick(T) == CHOOSE x \in T : TRUE
           Body(g) == [T \in SUBSET R |-> IF T = {} THEN 0 ELSE v[pick(T)] + g[T \ {pick(T)}]]
           w == [T \in SUBSET R |-> G[T]]
<1>1. \A T : T # {} => pick(T) \in T
  OBVIOUS
<1>2. \A T \in SUBSET R : IsFiniteSet(T) /\ T \in SUBSET S
  BY FS_Subset
<1> HIDE DEF pick
<1>3. w = Body(w)
  <2>1. ASSUME NEW T \in SUBSET R
        PROVE  w[T] = IF T = {} THEN 0 ELSE v[pick(T)] + w[T \ {pick(T)}]
    <3>1. w[T] = G[T] /\ w[T \ {pick(T)}] = G[T \ {pick(T)}]
      OBVIOUS
    <3>2. T = {} => G[T] = 0
      BY DEF Additive
    <3>3. T # {} => G[T] = v[pick(T)] + G[T \ {pick(T)}]
      BY <1>1, <1>2 DEF Additive
    <3>4. QED
      BY <3>1, <3>2, <3>3
  <2>2. QED
    BY <2>1
<1>4. PICK g : g = (CHOOSE f : f = Body(f))
  OBVIOUS
<1>5. g = Body(g)
  <2>1. (\E f : f = Body(f)) => (CHOOSE f : f = Body(f)) = Body(CHOOSE f : f = Body(f))
    BY Zenon
  <2>2. QED
    BY <1>3, <1>4, <2>1, Zenon
<1>6. SumFunctionOnSet(v, R) = g[R]
  BY <1>4 DEF SumFunctionOnSet, FoldFunctionOnSet, MapThenFoldSet, pick
<1>7. \A T \in SUBSET R : g[T] = w[T]
  <2> DEFINE Wrong == {n \in Nat : \E T \in SUBSET R : Cardinality(T) = n /\ g[T] # w[T]}
  <2>1. SUFFICES ASSUME Wrong # {} PROVE FALSE
    BY <1>2, FS_CardinalityType
  <2>2. PICK n \in Wrong : \A m \in Wrong : n <= m
    <3>1. Wrong \in SUBSET Nat
      OBVIOUS
    <3> HIDE DEF Wrong
    <3>2. QED
      BY <2>1, <3>1, Smallest
  <2>3. PICK T \in SUBSET R : Cardinality(T) = n /\ g[T] # w[T]
    BY <2>2
  <2>4. T # {}
    BY <1>3, <1>5, <2>3
  <2>5. pick(T) \in T /\ T \ {pick(T)} \in SUBSET R /\ IsFiniteSet(T)
    BY <1>1, <1>2, <2>4
  <2>6. Cardinality(T \ {pick(T)}) = n - 1 /\ n \in Nat /\ n - 1 \in Nat
    <3>1. Cardinality(T \ {pick(T)}) = n - 1 /\ IsFiniteSet(T \ {pick(T)})
      BY <2>3, <2>5, FS_RemoveElement
    <3>2. QED
      BY <3>1, <2>2, FS_CardinalityType
  <2>7. g[T \ {pick(T)}] = w[T \ {pick(T)}]
    <3>1. ~(n - 1 \in Wrong)
      <4> HIDE DEF Wrong
      <4>1. QED
        BY <2>2, <2>6
    <3>2. QED
      BY <3>1, <2>5, <2>6
  <2>8. g[T] = v[pick(T)] + g[T \ {pick(T)}]
    BY <1>5, <2>4
  <2>9. w[T] = v[pick(T)] + w[T \ {pick(T)}]
    BY <1>3, <2>4, <2>5, Zenon
  <2>10. QED
    BY <2>3, <2>7, <2>8, <2>9
<1>8. QED
  BY <1>6, <1>7

\* A sum is a number, and an element adds its own value to it.
LEMMA SumStep ==
  ASSUME NEW S, IsFiniteSet(S), NEW v, Summed(v, S)
  PROVE  /\ SumFunctionOnSet(v, S) \in Int
         /\ SumFunctionOnSet(v, {}) = 0
         /\ \A x \in S : SumFunctionOnSet(v, S) = v[x] + SumFunctionOnSet(v, S \ {x})
<1>1. PICK G : Additive(G, v, S)
  BY SumExists
<1>2. \A R \in SUBSET S : SumFunctionOnSet(v, R) = G[R]
  BY <1>1, SumIsAdditive
<1>3. SumFunctionOnSet(v, S) = G[S] /\ SumFunctionOnSet(v, {}) = G[{}]
      /\ \A x \in S : SumFunctionOnSet(v, S \ {x}) = G[S \ {x}]
  BY <1>2
<1>4. QED
  BY <1>1, <1>3 DEF Additive

\* Only the values on the set matter.
LEMMA SumSame ==
  ASSUME NEW S, IsFiniteSet(S), NEW v, NEW u, Summed(v, S), \A x \in S : u[x] = v[x]
  PROVE  SumFunctionOnSet(u, S) = SumFunctionOnSet(v, S)
<1>1. PICK G : Additive(G, v, S)
  BY SumExists
<1>2. Additive(G, u, S)
  BY <1>1 DEF Additive
<1>3. S \in SUBSET S
  OBVIOUS
<1>4. QED
  BY <1>1, <1>2, <1>3, SumIsAdditive

\* One element more adds its value, and the others keep theirs.
LEMMA SumGrows ==
  ASSUME NEW S, IsFiniteSet(S), NEW z, z \notin S, NEW v, NEW u,
         Summed(v, S), u[z] \in Int, \A x \in S : u[x] = v[x]
  PROVE  /\ SumFunctionOnSet(v, S) \in Int
         /\ SumFunctionOnSet(u, S \cup {z}) = u[z] + SumFunctionOnSet(v, S)
<1>1. IsFiniteSet(S \cup {z})
  BY FS_AddElement
<1>2. Summed(u, S \cup {z})
  BY DEF Summed
<1>3. SumFunctionOnSet(u, S \cup {z}) = u[z] + SumFunctionOnSet(u, (S \cup {z}) \ {z})
  BY <1>1, <1>2, SumStep
<1>4. (S \cup {z}) \ {z} = S
  OBVIOUS
<1>5. SumFunctionOnSet(u, S) = SumFunctionOnSet(v, S) /\ SumFunctionOnSet(v, S) \in Int
  BY SumSame, SumStep
<1>6. QED
  BY <1>3, <1>4, <1>5
=============================================================================
