----------------------------- MODULE FiniteSums -----------------------------
(* What SumFunction of the community modules returns for a function with finitely many  *)
(* indices and natural values, and the induction over the subsets of a finite set that  *)
(* shows it.  The lemmas are about any function; the account's proofs use them for the  *)
(* shares of the users and the assets in notes and wallets.                             *)
EXTENDS Integers, FiniteSets, Functions, FiniteSetTheorems, WellFoundedInduction, TLAPS

\* A set of naturals with a member has a least one.
LEMMA LeastMember == ASSUME NEW S \in SUBSET Nat, S # {} PROVE \E n \in S : \A m \in S : n <= m
<1> DEFINE R == OpToRel(<, Nat)
<1>1. IsWellFoundedOn(R, Nat)
  BY NatLessThanWellFounded
<1>2. \A x, y \in Nat : x < y => <<x, y>> \in R
  BY DEF OpToRel
<1> HIDE DEF R
<1>3. PICK n \in S : \A y \in S : ~ (<<y, n>> \in R)
  BY <1>1, WFMin
<1>4. ASSUME NEW m \in S PROVE n <= m
  <2>1. m \in Nat /\ n \in Nat
    OBVIOUS
  <2>2. ~ (m < n)
    BY <1>2, <1>3, <2>1
  <2>3. QED
    BY <2>1, <2>2
<1>5. QED
  BY <1>4

\* What is left of a finite set without one of its members is smaller by one.
LEMMA WithoutOne ==
  ASSUME NEW s, IsFiniteSet(s), NEW y \in s
  PROVE  /\ IsFiniteSet(s \ {y}) /\ Cardinality(s) \in Nat /\ Cardinality(s \ {y}) \in Nat
         /\ Cardinality(s \ {y}) + 1 = Cardinality(s)
<1>1. /\ IsFiniteSet(s \ {y})
      /\ Cardinality(s \ {y}) = Cardinality(s) - 1
  BY FS_RemoveElement
<1>2. Cardinality(s) \in Nat /\ Cardinality(s \ {y}) \in Nat
  BY <1>1, FS_CardinalityType
<1>3. QED
  BY <1>1, <1>2

\* What holds of the empty set, and of a set when it holds of the set without any one
\* member, holds of all subsets of a finite set.
LEMMA SubsetsInduction ==
  ASSUME NEW S, IsFiniteSet(S), NEW A \in SUBSET SUBSET S, {} \in A,
         \A s \in SUBSET S : s # {} /\ (\A y \in s : s \ {y} \in A) => s \in A
  PROVE  A = SUBSET S
<1> DEFINE Sizes == {Cardinality(s) : s \in (SUBSET S) \ A}
<1>1. \A s \in SUBSET S : IsFiniteSet(s) /\ Cardinality(s) \in Nat
  BY FS_Subset, FS_CardinalityType
<1>2. SUFFICES ASSUME (SUBSET S) \ A # {} PROVE FALSE
  OBVIOUS
<1>3. Sizes \in SUBSET Nat /\ Sizes # {}
  BY <1>1, <1>2
<1>4. PICK n \in Sizes : \A m \in Sizes : n <= m
  BY <1>3, LeastMember
<1>5. PICK s \in (SUBSET S) \ A : Cardinality(s) = n
  BY <1>4
<1>6. ASSUME NEW y \in s PROVE s \ {y} \in A
  <2>1. SUFFICES ASSUME s \ {y} \notin A PROVE FALSE
    OBVIOUS
  <2>2. s \ {y} \in (SUBSET S) \ A
    BY <2>1, <1>5
  <2>3. n <= Cardinality(s \ {y})
    BY <2>2, <1>4
  <2>4. QED
    BY <1>1, <1>5, <2>3, WithoutOne
<1>7. QED
  BY <1>5, <1>6

-----------------------------------------------------------------------------
(* Sums of functions: what SumFunction of the community modules returns *)

Member(s) == CHOOSE y \in s : TRUE

\* The table that SumFunction fills: the sum of f over every set of indices.
Table(f) == CHOOSE iter : iter = [s \in SUBSET DOMAIN f |->
   IF s = {} THEN 0 ELSE LET x == Member(s) IN f[x] + iter[s \ {x}]]

\* SumFunction reads the entry of all indices.
LEMMA SumIsTable == ASSUME NEW f PROVE SumFunction(f) = Table(f)[DOMAIN f]
  BY DEF SumFunction, SumFunctionOnSet, FoldFunctionOnSet, MapThenFoldSet, Table, Member

\* g is the table of f, for the sets of indices in D.
Fills(g, f, D) == g = [s \in D |-> IF s = {} THEN 0 ELSE f[Member(s)] + g[s \ {Member(s)}]]

\* A function with finitely many indices has a table.
LEMMA TableExists ==
  ASSUME NEW f, IsFiniteSet(DOMAIN f)
  PROVE  \E g : Fills(g, f, SUBSET DOMAIN f)
<1> DEFINE S == DOMAIN f
           D(k) == {s \in SUBSET S : Cardinality(s) <= k}
           Bad == {k \in Nat : ~ \E g : Fills(g, f, D(k))}
<1>1. \A s \in SUBSET S : IsFiniteSet(s) /\ Cardinality(s) \in Nat
  BY FS_Subset, FS_CardinalityType
<1>2. Cardinality(S) \in Nat /\ D(Cardinality(S)) = SUBSET S
  <2>1. \A s \in SUBSET S : Cardinality(s) <= Cardinality(S)
    BY FS_Subset
  <2>2. QED
    BY <1>1, <2>1
<1>3. SUFFICES ASSUME Bad # {} PROVE FALSE
  BY <1>2
<1>4. PICK k \in Bad : \A m \in Bad : k <= m
  BY <1>3, LeastMember
<1>5. \A s \in SUBSET S : s # {} => Member(s) \in s
  BY DEF Member
<1>6. k # 0
  <2>1. \A s \in D(0) : s = {}
    BY <1>1, FS_EmptySet
  <2>2. Fills([s \in D(0) |-> 0], f, D(0))
    BY <2>1 DEF Fills
  <2>3. QED
    BY <2>2
<1>7. PICK g : Fills(g, f, D(k - 1))
  <2>1. k \in Nat /\ k - 1 \in Nat /\ ~ (k <= k - 1)
    BY <1>6
  <2>2. k - 1 \notin Bad
    BY <1>4, <2>1
  <2>3. QED
    BY <2>1, <2>2
<1> DEFINE h == [s \in D(k) |-> IF s = {} THEN 0 ELSE f[Member(s)] + g[s \ {Member(s)}]]
<1>8. ASSUME NEW s \in D(k), s # {} PROVE s \ {Member(s)} \in D(k - 1) /\ s \ {Member(s)} \in D(k)
  <2>1. Member(s) \in s /\ k \in Nat /\ IsFiniteSet(s)
    BY <1>1, <1>5, <1>8
  <2>2. Cardinality(s \ {Member(s)}) + 1 = Cardinality(s) /\ Cardinality(s \ {Member(s)}) \in Nat
    BY <2>1, WithoutOne
  <2>3. Cardinality(s) <= k /\ Cardinality(s) \in Nat
    BY <1>1
  <2>4. Cardinality(s \ {Member(s)}) <= k - 1 /\ Cardinality(s \ {Member(s)}) <= k
    BY <2>1, <2>2, <2>3
  <2>5. QED
    BY <2>4
<1>9. \A t \in D(k - 1) : t \in D(k) => h[t] = g[t]
  BY <1>7 DEF Fills
<1>10. Fills(h, f, D(k))
  <2> HIDE DEF D
  <2>1. \A s \in D(k) : s # {} => h[s \ {Member(s)}] = g[s \ {Member(s)}]
    BY <1>8, <1>9
  <2> DEFINE u == [s \in D(k) |-> IF s = {} THEN 0 ELSE f[Member(s)] + h[s \ {Member(s)}]]
  <2>2. \A s \in D(k) : h[s] = u[s]
    BY <2>1
  <2>3. h = u
    BY <2>2
  <2>4. QED
    BY <2>3 DEF Fills
<1>11. QED
  BY <1>10

\* What the table says of a set of indices.
LEMMA TableFills ==
  ASSUME NEW f, IsFiniteSet(DOMAIN f)
  PROVE  /\ Table(f)[{}] = 0
         /\ \A s \in SUBSET DOMAIN f : s # {} =>
              Member(s) \in s /\ Table(f)[s] = f[Member(s)] + Table(f)[s \ {Member(s)}]
<1>1. Fills(Table(f), f, SUBSET DOMAIN f)
  BY TableExists DEF Fills, Table
<1>2. QED
  BY <1>1 DEF Fills, Member

\* A table of naturals holds naturals.
LEMMA TableNat ==
  ASSUME NEW f, IsFiniteSet(DOMAIN f), \A x \in DOMAIN f : f[x] \in Nat
  PROVE  \A s \in SUBSET DOMAIN f : Table(f)[s] \in Nat
<1> DEFINE S == DOMAIN f
           A == {s \in SUBSET S : Table(f)[s] \in Nat}
<1>1. {} \in A
  BY TableFills
<1>2. ASSUME NEW s \in SUBSET S, s # {}, \A y \in s : s \ {y} \in A PROVE s \in A
  <2>1. Member(s) \in s /\ Table(f)[s] = f[Member(s)] + Table(f)[s \ {Member(s)}]
    BY <1>2, TableFills
  <2>2. f[Member(s)] \in Nat /\ Table(f)[s \ {Member(s)}] \in Nat
    BY <1>2, <2>1
  <2>3. QED
    BY <2>1, <2>2
<1>3. A = SUBSET S
  <2> HIDE DEF A
  <2>1. A \in SUBSET SUBSET S
    BY DEF A
  <2>2. QED
    BY <1>1, <1>2, <2>1, SubsetsInduction
<1>4. QED
  BY <1>3

\* Whichever index is taken first, the sum is the same.
LEMMA TableOfAny ==
  ASSUME NEW f, IsFiniteSet(DOMAIN f), \A x \in DOMAIN f : f[x] \in Nat
  PROVE  \A s \in SUBSET DOMAIN f : \A y \in s : Table(f)[s] = f[y] + Table(f)[s \ {y}]
<1> DEFINE S == DOMAIN f
           A == {s \in SUBSET S : \A y \in s : Table(f)[s] = f[y] + Table(f)[s \ {y}]}
<1>1. {} \in A
  OBVIOUS
<1>2. ASSUME NEW s \in SUBSET S, s # {}, \A y \in s : s \ {y} \in A PROVE s \in A
  <2> DEFINE x == Member(s)
  <2>1. x \in s /\ Table(f)[s] = f[x] + Table(f)[s \ {x}]
    BY <1>2, TableFills
  <2> HIDE DEF x
  <2>2. ASSUME NEW y \in s PROVE Table(f)[s] = f[y] + Table(f)[s \ {y}]
    <3>1. CASE y = x
      BY <2>1, <3>1
    <3>2. CASE y # x
      <4> DEFINE r == (s \ {x}) \ {y}
      <4>1. s \ {x} \in A /\ s \ {y} \in A
        BY <1>2, <2>1
      <4>2. y \in s \ {x} /\ x \in s \ {y} /\ r = (s \ {y}) \ {x}
        BY <2>1, <3>2
      <4>3. Table(f)[s \ {x}] = f[y] + Table(f)[r]
        BY <4>1, <4>2
      <4>4. Table(f)[s \ {y}] = f[x] + Table(f)[r]
        <5>1. Table(f)[s \ {y}] = f[x] + Table(f)[(s \ {y}) \ {x}]
          BY <4>1, <4>2
        <5>2. QED
          BY <5>1, <4>2
      <4>5. f[x] \in Nat /\ f[y] \in Nat
        BY <2>1
      <4>6. Table(f)[r] \in Nat
        BY TableNat
      <4> HIDE DEF r
      <4>7. QED
        BY <2>1, <4>3, <4>4, <4>5, <4>6
    <3>3. QED
      BY <3>1, <3>2
  <2>3. QED
    BY <2>2
<1>3. A = SUBSET S
  <2> HIDE DEF A
  <2>1. A \in SUBSET SUBSET S
    BY DEF A
  <2>2. QED
    BY <1>1, <1>2, <2>1, SubsetsInduction
<1>4. QED
  BY <1>3

\* Functions that agree on some indices have the same sum over these.
LEMMA TablesAgree ==
  ASSUME NEW f, NEW g, IsFiniteSet(DOMAIN f), IsFiniteSet(DOMAIN g),
         NEW T, T \subseteq DOMAIN f, T \subseteq DOMAIN g, \A x \in T : f[x] = g[x]
  PROVE  Table(f)[T] = Table(g)[T]
<1> DEFINE A == {s \in SUBSET T : Table(f)[s] = Table(g)[s]}
<1>1. {} \in A
  BY TableFills
<1>2. ASSUME NEW s \in SUBSET T, s # {}, \A y \in s : s \ {y} \in A PROVE s \in A
  <2>1. /\ Member(s) \in s
        /\ Table(f)[s] = f[Member(s)] + Table(f)[s \ {Member(s)}]
        /\ Table(g)[s] = g[Member(s)] + Table(g)[s \ {Member(s)}]
    BY <1>2, TableFills
  <2>2. f[Member(s)] = g[Member(s)] /\ Table(f)[s \ {Member(s)}] = Table(g)[s \ {Member(s)}]
    BY <1>2, <2>1
  <2>3. QED
    BY <2>1, <2>2
<1>3. IsFiniteSet(T)
  BY FS_Subset
<1>4. A = SUBSET T
  <2> HIDE DEF A
  <2>1. A \in SUBSET SUBSET T
    BY DEF A
  <2>2. QED
    BY <1>1, <1>2, <1>3, <2>1, SubsetsInduction
<1>5. QED
  BY <1>4

\* The sum of naturals is a natural, and nothing sums up to zero.
LEMMA SumIsNat ==
  ASSUME NEW S, IsFiniteSet(S), NEW f \in [S -> Nat]
  PROVE  SumFunction(f) \in Nat /\ (S = {} => SumFunction(f) = 0)
<1>1. DOMAIN f = S /\ \A x \in DOMAIN f : f[x] \in Nat
  OBVIOUS
<1>2. Table(f)[DOMAIN f] \in Nat
  BY <1>1, TableNat
<1>3. S = {} => Table(f)[DOMAIN f] = 0
  BY <1>1, TableFills
<1>4. QED
  BY <1>2, <1>3, SumIsTable

\* One more index adds its value to the sum.
LEMMA SumWithOneMore ==
  ASSUME NEW S, IsFiniteSet(S), NEW y, y \notin S,
         NEW f \in [S -> Nat], NEW g \in [S \cup {y} -> Nat], \A x \in S : g[x] = f[x]
  PROVE  SumFunction(g) = SumFunction(f) + g[y]
<1> DEFINE T == S \cup {y}
<1>1. IsFiniteSet(T) /\ DOMAIN g = T /\ DOMAIN f = S /\ T \ {y} = S /\ y \in T /\ S \subseteq T
  BY FS_AddElement
<1>2. \A x \in DOMAIN g : g[x] \in Nat
  BY <1>1
<1>3. Table(g)[T] = g[y] + Table(g)[S]
  <2>1. \A s \in SUBSET DOMAIN g : \A z \in s : Table(g)[s] = g[z] + Table(g)[s \ {z}]
    BY <1>1, <1>2, TableOfAny
  <2>2. QED
    BY <1>1, <2>1
<1>4. Table(g)[S] = Table(f)[S]
  BY <1>1, TablesAgree
<1>5. Table(f)[S] \in Nat /\ g[y] \in Nat
  BY <1>1, TableNat
<1>6. SumFunction(g) = Table(g)[T] /\ SumFunction(f) = Table(f)[S]
  BY <1>1, SumIsTable
<1>7. QED
  BY <1>3, <1>4, <1>5, <1>6

\* A change of one value changes the sum by as much.
LEMMA SumWithOneChanged ==
  ASSUME NEW S, IsFiniteSet(S), NEW y \in S, NEW f \in [S -> Nat], NEW g \in [S -> Nat],
         \A x \in S \ {y} : g[x] = f[x]
  PROVE  SumFunction(g) + f[y] = SumFunction(f) + g[y]
<1> DEFINE R == S \ {y}
           h == [x \in R |-> f[x]]
<1>1. IsFiniteSet(R) /\ y \notin R /\ R \cup {y} = S /\ h \in [R -> Nat]
  BY FS_RemoveElement
<1>2. (\A x \in R : f[x] = h[x]) /\ \A x \in R : g[x] = h[x]
  OBVIOUS
<1> HIDE DEF R, h
<1>3. SumFunction(f) = SumFunction(h) + f[y]
  BY <1>1, <1>2, SumWithOneMore
<1>4. SumFunction(g) = SumFunction(h) + g[y]
  BY <1>1, <1>2, SumWithOneMore
<1>5. SumFunction(h) \in Nat /\ f[y] \in Nat /\ g[y] \in Nat
  BY <1>1, SumIsNat
<1>6. QED
  BY <1>3, <1>4, <1>5

\* A value that every index has is summed as often as there are indices.
LEMMA SumOfConstant ==
  ASSUME NEW S, IsFiniteSet(S), NEW c \in Nat
  PROVE  SumFunction([x \in S |-> c]) = c * Cardinality(S)
<1> DEFINE A == {s \in SUBSET S : SumFunction([x \in s |-> c]) = c * Cardinality(s)}
<1>1. {} \in A
  <2>1. SumFunction([x \in {} |-> c]) = 0
    BY FS_EmptySet, SumIsNat
  <2>2. Cardinality({}) = 0
    BY FS_EmptySet
  <2>3. QED
    BY <2>1, <2>2
<1>2. ASSUME NEW s \in SUBSET S, s # {}, \A y \in s : s \ {y} \in A PROVE s \in A
  <2>1. PICK y \in s : TRUE
    BY <1>2
  <2> DEFINE r == s \ {y}
  <2>2. /\ IsFiniteSet(r) /\ Cardinality(r) \in Nat /\ Cardinality(s) = Cardinality(r) + 1
        /\ y \notin r /\ s = r \cup {y}
    BY FS_Subset, WithoutOne
  <2>3. SumFunction([x \in r |-> c]) = c * Cardinality(r)
    BY <1>2
  <2> HIDE DEF r, A
  <2>4. SumFunction([x \in s |-> c]) = SumFunction([x \in r |-> c]) + c
    <3> DEFINE f == [x \in r |-> c]
               g == [x \in s |-> c]
    <3>1. f \in [r -> Nat] /\ g \in [r \cup {y} -> Nat] /\ (\A x \in r : g[x] = f[x]) /\ g[y] = c
      BY <2>2
    <3> HIDE DEF f, g
    <3>2. SumFunction(g) = SumFunction(f) + g[y]
      BY <2>2, <3>1, SumWithOneMore
    <3>3. QED
      BY <3>1, <3>2 DEF f, g
  <2>5. c * Cardinality(s) = c * Cardinality(r) + c
    BY <2>2
  <2>6. QED
    BY <2>3, <2>4, <2>5 DEF A
<1>3. A = SUBSET S
  <2> HIDE DEF A
  <2>1. A \in SUBSET SUBSET S
    BY DEF A
  <2>2. QED
    BY <1>1, <1>2, <2>1, SubsetsInduction
<1>4. QED
  BY <1>3
=============================================================================
