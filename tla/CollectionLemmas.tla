-------------------------- MODULE CollectionLemmas --------------------------
(***************************************************************************)
(* Sums over finite sets, as the models write them: MapThenSumSet, whose   *)
(* recursion takes the elements in the order CHOOSE gives them. Least      *)
(* elements, sequences without one of their entries, the sequence of a set *)
(* in the order of a key, and what any sequence of a whole set is like.    *)
(*                                                                         *)
(* The library's induction theorems have an operator as a parameter, which *)
(* no installed prover can instantiate. What it says of well-founded       *)
(* relations (WFMin) has none: an induction is then over the set of what   *)
(* the statement holds for.                                                *)
(***************************************************************************)
EXTENDS Naturals, Sequences, SequencesExt, FiniteSets, FiniteSetsExt, FiniteSetTheorems, SequenceTheorems, TLAPS

SumOver(f, S) == MapThenSumSet(LAMBDA e : f[e], S)

-----------------------------------------------------------------------------
(* Induction over the subsets of a finite set *)

LEMMA StrongSetInduction ==
    ASSUME NEW S, IsFiniteSet(S), NEW T,
           \A U \in SUBSET S : (\A V \in SUBSET U : V # U => V \in T) => U \in T
    PROVE  SUBSET S \subseteq T
<1> DEFINE R == StrictSubsetOrdering(S)
           Rest == (SUBSET S) \ T
<1>1. SUFFICES ASSUME Rest # {} PROVE FALSE
  OBVIOUS
<1>2. IsWellFoundedOn(R, SUBSET S)
  BY FS_StrictSubsetOrderingWellFounded, FS_FiniteSubsetsOfFinite
<1>3. PICK U \in Rest : \A V \in Rest : <<V, U>> \notin R
  <2>1. Rest \subseteq SUBSET S
    OBVIOUS
  <2> HIDE DEF R, Rest
  <2> QED
    BY <1>1, <1>2, <2>1, WFMin
<1>4. ASSUME NEW V \in SUBSET U, V # U PROVE V \in T
  <2>1. <<V, U>> \in R
    BY <1>4 DEF StrictSubsetOrdering
  <2> QED
    BY <1>3, <2>1
<1> QED
  BY <1>4

-----------------------------------------------------------------------------
(* The recursion of MapThenSumSet *)

First(S) == CHOOSE x \in S : TRUE
Iterates(f, S, it) == it = [s \in SUBSET S |-> IF s = {} THEN 0 ELSE f[First(s)] + it[s \ {First(s)}]]
\* What the recursion should give for S, from what it gives for less.
Unfolded(f, S) == IF S = {} THEN 0 ELSE f[First(S)] + SumOver(f, S \ {First(S)})

LEMMA SumIterates ==
    ASSUME NEW f, NEW S
    PROVE  SumOver(f, S) = (CHOOSE it : Iterates(f, S, it))[S]
  BY Zenon DEF SumOver, MapThenSumSet, MapThenFoldSet, Iterates, First

LEMMA FirstIsElement == ASSUME NEW S, S # {} PROVE First(S) \in S
  BY DEF First

\* On the subsets of U, smaller ones being right, the recursion exists and is right.
LEMMA IterationIsSum ==
    ASSUME NEW f, NEW U, IsFiniteSet(U),
           \A V \in SUBSET U : V # U => SumOver(f, V) = Unfolded(f, V)
    PROVE  SumOver(f, U) = Unfolded(f, U)
<1> DEFINE it0 == [s \in SUBSET U |-> Unfolded(f, s)]
<1>1. \A s \in SUBSET U : s # {} => s \ {First(s)} \in SUBSET U /\ s \ {First(s)} # U
  BY FirstIsElement
<1>2. Iterates(f, U, it0)
  <2>1. ASSUME NEW s \in SUBSET U, s # {} PROVE it0[s \ {First(s)}] = SumOver(f, s \ {First(s)})
    BY <1>1, <2>1
  <2>2. \A s \in SUBSET U : Unfolded(f, s) = IF s = {} THEN 0 ELSE f[First(s)] + it0[s \ {First(s)}]
    BY <2>1 DEF Unfolded
  <2> QED
    BY <2>2 DEF Iterates
<1> DEFINE it == CHOOSE it : Iterates(f, U, it)
<1>3. Iterates(f, U, it)
  BY <1>2
<1>4. \A s \in SUBSET U : it[s] = IF s = {} THEN 0 ELSE f[First(s)] + it[s \ {First(s)}]
  <2> HIDE DEF it
  <2> QED
    BY <1>3 DEF Iterates
<1> HIDE DEF it
<1>5. \A s \in SUBSET U : s # U => it[s] = SumOver(f, s)
  <2> DEFINE T == {s \in SUBSET U : s # U => it[s] = SumOver(f, s)}
  <2>1. ASSUME NEW s \in SUBSET U, \A v \in SUBSET s : v # s => v \in T, s # U
        PROVE  it[s] = SumOver(f, s)
    <3>1. SumOver(f, s) = Unfolded(f, s)
      BY <2>1
    <3>2. CASE s = {}
      BY <1>4, <3>1, <3>2 DEF Unfolded
    <3>3. CASE s # {}
      <4>1. s \ {First(s)} \in SUBSET s /\ s \ {First(s)} # s /\ s \ {First(s)} # U
        BY <1>1, <3>3, FirstIsElement
      <4>2. it[s \ {First(s)}] = SumOver(f, s \ {First(s)})
        BY <2>1, <4>1
      <4> QED
        BY <1>4, <3>1, <3>3, <4>2 DEF Unfolded
    <3> QED
      BY <3>2, <3>3
  <2>2. \A s \in SUBSET U : (\A v \in SUBSET s : v # s => v \in T) => s \in T
    BY <2>1
  <2>3. SUBSET U \subseteq T
    <3> HIDE DEF T
    <3> QED
      BY <2>2, StrongSetInduction
  <2> QED
    BY <2>3
<1>6. SumOver(f, U) = it[U]
  BY SumIterates DEF it
<1>7. CASE U = {}
  BY <1>4, <1>6, <1>7 DEF Unfolded
<1>8. CASE U # {}
  BY <1>1, <1>4, <1>5, <1>6, <1>8 DEF Unfolded
<1> QED
  BY <1>7, <1>8

LEMMA SumUnfolds ==
    ASSUME NEW f, NEW S, IsFiniteSet(S)
    PROVE  SumOver(f, S) = Unfolded(f, S)
<1> DEFINE T == {U \in SUBSET S : SumOver(f, U) = Unfolded(f, U)}
<1>1. \A U \in SUBSET S : (\A V \in SUBSET U : V # U => V \in T) => U \in T
  BY IterationIsSum, FS_Subset
<1>2. SUBSET S \subseteq T
  <2> HIDE DEF T
  <2> QED
    BY <1>1, StrongSetInduction
<1> QED
  BY <1>2

-----------------------------------------------------------------------------
(* Sums *)

LEMMA SumEmpty == ASSUME NEW f PROVE SumOver(f, {}) = 0
  BY SumUnfolds, FS_EmptySet DEF Unfolded

LEMMA SumNat ==
    ASSUME NEW f, NEW S, IsFiniteSet(S), \A x \in S : f[x] \in Nat
    PROVE  SumOver(f, S) \in Nat
<1> DEFINE T == {U \in SUBSET S : SumOver(f, U) \in Nat}
<1>1. ASSUME NEW U \in SUBSET S, \A V \in SUBSET U : V # U => V \in T PROVE U \in T
  <2>1. SumOver(f, U) = Unfolded(f, U)
    BY SumUnfolds, FS_Subset
  <2>2. CASE U # {}
    <3>1. U \ {First(U)} \in T /\ f[First(U)] \in Nat
      BY <1>1, <2>2, FirstIsElement
    <3> QED
      BY <2>1, <2>2, <3>1 DEF Unfolded
  <2> QED
    BY <2>1, <2>2 DEF Unfolded
<1>2. SUBSET S \subseteq T
  <2> HIDE DEF T
  <2> QED
    BY <1>1, StrongSetInduction
<1> QED
  BY <1>2

\* Any element may be the first.
LEMMA SumRemove ==
    ASSUME NEW f, NEW S, IsFiniteSet(S), \A x \in S : f[x] \in Nat, NEW y \in S
    PROVE  SumOver(f, S) = f[y] + SumOver(f, S \ {y})
<1> DEFINE T == {U \in SUBSET S : \A x \in U : SumOver(f, U) = f[x] + SumOver(f, U \ {x})}
<1>1. ASSUME NEW U \in SUBSET S, \A V \in SUBSET U : V # U => V \in T, NEW x \in U
      PROVE  SumOver(f, U) = f[x] + SumOver(f, U \ {x})
  <2> DEFINE c == First(U)
  <2>1. c \in U
    BY FirstIsElement
  <2>2. SumOver(f, U) = f[c] + SumOver(f, U \ {c})
    BY SumUnfolds, FS_Subset DEF Unfolded
  <2> HIDE DEF c
  <2>3. CASE x # c
    <3>1. SumOver(f, U \ {c}) = f[x] + SumOver(f, (U \ {c}) \ {x})
      BY <1>1, <2>1, <2>3
    <3>2. SumOver(f, U \ {x}) = f[c] + SumOver(f, (U \ {x}) \ {c})
      BY <1>1, <2>1, <2>3
    <3>3. (U \ {c}) \ {x} = (U \ {x}) \ {c} /\ f[x] \in Nat /\ f[c] \in Nat
      BY <2>1
    <3>4. SumOver(f, (U \ {c}) \ {x}) \in Nat
      BY FS_Subset, SumNat
    <3> QED
      BY <2>2, <3>1, <3>2, <3>3, <3>4
  <2> QED
    BY <2>2, <2>3
<1>2. SUBSET S \subseteq T
  <2>1. \A U \in SUBSET S : (\A V \in SUBSET U : V # U => V \in T) => U \in T
    BY <1>1
  <2> HIDE DEF T
  <2> QED
    BY <2>1, StrongSetInduction
<1> QED
  BY <1>2

LEMMA SumAdd ==
    ASSUME NEW f, NEW S, IsFiniteSet(S), NEW y, y \notin S, \A x \in S \cup {y} : f[x] \in Nat
    PROVE  SumOver(f, S \cup {y}) = f[y] + SumOver(f, S)
<1>1. (S \cup {y}) \ {y} = S /\ IsFiniteSet(S \cup {y})
  BY FS_AddElement
<1> QED
  BY <1>1, SumRemove

\* The sum looks at nothing but the elements.
LEMMA SumSame ==
    ASSUME NEW f, NEW g, NEW S, IsFiniteSet(S), \A x \in S : f[x] = g[x]
    PROVE  SumOver(f, S) = SumOver(g, S)
<1> DEFINE T == {U \in SUBSET S : SumOver(f, U) = SumOver(g, U)}
<1>1. ASSUME NEW U \in SUBSET S, \A V \in SUBSET U : V # U => V \in T PROVE U \in T
  <2>1. SumOver(f, U) = Unfolded(f, U) /\ SumOver(g, U) = Unfolded(g, U)
    BY SumUnfolds, FS_Subset
  <2>2. CASE U # {}
    <3>1. U \ {First(U)} \in T /\ f[First(U)] = g[First(U)]
      BY <1>1, <2>2, FirstIsElement
    <3> QED
      BY <2>1, <2>2, <3>1 DEF Unfolded
  <2> QED
    BY <2>1, <2>2 DEF Unfolded
<1>2. SUBSET S \subseteq T
  <2> HIDE DEF T
  <2> QED
    BY <1>1, StrongSetInduction
<1> QED
  BY <1>2

LEMMA SumUpdate ==
    ASSUME NEW f, NEW g, NEW S, IsFiniteSet(S), NEW y \in S,
           \A x \in S : f[x] \in Nat /\ g[x] \in Nat, \A x \in S \ {y} : f[x] = g[x]
    PROVE  SumOver(g, S) + f[y] = SumOver(f, S) + g[y]
<1>1. SumOver(f, S \ {y}) = SumOver(g, S \ {y}) /\ SumOver(f, S \ {y}) \in Nat
  BY FS_RemoveElement, SumSame, SumNat
<1>2. SumOver(f, S) = f[y] + SumOver(f, S \ {y}) /\ SumOver(g, S) = g[y] + SumOver(g, S \ {y})
  BY SumRemove
<1> QED
  BY <1>1, <1>2

LEMMA SumMonotone ==
    ASSUME NEW f, NEW g, NEW S, IsFiniteSet(S),
           \A x \in S : f[x] \in Nat /\ g[x] \in Nat /\ f[x] <= g[x]
    PROVE  SumOver(f, S) <= SumOver(g, S)
<1> DEFINE T == {U \in SUBSET S : SumOver(f, U) <= SumOver(g, U)}
<1>1. ASSUME NEW U \in SUBSET S, \A V \in SUBSET U : V # U => V \in T PROVE U \in T
  <2>1. SumOver(f, U) = Unfolded(f, U) /\ SumOver(g, U) = Unfolded(g, U)
    BY SumUnfolds, FS_Subset
  <2>2. CASE U # {}
    <3> DEFINE c == First(U)
               V == U \ {c}
    <3>1. V \in T /\ c \in S
      BY <1>1, <2>2, FirstIsElement
    <3>2. SumOver(f, V) \in Nat /\ SumOver(g, V) \in Nat
      BY FS_Subset, SumNat
    <3>3. SumOver(f, U) = f[c] + SumOver(f, V) /\ SumOver(g, U) = g[c] + SumOver(g, V)
      BY <2>1, <2>2 DEF Unfolded
    <3> HIDE DEF c, V
    <3> QED
      BY <3>1, <3>2, <3>3
  <2> QED
    BY <2>1, <2>2 DEF Unfolded
<1>2. SUBSET S \subseteq T
  <2> HIDE DEF T
  <2> QED
    BY <1>1, StrongSetInduction
<1> QED
  BY <1>2

\* Elements that count for nothing may be left out.
LEMMA SumSkips ==
    ASSUME NEW f, NEW S, IsFiniteSet(S), NEW A \in SUBSET S,
           \A x \in S : f[x] \in Nat, \A x \in S \ A : f[x] = 0
    PROVE  SumOver(f, S) = SumOver(f, A)
<1> DEFINE T == {U \in SUBSET S : SumOver(f, U) = SumOver(f, U \cap A)}
<1>1. ASSUME NEW U \in SUBSET S, \A V \in SUBSET U : V # U => V \in T
      PROVE  SumOver(f, U) = SumOver(f, U \cap A)
  <2>1. CASE U \subseteq A
    <3>1. U \cap A = U
      BY <2>1
    <3> QED
      BY <3>1
  <2>2. ASSUME NEW x \in U, x \notin A PROVE SumOver(f, U) = SumOver(f, U \cap A)
    <3>1. SumOver(f, U) = f[x] + SumOver(f, U \ {x}) /\ SumOver(f, U \ {x}) \in Nat
      BY FS_Subset, SumRemove, SumNat
    <3>2. U \ {x} \in T /\ (U \ {x}) \cap A = U \cap A
      BY <1>1, <2>2
    <3>3. SumOver(f, U \ {x}) = SumOver(f, U \cap A)
      BY <3>2
    <3>4. f[x] = 0
      BY <2>2
    <3> HIDE DEF T
    <3> QED
      BY <3>1, <3>3, <3>4
  <2> QED
    BY <2>1, <2>2
<1>2. SUBSET S \subseteq T
  <2>1. \A U \in SUBSET S : (\A V \in SUBSET U : V # U => V \in T) => U \in T
    BY <1>1
  <2> HIDE DEF T
  <2> QED
    BY <2>1, StrongSetInduction
<1>3. SumOver(f, S) = SumOver(f, S \cap A) /\ S \cap A = A
  BY <1>2
<1> QED
  BY <1>3

\* A part has no larger sum than the whole.
LEMMA SumOfPart ==
    ASSUME NEW f, NEW S, IsFiniteSet(S), \A x \in S : f[x] \in Nat, NEW A \in SUBSET S
    PROVE  SumOver(f, A) <= SumOver(f, S)
<1> DEFINE g == [x \in S |-> IF x \in A THEN f[x] ELSE 0]
<1>1. \A x \in S : g[x] \in Nat /\ g[x] <= f[x]
  OBVIOUS
<1>2. (\A x \in S \ A : g[x] = 0) /\ (\A x \in A : g[x] = f[x]) /\ IsFiniteSet(A)
  BY FS_Subset
<1> HIDE DEF g
<1>3. SumOver(g, S) <= SumOver(f, S)
  BY <1>1, SumMonotone
<1>4. SumOver(g, S) = SumOver(g, A)
  BY <1>1, <1>2, SumSkips
<1>5. SumOver(g, A) = SumOver(f, A)
  BY <1>2, SumSame
<1> QED
  BY <1>3, <1>4, <1>5

LEMMA SumZero ==
    ASSUME NEW f, NEW S, IsFiniteSet(S), \A x \in S : f[x] = 0 PROVE SumOver(f, S) = 0
<1>1. SumOver(f, S) = SumOver(f, {})
  BY SumSkips
<1> QED
  BY <1>1, SumEmpty

\* What is below, element by element, and adds up to as much, is the same.
LEMMA SumTight ==
    ASSUME NEW f, NEW g, NEW S, IsFiniteSet(S),
           \A x \in S : f[x] \in Nat /\ g[x] \in Nat /\ f[x] <= g[x],
           SumOver(g, S) <= SumOver(f, S), NEW y \in S
    PROVE  f[y] = g[y]
<1> DEFINE R == S \ {y}
<1>1. SumOver(f, S) = f[y] + SumOver(f, R) /\ SumOver(g, S) = g[y] + SumOver(g, R)
  BY SumRemove
<1>2. IsFiniteSet(R)
  BY FS_RemoveElement
<1>3. SumOver(f, R) <= SumOver(g, R) /\ SumOver(f, R) \in Nat /\ SumOver(g, R) \in Nat
  BY <1>2, SumMonotone, SumNat
<1> HIDE DEF R
<1> QED
  BY <1>1, <1>3

\* The elements may be added up group by group, where grp[x] is the group of x.
Group(S, grp, t) == {x \in S : grp[x] = t}
GroupSums(f, S, grp, G) == [t \in G |-> SumOver(f, Group(S, grp, t))]

LEMMA SumGroups ==
    ASSUME NEW f, NEW S, IsFiniteSet(S), NEW G, IsFiniteSet(G), NEW grp,
           \A x \in S : f[x] \in Nat /\ grp[x] \in G
    PROVE  SumOver(f, S) = SumOver(GroupSums(f, S, grp, G), G)
<1> DEFINE T == {U \in SUBSET S : SumOver(f, U) = SumOver(GroupSums(f, U, grp, G), G)}
<1>0. ASSUME NEW U \in SUBSET S, NEW t PROVE IsFiniteSet(Group(U, grp, t)) /\ SumOver(f, Group(U, grp, t)) \in Nat
  <2>1. Group(U, grp, t) \subseteq S
    BY DEF Group
  <2> QED
    BY <2>1, FS_Subset, SumNat
<1>1. ASSUME NEW U \in SUBSET S, \A V \in SUBSET U : V # U => V \in T
      PROVE  SumOver(f, U) = SumOver(GroupSums(f, U, grp, G), G)
  <2>1. CASE U = {}
    <3>1. \A t \in G : GroupSums(f, U, grp, G)[t] = 0
      <4>1. \A t \in G : Group(U, grp, t) = {}
        BY <2>1 DEF Group
      <4> QED
        BY <4>1, SumEmpty DEF GroupSums
    <3> QED
      BY <2>1, <3>1, SumZero, SumEmpty
  <2>2. ASSUME NEW y \in U PROVE SumOver(f, U) = SumOver(GroupSums(f, U, grp, G), G)
    <3> DEFINE V == U \ {y}
               a == GroupSums(f, V, grp, G)
               b == GroupSums(f, U, grp, G)
    <3>1. SumOver(f, U) = f[y] + SumOver(f, V)
      BY FS_Subset, SumRemove
    <3>2. SumOver(f, V) = SumOver(a, G) /\ V \in SUBSET S
      BY <1>1
    <3>3. \A t \in G : a[t] \in Nat /\ b[t] \in Nat
      BY <1>0, <3>2 DEF GroupSums
    <3>4. \A t \in G \ {grp[y]} : a[t] = b[t]
      <4>1. \A t \in G \ {grp[y]} : Group(U, grp, t) = Group(V, grp, t)
        BY DEF Group
      <4> QED
        BY <4>1 DEF GroupSums
    <3>5. b[grp[y]] = f[y] + a[grp[y]]
      <4> DEFINE W == Group(U, grp, grp[y])
      <4>1. y \in W /\ W \ {y} = Group(V, grp, grp[y])
        BY DEF Group
      <4>2. \A x \in W : f[x] \in Nat
        BY DEF Group
      <4>3. SumOver(f, W) = f[y] + SumOver(f, W \ {y})
        <5>1. IsFiniteSet(W)
          BY <1>0
        <5> HIDE DEF W
        <5> QED
          BY <4>1, <4>2, <5>1, SumRemove
      <4> QED
        BY <4>1, <4>3 DEF GroupSums
    <3>6. SumOver(b, G) + a[grp[y]] = SumOver(a, G) + b[grp[y]]
      <4> HIDE DEF a, b
      <4> QED
        BY <3>3, <3>4, SumUpdate
    <3>7. SumOver(a, G) \in Nat /\ SumOver(b, G) \in Nat /\ f[y] \in Nat /\ a[grp[y]] \in Nat
      <4> HIDE DEF a, b
      <4> QED
        BY <3>3, SumNat
    <3> HIDE DEF a, V
    <3>8. SumOver(b, G) = f[y] + SumOver(a, G)
      <4> HIDE DEF b
      <4> QED
        BY <3>5, <3>6, <3>7
    <3> QED
      BY <3>1, <3>2, <3>8
  <2> QED
    BY <2>1, <2>2
<1>2. SUBSET S \subseteq T
  <2>1. \A U \in SUBSET S : (\A V \in SUBSET U : V # U => V \in T) => U \in T
    BY <1>1
  <2> HIDE DEF T
  <2> QED
    BY <2>1, StrongSetInduction
<1> QED
  BY <1>2

-----------------------------------------------------------------------------
(* Least elements *)

LEMMA LeastNatural ==
    ASSUME NEW S, S \in SUBSET Nat, S # {}
    PROVE  Min(S) \in S /\ \A y \in S : Min(S) <= y
  <1> DEFINE R == StrictSubsetOrdering(Nat)
             T == {0..x : x \in S}
  <1>1. IsWellFoundedOn(R, FiniteSubsetsOf(Nat))
    BY FS_StrictSubsetOrderingWellFounded
  <1>2. T \subseteq FiniteSubsetsOf(Nat) /\ T # {}
    <2>1. \A x \in S : 0..x \in SUBSET Nat
      OBVIOUS
    <2>2. \A x \in S : x \in Int /\ 0 \in Int
      OBVIOUS
    <2>3. \A x \in S : IsFiniteSet(0..x)
      BY <2>2, FS_Interval
    <2> QED
      BY <2>1, <2>3 DEF FiniteSubsetsOf
  <1>3. PICK U \in T : \A V \in T : ~(<<V, U>> \in R)
    <2> HIDE DEF R, T
    <2> QED
      BY <1>1, <1>2, WFMin
  <1>4. PICK x \in S : U = 0..x
    BY <1>3
  <1>5. ASSUME NEW y \in S, ~(x <= y)
        PROVE  FALSE
    <2>1. x \in Nat /\ y \in Nat /\ 0..y \subseteq 0..x /\ x \in 0..x /\ x \notin 0..y
      BY <1>4, <1>5
    <2>2. 0..y \in SUBSET Nat /\ 0..x \in SUBSET Nat /\ 0..y # 0..x
      BY <2>1
    <2>3. <<0..y, 0..x>> \in R
      BY <2>1, <2>2 DEF StrictSubsetOrdering
    <2> QED
      BY <1>3, <1>4, <2>3
  <1> QED
    BY <1>4, <1>5 DEF Min

-----------------------------------------------------------------------------
(* Sequences without one of their entries *)

\* Where the entry at i was before the one at m went.
WasAt(i, m) == IF i < m THEN i ELSE i + 1

\* p is q without the entry at m.
Without(p, q, m) ==
    /\ \A i \in DOMAIN p : WasAt(i, m) \in DOMAIN q \ {m} /\ p[i] = q[WasAt(i, m)]
    /\ \A i, j \in DOMAIN p : i < j => WasAt(i, m) < WasAt(j, m)
    /\ \A l \in DOMAIN q \ {m} : \E i \in DOMAIN p : WasAt(i, m) = l

LEMMA LengthsOfWithout ==
    ASSUME NEW p, NEW q, NEW n \in Nat, DOMAIN q = 1..n, DOMAIN p = 1..n - 1, NEW m \in 1..n,
           \A i \in 1..n - 1 : p[i] = q[WasAt(i, m)]
    PROVE  Without(p, q, m)
  <1>1. \A i \in 1..n - 1 : WasAt(i, m) \in 1..n /\ WasAt(i, m) # m
    BY DEF WasAt
  <1>2. \A i, j \in 1..n - 1 : i < j => WasAt(i, m) < WasAt(j, m)
    BY DEF WasAt
  <1>3. ASSUME NEW l \in 1..n, l # m
        PROVE  \E i \in 1..n - 1 : WasAt(i, m) = l
    <2>1. CASE l < m
      <3>1. l \in 1..n - 1 /\ WasAt(l, m) = l
        BY <2>1 DEF WasAt
      <3> QED
        BY <3>1
    <2>2. CASE ~(l < m)
      <3>1. l - 1 \in 1..n - 1 /\ WasAt(l - 1, m) = l
        BY <1>3, <2>2 DEF WasAt
      <3> QED
        BY <3>1
    <2> QED
      BY <2>1, <2>2
  <1> QED
    BY <1>1, <1>2, <1>3 DEF Without

LEMMA RemoveAtWithout ==
    ASSUME NEW S, NEW q \in Seq(S), NEW m \in DOMAIN q
    PROVE  LET p == RemoveAt(q, m) IN p \in Seq(S) /\ Len(p) = Len(q) - 1 /\ Without(p, q, m)
  <1> DEFINE a == SubSeq(q, 1, m - 1)
             b == SubSeq(q, m + 1, Len(q))
             p == a \o b
  <1>1. Len(q) \in Nat /\ DOMAIN q = 1..Len(q) /\ \A i \in 1..Len(q) : q[i] \in S
    BY LenProperties
  <1>2. m \in 1..Len(q)
    BY <1>1
  <1>3. a \in Seq(S) /\ Len(a) = m - 1 /\ \A i \in 1..m - 1 : a[i] = q[i]
    <2>1. /\ a \in Seq(S)
          /\ Len(a) = IF 1 <= m - 1 THEN (m - 1) - 1 + 1 ELSE 0
          /\ \A i \in 1..(m - 1) - 1 + 1 : a[i] = q[1 + i - 1]
      <3>1. 1 \in Int /\ m - 1 \in Int /\ \A i \in 1..m - 1 : q[i] \in S
        BY <1>1, <1>2
      <3> QED
        BY <3>1, SubSeqProperties
    <2> HIDE DEF a
    <2> QED
      BY <1>1, <1>2, <2>1
  <1>4. b \in Seq(S) /\ Len(b) = Len(q) - m /\ \A i \in 1..Len(q) - m : b[i] = q[m + i]
    <2>1. /\ b \in Seq(S)
          /\ Len(b) = IF m + 1 <= Len(q) THEN Len(q) - (m + 1) + 1 ELSE 0
          /\ \A i \in 1..Len(q) - (m + 1) + 1 : b[i] = q[(m + 1) + i - 1]
      <3>1. m + 1 \in Int /\ Len(q) \in Int /\ \A i \in m + 1 .. Len(q) : q[i] \in S
        BY <1>1, <1>2
      <3> QED
        BY <3>1, SubSeqProperties
    <2> HIDE DEF b
    <2>2. \A l \in Nat : \A k \in 1..l :
              /\ (IF k + 1 <= l THEN l - (k + 1) + 1 ELSE 0) = l - k
              /\ l - (k + 1) + 1 = l - k
              /\ \A i \in 1..l - k : (k + 1) + i - 1 = k + i
      OBVIOUS
    <2>3. /\ (IF m + 1 <= Len(q) THEN Len(q) - (m + 1) + 1 ELSE 0) = Len(q) - m
          /\ Len(q) - (m + 1) + 1 = Len(q) - m
          /\ \A i \in 1..Len(q) - m : (m + 1) + i - 1 = m + i
      BY <1>1, <1>2, <2>2
    <2> QED
      BY <2>1, <2>3
  <1> HIDE DEF a, b
  <1>5. /\ p \in Seq(S) /\ Len(p) = Len(a) + Len(b)
        /\ \A i \in 1..Len(a) + Len(b) : p[i] = IF i <= Len(a) THEN a[i] ELSE b[i - Len(a)]
    BY <1>3, <1>4, ConcatProperties
  <1>6. DOMAIN p = 1..Len(p)
    BY <1>5, LenProperties
  <1> HIDE DEF p
  <1>7. Len(p) = Len(q) - 1
    BY <1>1, <1>2, <1>3, <1>4, <1>5
  <1>8. ASSUME NEW i \in 1..Len(q) - 1
        PROVE  p[i] = q[WasAt(i, m)]
    <2>1. p[i] = IF i <= Len(a) THEN a[i] ELSE b[i - Len(a)]
      BY <1>1, <1>5, <1>7
    <2>2. CASE i < m
      <3>1. i <= Len(a) /\ i \in 1..m - 1
        BY <1>1, <1>2, <1>3, <2>2
      <3> QED
        BY <1>3, <2>1, <2>2, <3>1 DEF WasAt
    <2>3. CASE ~(i < m)
      <3>1. ~(i <= Len(a)) /\ i - Len(a) \in 1..Len(q) - m /\ m + (i - Len(a)) = i + 1
        BY <1>1, <1>2, <1>3, <2>3
      <3>2. p[i] = q[m + (i - Len(a))]
        BY <1>4, <2>1, <3>1
      <3> QED
        BY <2>3, <3>1, <3>2 DEF WasAt
    <2> QED
      BY <2>2, <2>3
  <1>9. Without(p, q, m)
    BY <1>1, <1>2, <1>6, <1>7, <1>8, LengthsOfWithout
  <1> QED
    BY <1>5, <1>7, <1>9 DEF RemoveAt, p, a, b

LEMMA TailWithout ==
    ASSUME NEW S, NEW q \in Seq(S), q # <<>>
    PROVE  Tail(q) \in Seq(S) /\ Len(Tail(q)) = Len(q) - 1 /\ Without(Tail(q), q, 1) /\ 1 \in DOMAIN q
  <1> DEFINE p == Tail(q)
  <1>1. Len(q) \in Nat \ {0} /\ DOMAIN q = 1..Len(q)
    BY EmptySeq, LenProperties
  <1>2. p \in Seq(S) /\ Len(p) = Len(q) - 1 /\ \A i \in 1..Len(p) : p[i] = q[i + 1]
    BY HeadTailProperties
  <1>3. DOMAIN p = 1..Len(p)
    BY <1>2, LenProperties
  <1> HIDE DEF p
  <1>4. \A i \in 1..Len(q) - 1 : p[i] = q[WasAt(i, 1)]
    BY <1>1, <1>2 DEF WasAt
  <1>5. Without(p, q, 1)
    BY <1>1, <1>2, <1>3, <1>4, LengthsOfWithout
  <1> QED
    BY <1>1, <1>2, <1>5 DEF p

-----------------------------------------------------------------------------
(* Sets in the order of a key                                              *)

\* s lists the elements of S in the order of their keys.
Lists(s, S, key) ==
    /\ s \in Seq(S)
    /\ \A x \in S : \E i \in 1 .. Len(s) : s[i] = x
    /\ \A i, j \in 1 .. Len(s) : i < j => key[s[i]] < key[s[j]]

LEMMA ListLength ==
    ASSUME NEW S, NEW key, \A x \in S : key[x] \in Nat, NEW s, Lists(s, S, key)
    PROVE  /\ IsFiniteSet(S) /\ Cardinality(S) = Len(s)
           /\ s \in [1 .. Cardinality(S) -> S]
<1> DEFINE n == Len(s)
<1>1. n \in Nat /\ s \in [1 .. n -> S]
  BY DEF Lists
<1>2. \A i \in 1 .. n : s[i] \in S
  BY <1>1
<1>3. ASSUME NEW i \in 1 .. n, NEW j \in 1 .. n, s[i] = s[j] PROVE i = j
  <2>1. ~(i < j) /\ ~(j < i)
    <3>1. key[s[i]] \in Nat
      BY <1>2
    <3> QED
      BY <1>3, <3>1 DEF Lists
  <2> QED
    BY <1>1, <2>1
<1>4. s \in Injection(1 .. n, S)
  BY <1>1, <1>3 DEF Injection, IsInjective
<1>5. s \in Surjection(1 .. n, S)
  BY <1>1 DEF Lists, Surjection
<1>6. IsFiniteSet(1 .. n) /\ Cardinality(1 .. n) = n
  BY <1>1, FS_Interval
<1> QED
  BY <1>1, <1>4, <1>5, <1>6, FS_Surjection

\* A sequence of that kind is as long as the set and there is only one.
LEMMA ListOnly ==
    ASSUME NEW S, NEW key, \A x \in S : key[x] \in Nat,
           NEW s, Lists(s, S, key),
           NEW r \in [1 .. Cardinality(S) -> S],
           \A i, j \in 1 .. Cardinality(S) : i < j => key[r[i]] < key[r[j]]
    PROVE  r = s
<1> DEFINE n == Len(s)
<1>1. n \in Nat /\ s \in [1 .. n -> S]
  BY DEF Lists
<1>2. \A i \in 1 .. n : s[i] \in S
  BY <1>1
<1>3. ASSUME NEW i \in 1 .. n, NEW j \in 1 .. n, s[i] = s[j] PROVE i = j
  <2>1. ~(i < j) /\ ~(j < i)
    <3>1. key[s[i]] \in Nat
      BY <1>2
    <3> QED
      BY <1>3, <3>1 DEF Lists
  <2> QED
    BY <1>1, <2>1
<1>6. IsFiniteSet(1 .. n) /\ Cardinality(1 .. n) = n
  BY <1>1, FS_Interval
<1>7. IsFiniteSet(S) /\ Cardinality(S) = n
  BY ListLength
<1>8. /\ r \in [1 .. n -> S]
      /\ \A i, j \in 1 .. n : i < j => key[r[i]] < key[r[j]]
  BY <1>7
<1>9. \A i \in 1 .. n : r[i] \in S
  BY <1>8
<1>10. ASSUME NEW i \in 1 .. n, NEW j \in 1 .. n, r[i] = r[j] PROVE i = j
  <2>1. ~(i < j) /\ ~(j < i)
    <3>1. key[r[i]] \in Nat
      BY <1>9
    <3> QED
      BY <1>8, <1>10, <3>1
  <2> QED
    BY <1>1, <2>1
<1>11. r \in Injection(1 .. n, S)
  BY <1>8, <1>10 DEF Injection, IsInjective
<1>12. r \in Surjection(1 .. n, S)
  BY <1>6, <1>7, <1>11, FS_Injection
<1>13. \A x \in S : \E i \in 1 .. n : r[i] = x
  BY <1>12 DEF Surjection
<1> DEFINE Differ == {i \in 1 .. n : r[i] # s[i]}
<1>14. Differ = {}
  <2> SUFFICES ASSUME Differ # {} PROVE FALSE
    OBVIOUS
  <2>1. Differ \in SUBSET Nat
    OBVIOUS
  <2>2. PICK m \in Differ : \A y \in Differ : m <= y
    <3> HIDE DEF Differ
    <3> QED
      BY <2>1, LeastNatural
  <2>3. m \in 1 .. n /\ r[m] # s[m] /\ \A i \in 1 .. n : i < m => r[i] = s[i]
    <3>1. ASSUME NEW i \in 1 .. n, i < m, r[i] # s[i] PROVE FALSE
      <4>1. m <= i
        BY <2>2, <3>1
      <4> QED
        BY <1>1, <2>2, <3>1, <4>1
    <3> QED
      BY <2>2, <3>1
  <2>4. PICK i \in 1 .. n : s[i] = r[m]
    BY <1>9, <2>3 DEF Lists
  <2>5. PICK j \in 1 .. n : r[j] = s[m]
    BY <1>2, <1>13, <2>3
  <2>6. m < i
    <3>1. ~(i < m)
      BY <1>10, <2>3, <2>4
    <3>2. i # m
      BY <2>3, <2>4
    <3> QED
      BY <1>1, <2>3, <3>1, <3>2
  <2>7. m < j
    <3>1. ~(j < m)
      BY <1>3, <2>3, <2>5
    <3>2. j # m
      BY <2>3, <2>5
    <3> QED
      BY <1>1, <2>3, <3>1, <3>2
  <2>8. key[s[m]] < key[r[m]]
    BY <2>3, <2>4, <2>6 DEF Lists
  <2>9. key[r[m]] < key[s[m]]
    BY <1>8, <2>3, <2>5, <2>7
  <2>10. key[s[m]] \in Nat /\ key[r[m]] \in Nat
    BY <1>2, <1>9, <2>3
  <2> QED
    BY <2>8, <2>9, <2>10
<1>15. \A i \in 1 .. n : r[i] = s[i]
  BY <1>14
<1>16. r = [i \in 1 .. n |-> r[i]] /\ s = [i \in 1 .. n |-> s[i]]
  BY <1>1, <1>8
<1> HIDE DEF n
<1> QED
  BY <1>15, <1>16

LEMMA ListChosen ==
    ASSUME NEW S, NEW key, \A x \in S : key[x] \in Nat, NEW s, Lists(s, S, key)
    PROVE  s = CHOOSE r \in [1 .. Cardinality(S) -> S] :
                  \A i, j \in 1 .. Cardinality(S) : i < j => key[r[i]] < key[r[j]]
<1>1. s \in [1 .. Cardinality(S) -> S]
  BY ListLength
<1>2. \A i, j \in 1 .. Cardinality(S) : i < j => key[s[i]] < key[s[j]]
  BY ListLength DEF Lists
<1>3. PICK r \in [1 .. Cardinality(S) -> S] :
         /\ \A i, j \in 1 .. Cardinality(S) : i < j => key[r[i]] < key[r[j]]
         /\ r = CHOOSE q \in [1 .. Cardinality(S) -> S] :
                   \A i, j \in 1 .. Cardinality(S) : i < j => key[q[i]] < key[q[j]]
  BY <1>1, <1>2
<1>4. r = s
  BY <1>3, ListOnly
<1> QED
  BY <1>3, <1>4

\* Only the keys of the set matter.
LEMMA ListSame ==
    ASSUME NEW S, NEW key, NEW other, \A x \in S : other[x] = key[x],
           NEW s, Lists(s, S, key)
    PROVE  Lists(s, S, other)
<1>1. \A i \in 1 .. Len(s) : s[i] \in S
  BY DEF Lists
<1> QED
  BY <1>1 DEF Lists

\* What has the largest key comes last.
LEMMA ListAppend ==
    ASSUME NEW S, NEW key, NEW other, NEW c, c \notin S,
           \A x \in S : key[x] \in Nat /\ other[x] = key[x] /\ key[x] < other[c],
           NEW s, Lists(s, S, key)
    PROVE  Lists(Append(s, c), S \cup {c}, other)
<1> DEFINE n == Len(s)
           r == Append(s, c)
           T == S \cup {c}
<1>1. n \in Nat /\ \A i \in 1 .. n : s[i] \in S
  BY DEF Lists
<1>2. r \in Seq(T) /\ Len(r) = n + 1
  BY DEF Lists
<1>3. r[n + 1] = c /\ \A i \in 1 .. n : r[i] = s[i]
  BY DEF Lists
<1>4. \A i \in 1 .. n + 1 : i = n + 1 \/ i \in 1 .. n
  BY <1>1
<1>5. n + 1 \in 1 .. n + 1 /\ \A i \in 1 .. n : i \in 1 .. n + 1
  BY <1>1
<1>6. \A x \in T : \E i \in 1 .. n + 1 : r[i] = x
  BY <1>3, <1>5 DEF Lists
<1>7. ASSUME NEW i \in 1 .. n + 1, NEW j \in 1 .. n + 1, i < j
      PROVE  other[r[i]] < other[r[j]]
  <2>1. i \in 1 .. n
    BY <1>1, <1>7
  <2>2. CASE j = n + 1
    BY <1>1, <1>3, <2>1, <2>2
  <2>3. CASE j \in 1 .. n
    <3>1. key[s[i]] < key[s[j]]
      BY <1>7, <2>1, <2>3 DEF Lists
    <3> QED
      BY <1>1, <1>3, <2>1, <2>3, <3>1
  <2> QED
    BY <1>4, <2>2, <2>3
<1> HIDE DEF n, r, T
<1> QED
  BY <1>2, <1>6, <1>7 DEF Lists, n, r, T

\* What has the smallest key comes first.
LEMMA ListHead ==
    ASSUME NEW S, NEW key, NEW c \in S,
           \A x \in S : key[x] \in Nat /\ (x # c => key[c] < key[x]),
           NEW s, Lists(s, S, key)
    PROVE  s # <<>> /\ Head(s) = c
<1> DEFINE n == Len(s)
<1>1. n \in Nat /\ \A i \in 1 .. n : s[i] \in S
  BY DEF Lists
<1>2. PICK i \in 1 .. n : s[i] = c
  BY DEF Lists
<1>3. n # 0 /\ 1 \in 1 .. n
  BY <1>1, <1>2
<1>4. i = 1
  <2> SUFFICES ASSUME 1 < i PROVE FALSE
    BY <1>1
  <2>1. key[s[1]] < key[c]
    BY <1>2, <1>3 DEF Lists
  <2>2. s[1] \in S /\ key[s[1]] \in Nat /\ key[c] \in Nat
    BY <1>1, <1>3
  <2> QED
    BY <2>1, <2>2
<1>5. s \in Seq(S) /\ s # <<>>
  BY <1>3 DEF Lists
<1> QED
  BY <1>2, <1>4, <1>5

LEMMA ListTail ==
    ASSUME NEW S, NEW key, NEW other, NEW c \in S,
           \A x \in S : key[x] \in Nat /\ (x # c => key[c] < key[x] /\ other[x] = key[x]),
           NEW s, Lists(s, S, key)
    PROVE  Lists(Tail(s), S \ {c}, other)
<1> DEFINE n == Len(s)
           r == Tail(s)
           T == S \ {c}
<1>1. s # <<>> /\ Head(s) = c
  BY ListHead
<1>2. s \in Seq(S) /\ n \in Nat /\ n # 0
  BY <1>1 DEF Lists
<1>3. r \in Seq(S) /\ Len(r) = n - 1 /\ s[1] = c
  BY <1>1, <1>2
<1>4. \A i \in 1 .. n - 1 : r[i] = s[i + 1] /\ i + 1 \in 1 .. n /\ 1 < i + 1
  BY <1>1, <1>2
<1>5. \A i \in 1 .. n : s[i] \in S
  BY <1>2
<1>6. 1 \in 1 .. n
  BY <1>2
<1>7. \A i \in 1 .. n - 1 : r[i] \in T
  <2> SUFFICES ASSUME NEW i \in 1 .. n - 1, s[i + 1] = c PROVE FALSE
    BY <1>4, <1>5
  <2>1. key[c] < key[c]
    BY <1>3, <1>4, <1>6 DEF Lists
  <2> QED
    BY <2>1
<1>8. r \in Seq(T)
  <2>1. n - 1 \in Nat /\ r \in [1 .. n - 1 -> S]
    <3>1. n - 1 \in Nat
      BY <1>2
    <3>2. r \in [1 .. Len(r) -> S]
      BY <1>3, LenProperties
    <3> QED
      BY <1>3, <3>1, <3>2
  <2>2. r \in [1 .. n - 1 -> T]
    <3> HIDE DEF r, T
    <3> QED
      BY <1>7, <2>1
  <2> HIDE DEF r, T
  <2> QED
    BY <2>1, <2>2, SeqDef
<1>9. ASSUME NEW x \in T PROVE \E i \in 1 .. n - 1 : r[i] = x
  <2>1. PICK i \in 1 .. n : s[i] = x
    BY DEF Lists
  <2>2. i # 1
    BY <1>3, <2>1
  <2>3. i - 1 \in 1 .. n - 1 /\ i - 1 + 1 = i
    BY <1>2, <2>1, <2>2
  <2>4. r[i - 1] = s[i - 1 + 1]
    BY <1>4, <2>3
  <2> QED
    BY <2>1, <2>3, <2>4
<1>10. ASSUME NEW i \in 1 .. n - 1, NEW j \in 1 .. n - 1, i < j
       PROVE  other[r[i]] < other[r[j]]
  <2>1. i + 1 < j + 1
    BY <1>10
  <2>2. key[s[i + 1]] < key[s[j + 1]]
    BY <1>4, <2>1 DEF Lists
  <2> QED
    BY <1>4, <1>7, <2>2
<1> HIDE DEF r, T
<1> QED
  BY <1>3, <1>8, <1>9, <1>10 DEF Lists, r, T

LEMMA ListNothing == ASSUME NEW key PROVE Lists(<<>>, {}, key)
  BY DEF Lists

-----------------------------------------------------------------------------
(* Sets as sequences *)

\* s has the elements of S, each once.
Arranges(s, S) ==
    /\ s \in Seq(S)
    /\ \A x \in S : \E i \in 1..Len(s) : s[i] = x
    /\ \A i, j \in 1..Len(s) : i # j => s[i] # s[j]

\* The parts of such a sequence.
LEMMA ArrangesParts ==
    ASSUME NEW S, NEW s, Arranges(s, S)
    PROVE  /\ Len(s) \in Nat /\ DOMAIN s = 1..Len(s) /\ s \in [1..Len(s) -> S]
           /\ \A i \in 1..Len(s) : s[i] \in S
           /\ ToSet(s) = S
<1>1. Len(s) \in Nat /\ DOMAIN s = 1..Len(s) /\ s \in [1..Len(s) -> S]
  BY LenProperties DEF Arranges
<1>2. \A i \in 1..Len(s) : s[i] \in S
  BY <1>1
<1>3. ToSet(s) = S
  BY <1>1, <1>2 DEF Arranges, ToSet
<1> QED
  BY <1>1, <1>2, <1>3

\* It is as long as the set.
LEMMA ArrangesLength ==
    ASSUME NEW S, NEW s, Arranges(s, S)
    PROVE  IsFiniteSet(S) /\ Cardinality(S) = Len(s)
<1> DEFINE n == Len(s)
<1>1. n \in Nat /\ s \in [1..n -> S]
  BY ArrangesParts
<1>2. s \in Injection(1..n, S)
  BY <1>1 DEF Arranges, Injection, IsInjective
<1>3. s \in Surjection(1..n, S)
  BY <1>1 DEF Arranges, Surjection
<1>4. IsFiniteSet(1..n) /\ Cardinality(1..n) = n
  BY <1>1, FS_Interval
<1> QED
  BY <1>2, <1>3, <1>4, FS_Surjection

\* The empty set.
LEMMA ArrangesNothing == Arranges(<<>>, {})
  BY DEF Arranges

\* A set of one element.
LEMMA ArrangesOne == ASSUME NEW e PROVE Arranges(<<e>>, {e})
  BY DEF Arranges

\* A sequence as long as the set that repeats nothing has it all.
LEMMA ArrangesAll ==
    ASSUME NEW S, IsFiniteSet(S), NEW s \in [1..Cardinality(S) -> S],
           \A i, j \in 1..Cardinality(S) : i # j => s[i] # s[j]
    PROVE  Arranges(s, S)
<1> DEFINE n == Cardinality(S)
<1>1. n \in Nat
  BY FS_CardinalityType
<1>2. IsFiniteSet(1..n) /\ Cardinality(1..n) = n
  BY <1>1, FS_Interval
<1>3. s \in Injection(1..n, S)
  BY DEF Injection, IsInjective
<1>4. s \in Surjection(1..n, S)
  BY <1>2, <1>3, FS_Injection
<1>5. \A x \in S : \E i \in 1..n : s[i] = x
  BY <1>4 DEF Surjection
<1>6. s \in Seq(S)
  <2>1. s \in [1..n -> S]
    OBVIOUS
  <2> HIDE DEF n
  <2> QED
    BY <1>1, <2>1, SeqDef
<1>7. Len(s) = n
  <2>1. DOMAIN s = 1..Len(s) /\ Len(s) \in Nat
    BY <1>6, LenProperties
  <2>2. DOMAIN s = 1..n
    OBVIOUS
  <2>3. IsFiniteSet(1..Len(s)) /\ Cardinality(1..Len(s)) = Len(s)
    BY <2>1, FS_Interval
  <2> QED
    BY <1>2, <2>1, <2>2, <2>3
<1> HIDE DEF n
<1> QED
  BY <1>5, <1>6, <1>7 DEF Arranges, n

\* One set after another.
LEMMA ArrangesBoth ==
    ASSUME NEW S, NEW T, S \cap T = {}, NEW s, Arranges(s, S), NEW t, Arranges(t, T)
    PROVE  Arranges(s \o t, S \cup T)
<1> DEFINE U == S \cup T
           m == Len(s)
           n == Len(t)
           r == s \o t
<1>1. m \in Nat /\ n \in Nat /\ (\A i \in 1..m : s[i] \in S) /\ (\A i \in 1..n : t[i] \in T)
  BY ArrangesParts
<1>2. s \in Seq(U) /\ t \in Seq(U)
  BY SeqMonotonic DEF Arranges
<1>3. /\ r \in Seq(U) /\ Len(r) = m + n
      /\ \A i \in 1..m + n : r[i] = IF i <= m THEN s[i] ELSE t[i - m]
  <2> HIDE DEF U
  <2> QED
    BY <1>2, ConcatProperties
<1>4. \A i \in 1..m : i \in 1..m + n /\ r[i] = s[i]
  BY <1>1, <1>3
<1>5. \A i \in 1..n : m + i \in 1..m + n /\ ~(m + i <= m) /\ m + i - m = i
  BY <1>1
<1>6. \A i \in 1..n : m + i \in 1..m + n /\ r[m + i] = t[i]
  BY <1>3, <1>5
<1>7. \A i \in 1..m + n : i \in 1..m \/ (i - m \in 1..n /\ m + (i - m) = i)
  BY <1>1
<1>8. ASSUME NEW x \in U PROVE \E i \in 1..m + n : r[i] = x
  <2>1. CASE x \in S
    BY <1>4, <2>1 DEF Arranges
  <2>2. CASE x \in T
    BY <1>6, <2>2 DEF Arranges
  <2> QED
    BY <2>1, <2>2
<1>9. ASSUME NEW i \in 1..m + n, NEW j \in 1..m + n, r[i] = r[j] PROVE i = j
  <2> HIDE DEF r
  <2>1. CASE i \in 1..m /\ j \in 1..m
    BY <1>4, <1>9, <2>1 DEF Arranges
  <2>2. CASE i \in 1..m /\ j \notin 1..m
    <3>1. j - m \in 1..n /\ m + (j - m) = j
      BY <1>7, <2>2
    <3>2. r[i] \in S /\ r[j] \in T
      BY <1>1, <1>4, <1>6, <2>2, <3>1
    <3> QED
      BY <1>9, <3>2
  <2>3. CASE i \notin 1..m /\ j \in 1..m
    <3>1. i - m \in 1..n /\ m + (i - m) = i
      BY <1>7, <2>3
    <3>2. r[i] \in T /\ r[j] \in S
      BY <1>1, <1>4, <1>6, <2>3, <3>1
    <3> QED
      BY <1>9, <3>2
  <2>4. CASE i \notin 1..m /\ j \notin 1..m
    <3>1. i - m \in 1..n /\ m + (i - m) = i /\ j - m \in 1..n /\ m + (j - m) = j
      BY <1>7, <2>4
    <3>2. t[i - m] = t[j - m]
      BY <1>6, <1>9, <3>1
    <3>3. i - m = j - m
      BY <3>1, <3>2 DEF Arranges
    <3> QED
      BY <3>1, <3>3
  <2> QED
    BY <2>1, <2>2, <2>3, <2>4
<1> HIDE DEF U, m, n, r
<1> QED
  BY <1>3, <1>8, <1>9 DEF Arranges, U, m, n, r

\* A strict order of the elements of S.
StrictlyOrders(R, S) ==
    /\ \A x \in S : <<x, x>> \notin R
    /\ \A x, y \in S : x # y => <<x, y>> \in R \/ <<y, x>> \in R
    /\ \A x, y, z \in S : <<x, y>> \in R /\ <<y, z>> \in R => <<x, z>> \in R

\* A finite set has an arrangement in every order.
LEMMA ArrangementExists ==
    ASSUME NEW S, IsFiniteSet(S), NEW R, StrictlyOrders(R, S)
    PROVE  \E s \in [1..Cardinality(S) -> S] :
              \A i, j \in 1..Cardinality(S) : i < j => <<s[i], s[j]>> \in R
<1> DEFINE n == Cardinality(S)
           UpTo(x) == {y \in S : y = x \/ <<y, x>> \in R}
           rank == [x \in S |-> Cardinality(UpTo(x))]
<1>1. n \in Nat
  BY FS_CardinalityType
<1>2. ASSUME NEW x \in S
      PROVE  IsFiniteSet(UpTo(x)) /\ rank[x] \in 1..n
  <2>1. UpTo(x) \in SUBSET S
    OBVIOUS
  <2>2. IsFiniteSet(UpTo(x)) /\ Cardinality(UpTo(x)) <= n
    <3> HIDE DEF UpTo
    <3> QED
      BY <2>1, FS_Subset
  <2>3. Cardinality(UpTo(x)) \in Nat /\ Cardinality(UpTo(x)) # 0
    <3>1. UpTo(x) # {}
      OBVIOUS
    <3> HIDE DEF UpTo
    <3> QED
      BY <2>2, <3>1, FS_CardinalityType, FS_EmptySet
  <2> QED
    BY <1>1, <2>2, <2>3
<1>3. ASSUME NEW x \in S, NEW y \in S, <<x, y>> \in R
      PROVE  rank[x] < rank[y]
  <2>1. y \notin UpTo(x) /\ y \in UpTo(y)
    BY <1>3 DEF StrictlyOrders
  <2>2. UpTo(x) \in SUBSET UpTo(y)
    BY <1>3 DEF StrictlyOrders
  <2>3. IsFiniteSet(UpTo(x)) /\ IsFiniteSet(UpTo(y))
    BY <1>2
  <2>4. /\ Cardinality(UpTo(x)) <= Cardinality(UpTo(y))
        /\ Cardinality(UpTo(x)) # Cardinality(UpTo(y))
    <3> HIDE DEF UpTo
    <3> QED
      BY <2>1, <2>2, <2>3, FS_Subset
  <2>5. rank[x] \in 1..n /\ rank[y] \in 1..n
    BY <1>2
  <2> QED
    BY <1>1, <2>4, <2>5
<1> HIDE DEF rank
<1>4. \A x, y \in S : rank[x] = rank[y] => x = y
  <2> SUFFICES ASSUME NEW x \in S, NEW y \in S, rank[x] = rank[y], x # y PROVE FALSE
    OBVIOUS
  <2>1. rank[x] < rank[y] \/ rank[y] < rank[x]
    BY <1>3 DEF StrictlyOrders
  <2>2. rank[x] \in 1..n /\ rank[y] \in 1..n
    BY <1>2
  <2> QED
    BY <1>1, <2>1, <2>2
<1>5. rank \in [S -> 1..n]
  BY <1>2 DEF rank
<1>6. rank \in Injection(S, 1..n)
  BY <1>4, <1>5 DEF Injection, IsInjective
<1>7. IsFiniteSet(1..n) /\ Cardinality(1..n) = n
  BY <1>1, FS_Interval
<1>8. rank \in Surjection(S, 1..n)
  <2> HIDE DEF n
  <2>1. Cardinality(S) = Cardinality(1..n)
    BY <1>7 DEF n
  <2> QED
    BY <1>6, <1>7, <2>1, FS_Injection
<1> DEFINE s == [i \in 1..n |-> CHOOSE x \in S : rank[x] = i]
<1>9. \A i \in 1..n : s[i] \in S /\ rank[s[i]] = i
  <2> SUFFICES ASSUME NEW i \in 1..n PROVE s[i] \in S /\ rank[s[i]] = i
    OBVIOUS
  <2>1. \E x \in S : rank[x] = i
    BY <1>8 DEF Surjection
  <2>2. s[i] = CHOOSE x \in S : rank[x] = i
    OBVIOUS
  <2> QED
    BY <2>1, <2>2
<1>10. s \in [1..n -> S]
  BY <1>9
<1>11. ASSUME NEW i \in 1..n, NEW j \in 1..n, i < j PROVE <<s[i], s[j]>> \in R
  <2> HIDE DEF s
  <2>1. s[i] \in S /\ s[j] \in S /\ rank[s[i]] = i /\ rank[s[j]] = j
    BY <1>9
  <2>2. s[i] # s[j]
    BY <1>11, <2>1
  <2>3. ~(rank[s[j]] < rank[s[i]])
    BY <1>1, <1>11, <2>1
  <2>4. <<s[i], s[j]>> \in R \/ <<s[j], s[i]>> \in R
    BY <2>1, <2>2 DEF StrictlyOrders
  <2> QED
    BY <1>3, <2>1, <2>3, <2>4
<1> HIDE DEF s
<1> QED
  BY <1>10, <1>11 DEF n

\* An arrangement in an order repeats nothing.
LEMMA OrderedArranges ==
    ASSUME NEW S, IsFiniteSet(S), NEW R, StrictlyOrders(R, S), NEW s \in [1..Cardinality(S) -> S],
           \A i, j \in 1..Cardinality(S) : i < j => <<s[i], s[j]>> \in R
    PROVE  Arranges(s, S)
<1>1. Cardinality(S) \in Nat
  BY FS_CardinalityType
<1>2. \A i, j \in 1..Cardinality(S) : i # j => s[i] # s[j]
  <2> SUFFICES ASSUME NEW i \in 1..Cardinality(S), NEW j \in 1..Cardinality(S), i # j, s[i] = s[j]
               PROVE  FALSE
    OBVIOUS
  <2>1. i < j \/ j < i
    BY <1>1
  <2>2. <<s[i], s[i]>> \in R /\ s[i] \in S
    BY <2>1
  <2> QED
    BY <2>2 DEF StrictlyOrders
<1> QED
  BY <1>2, ArrangesAll

\* A set that is not empty has a first element in every order.
LEMMA FirstExists ==
    ASSUME NEW S, IsFiniteSet(S), S # {}, NEW R, StrictlyOrders(R, S)
    PROVE  \E x \in S : \A y \in S \ {x} : <<x, y>> \in R
<1>1. PICK s \in [1..Cardinality(S) -> S] :
         \A i, j \in 1..Cardinality(S) : i < j => <<s[i], s[j]>> \in R
  BY ArrangementExists
<1>2. Arranges(s, S)
  BY <1>1, OrderedArranges
<1>3. Len(s) = Cardinality(S) /\ Len(s) \in Nat
  BY <1>2, ArrangesLength, ArrangesParts
<1>4. \A x \in S : \E i \in 1..Len(s) : s[i] = x
  BY <1>2 DEF Arranges
<1>5. 1 \in 1..Len(s)
  BY <1>3, <1>4
<1>6. s[1] \in S
  BY <1>3, <1>5
<1>7. ASSUME NEW y \in S \ {s[1]} PROVE <<s[1], y>> \in R
  <2>1. PICK i \in 1..Len(s) : s[i] = y
    BY <1>4
  <2>2. 1 < i
    BY <1>3, <1>7, <2>1
  <2> QED
    BY <1>1, <1>3, <1>5, <2>1, <2>2
<1> QED
  BY <1>6, <1>7
\* A finite set of numbers has a largest one.
LEMMA LargestExists ==
    ASSUME NEW S, IsFiniteSet(S), S # {}, \A x \in S : x \in Nat
    PROVE  \E x \in S : \A y \in S : x >= y
<1>1. PICK R : R = {p \in S \X S : p[1] > p[2]}
  OBVIOUS
<1>2. \A x, y \in S : <<x, y>> \in R <=> x > y
  BY <1>1
<1>3. StrictlyOrders(R, S)
  BY <1>2 DEF StrictlyOrders
<1>4. PICK x \in S : \A y \in S \ {x} : <<x, y>> \in R
  BY <1>3, FirstExists
<1>5. ASSUME NEW y \in S PROVE x >= y
  <2>1. CASE y = x
    BY <2>1
  <2>2. CASE y # x
    <3>1. <<x, y>> \in R
      BY <1>4, <2>2
    <3> QED
      BY <1>2, <3>1
  <2> QED
    BY <2>1, <2>2
<1> QED
  BY <1>5
=============================================================================
