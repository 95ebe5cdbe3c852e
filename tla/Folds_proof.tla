----------------------------- MODULE Folds_proof -----------------------------
(***************************************************************************)
(* Induction over numbers and over finite sets, as principles about sets   *)
(* rather than about predicates, and what the recursive functions behind   *)
(* sums, folds and flattened sequences come to, by their partial results;  *)
(* sums of parts, and which terms a sum depends on.                        *)
(***************************************************************************)
EXTENDS Integers, SequencesExt, SequenceTheorems, FiniteSetTheorems, WellFoundedInduction, TLAPS

-----------------------------------------------------------------------------
(* Induction.                                                              *)

LEMMA NatLeast ==
  ASSUME NEW T \in SUBSET Nat, T # {}
  PROVE  \E m \in T : \A k \in T : m <= k
<1> DEFINE R == OpToRel(<, Nat)
<1>1. IsWellFoundedOn(R, Nat)
  BY NatLessThanWellFounded, Zenon
<1>2. \A x, y \in Nat : y < x => <<y, x>> \in R
  BY DEF OpToRel
<1> HIDE DEF R
<1>3. PICK m \in T : \A k \in T : <<k, m>> \notin R
  BY <1>1, WFMin
<1>4. ASSUME NEW k \in T PROVE m <= k
  <2>1. m \in Nat /\ k \in Nat
    OBVIOUS
  <2>2. ~(k < m)
    BY <1>2, <1>3, <2>1
  <2> QED BY <2>1, <2>2
<1> QED BY <1>4

LEMMA NatSteps ==
  ASSUME NEW T, 0 \in T, \A n \in Nat : n \in T => n + 1 \in T
  PROVE  Nat \subseteq T
<1> DEFINE F == {n \in Nat : n \notin T}
<1>1. ASSUME F # {} PROVE FALSE
  <2>1. F \in SUBSET Nat
    OBVIOUS
  <2> HIDE DEF F
  <2>2. PICK m \in F : \A k \in F : m <= k
    BY <1>1, <2>1, NatLeast
  <2> USE DEF F
  <2>3. m \in Nat /\ m # 0
    OBVIOUS
  <2>4. m - 1 \in Nat /\ m - 1 \notin F
    BY <2>2, <2>3
  <2>5. (m - 1) + 1 \in T
    BY <2>4
  <2> QED BY <2>3, <2>5
<1> QED BY <1>1

LEMMA MinOf ==
  ASSUME NEW T \in SUBSET Nat, T # {}
  PROVE  Min(T) \in T /\ \A k \in T : Min(T) <= k
BY NatLeast DEF Min

LEMMA MaxOf ==
  ASSUME NEW n \in Nat, NEW T \in SUBSET (0 .. n), T # {}
  PROVE  Max(T) \in T /\ \A k \in T : k <= Max(T)
<1> DEFINE U == {n - k : k \in T}
<1>1. U \in SUBSET Nat /\ U # {}
  <2>1. \A k \in T : n - k \in Nat
    OBVIOUS
  <2>2. PICK k \in T : TRUE
    OBVIOUS
  <2>3. n - k \in U
    OBVIOUS
  <2> QED BY <2>1, <2>3
<1> HIDE DEF U
<1>2. PICK u \in U : \A k \in U : u <= k
  BY <1>1, NatLeast
<1> USE DEF U
<1>3. PICK m \in T : u = n - m
  OBVIOUS
<1>4. ASSUME NEW k \in T PROVE m >= k
  <2>1. n - m <= n - k
    BY <1>2, <1>3
  <2> QED BY <2>1
<1> QED BY <1>4 DEF Max

(* Up to a bound.                                                          *)
LEMMA StepsTo ==
  ASSUME NEW n \in Nat, NEW T, 0 \in T, \A i \in 1 .. n : i - 1 \in T => i \in T
  PROVE  0 .. n \subseteq T
<1> DEFINE U == {k \in Nat : k <= n => k \in T}
<1>1. 0 \in U
  OBVIOUS
<1>2. ASSUME NEW k \in Nat, k \in U PROVE k + 1 \in U
  <2>1. CASE k + 1 <= n
    <3>1. k + 1 \in 1 .. n /\ (k + 1) - 1 = k /\ k <= n
      BY <2>1
    <3>2. k \in T
      BY <1>2, <3>1
    <3> QED BY <3>1, <3>2
  <2>2. CASE ~(k + 1 <= n)
    BY <2>2
  <2> QED BY <2>1, <2>2
<1> HIDE DEF U
<1>3. Nat \subseteq U
  BY <1>1, <1>2, NatSteps
<1> QED BY <1>3 DEF U

(* A set is built up by putting back what was taken out of it.             *)
LEMMA SubsetSteps ==
  ASSUME NEW S, IsFiniteSet(S), NEW T, {} \in T,
         \A s \in SUBSET S : s # {} => \E x \in s : s \ {x} \in T => s \in T
  PROVE  SUBSET S \subseteq T
<1> DEFINE U == {k \in Nat : \A s \in SUBSET S : Cardinality(s) = k => s \in T}
<1>0. \A s \in SUBSET S : IsFiniteSet(s) /\ Cardinality(s) \in Nat
  BY FS_Subset, FS_CardinalityType
<1>1. 0 \in U
  BY <1>0, FS_EmptySet
<1>2. ASSUME NEW k \in Nat, k \in U PROVE k + 1 \in U
  <2> SUFFICES ASSUME NEW s \in SUBSET S, Cardinality(s) = k + 1 PROVE s \in T
    OBVIOUS
  <2>1. s # {}
    BY <1>0, FS_EmptySet
  <2>2. PICK x \in s : s \ {x} \in T => s \in T
    BY <2>1
  <2>3. Cardinality(s \ {x}) = Cardinality(s) - 1
    BY <1>0, FS_RemoveElement
  <2>4. s \ {x} \in SUBSET S /\ Cardinality(s \ {x}) = k
    BY <2>3
  <2> QED BY <1>2, <2>2, <2>4
<1> HIDE DEF U
<1>3. Nat \subseteq U
  BY <1>1, <1>2, NatSteps
<1> QED BY <1>0, <1>3 DEF U
-----------------------------------------------------------------------------
(* Recursion over the subsets of a finite set: what is left when one       *)
(* element is taken out determines the result for the rest.                *)

Rec(S, base, c, H, g) ==
  [s \in SUBSET S |-> IF s = {} THEN base ELSE H[<<s, g[s \ {c[s]}]>>]]

Recursion(S, A, base, c, H) == \E g \in [SUBSET S -> A] : g = Rec(S, base, c, H, g)

LEMMA SubsetRecursion ==
  ASSUME NEW S, IsFiniteSet(S), NEW A, NEW base \in A,
         NEW c, \A s \in SUBSET S : s # {} => c[s] \in s,
         NEW H \in [(SUBSET S) \X A -> A]
  PROVE  Recursion(S, A, base, c, H)
<1> DEFINE Below(k) == {s \in SUBSET S : Cardinality(s) <= k}
           Good(k, g) == \A s \in Below(k) :
                           g[s] = IF s = {} THEN base ELSE H[<<s, g[s \ {c[s]}]>>]
           T == {k \in Nat : \E g \in [SUBSET S -> A] : Good(k, g)}
<1>0. /\ IsFiniteSet({}) /\ Cardinality({}) = 0
      /\ \A s \in SUBSET S : IsFiniteSet(s) /\ Cardinality(s) \in Nat
      /\ \A s \in SUBSET S : Cardinality(s) = 0 => s = {}
      /\ \A s \in SUBSET S : s # {} => Cardinality(s \ {c[s]}) = Cardinality(s) - 1
  BY FS_Subset, FS_CardinalityType, FS_EmptySet, FS_RemoveElement
<1>1. 0 \in T
  <2>1. \A s \in Below(0) : s = {}
    BY <1>0
  <2> DEFINE g == [s \in SUBSET S |-> base]
  <2>2. g \in [SUBSET S -> A] /\ Good(0, g)
    BY <2>1
  <2> HIDE DEF g
  <2> QED BY <2>2
<1>2. ASSUME NEW k \in Nat, k \in T PROVE k + 1 \in T
  <2>1. PICK g \in [SUBSET S -> A] : Good(k, g)
    BY <1>2
  <2> DEFINE h == [s \in SUBSET S |->
                     IF s \in Below(k) THEN g[s]
                     ELSE H[<<s, g[s \ {c[s]}]>>]]
  <2>2. h \in [SUBSET S -> A]
    <3> SUFFICES ASSUME NEW s \in SUBSET S
                 PROVE  (IF s \in Below(k) THEN g[s] ELSE H[<<s, g[s \ {c[s]}]>>]) \in A
      OBVIOUS
    <3>1. g[s] \in A /\ g[s \ {c[s]}] \in A
      BY <2>1
    <3>2. <<s, g[s \ {c[s]}]>> \in (SUBSET S) \X A
      BY <3>1
    <3> QED BY <3>1, <3>2
  <2>3. ASSUME NEW s \in Below(k + 1)
        PROVE  h[s] = IF s = {} THEN base ELSE H[<<s, h[s \ {c[s]}]>>]
    <3>1. CASE s = {}
      <4>1. s \in Below(k)
        BY <1>0, <3>1
      <4>2. g[s] = base
        BY <2>1, <3>1, <4>1
      <4> QED BY <3>1, <4>1, <4>2
    <3>2. CASE s # {}
      <4>1. s \ {c[s]} \in Below(k)
        BY <1>0, <3>2
      <4>2. h[s \ {c[s]}] = g[s \ {c[s]}]
        BY <4>1
      <4>3. h[s] = H[<<s, g[s \ {c[s]}]>>]
        <5>1. CASE s \in Below(k)
          <6>1. g[s] = H[<<s, g[s \ {c[s]}]>>]
            BY <2>1, <3>2, <5>1
          <6> QED BY <5>1, <6>1
        <5>2. CASE s \notin Below(k)
          BY <5>2
        <5> QED BY <5>1, <5>2
      <4> QED BY <3>2, <4>2, <4>3
    <3> QED BY <3>1, <3>2
  <2> HIDE DEF h
  <2>4. Good(k + 1, h)
    BY <2>3
  <2>5. \E g2 \in [SUBSET S -> A] : Good(k + 1, g2)
    <3> HIDE DEF Good
    <3> QED BY <2>2, <2>4
  <2> HIDE DEF Good
  <2> QED BY <2>5
<1> HIDE DEF T
<1>3. Cardinality(S) \in T
  BY <1>1, <1>2, NatSteps, FS_CardinalityType
<1>4. PICK g \in [SUBSET S -> A] : Good(Cardinality(S), g)
  BY <1>3 DEF T
<1>5. \A s \in SUBSET S : s \in Below(Cardinality(S))
  BY FS_Subset
<1>6. g = [s \in SUBSET S |-> IF s = {} THEN base ELSE H[<<s, g[s \ {c[s]}]>>]]
  BY <1>4, <1>5
<1> QED BY <1>6 DEF Rec, Recursion

-----------------------------------------------------------------------------
(* Sums.                                                                   *)

Member(s) == CHOOSE x \in s : TRUE
Adding(f, S, g) == [s \in SUBSET S |-> IF s = {} THEN 0 ELSE f[Member(s)] + g[s \ {Member(s)}]]

LEMMA MemberOf == \A s : s # {} => Member(s) \in s
BY DEF Member

LEMMA SumsExist ==
  ASSUME NEW S, IsFiniteSet(S), NEW f, \A x \in S : f[x] \in Nat
  PROVE  \E g \in [SUBSET S -> Nat] : g = Adding(f, S, g)
<1> DEFINE c == [s \in SUBSET S |-> Member(s)]
           H == [p \in (SUBSET S) \X Nat |-> IF p[1] = {} THEN 0 ELSE f[Member(p[1])] + p[2]]
<1>1. \A s \in SUBSET S : s # {} => c[s] \in s
  BY MemberOf
<1>2. H \in [(SUBSET S) \X Nat -> Nat]
  <2> SUFFICES ASSUME NEW p \in (SUBSET S) \X Nat
               PROVE  (IF p[1] = {} THEN 0 ELSE f[Member(p[1])] + p[2]) \in Nat
    OBVIOUS
  <2>1. p[1] \in SUBSET S /\ p[2] \in Nat
    OBVIOUS
  <2> QED BY <2>1, MemberOf
<1>3. Recursion(S, Nat, 0, c, H)
  <2> HIDE DEF c, H
  <2> QED BY <1>1, <1>2, SubsetRecursion
<1>4. PICK g \in [SUBSET S -> Nat] : g = Rec(S, 0, c, H, g)
  BY <1>3 DEF Recursion
<1>5. Rec(S, 0, c, H, g) = Adding(f, S, g)
  <2>1. ASSUME NEW s \in SUBSET S, s # {}
        PROVE  H[<<s, g[s \ {c[s]}]>>] = f[Member(s)] + g[s \ {Member(s)}]
    <3>1. c[s] = Member(s)
      OBVIOUS
    <3>2. <<s, g[s \ {Member(s)}]>> \in (SUBSET S) \X Nat
      OBVIOUS
    <3> QED BY <2>1, <3>1, <3>2
  <2> HIDE DEF c, H
  <2> QED BY <2>1 DEF Rec, Adding
<1> QED BY <1>4, <1>5

LEMMA SumsAgree ==
  ASSUME NEW S, IsFiniteSet(S), NEW f, NEW h, \A x \in S : f[x] = h[x],
         NEW u, u = Adding(f, S, u), NEW v, v = Adding(h, S, v)
  PROVE  u = v
<1> DEFINE T == {s \in SUBSET S : u[s] = v[s]}
<1>1. /\ u[{}] = 0 /\ v[{}] = 0
      /\ \A s \in SUBSET S : s # {} => u[s] = f[Member(s)] + u[s \ {Member(s)}]
      /\ \A s \in SUBSET S : s # {} => v[s] = h[Member(s)] + v[s \ {Member(s)}]
      /\ u = [s \in SUBSET S |-> u[s]] /\ v = [s \in SUBSET S |-> v[s]]
  BY DEF Adding
<1>2. {} \in T
  BY <1>1
<1>3. ASSUME NEW s \in SUBSET S, s # {} PROVE \E x \in s : s \ {x} \in T => s \in T
  <2>1. Member(s) \in s /\ f[Member(s)] = h[Member(s)]
    BY <1>3, MemberOf
  <2>2. s \ {Member(s)} \in T => s \in T
    <3> SUFFICES ASSUME u[s \ {Member(s)}] = v[s \ {Member(s)}] PROVE u[s] = v[s]
      OBVIOUS
    <3> QED BY <1>1, <1>3, <2>1
  <2> QED BY <2>1, <2>2
<1> HIDE DEF T
<1>4. SUBSET S \subseteq T
  BY <1>2, <1>3, SubsetSteps
<1>5. \A s \in SUBSET S : u[s] = v[s]
  BY <1>4 DEF T
<1> QED BY <1>1, <1>5

(* The sum of the community modules is one of these, over any finite set.  *)
LEMMA SumOver ==
  ASSUME NEW S, IsFiniteSet(S), NEW f, NEW g \in [SUBSET S -> Nat], g = Adding(f, S, g)
  PROVE  SumFunctionOnSet(f, S) = g[S]
<1>1. \A h : h = Adding(f, S, h) => h = g
  BY SumsAgree
<1> QED BY <1>1 DEF SumFunctionOnSet, FoldFunctionOnSet, MapThenFoldSet, Adding, Member

LEMMA SumOf ==
  ASSUME NEW n \in Nat, NEW f \in [1 .. n -> Nat], NEW g, g = Adding(f, 1 .. n, g),
         g \in [SUBSET (1 .. n) -> Nat]
  PROVE  SumFunction(f) = g[1 .. n]
<1>1. IsFiniteSet(1 .. n) /\ DOMAIN f = 1 .. n
  BY FS_Interval
<1> DEFINE S == 1 .. n
<1> HIDE DEF S
<1>2. SumFunctionOnSet(f, S) = g[S]
  BY <1>1, SumOver DEF S
<1> QED BY <1>1, <1>2 DEF SumFunction, S

(* The order in which a sum is put together does not matter.               *)
AnyOrder(f, S, g) == \A s \in SUBSET S : \A x \in s : g[s] = f[x] + g[s \ {x}]

LEMMA SumsAny ==
  ASSUME NEW S, IsFiniteSet(S), NEW f, \A x \in S : f[x] \in Nat,
         NEW g \in [SUBSET S -> Nat], g = Adding(f, S, g)
  PROVE  AnyOrder(f, S, g)
<1> DEFINE At(s) == \A x \in s : g[s] = f[x] + g[s \ {x}]
           T == {n \in Nat : \A s \in SUBSET S : Cardinality(s) = n => At(s)}
<1>0. \A s \in SUBSET S : IsFiniteSet(s) /\ Cardinality(s) \in Nat
  BY FS_Subset, FS_CardinalityType
<1>1. \A s \in SUBSET S : s # {} => Member(s) \in s /\ g[s] = f[Member(s)] + g[s \ {Member(s)}]
  BY MemberOf DEF Adding
<1>2. 0 \in T
  BY <1>0, FS_EmptySet
<1>3. ASSUME NEW n \in Nat, n \in T PROVE n + 1 \in T
  <2> SUFFICES ASSUME NEW s \in SUBSET S, Cardinality(s) = n + 1, NEW x \in s
               PROVE  g[s] = f[x] + g[s \ {x}]
    OBVIOUS
  <2> DEFINE y == Member(s)
  <2>1. y \in s /\ g[s] = f[y] + g[s \ {y}]
    BY <1>1
  <2> HIDE DEF y
  <2>2. Cardinality(s \ {x}) = n /\ Cardinality(s \ {y}) = n
    <3>1. IsFiniteSet(s) /\ (n + 1) - 1 = n
      BY <1>0
    <3> QED BY <2>1, <3>1, FS_RemoveElement
  <2>3. At(s \ {x}) /\ At(s \ {y})
    BY <1>3, <2>2
  <2>4. CASE x = y
    BY <2>1, <2>4
  <2>5. CASE x # y
    <3>1. g[s \ {x}] = f[y] + g[(s \ {x}) \ {y}] /\ g[s \ {y}] = f[x] + g[(s \ {y}) \ {x}]
      BY <2>1, <2>3, <2>5
    <3>2. (s \ {x}) \ {y} = (s \ {y}) \ {x} /\ (s \ {x}) \ {y} \in SUBSET S
      OBVIOUS
    <3>3. f[x] \in Nat /\ f[y] \in Nat /\ g[(s \ {x}) \ {y}] \in Nat
      BY <2>1, <3>2
    <3> DEFINE a == f[x]    b == f[y]    r == g[(s \ {x}) \ {y}]
    <3>4. a \in Nat /\ b \in Nat /\ r \in Nat
      BY <3>3
    <3>5. g[s] = b + (a + r) /\ g[s \ {x}] = b + r
      BY <2>1, <3>1, <3>2
    <3> HIDE DEF a, b, r
    <3>6. g[s] = a + g[s \ {x}]
      BY <3>4, <3>5
    <3> QED BY <3>6 DEF a
  <2> QED BY <2>4, <2>5
<1> HIDE DEF T
<1>4. Nat \subseteq T
  BY <1>2, <1>3, NatSteps
<1> QED BY <1>0, <1>4 DEF T, AnyOrder

(* What is known of a sum, an element of the set at a time.                *)
SumSteps(f, S) ==
  /\ SumFunctionOnSet(f, S) \in Nat
  /\ S = {} => SumFunctionOnSet(f, S) = 0
  /\ \A x \in S : SumFunctionOnSet(f, S) = f[x] + SumFunctionOnSet(f, S \ {x})

LEMMA SumStep ==
  ASSUME NEW S, IsFiniteSet(S), NEW f, \A x \in S : f[x] \in Nat
  PROVE  SumSteps(f, S)
<1>1. PICK g \in [SUBSET S -> Nat] : g = Adding(f, S, g)
  BY SumsExist
<1>2. SumFunctionOnSet(f, S) = g[S]
  BY <1>1, SumOver
<1>3. AnyOrder(f, S, g)
  BY <1>1, SumsAny
<1>4. ASSUME NEW x \in S PROVE SumFunctionOnSet(f, S \ {x}) = g[S \ {x}]
  <2> DEFINE R == S \ {x}
             h == [s \in SUBSET R |-> g[s]]
  <2>1. IsFiniteSet(R) /\ R \in SUBSET S
    BY FS_RemoveElement
  <2>2. SUBSET R \subseteq SUBSET S
    BY <2>1
  <2>3. h \in [SUBSET R -> Nat]
    BY <1>1, <2>2
  <2>4. \A s \in SUBSET R : g[s] = IF s = {} THEN 0 ELSE f[Member(s)] + g[s \ {Member(s)}]
    BY <1>1, <2>2 DEF Adding
  <2>5. h = Adding(f, R, h)
    <3>1. \A s \in SUBSET R : s \ {Member(s)} \in SUBSET R
      OBVIOUS
    <3> QED BY <2>4, <3>1 DEF Adding
  <2> HIDE DEF h, R
  <2>6. SumFunctionOnSet(f, R) = h[R]
    BY <2>1, <2>3, <2>5, SumOver
  <2>7. h[R] = g[R]
    BY DEF h
  <2> QED BY <2>6, <2>7 DEF R
<1>5. S = {} => g[S] = 0
  BY <1>1 DEF Adding
<1> QED BY <1>1, <1>2, <1>3, <1>4, <1>5 DEF SumSteps, AnyOrder

(* Sums of two functions over a set, by steps.                             *)
LEMMA SumMono ==
  ASSUME NEW S, IsFiniteSet(S), NEW f, NEW h,
         \A x \in S : f[x] \in Nat /\ h[x] \in Nat /\ f[x] <= h[x]
  PROVE  SumFunctionOnSet(f, S) <= SumFunctionOnSet(h, S)
<1> DEFINE T == {s \in SUBSET S : SumFunctionOnSet(f, s) <= SumFunctionOnSet(h, s)}
<1>1. \A s \in SUBSET S : SumSteps(f, s) /\ SumSteps(h, s)
  <2> TAKE s \in SUBSET S
  <2>1. IsFiniteSet(s)
    BY FS_Subset
  <2> QED BY <2>1, SumStep
<1>2. {} \in T
  BY <1>1 DEF SumSteps
<1>3. ASSUME NEW s \in SUBSET S, s # {} PROVE \E x \in s : s \ {x} \in T => s \in T
  <2>1. PICK x \in s : TRUE
    BY <1>3
  <2> SUFFICES ASSUME s \ {x} \in T PROVE s \in T
    OBVIOUS
  <2>2. /\ SumFunctionOnSet(f, s) = f[x] + SumFunctionOnSet(f, s \ {x})
        /\ SumFunctionOnSet(h, s) = h[x] + SumFunctionOnSet(h, s \ {x})
        /\ SumFunctionOnSet(f, s \ {x}) \in Nat /\ SumFunctionOnSet(h, s \ {x}) \in Nat
    BY <1>1 DEF SumSteps
  <2>3. SumFunctionOnSet(f, s \ {x}) <= SumFunctionOnSet(h, s \ {x})
    OBVIOUS
  <2>4. f[x] \in Nat /\ h[x] \in Nat /\ f[x] <= h[x]
    OBVIOUS
  <2> QED BY <2>2, <2>3, <2>4
<1> HIDE DEF T
<1>4. S \in T
  BY <1>2, <1>3, SubsetSteps
<1> QED BY <1>4 DEF T

LEMMA SumSame ==
  ASSUME NEW S, IsFiniteSet(S), NEW f, NEW h, \A x \in S : f[x] \in Nat /\ f[x] = h[x]
  PROVE  SumFunctionOnSet(f, S) = SumFunctionOnSet(h, S)
<1>1. SumFunctionOnSet(f, S) <= SumFunctionOnSet(h, S) /\ SumFunctionOnSet(h, S) <= SumFunctionOnSet(f, S)
  BY SumMono
<1>2. SumFunctionOnSet(f, S) \in Nat /\ SumFunctionOnSet(h, S) \in Nat
  BY SumStep DEF SumSteps
<1> QED BY <1>1, <1>2

LEMMA SumNone ==
  ASSUME NEW S, IsFiniteSet(S), NEW f, \A x \in S : f[x] = 0
  PROVE  SumFunctionOnSet(f, S) = 0
<1> DEFINE T == {s \in SUBSET S : SumFunctionOnSet(f, s) = 0}
<1>1. \A s \in SUBSET S : SumSteps(f, s)
  <2> TAKE s \in SUBSET S
  <2>1. IsFiniteSet(s)
    BY FS_Subset
  <2> QED BY <2>1, SumStep
<1>2. {} \in T
  BY <1>1 DEF SumSteps
<1>3. ASSUME NEW s \in SUBSET S, s # {} PROVE \E x \in s : s \ {x} \in T => s \in T
  <2>1. PICK x \in s : TRUE
    BY <1>3
  <2> SUFFICES ASSUME s \ {x} \in T PROVE s \in T
    OBVIOUS
  <2>2. SumFunctionOnSet(f, s) = f[x] + SumFunctionOnSet(f, s \ {x})
    BY <1>1 DEF SumSteps
  <2>3. SumFunctionOnSet(f, s \ {x}) = 0 /\ f[x] = 0
    OBVIOUS
  <2> QED BY <2>2, <2>3
<1> HIDE DEF T
<1>4. S \in T
  BY <1>2, <1>3, SubsetSteps
<1> QED BY <1>4 DEF T

(* Over two sets without a common element.                                 *)
LEMMA SumUnion ==
  ASSUME NEW S, IsFiniteSet(S), NEW R, IsFiniteSet(R), S \intersect R = {},
         NEW f, \A x \in S \union R : f[x] \in Nat
  PROVE  SumFunctionOnSet(f, S \union R) = SumFunctionOnSet(f, S) + SumFunctionOnSet(f, R)
<1> DEFINE Sum(s) == SumFunctionOnSet(f, s)
           T == {s \in SUBSET R : Sum(S \union s) = Sum(S) + Sum(s)}
<1>0. IsFiniteSet(S \union R)
  BY FS_Union
<1>1. \A s \in SUBSET (S \union R) : SumSteps(f, s)
  <2> TAKE s \in SUBSET (S \union R)
  <2>1. IsFiniteSet(s)
    BY <1>0, FS_Subset
  <2> QED BY <2>1, SumStep
<1>2. {} \in T
  <2>1. Sum({}) = 0 /\ Sum(S) \in Nat
    BY <1>1 DEF SumSteps
  <2>2. S \union {} = S
    OBVIOUS
  <2> QED BY <2>1, <2>2
<1>3. ASSUME NEW s \in SUBSET R, s # {} PROVE \E x \in s : s \ {x} \in T => s \in T
  <2>1. PICK x \in s : TRUE
    BY <1>3
  <2> SUFFICES ASSUME s \ {x} \in T PROVE s \in T
    OBVIOUS
  <2>2. (S \union s) \ {x} = S \union (s \ {x})
    OBVIOUS
  <2>3. Sum(S \union s) = f[x] + Sum(S \union (s \ {x})) /\ Sum(s) = f[x] + Sum(s \ {x})
    <3>1. S \union s \in SUBSET (S \union R) /\ s \in SUBSET (S \union R) /\ x \in S \union s
      OBVIOUS
    <3> QED BY <1>1, <2>2, <3>1 DEF SumSteps
  <2>4. Sum(S \union (s \ {x})) = Sum(S) + Sum(s \ {x})
    OBVIOUS
  <2>5. Sum(S) \in Nat /\ Sum(s \ {x}) \in Nat /\ f[x] \in Nat
    <3>1. S \in SUBSET (S \union R) /\ s \ {x} \in SUBSET (S \union R)
      OBVIOUS
    <3> QED BY <1>1, <3>1 DEF SumSteps
  <2> HIDE DEF Sum
  <2>6. Sum(S \union s) = Sum(S) + Sum(s)
    BY <2>3, <2>4, <2>5
  <2> QED BY <2>6
<1> HIDE DEF T, Sum
<1>4. R \in T
  BY <1>2, <1>3, SubsetSteps
<1> QED BY <1>4 DEF T, Sum

LEMMA SumSubset ==
  ASSUME NEW S, IsFiniteSet(S), NEW R \in SUBSET S, NEW f, \A x \in S : f[x] \in Nat
  PROVE  SumFunctionOnSet(f, R) <= SumFunctionOnSet(f, S)
<1>1. IsFiniteSet(R) /\ IsFiniteSet(S \ R)
  BY FS_Subset
<1>2. R \union (S \ R) = S /\ R \intersect (S \ R) = {}
  OBVIOUS
<1>3. SumFunctionOnSet(f, R \union (S \ R)) = SumFunctionOnSet(f, R) + SumFunctionOnSet(f, S \ R)
  <2> DEFINE D == S \ R
  <2>1. IsFiniteSet(D) /\ R \intersect D = {} /\ \A x \in R \union D : f[x] \in Nat
    BY <1>1, <1>2
  <2> HIDE DEF D
  <2>2. SumFunctionOnSet(f, R \union D) = SumFunctionOnSet(f, R) + SumFunctionOnSet(f, D)
    BY <1>1, <2>1, SumUnion
  <2> QED BY <2>2 DEF D
<1>4. SumFunctionOnSet(f, R) \in Nat /\ SumFunctionOnSet(f, S \ R) \in Nat
  BY <1>1, SumStep DEF SumSteps
<1>5. SumFunctionOnSet(f, S) = SumFunctionOnSet(f, R) + SumFunctionOnSet(f, S \ R)
  BY <1>2, <1>3
<1> DEFINE a == SumFunctionOnSet(f, R)
           b == SumFunctionOnSet(f, S \ R)
<1> HIDE DEF a, b
<1>6. a \in Nat /\ b \in Nat /\ SumFunctionOnSet(f, S) = a + b
  BY <1>4, <1>5 DEF a, b
<1>7. a <= SumFunctionOnSet(f, S)
  BY <1>6
<1> QED BY <1>7 DEF a

(* Over sets of which no two have a common element, one after the other.   *)
LEMMA SumCover ==
  ASSUME NEW U, IsFiniteSet(U), NEW f, \A x \in U : f[x] \in Nat,
         NEW I, IsFiniteSet(I), NEW P \in [I -> SUBSET U],
         \A i, j \in I : i # j => P[i] \intersect P[j] = {}
  PROVE  SumFunctionOnSet(f, UNION {P[i] : i \in I})
           = SumFunctionOnSet([i \in I |-> SumFunctionOnSet(f, P[i])], I)
<1> DEFINE h == [i \in I |-> SumFunctionOnSet(f, P[i])]
           All(s) == UNION {P[i] : i \in s}
           T == {s \in SUBSET I : SumFunctionOnSet(f, All(s)) = SumFunctionOnSet(h, s)}
<1>0. \A s \in SUBSET U : IsFiniteSet(s) /\ SumSteps(f, s)
  <2> TAKE s \in SUBSET U
  <2>1. IsFiniteSet(s)
    BY FS_Subset
  <2> QED BY <2>1, SumStep
<1>1. \A i \in I : h[i] = SumFunctionOnSet(f, P[i]) /\ h[i] \in Nat
  BY <1>0 DEF SumSteps
<1> HIDE DEF h
<1>2. \A s \in SUBSET I : SumSteps(h, s)
  <2> TAKE s \in SUBSET I
  <2>1. IsFiniteSet(s)
    BY FS_Subset
  <2> QED BY <1>1, <2>1, SumStep
<1>3. {} \in T
  <2>1. All({}) = {}
    OBVIOUS
  <2>2. SumFunctionOnSet(f, {}) = 0 /\ SumFunctionOnSet(h, {}) = 0
    BY <1>0, <1>2 DEF SumSteps
  <2> QED BY <2>1, <2>2
<1>4. ASSUME NEW s \in SUBSET I, s # {} PROVE \E x \in s : s \ {x} \in T => s \in T
  <2>1. PICK x \in s : TRUE
    BY <1>4
  <2> DEFINE a == P[x]
             b == All(s \ {x})
  <2> SUFFICES ASSUME s \ {x} \in T PROVE s \in T
    OBVIOUS
  <2>2. a \union b = All(s) /\ a \intersect b = {} /\ a \in SUBSET U /\ b \in SUBSET U
    OBVIOUS
  <2>3. SumFunctionOnSet(f, b) = SumFunctionOnSet(h, s \ {x})
    OBVIOUS
  <2>4. h[x] = SumFunctionOnSet(f, a)
    BY <1>1
  <2> HIDE DEF a, b, All
  <2>5. IsFiniteSet(a) /\ IsFiniteSet(b) /\ \A y \in a \union b : f[y] \in Nat
    BY <1>0, <2>2
  <2>6. SumFunctionOnSet(f, a \union b) = SumFunctionOnSet(f, a) + SumFunctionOnSet(f, b)
    BY <2>2, <2>5, SumUnion
  <2>7. SumFunctionOnSet(h, s) = h[x] + SumFunctionOnSet(h, s \ {x})
    BY <1>2 DEF SumSteps
  <2> QED BY <2>2, <2>3, <2>4, <2>6, <2>7
<1> HIDE DEF T, All
<1>5. I \in T
  BY <1>3, <1>4, SubsetSteps
<1> QED BY <1>5 DEF T, h, All

-----------------------------------------------------------------------------
(* Sequences put together, by what the first of them come to.              *)

Flattens(seqs, g) == g[0] = <<>> /\ \A i \in 1 .. Len(seqs) : g[i] = g[i - 1] \o seqs[i]

LEMMA FlattenParts ==
  ASSUME NEW A, NEW seqs \in Seq(Seq(A))
  PROVE  \E g \in [0 .. Len(seqs) -> Seq(A)] :
           Flattens(seqs, g) /\ FlattenSeq(seqs) = g[Len(seqs)]
<1> DEFINE n == Len(seqs)
           Upto(k, g) == g[0] = <<>> /\ \A i \in 1 .. k : g[i] = g[i - 1] \o seqs[i]
           T == {k \in 0 .. n : \E g \in [0 .. n -> Seq(A)] : Upto(k, g)}
<1>0. n \in Nat /\ \A i \in 1 .. n : seqs[i] \in Seq(A)
  BY ElementOfSeq, LenProperties
<1> HIDE DEF n
<1>1. 0 \in T
  <2> DEFINE g == [i \in 0 .. n |-> <<>>]
  <2>1. g \in [0 .. n -> Seq(A)]
    OBVIOUS
  <2>2. g[0] = <<>> /\ 0 \in 0 .. n
    BY <1>0
  <2> HIDE DEF g
  <2>3. Upto(0, g)
    BY <2>2
  <2> HIDE DEF Upto
  <2> QED BY <2>1, <2>2, <2>3
<1>2. ASSUME NEW k \in 1 .. n, k - 1 \in T PROVE k \in T
  <2>1. PICK g \in [0 .. n -> Seq(A)] : Upto(k - 1, g)
    BY <1>2
  <2> DEFINE h == [i \in 0 .. n |-> IF i = k THEN g[k - 1] \o seqs[k] ELSE g[i]]
  <2>2. k - 1 \in 0 .. n /\ g[k - 1] \in Seq(A) /\ g[k - 1] \o seqs[k] \in Seq(A)
    BY <1>0, ConcatProperties
  <2>3. h \in [0 .. n -> Seq(A)]
    BY <2>2
  <2>4. Upto(k, h)
    <3>1. h[0] = <<>>
      BY <1>0, <2>1
    <3>2. ASSUME NEW i \in 1 .. k PROVE h[i] = h[i - 1] \o seqs[i]
      <4>1. i \in 0 .. n /\ i - 1 \in 0 .. n /\ i - 1 # k
        BY <1>0
      <4>2. CASE i = k
        BY <4>1, <4>2
      <4>3. CASE i # k
        <5>1. i \in 1 .. k - 1
          BY <1>0, <4>3
        <5>2. g[i] = g[i - 1] \o seqs[i]
          BY <2>1, <5>1
        <5> QED BY <4>1, <4>3, <5>2
      <4> QED BY <4>2, <4>3
    <3> QED BY <3>1, <3>2
  <2> HIDE DEF h, Upto
  <2> QED BY <2>3, <2>4
<1> HIDE DEF T
<1>3. 0 .. n \subseteq T
  BY <1>0, <1>1, <1>2, StepsTo
<1>4. PICK g \in [0 .. n -> Seq(A)] : Upto(n, g)
  <2>1. n \in T
    BY <1>0, <1>3
  <2> QED BY <2>1 DEF T
<1> DEFINE F(f) == [i \in 1 .. n |-> IF i = 1 THEN seqs[i] ELSE f[i - 1] \o seqs[i]]
           h == [i \in 1 .. n |-> g[i]]
           f == CHOOSE f : f = F(f)
<1>5. h = F(h)
  <2>1. ASSUME NEW i \in 1 .. n PROVE h[i] = IF i = 1 THEN seqs[i] ELSE h[i - 1] \o seqs[i]
    <3>1. g[i] = g[i - 1] \o seqs[i]
      BY <1>4
    <3>2. CASE i = 1
      <4>1. i - 1 = 0 /\ g[0] = <<>>
        BY <1>4, <3>2
      <4> QED BY <1>0, <3>1, <3>2, <4>1, ConcatEmptySeq
    <3>3. CASE i # 1
      <4>1. i - 1 \in 1 .. n
        BY <1>0, <3>3
      <4> QED BY <3>1, <3>3, <4>1
    <3> QED BY <3>2, <3>3
  <2> HIDE DEF h
  <2>2. h = [i \in 1 .. n |-> h[i]]
    BY DEF h
  <2> QED BY <2>1, <2>2
<1>6. f = F(f)
  <2> HIDE DEF F, h
  <2> QED BY <1>5
<1>7. \A i \in 1 .. n : f[i] = IF i = 1 THEN seqs[i] ELSE f[i - 1] \o seqs[i]
  <2> HIDE DEF f
  <2> QED BY <1>6
<1>8. \A i \in 1 .. n : h[i] = IF i = 1 THEN seqs[i] ELSE h[i - 1] \o seqs[i]
  <2> HIDE DEF h
  <2> QED BY <1>5
<1> HIDE DEF f
<1>9. 0 .. n \subseteq {k \in 0 .. n : k = 0 \/ f[k] = g[k]}
  <2> DEFINE U == {k \in 0 .. n : k = 0 \/ f[k] = g[k]}
  <2>1. 0 \in U
    BY <1>0
  <2>2. ASSUME NEW k \in 1 .. n, k - 1 \in U PROVE k \in U
    <3>1. k \in 0 .. n
      BY <1>0
    <3>2. CASE k = 1
      BY <1>7, <1>8, <3>1, <3>2
    <3>3. CASE k # 1
      <4>1. f[k - 1] = g[k - 1]
        BY <2>2, <3>3
      <4>2. f[k] = f[k - 1] \o seqs[k] /\ g[k] = g[k - 1] \o seqs[k]
        BY <1>4, <1>7, <3>3
      <4> QED BY <3>1, <4>1, <4>2
    <3> QED BY <3>2, <3>3
  <2> HIDE DEF U
  <2>3. 0 .. n \subseteq U
    BY <1>0, <2>1, <2>2, StepsTo
  <2> QED BY <2>3 DEF U
<1>10. FlattenSeq(seqs) = IF n = 0 THEN seqs ELSE f[n]
  BY DEF FlattenSeq, f, n
<1>11. FlattenSeq(seqs) = g[n]
  <2>1. CASE n = 0
    <3>1. seqs = <<>>
      BY <2>1 DEF n
    <3> QED BY <1>4, <1>10, <2>1, <3>1
  <2>2. CASE n # 0
    <3>1. n \in 0 .. n
      BY <1>0
    <3> QED BY <1>9, <1>10, <2>2, <3>1
  <2> QED BY <2>1, <2>2
<1>12. Flattens(seqs, g)
  BY <1>4 DEF Flattens, n
<1> HIDE DEF Upto
<1> QED BY <1>11, <1>12 DEF n

LEMMA RangeConcat ==
  ASSUME NEW A, NEW s \in Seq(A), NEW t \in Seq(A)
  PROVE  Range(s \o t) = Range(s) \union Range(t)
<1>1. /\ Len(s) \in Nat /\ Len(t) \in Nat /\ Len(s \o t) = Len(s) + Len(t)
      /\ DOMAIN s = 1 .. Len(s) /\ DOMAIN t = 1 .. Len(t)
      /\ DOMAIN (s \o t) = 1 .. Len(s) + Len(t)
      /\ \A i \in 1 .. Len(s) + Len(t) :
           (s \o t)[i] = IF i <= Len(s) THEN s[i] ELSE t[i - Len(s)]
  BY ConcatProperties, LenProperties
<1>2. ASSUME NEW x \in Range(s) PROVE x \in Range(s \o t)
  <2>1. PICK i \in 1 .. Len(s) : x = s[i]
    BY <1>1 DEF Range
  <2>2. i \in 1 .. Len(s) + Len(t) /\ (s \o t)[i] = x
    BY <1>1, <2>1
  <2> QED BY <1>1, <2>2 DEF Range
<1>3. ASSUME NEW x \in Range(t) PROVE x \in Range(s \o t)
  <2>1. PICK i \in 1 .. Len(t) : x = t[i]
    BY <1>1 DEF Range
  <2> DEFINE j == Len(s) + i
  <2>2. j \in 1 .. Len(s) + Len(t) /\ ~(j <= Len(s)) /\ j - Len(s) = i
    BY <1>1
  <2>3. (s \o t)[j] = x
    BY <1>1, <2>1, <2>2
  <2> HIDE DEF j
  <2> QED BY <1>1, <2>2, <2>3 DEF Range
<1>4. ASSUME NEW x \in Range(s \o t) PROVE x \in Range(s) \union Range(t)
  <2>1. PICK i \in 1 .. Len(s) + Len(t) : x = (s \o t)[i]
    BY <1>1 DEF Range
  <2>2. CASE i <= Len(s)
    <3>1. i \in 1 .. Len(s) /\ x = s[i]
      BY <1>1, <2>1, <2>2
    <3> QED BY <1>1, <3>1 DEF Range
  <2>3. CASE ~(i <= Len(s))
    <3>1. i - Len(s) \in 1 .. Len(t) /\ x = t[i - Len(s)]
      BY <1>1, <2>1, <2>3
    <3> QED BY <1>1, <3>1 DEF Range
  <2> QED BY <2>2, <2>3
<1> QED BY <1>2, <1>3, <1>4

LEMMA FlattenRange ==
  ASSUME NEW A, NEW seqs \in Seq(Seq(A)),
         NEW g \in [0 .. Len(seqs) -> Seq(A)], Flattens(seqs, g)
  PROVE  Range(g[Len(seqs)]) = UNION {Range(seqs[i]) : i \in 1 .. Len(seqs)}
<1> DEFINE n == Len(seqs)
           T == {k \in 0 .. n : Range(g[k]) = UNION {Range(seqs[i]) : i \in 1 .. k}}
<1>0. n \in Nat /\ \A i \in 1 .. n : seqs[i] \in Seq(A)
  BY ElementOfSeq, LenProperties
<1>00. g[0] = <<>> /\ \A i \in 1 .. n : g[i] = g[i - 1] \o seqs[i]
  BY DEF Flattens
<1>01. \A k \in 0 .. n : g[k] \in Seq(A)
  OBVIOUS
<1> HIDE DEF n
<1>1. 0 \in T
  <2>1. Range(g[0]) = {}
    BY <1>00 DEF Range
  <2>2. 1 .. 0 = {}
    OBVIOUS
  <2>3. UNION {Range(seqs[i]) : i \in {}} = {}
    OBVIOUS
  <2> QED BY <1>0, <2>1, <2>2, <2>3
<1>2. ASSUME NEW k \in 1 .. n, k - 1 \in T PROVE k \in T
  <2>1. k - 1 \in 0 .. n /\ k \in 0 .. n /\ g[k] = g[k - 1] \o seqs[k]
    BY <1>0, <1>00
  <2>2. Range(g[k]) = Range(g[k - 1]) \union Range(seqs[k])
    <3>1. g[k - 1] \in Seq(A) /\ seqs[k] \in Seq(A)
      BY <1>0, <1>01, <2>1
    <3> QED BY <2>1, <3>1, RangeConcat
  <2>3. 1 .. k = (1 .. k - 1) \union {k}
    BY <1>0
  <2>4. UNION {Range(seqs[i]) : i \in (1 .. k - 1) \union {k}}
          = UNION {Range(seqs[i]) : i \in 1 .. k - 1} \union Range(seqs[k])
    OBVIOUS
  <2>5. Range(g[k - 1]) = UNION {Range(seqs[i]) : i \in 1 .. k - 1}
    BY <1>2
  <2>6. Range(g[k]) = UNION {Range(seqs[i]) : i \in 1 .. k}
    BY <2>2, <2>3, <2>4, <2>5
  <2> QED BY <2>1, <2>6
<1> HIDE DEF T
<1>3. 0 .. n \subseteq T
  <2> QED BY <1>0, <1>1, <1>2, StepsTo
<1>4. n \in T
  BY <1>0, <1>3
<1> QED BY <1>4 DEF T, n
(* Where one of the sequences is in the whole.                             *)
PartAt(seqs, g, i) ==
  /\ Len(g[i - 1]) \in Nat /\ Len(seqs[i]) \in Nat
  /\ Len(g[i]) = Len(g[i - 1]) + Len(seqs[i])
  /\ Len(g[i]) <= Len(g[Len(seqs)])
  /\ \A j \in 1 .. Len(seqs[i]) : g[Len(seqs)][Len(g[i - 1]) + j] = seqs[i][j]

LEMMA FlattenAt ==
  ASSUME NEW A, NEW seqs \in Seq(Seq(A)),
         NEW g \in [0 .. Len(seqs) -> Seq(A)], Flattens(seqs, g)
  PROVE  \A i \in 1 .. Len(seqs) : PartAt(seqs, g, i)
<1> DEFINE n == Len(seqs)
           At(m, i) == /\ Len(g[i]) <= Len(g[m])
                       /\ \A j \in 1 .. Len(seqs[i]) : g[m][Len(g[i - 1]) + j] = seqs[i][j]
           T == {m \in 0 .. n : \A i \in 1 .. m : At(m, i)}
<1>0. n \in Nat /\ \A i \in 1 .. n : seqs[i] \in Seq(A) /\ Len(seqs[i]) \in Nat
  BY ElementOfSeq, LenProperties
<1>00. \A i \in 1 .. n : g[i] = g[i - 1] \o seqs[i]
  BY DEF Flattens
<1>01. \A k \in 0 .. n : g[k] \in Seq(A) /\ Len(g[k]) \in Nat
  BY LenProperties
<1> HIDE DEF n
<1>02. ASSUME NEW i \in 1 .. n
       PROVE  /\ Len(g[i - 1]) \in Nat /\ Len(g[i]) = Len(g[i - 1]) + Len(seqs[i])
              /\ \A k \in 1 .. Len(g[i - 1]) + Len(seqs[i]) :
                   g[i][k] = IF k <= Len(g[i - 1]) THEN g[i - 1][k] ELSE seqs[i][k - Len(g[i - 1])]
  <2>1. i - 1 \in 0 .. n
    BY <1>0
  <2>2. g[i - 1] \in Seq(A) /\ seqs[i] \in Seq(A) /\ g[i] = g[i - 1] \o seqs[i]
    BY <1>0, <1>00, <1>01, <2>1
  <2>3. Len(g[i - 1]) \in Nat
    BY <1>01, <2>1
  <2> DEFINE u == g[i - 1] v == seqs[i]
  <2>4. /\ Len(u \o v) = Len(u) + Len(v)
        /\ \A k \in 1 .. Len(u) + Len(v) :
             (u \o v)[k] = IF k <= Len(u) THEN u[k] ELSE v[k - Len(u)]
    <3> HIDE DEF u, v
    <3> QED BY <2>2, ConcatProperties DEF u, v
  <2> QED BY <2>2, <2>3, <2>4
<1>1. 0 \in T
  BY <1>0
<1>2. ASSUME NEW m \in 1 .. n, m - 1 \in T PROVE m \in T
  <2>1. \A i \in 1 .. m - 1 : At(m - 1, i)
    BY <1>2
  <2>2. ASSUME NEW i \in 1 .. m PROVE At(m, i)
    <3>1. i \in 1 .. n
      BY <1>0
    <3> DEFINE li == Len(g[i]) ls == Len(seqs[i]) lb == Len(g[i - 1])
               lm == Len(g[m]) lp == Len(g[m - 1])
    <3>2. /\ lb \in Nat /\ li = lb + ls /\ ls \in Nat
          /\ lp \in Nat /\ lm \in Nat /\ lp <= lm
          /\ \A k \in 1 .. lp : g[m][k] = g[m - 1][k]
      <4>1. /\ lp \in Nat /\ Len(seqs[m]) \in Nat /\ lm = lp + Len(seqs[m])
            /\ \A k \in 1 .. lp + Len(seqs[m]) :
                 g[m][k] = IF k <= lp THEN g[m - 1][k] ELSE seqs[m][k - lp]
        BY <1>0, <1>02
      <4>2. lb \in Nat /\ li = lb + ls /\ ls \in Nat
        BY <1>0, <1>02, <3>1
      <4> HIDE DEF li, ls, lb, lm, lp
      <4>3. lp <= lm /\ lm \in Nat
        BY <4>1
      <4>4. \A k \in 1 .. lp : g[m][k] = g[m - 1][k]
        <5> SUFFICES ASSUME NEW k \in 1 .. lp PROVE g[m][k] = g[m - 1][k]
          OBVIOUS
        <5>1. k \in 1 .. lp + Len(seqs[m]) /\ k <= lp
          BY <4>1
        <5> QED BY <4>1, <5>1
      <4> QED BY <4>1, <4>2, <4>3, <4>4
    <3>3. CASE i = m
      <4>1. ASSUME NEW j \in 1 .. ls PROVE g[m][lb + j] = seqs[i][j]
        <5>1. \A k \in 1 .. lb + ls :
                g[i][k] = IF k <= lb THEN g[i - 1][k] ELSE seqs[i][k - lb]
          BY <1>02, <3>1
        <5> DEFINE k == lb + j
        <5> HIDE DEF li, ls, lb, lm, lp
        <5>2. k \in 1 .. lb + ls /\ ~(k <= lb) /\ k - lb = j
          BY <3>2
        <5>3. g[i][k] = seqs[i][j]
          <6> HIDE DEF k
          <6> QED BY <5>1, <5>2
        <5> QED BY <3>3, <5>3
      <4>2. li <= lm
        <5>1. li = lm
          BY <3>3
        <5>2. lm \in Nat
          BY <3>2
        <5> HIDE DEF li, lm
        <5> QED BY <5>1, <5>2
      <4> QED BY <4>1, <4>2
    <3>4. CASE i # m
      <4>1. i \in 1 .. m - 1
        BY <1>0, <3>4
      <4>2. At(m - 1, i)
        BY <2>1, <4>1
      <4>3. ASSUME NEW j \in 1 .. ls PROVE g[m][lb + j] = seqs[i][j]
        <5>1. g[m - 1][lb + j] = seqs[i][j] /\ li <= lp
          BY <4>2
        <5> DEFINE k == lb + j
        <5> HIDE DEF li, ls, lb, lm, lp
        <5>2. k \in 1 .. lp
          BY <3>2, <5>1
        <5> HIDE DEF k
        <5>3. g[m][k] = g[m - 1][k]
          BY <3>2, <5>2
        <5> QED BY <5>1, <5>3 DEF k
      <4>4. li <= lm
        <5>1. li <= lp
          BY <4>2
        <5> HIDE DEF li, ls, lb, lm, lp
        <5> QED BY <3>2, <5>1
      <4> QED BY <4>3, <4>4
    <3> QED BY <3>3, <3>4
  <2> HIDE DEF At
  <2>3. m \in 0 .. n
    BY <1>0
  <2> QED BY <2>2, <2>3
<1> HIDE DEF T
<1>3. 0 .. n \subseteq T
  BY <1>0, <1>1, <1>2, StepsTo
<1>4. \A i \in 1 .. n : At(n, i)
  <2>1. n \in T
    BY <1>0, <1>3
  <2> HIDE DEF At
  <2> QED BY <2>1 DEF T
<1>5. ASSUME NEW i \in 1 .. n
      PROVE  /\ Len(g[i - 1]) \in Nat /\ Len(seqs[i]) \in Nat
             /\ Len(g[i]) = Len(g[i - 1]) + Len(seqs[i])
             /\ Len(g[i]) <= Len(g[n])
             /\ \A j \in 1 .. Len(seqs[i]) : g[n][Len(g[i - 1]) + j] = seqs[i][j]
  BY <1>0, <1>02, <1>4
<1> QED BY <1>5 DEF n, PartAt

LEMMA FlattenConcat ==
  ASSUME NEW A, NEW s \in Seq(Seq(A)), NEW t \in Seq(Seq(A))
  PROVE  FlattenSeq(s \o t) = FlattenSeq(s) \o FlattenSeq(t) /\ FlattenSeq(s) \in Seq(A)
<1> DEFINE m == Len(s)
           n == Len(t)
           u == s \o t
<1>1. /\ m \in Nat /\ n \in Nat /\ u \in Seq(Seq(A)) /\ Len(u) = m + n
      /\ \A i \in 1 .. m + n : u[i] = IF i <= m THEN s[i] ELSE t[i - m]
      /\ \A i \in 1 .. m : s[i] \in Seq(A)
      /\ \A i \in 1 .. n : t[i] \in Seq(A)
  BY ConcatProperties, LenProperties, ElementOfSeq
<1>2. PICK e \in [0 .. m -> Seq(A)] : Flattens(s, e) /\ FlattenSeq(s) = e[m]
  BY FlattenParts
<1>3. PICK f \in [0 .. n -> Seq(A)] : Flattens(t, f) /\ FlattenSeq(t) = f[n]
  BY FlattenParts
<1>4. PICK g \in [0 .. m + n -> Seq(A)] : Flattens(u, g) /\ FlattenSeq(u) = g[m + n]
  <2> HIDE DEF u, m, n
  <2> QED BY <1>1, FlattenParts
<1>5. /\ e[0] = <<>> /\ \A i \in 1 .. m : e[i] = e[i - 1] \o s[i]
      /\ f[0] = <<>> /\ \A i \in 1 .. n : f[i] = f[i - 1] \o t[i]
      /\ g[0] = <<>> /\ \A i \in 1 .. m + n : g[i] = g[i - 1] \o u[i]
  BY <1>1, <1>2, <1>3, <1>4 DEF Flattens
<1> HIDE DEF m, n, u
<1>6. g[m] = e[m]
  <2> DEFINE T == {k \in 0 .. m : g[k] = e[k]}
  <2>1. 0 \in T
    BY <1>1, <1>5
  <2>2. ASSUME NEW i \in 1 .. m, i - 1 \in T PROVE i \in T
    <3>0. i \in 1 .. m + n /\ i <= m
      BY <1>1
    <3>1. i \in 1 .. m + n /\ u[i] = s[i]
      BY <1>1, <3>0
    <3>2. g[i] = g[i - 1] \o s[i] /\ e[i] = e[i - 1] \o s[i]
      BY <1>5, <3>1
    <3>3. g[i - 1] = e[i - 1] /\ i \in 0 .. m
      BY <1>1, <2>2
    <3> QED BY <3>2, <3>3
  <2> HIDE DEF T
  <2>3. 0 .. m \subseteq T
    BY <1>1, <2>1, <2>2, StepsTo
  <2> QED BY <1>1, <2>3 DEF T
<1>7. g[m + n] = e[m] \o f[n]
  <2> DEFINE T == {k \in 0 .. n : g[m + k] = e[m] \o f[k]}
  <2>0. e[m] \in Seq(A) /\ \A k \in 0 .. n : f[k] \in Seq(A)
    BY <1>1
  <2>1. 0 \in T
    <3>1. e[m] \o <<>> = e[m]
      BY <2>0, ConcatEmptySeq
    <3>2. 0 \in 0 .. n /\ m + 0 = m /\ f[0] = <<>>
      BY <1>1, <1>5
    <3> QED BY <1>6, <3>1, <3>2
  <2>2. ASSUME NEW i \in 1 .. n, i - 1 \in T PROVE i \in T
    <3>1. m + i \in 1 .. m + n /\ (m + i) - 1 = m + (i - 1) /\ u[m + i] = t[i]
      <4>1. m + i \in 1 .. m + n /\ ~(m + i <= m) /\ (m + i) - m = i /\ (m + i) - 1 = m + (i - 1)
        BY <1>1
      <4> QED BY <1>1, <4>1
    <3>2. g[m + i] = g[m + (i - 1)] \o t[i]
      <4>1. g[m + i] = g[(m + i) - 1] \o u[m + i]
        BY <1>5, <3>1
      <4> QED BY <3>1, <4>1
    <3>3. g[m + (i - 1)] = e[m] \o f[i - 1]
      BY <2>2
    <3>4. (e[m] \o f[i - 1]) \o t[i] = e[m] \o (f[i - 1] \o t[i])
      <4>1. i - 1 \in 0 .. n /\ t[i] \in Seq(A)
        BY <1>1
      <4>2. f[i - 1] \in Seq(A)
        BY <2>0, <4>1
      <4> DEFINE x == e[m]    y == f[i - 1]    z == t[i]
      <4>3. x \in Seq(A) /\ y \in Seq(A) /\ z \in Seq(A)
        BY <2>0, <4>1, <4>2
      <4> HIDE DEF x, y, z
      <4>4. (x \o y) \o z = x \o (y \o z)
        BY <4>3, ConcatAssociative, SMTT(60)
      <4> QED BY <4>4 DEF x, y, z
    <3>5. f[i] = f[i - 1] \o t[i]
      BY <1>5, Zenon
    <3>6. i \in 0 .. n
      BY <1>1
    <3> QED BY <3>2, <3>3, <3>4, <3>5, <3>6
  <2> HIDE DEF T
  <2>3. 0 .. n \subseteq T
    BY <1>1, <2>1, <2>2, StepsTo
  <2>4. n \in 0 .. n
    BY <1>1
  <2> QED BY <2>3, <2>4 DEF T
<1>8. e[m] \in Seq(A)
  BY <1>1
<1> QED BY <1>2, <1>3, <1>4, <1>7, <1>8 DEF u

LEMMA FlattenNone ==
  ASSUME NEW A, NEW seqs \in Seq(Seq(A)), \A i \in 1 .. Len(seqs) : seqs[i] = <<>>
  PROVE  FlattenSeq(seqs) = <<>>
<1> DEFINE n == Len(seqs)
<1>1. n \in Nat
  BY LenProperties
<1>2. PICK g \in [0 .. n -> Seq(A)] : Flattens(seqs, g) /\ FlattenSeq(seqs) = g[n]
  BY FlattenParts
<1>3. g[0] = <<>> /\ \A i \in 1 .. n : g[i] = g[i - 1] \o <<>>
  BY <1>2 DEF Flattens
<1> DEFINE T == {k \in 0 .. n : g[k] = <<>>}
<1> HIDE DEF n
<1>4. 0 \in T
  BY <1>1, <1>3
<1>5. \A i \in 1 .. n : i - 1 \in T => i \in T
  <2>1. <<>> \o <<>> = <<>>
    BY EmptySeq, ConcatEmptySeq
  <2> QED BY <1>1, <1>3, <2>1
<1> HIDE DEF T
<1>6. 0 .. n \subseteq T
  BY <1>1, <1>4, <1>5, StepsTo
<1> QED BY <1>1, <1>2, <1>6 DEF T

-----------------------------------------------------------------------------
(* Folds from the left.  They are defined on sets of indices and take the  *)
(* greatest one last.                                                      *)

Folding(n, base, H, g) ==
  [s \in SUBSET (1 .. n) |-> IF s = {} THEN base ELSE H[<<g[s \ {Max(s)}], Max(s)>>]]
Folds(n, A, base, H) ==
  \E g \in [SUBSET (1 .. n) -> A] : g = Folding(n, base, H, g)

LEMMA MaxIn ==
  ASSUME NEW n \in Nat, NEW s \in SUBSET (1 .. n), s # {}
  PROVE  Max(s) \in s
<1>1. s \in SUBSET (0 .. n)
  OBVIOUS
<1> QED BY <1>1, MaxOf

LEMMA FoldsExist ==
  ASSUME NEW n \in Nat, NEW A, NEW base \in A, NEW H \in [A \X (1 .. n) -> A]
  PROVE  Folds(n, A, base, H)
<1> DEFINE S == 1 .. n
           c == [s \in SUBSET S |-> Max(s)]
           K == [p \in (SUBSET S) \X A |-> IF p[1] = {} THEN base ELSE H[<<p[2], Max(p[1])>>]]
<1>1. \A s \in SUBSET S : s # {} => c[s] \in s
  BY MaxIn
<1>2. K \in [(SUBSET S) \X A -> A]
  <2> SUFFICES ASSUME NEW p \in (SUBSET S) \X A
               PROVE  (IF p[1] = {} THEN base ELSE H[<<p[2], Max(p[1])>>]) \in A
    OBVIOUS
  <2>1. p[1] \in SUBSET S /\ p[2] \in A
    OBVIOUS
  <2>2. p[1] # {} => Max(p[1]) \in 1 .. n
    BY <2>1, MaxIn
  <2>3. p[1] # {} => <<p[2], Max(p[1])>> \in A \X (1 .. n)
    BY <2>1, <2>2
  <2> QED BY <2>3
<1>3. IsFiniteSet(S)
  BY FS_Interval
<1>4. Recursion(S, A, base, c, K)
  <2> HIDE DEF S, c, K
  <2> QED BY <1>1, <1>2, <1>3, SubsetRecursion
<1>5. PICK g \in [SUBSET S -> A] : g = Rec(S, base, c, K, g)
  BY <1>4 DEF Recursion
<1>6. ASSUME NEW s \in SUBSET S, s # {}
      PROVE  K[<<s, g[s \ {c[s]}]>>] = H[<<g[s \ {Max(s)}], Max(s)>>]
  <2>1. c[s] = Max(s)
    OBVIOUS
  <2>2. s \ {Max(s)} \in SUBSET S
    OBVIOUS
  <2>3. <<s, g[s \ {Max(s)}]>> \in (SUBSET S) \X A
    BY <2>2
  <2> QED BY <1>6, <2>1, <2>3
<1>7. Rec(S, base, c, K, g) = [s \in SUBSET S |-> IF s = {} THEN base ELSE H[<<g[s \ {Max(s)}], Max(s)>>]]
  <2> HIDE DEF c, K, S
  <2> QED BY <1>6 DEF Rec
<1>8. g = Folding(n, base, H, g)
  BY <1>5, <1>7 DEF Folding
<1> QED BY <1>5, <1>8 DEF Folds

LEMMA MaxUpto ==
  ASSUME NEW n \in Nat, NEW k \in 1 .. n
  PROVE  /\ 1 .. k \in SUBSET (1 .. n) /\ 1 .. k # {} /\ Max(1 .. k) = k
         /\ (1 .. k) \ {k} = 1 .. (k - 1)
<1>1. k \in 1 .. k /\ 1 .. k \in SUBSET (0 .. n)
  OBVIOUS
<1>2. Max(1 .. k) \in 1 .. k /\ k <= Max(1 .. k)
  BY <1>1, MaxOf
<1> DEFINE m == Max(1 .. k)
<1>3. m = k
  <2> HIDE DEF m
  <2>1. m \in 1 .. k /\ k <= m
    BY <1>2 DEF m
  <2> QED BY <2>1
<1> QED BY <1>1, <1>3
=============================================================================
