------------------------------ MODULE FoldLemmas ------------------------------
(***************************************************************************)
(* The loops of the code are folds of the community modules, which are     *)
(* recursive functions on the subsets of a finite set.  These lemmas say   *)
(* when such a function exists, and how to show something of its value.    *)
(*                                                                         *)
(* They are about functions, not operators, so that they can be cited for  *)
(* any loop; where one would use induction they take a least               *)
(* counterexample, whose existence is a fact about sets.                   *)
(***************************************************************************)
EXTENDS Integers, FiniteSets, FiniteSetTheorems, WellFoundedInduction, TLAPS

\* A set of natural numbers that is not empty has a least element.
LEMMA LeastNumber ==
    ASSUME NEW T \in SUBSET Nat, T # {}
    PROVE  \E m \in T : \A n \in T : m <= n
<1> DEFINE R == OpToRel(<, Nat)
<1>1. IsWellFoundedOn(R, Nat)
  BY NatLessThanWellFounded
<1>2. \A x, y \in Nat : <<y, x>> \in R <=> y < x
  BY DEF OpToRel
<1> HIDE DEF R
<1>3. PICK m \in T : \A y \in T : ~(<<y, m>> \in R)
  BY <1>1, WFMin
<1>4. \A n \in T : n \in Nat /\ m \in Nat
  OBVIOUS
<1>5. \A n \in T : ~(n < m)
  BY <1>2, <1>3, <1>4
<1>. QED BY <1>4, <1>5

\* The choices of the next element, as the folds make them.
Picks(S) == {pick \in [(SUBSET S) \ {{}} -> S] : \A s \in (SUBSET S) \ {{}} : pick[s] \in s}

\* Without the element picked, a set is smaller.
LEMMA OneLess ==
    ASSUME NEW S, IsFiniteSet(S), NEW pick \in Picks(S), NEW s \in (SUBSET S) \ {{}}
    PROVE  /\ pick[s] \in s /\ pick[s] \in S
           /\ s \ {pick[s]} \in SUBSET S
           /\ Cardinality(s \ {pick[s]}) = Cardinality(s) - 1
           /\ Cardinality(s) \in Nat /\ Cardinality(s \ {pick[s]}) \in Nat
<1>1. pick[s] \in s /\ pick[s] \in S
  BY DEF Picks
<1>2. IsFiniteSet(s)
  BY FS_Subset
<1>3. IsFiniteSet(s \ {pick[s]}) /\ Cardinality(s \ {pick[s]}) = Cardinality(s) - 1
  BY <1>1, <1>2, FS_RemoveElement
<1>. QED BY <1>1, <1>2, <1>3, FS_CardinalityType

\* What is true of the fold of no element, and of the fold of a set when it is true
\* of the set without the element picked, is true of the fold: here, to be in V[s].
LEMMA FoldStays ==
    ASSUME NEW S, IsFiniteSet(S), NEW pick \in Picks(S), NEW V, NEW f,
           f[{}] \in V[{}],
           \A s \in (SUBSET S) \ {{}} :
               f[s \ {pick[s]}] \in V[s \ {pick[s]}] => f[s] \in V[s]
    PROVE  f[S] \in V[S]
<1> DEFINE T == {n \in Nat : \E s \in SUBSET S : Cardinality(s) = n /\ f[s] \notin V[s]}
<1>1. T = {}
  <2> SUFFICES ASSUME T # {} PROVE FALSE
    OBVIOUS
  <2>1. T \in SUBSET Nat
    OBVIOUS
  <2>2. \A s \in SUBSET S : Cardinality(s) \in Nat /\ f[s] \notin V[s] => Cardinality(s) \in T
    OBVIOUS
  <2>3. \A n \in T : \E s \in SUBSET S : Cardinality(s) = n /\ f[s] \notin V[s]
    OBVIOUS
  <2> HIDE DEF T
  <2>4. PICK m \in T : \A n \in T : m <= n
    BY <2>1, LeastNumber
  <2>5. PICK s \in SUBSET S : Cardinality(s) = m /\ f[s] \notin V[s]
    BY <2>3
  <2>6. s # {}
    BY <2>5
  <2> DEFINE r == s \ {pick[s]}
  <2>7. /\ r \in SUBSET S /\ Cardinality(r) = Cardinality(s) - 1
        /\ Cardinality(s) \in Nat /\ Cardinality(r) \in Nat
    BY <2>6, OneLess, ZenonT(60)
  <2>8. f[r] \notin V[r]
    BY <2>5, <2>6
  <2> HIDE DEF r
  <2>9. Cardinality(r) \in T
    BY <2>2, <2>7, <2>8
  <2>10. m <= Cardinality(r)
    BY <2>4, <2>9
  <2>. QED BY <2>5, <2>7, <2>10
<1>2. Cardinality(S) \in Nat
  BY FS_CardinalityType
<1>. QED BY <1>1, <1>2

\* f is the fold of g, from base, over the subsets of S, with its values in W.
FoldsTo(f, S, pick, W, base, g) ==
    /\ f = [s \in SUBSET S |-> IF s = {} THEN base ELSE g[pick[s]][f[s \ {pick[s]}]]]
    /\ \A s \in SUBSET S : f[s] \in W[s]

\* A fold whose steps lead from one value of W to the next exists.
LEMMA FoldExists ==
    ASSUME NEW S, IsFiniteSet(S), NEW pick \in Picks(S), NEW W, NEW base \in W[{}], NEW g,
           \A s \in (SUBSET S) \ {{}} : \A v \in W[s \ {pick[s]}] : g[pick[s]][v] \in W[s]
    PROVE  \E f : FoldsTo(f, S, pick, W, base, g)
<1>0. \A s \in (SUBSET S) \ {{}} :
          /\ pick[s] \in S /\ s \ {pick[s]} \in SUBSET S
          /\ Cardinality(s \ {pick[s]}) = Cardinality(s) - 1
          /\ Cardinality(s) \in Nat
  BY OneLess
<1> DEFINE Small(n) == {s \in SUBSET S : Cardinality(s) <= n}
           Fold(f, n) == /\ f = [s \in Small(n) |->
                                    IF s = {} THEN base ELSE g[pick[s]][f[s \ {pick[s]}]]]
                         /\ \A s \in Small(n) : f[s] \in W[s]
           T == {n \in Nat : ~ \E f : Fold(f, n)}
<1>1. \A s \in SUBSET S : Cardinality(s) \in Nat /\ (Cardinality(s) = 0 <=> s = {})
  <2> SUFFICES ASSUME NEW s \in SUBSET S
               PROVE  Cardinality(s) \in Nat /\ (Cardinality(s) = 0 <=> s = {})
    OBVIOUS
  <2>1. IsFiniteSet(s)
    BY FS_Subset
  <2>. QED BY <2>1, FS_CardinalityType, FS_EmptySet
<1>2. \A n \in Nat : \A s \in Small(n) \ {{}} : n # 0 /\ s \ {pick[s]} \in Small(n - 1)
  <2> SUFFICES ASSUME NEW n \in Nat, NEW s \in Small(n) \ {{}}
               PROVE  n # 0 /\ s \ {pick[s]} \in Small(n - 1)
    OBVIOUS
  <2>1. s \in (SUBSET S) \ {{}} /\ Cardinality(s) <= n
    OBVIOUS
  <2>2. /\ s \ {pick[s]} \in SUBSET S
        /\ Cardinality(s \ {pick[s]}) = Cardinality(s) - 1
        /\ Cardinality(s) \in Nat
    BY <1>0, <2>1
  <2>3. Cardinality(s) # 0
    BY <1>1, <2>1
  <2>. QED BY <2>1, <2>2, <2>3
<1>3. \A n \in Nat : Small(n - 1) \subseteq Small(n)
  BY <1>1
<1>4. T = {}
  <2> SUFFICES ASSUME T # {} PROVE FALSE
    OBVIOUS
  <2>1. T \in SUBSET Nat
    OBVIOUS
  <2>2. PICK m \in T : \A n \in T : m <= n
    BY <2>1, LeastNumber
  <2>3. m \in Nat /\ ~ \E f : Fold(f, m)
    OBVIOUS
  <2>4. CASE m = 0
    <3> DEFINE f == [s \in Small(m) |-> base]
    <3>1. \A s \in Small(m) : s = {}
      BY <1>2, <2>3, <2>4
    <3>2. f = [s \in Small(m) |-> IF s = {} THEN base ELSE g[pick[s]][f[s \ {pick[s]}]]]
      BY <3>1
    <3>3. \A s \in Small(m) : f[s] \in W[s]
      BY <3>1
    <3>. QED BY <2>3, <3>2, <3>3
  <2>5. CASE m # 0
    <3>1. m - 1 \in Nat /\ ~(m <= m - 1)
      BY <2>3, <2>5
    <3>2. m - 1 \notin T
      BY <2>2, <3>1
    <3>3. PICK h : Fold(h, m - 1)
      BY <3>1, <3>2
    <3> DEFINE f == [s \in Small(m) |-> IF s = {} THEN base ELSE g[pick[s]][h[s \ {pick[s]}]]]
    <3>4. \A s \in Small(m - 1) : f[s] = h[s] /\ h[s] \in W[s]
      BY <1>3, <2>3, <3>3
    <3>5. \A s \in Small(m) \ {{}} : s \ {pick[s]} \in Small(m - 1)
      BY <1>2, <2>3
    <3>6. f = [s \in Small(m) |-> IF s = {} THEN base ELSE g[pick[s]][f[s \ {pick[s]}]]]
      <4> SUFFICES ASSUME NEW s \in Small(m)
                   PROVE  (IF s = {} THEN base ELSE g[pick[s]][h[s \ {pick[s]}]])
                            = IF s = {} THEN base ELSE g[pick[s]][f[s \ {pick[s]}]]
        OBVIOUS
      <4>1. CASE s = {}
        BY <4>1
      <4>2. CASE s # {}
        <5>1. f[s \ {pick[s]}] = h[s \ {pick[s]}]
          BY <3>4, <3>5, <4>2
        <5> HIDE DEF f
        <5>. QED BY <4>2, <5>1
      <4>. QED BY <4>1, <4>2
    <3>7. \A s \in Small(m) : f[s] \in W[s]
      <4> SUFFICES ASSUME NEW s \in Small(m) PROVE f[s] \in W[s]
        OBVIOUS
      <4>1. CASE s = {}
        BY <4>1
      <4>2. CASE s # {}
        <5>1. h[s \ {pick[s]}] \in W[s \ {pick[s]}]
          BY <3>4, <3>5, <4>2
        <5>2. f[s] = g[pick[s]][h[s \ {pick[s]}]]
          BY <4>2
        <5>. QED BY <4>2, <5>1, <5>2
      <4>. QED BY <4>1, <4>2
    <3> HIDE DEF f
    <3>8. Fold(f, m)
      BY <3>6, <3>7
    <3>. QED BY <2>3, <3>8
  <2>. QED BY <2>4, <2>5
<1>5. Cardinality(S) \in Nat
  BY <1>1
<1>6. PICK f : Fold(f, Cardinality(S))
  BY <1>4, <1>5
<1>7. Small(Cardinality(S)) = SUBSET S
  <2> SUFFICES ASSUME NEW s \in SUBSET S PROVE Cardinality(s) <= Cardinality(S)
    OBVIOUS
  <2>. QED BY FS_Subset
<1> HIDE DEF Small
<1>. QED BY <1>6, <1>7 DEF FoldsTo
-----------------------------------------------------------------------------
(* FoldSet, which takes the elements by CHOOSE *)

NextOf(s) == CHOOSE x \in s : TRUE

\* f is what FoldSet computes with g from base for the subsets of S.
IsFoldOf(f, S, base, g) ==
    f = [s \in SUBSET S |-> IF s = {} THEN base ELSE g[NextOf(s)][f[s \ {NextOf(s)}]]]

\* The function NextOf is a choice of the next element.
LEMMA NextPicks ==
    ASSUME NEW S
    PROVE  LET pick == [s \in (SUBSET S) \ {{}} |-> NextOf(s)] IN
           /\ pick \in Picks(S)
           /\ \A s \in (SUBSET S) \ {{}} : pick[s] = NextOf(s)
           /\ \A s \in (SUBSET S) \ {{}} :
                 /\ NextOf(s) \in s /\ NextOf(s) \in S /\ s \ {NextOf(s)} \in SUBSET S
                 /\ NextOf(s) \in S \ (s \ {NextOf(s)})
                 /\ (s \ {NextOf(s)}) \union {NextOf(s)} = s
<1>1. \A s \in (SUBSET S) \ {{}} : NextOf(s) \in s
  BY DEF NextOf
<1> HIDE DEF NextOf
<1>. QED BY <1>1 DEF Picks

\* A loop whose rounds lead from one value of W to the next has a function, ...
LEMMA LoopExists ==
    ASSUME NEW S, IsFiniteSet(S), NEW W, NEW base \in W[{}], NEW g,
           \A s \in SUBSET S : \A x \in S \ s : \A v \in W[s] : g[x][v] \in W[s \union {x}]
    PROVE  \E f : IsFoldOf(f, S, base, g) /\ \A s \in SUBSET S : f[s] \in W[s]
<1> DEFINE pick == [s \in (SUBSET S) \ {{}} |-> NextOf(s)]
<1>1. /\ pick \in Picks(S)
      /\ \A s \in (SUBSET S) \ {{}} : pick[s] = NextOf(s)
      /\ \A s \in (SUBSET S) \ {{}} :
            /\ NextOf(s) \in s /\ NextOf(s) \in S /\ s \ {NextOf(s)} \in SUBSET S
            /\ NextOf(s) \in S \ (s \ {NextOf(s)})
            /\ (s \ {NextOf(s)}) \union {NextOf(s)} = s
  BY NextPicks
<1> HIDE DEF pick
<1>2. \A s \in (SUBSET S) \ {{}} : \A v \in W[s \ {pick[s]}] : g[pick[s]][v] \in W[s]
  <2> SUFFICES ASSUME NEW s \in (SUBSET S) \ {{}}, NEW v \in W[s \ {NextOf(s)}]
               PROVE  g[NextOf(s)][v] \in W[s]
    BY <1>1
  <2>1. g[NextOf(s)][v] \in W[(s \ {NextOf(s)}) \union {NextOf(s)}]
    BY <1>1
  <2>. QED BY <1>1, <2>1
<1>3. PICK f : FoldsTo(f, S, pick, W, base, g)
  BY <1>1, <1>2, FoldExists
<1>4. f = [s \in SUBSET S |-> IF s = {} THEN base ELSE g[pick[s]][f[s \ {pick[s]}]]]
  BY <1>3 DEF FoldsTo
<1>5. \A s \in SUBSET S : (IF s = {} THEN base ELSE g[pick[s]][f[s \ {pick[s]}]])
                          = IF s = {} THEN base ELSE g[NextOf(s)][f[s \ {NextOf(s)}]]
  BY <1>1
<1>6. f = [s \in SUBSET S |-> IF s = {} THEN base ELSE g[NextOf(s)][f[s \ {NextOf(s)}]]]
  BY <1>4, <1>5
<1>. QED BY <1>3, <1>6 DEF FoldsTo, IsFoldOf

\* ... and ends in W.
LEMMA LoopStays ==
    ASSUME NEW S, IsFiniteSet(S), NEW W, NEW f, f[{}] \in W[{}],
           \A s \in SUBSET S : \A x \in S \ s :
               x = NextOf(s \union {x}) /\ f[s] \in W[s] => f[s \union {x}] \in W[s \union {x}]
    PROVE  f[S] \in W[S]
<1> DEFINE pick == [s \in (SUBSET S) \ {{}} |-> NextOf(s)]
<1>1. /\ pick \in Picks(S)
      /\ \A s \in (SUBSET S) \ {{}} : pick[s] = NextOf(s)
      /\ \A s \in (SUBSET S) \ {{}} :
            /\ NextOf(s) \in s /\ NextOf(s) \in S /\ s \ {NextOf(s)} \in SUBSET S
            /\ NextOf(s) \in S \ (s \ {NextOf(s)})
            /\ (s \ {NextOf(s)}) \union {NextOf(s)} = s
  BY NextPicks
<1> HIDE DEF pick
<1>2. \A s \in (SUBSET S) \ {{}} : f[s \ {pick[s]}] \in W[s \ {pick[s]}] => f[s] \in W[s]
  <2> SUFFICES ASSUME NEW s \in (SUBSET S) \ {{}}, f[s \ {NextOf(s)}] \in W[s \ {NextOf(s)}]
               PROVE  f[s] \in W[s]
    BY <1>1
  <2> DEFINE r == s \ {NextOf(s)}
             x == NextOf(s)
  <2>1. r \in SUBSET S /\ x \in S \ r /\ r \union {x} = s /\ f[r] \in W[r]
    BY <1>1
  <2>2. x = NextOf(s)
    OBVIOUS
  <2> HIDE DEF r, x
  <2>3. x = NextOf(r \union {x})
    BY <2>1, <2>2
  <2>4. f[r \union {x}] \in W[r \union {x}]
    BY <2>1, <2>3
  <2>. QED BY <2>1, <2>4
<1>. QED BY <1>1, <1>2, FoldStays
=============================================================================
