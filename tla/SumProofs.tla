------------------------------ MODULE SumProofs -----------------------------
(***************************************************************************)
(* What a sum over a finite set is.  The sums of the load harness and of   *)
(* the worker pool are folds: SumFunctionOnSet picks one element after the *)
(* other.  Here it is shown that such a sum exists, that the order of the  *)
(* elements does not matter, and how it changes with the function.         *)
(*                                                                         *)
(* Induction is over sets and not over predicates: a set of numbers with 0 *)
(* and every successor is Nat, and a set of subsets of a finite set that   *)
(* is closed under one more element has all of them.                       *)
(***************************************************************************)
EXTENDS Functions, FiniteSetTheorems, TLAPS

(* A set of numbers that has 0 and every successor has all of them. *)
LEMMA AllNumbers ==
    ASSUME NEW T, 0 \in T, \A n \in Nat : n \in T => n + 1 \in T
    PROVE  \A n \in Nat : n \in T
<1> DEFINE R == {ss \in Nat \X Nat : ss[1] < ss[2]}
           rest == Nat \ T
<1>1. R = OpToRel(<, Nat)
    BY DEF OpToRel
<1>2. IsWellFoundedOn(R, Nat)
    BY <1>1, NatLessThanWellFounded
<1> HIDE DEF R
<1>3. SUFFICES ASSUME rest # {} PROVE FALSE
    OBVIOUS
<1>4. PICK x \in rest : \A y \in rest : ~(<<y, x>> \in R)
    BY <1>2, <1>3, WFMin
<1>5. x \in Nat /\ x # 0 /\ x \notin T
    BY <1>4
<1>6. x - 1 \in Nat /\ (x - 1) + 1 = x /\ x - 1 < x
    BY <1>5
<1>7. <<x - 1, x>> \in Nat \X Nat /\ <<x - 1, x>>[1] = x - 1 /\ <<x - 1, x>>[2] = x
    BY <1>5, <1>6
<1>8. <<x - 1, x>> \in R
    BY <1>6, <1>7 DEF R
<1>9. x - 1 \in T
    BY <1>4, <1>6, <1>8
<1> QED
    BY <1>5, <1>6, <1>9

(* A set of sets that has the empty one, and with each set every one that  *)
(* is larger by an element of S, has every subset of a finite S.           *)
LEMMA AllSubsets ==
    ASSUME NEW S, IsFiniteSet(S), NEW Q, {} \in Q,
           \A s \in SUBSET S : \A x \in S \ s : s \in Q => s \cup {x} \in Q
    PROVE  \A s \in SUBSET S : s \in Q
<1> DEFINE T == {n \in Nat : \A s \in SUBSET S : Cardinality(s) = n => s \in Q}
<1>1. \A s \in SUBSET S : IsFiniteSet(s) /\ Cardinality(s) \in Nat
    BY FS_Subset, FS_CardinalityType
<1>2. 0 \in T
    BY <1>1, FS_EmptySet
<1>3. ASSUME NEW n \in Nat, n \in T PROVE n + 1 \in T
    <2> SUFFICES ASSUME NEW s \in SUBSET S, Cardinality(s) = n + 1 PROVE s \in Q
        OBVIOUS
    <2>1. s # {}
        BY FS_EmptySet
    <2>2. PICK x \in s : TRUE
        BY <2>1
    <2>3. Cardinality(s \ {x}) = Cardinality(s) - 1
        BY <1>1, FS_RemoveElement
    <2>4. Cardinality(s \ {x}) = n
        BY <2>3
    <2>5. s \ {x} \in SUBSET S /\ x \in S \ (s \ {x}) /\ s = (s \ {x}) \cup {x}
        OBVIOUS
    <2>6. s \ {x} \in Q
        BY <1>3, <2>4, <2>5
    <2> QED
        BY <2>5, <2>6
<1>4. \A n \in Nat : n \in T
    <2> HIDE DEF T
    <2> QED
        BY <1>2, <1>3, AllNumbers
<1> QED
    BY <1>1, <1>4

-----------------------------------------------------------------------------
(* The fold. *)

Picked(s) == CHOOSE x \in s : TRUE

(* g gives every subset of S its sum, in the order of the fold. *)
SumsUp(g, f, S) ==
    g = [s \in SUBSET S |-> IF s = {} THEN 0 ELSE f[Picked(s)] + g[s \ {Picked(s)}]]

LEMMA FoldIsChosen ==
    ASSUME NEW f, NEW S
    PROVE  SumFunctionOnSet(f, S) = (CHOOSE g : SumsUp(g, f, S))[S]
BY DEF SumFunctionOnSet, FoldFunctionOnSet, MapThenFoldSet, SumsUp, Picked

LEMMA PickedIsIn ==
    ASSUME NEW s, s # {}
    PROVE  Picked(s) \in s
BY DEF Picked

LEMMA SumsExist ==
    ASSUME NEW S, IsFiniteSet(S), NEW f, \A x \in S : f[x] \in Int
    PROVE  \E g : SumsUp(g, f, S)
<1> DEFINE Upto(n) == {s \in SUBSET S : Cardinality(s) <= n}
           Sum(g, s) == IF s = {} THEN 0 ELSE f[Picked(s)] + g[s \ {Picked(s)}]
           T == {n \in Nat : \E g : g = [s \in Upto(n) |-> Sum(g, s)]}
<1>1. \A s \in SUBSET S : IsFiniteSet(s) /\ Cardinality(s) \in Nat
    BY FS_Subset, FS_CardinalityType
<1>2. \A s \in SUBSET S : s # {} =>
            /\ s \ {Picked(s)} \in SUBSET S
            /\ Cardinality(s \ {Picked(s)}) = Cardinality(s) - 1
    BY <1>1, PickedIsIn, FS_RemoveElement
<1>3. 0 \in T
    <2> DEFINE g == [s \in Upto(0) |-> 0]
    <2>1. \A s \in Upto(0) : s = {}
        BY <1>1, FS_EmptySet
    <2>2. g = [s \in Upto(0) |-> Sum(g, s)]
        BY <2>1
    <2> QED
        BY <2>2
<1>4. ASSUME NEW n \in Nat, n \in T PROVE n + 1 \in T
    <2>1. PICK g : g = [s \in Upto(n) |-> Sum(g, s)]
        BY <1>4
    <2> DEFINE h == [s \in Upto(n + 1) |-> Sum(g, s)]
    <2>2. ASSUME NEW s \in Upto(n) PROVE s \in Upto(n + 1) /\ h[s] = g[s]
        <3>1. s \in Upto(n + 1)
            BY <1>1
        <3>2. g[s] = Sum(g, s)
            BY <2>1
        <3> QED
            BY <3>1, <3>2
    <2>3. ASSUME NEW s \in Upto(n + 1), s # {} PROVE s \ {Picked(s)} \in Upto(n)
        BY <1>1, <1>2, <2>3
    <2>4. \A s \in Upto(n + 1) : Sum(g, s) = Sum(h, s)
        BY <2>2, <2>3
    <2>5. h = [s \in Upto(n + 1) |-> Sum(h, s)]
        BY <2>4
    <2>6. n + 1 \in Nat
        OBVIOUS
    <2> HIDE DEF h
    <2> QED
        BY <2>5, <2>6
<1>5. Cardinality(S) \in T
    <2>1. \A n \in Nat : n \in T
        <3> HIDE DEF T
        <3> QED
            BY <1>3, <1>4, AllNumbers
    <2> QED
        BY <2>1, FS_CardinalityType
<1>6. PICK g : g = [s \in Upto(Cardinality(S)) |-> Sum(g, s)]
    BY <1>5
<1>7. Upto(Cardinality(S)) = SUBSET S
    BY FS_Subset
<1>8. g = [s \in SUBSET S |-> Sum(g, s)]
    BY <1>6, <1>7
<1> QED
    BY <1>8 DEF SumsUp

(* The order does not matter: any element may be added last. *)
LEMMA AnyElement ==
    ASSUME NEW S, IsFiniteSet(S), NEW f, \A x \in S : f[x] \in Int,
           NEW g, SumsUp(g, f, S)
    PROVE  /\ g[{}] = 0
           /\ \A s \in SUBSET S : g[s] \in Int
           /\ \A s \in SUBSET S : \A x \in s : g[s] = f[x] + g[s \ {x}]
<1> DEFINE Fine(s) == g[s] \in Int /\ \A x \in s : g[s] = f[x] + g[s \ {x}]
           T == {n \in Nat : \A s \in SUBSET S : Cardinality(s) <= n => Fine(s)}
<1>1. \A s \in SUBSET S : IsFiniteSet(s) /\ Cardinality(s) \in Nat
    BY FS_Subset, FS_CardinalityType
<1>2. \A s \in SUBSET S : s # {} => Picked(s) \in s /\ g[s] = f[Picked(s)] + g[s \ {Picked(s)}]
    BY PickedIsIn DEF SumsUp
<1>3. g[{}] = 0
    BY DEF SumsUp
<1>4. \A s \in SUBSET S : Cardinality(s) <= 0 => s = {}
    BY <1>1, FS_EmptySet
<1>5. 0 \in T
    <2>1. Fine({})
        BY <1>3
    <2> HIDE DEF Fine
    <2> QED
        BY <1>4, <2>1
<1>6. ASSUME NEW n \in Nat, n \in T PROVE n + 1 \in T
    <2>1. \A s \in SUBSET S : Cardinality(s) <= n => Fine(s)
        <3> HIDE DEF Fine
        <3> QED
            BY <1>6
    <2>2. ASSUME NEW s \in SUBSET S, Cardinality(s) = n + 1 PROVE Fine(s)
        <3> DEFINE c == Picked(s)
        <3>1. s # {}
            BY <2>2, FS_EmptySet
        <3>2. c \in s /\ g[s] = f[c] + g[s \ {c}]
            BY <1>2, <3>1
        <3> HIDE DEF c
        <3>3. ASSUME NEW x \in s, NEW u \in SUBSET (s \ {x}) PROVE Fine(u)
            <4>1. Cardinality(s \ {x}) = n /\ IsFiniteSet(s \ {x})
                <5>1. /\ IsFiniteSet(s \ {x})
                      /\ Cardinality(s \ {x}) = Cardinality(s) - 1
                    BY <1>1, FS_RemoveElement
                <5> QED
                    BY <2>2, <5>1
            <4>2. u \in SUBSET S /\ Cardinality(u) <= n
                BY <4>1, FS_Subset
            <4> HIDE DEF Fine
            <4> QED
                BY <2>1, <4>2
        <3>4. g[s] \in Int
            BY <3>2, <3>3
        <3>5. ASSUME NEW x \in s, x # c PROVE g[s] = f[x] + g[s \ {x}]
            <4>1. x \in s \ {c} /\ c \in s \ {x} /\ (s \ {c}) \ {x} = (s \ {x}) \ {c}
                BY <3>2, <3>5
            <4>2. g[s \ {c}] = f[x] + g[(s \ {c}) \ {x}]
                BY <3>2, <3>3, <4>1
            <4>3. g[s \ {x}] = f[c] + g[(s \ {c}) \ {x}]
                <5>1. g[s \ {x}] = f[c] + g[(s \ {x}) \ {c}]
                    BY <3>3, <4>1
                <5> QED
                    BY <4>1, <5>1
            <4>4. g[(s \ {c}) \ {x}] \in Int
                BY <3>2, <3>3
            <4>5. f[x] \in Int /\ f[c] \in Int
                <5>1. x \in S /\ c \in S
                    BY <3>2
                <5> QED
                    BY <5>1
            <4> QED
                BY <3>2, <4>2, <4>3, <4>4, <4>5
        <3> QED
            BY <3>2, <3>4, <3>5
    <2>3. ASSUME NEW s \in SUBSET S, Cardinality(s) <= n + 1 PROVE Fine(s)
        <3>1. Cardinality(s) <= n \/ Cardinality(s) = n + 1
            BY <1>1, <2>3
        <3> HIDE DEF Fine
        <3> QED
            BY <2>1, <2>2, <3>1
    <2>4. n + 1 \in Nat
        OBVIOUS
    <2> HIDE DEF Fine
    <2> QED
        BY <2>3, <2>4
<1>7. \A n \in Nat : n \in T
    <2> HIDE DEF T
    <2> QED
        BY <1>5, <1>6, AllNumbers
<1>8. ASSUME NEW s \in SUBSET S PROVE Fine(s)
    <2>1. Cardinality(s) \in T /\ Cardinality(s) <= Cardinality(s)
        BY <1>1, <1>7
    <2> HIDE DEF Fine
    <2> QED
        BY <2>1
<1> QED
    BY <1>3, <1>8

(* Everything there is to know of such a g. *)
SumsOf(g, f, S) ==
    /\ SumsUp(g, f, S) /\ SumFunctionOnSet(f, S) = g[S]
    /\ \A s \in SUBSET S : g[s] \in Int
    /\ \A s \in SUBSET S : \A x \in s : g[s] = f[x] + g[s \ {x}]

LEMMA SumIsChosen ==
    ASSUME NEW S, IsFiniteSet(S), NEW f, \A x \in S : f[x] \in Int
    PROVE  \E g : SumsOf(g, f, S)
<1> DEFINE g == CHOOSE h : SumsUp(h, f, S)
<1>1. SumsUp(g, f, S)
    BY SumsExist
<1>2. SumFunctionOnSet(f, S) = g[S]
    BY FoldIsChosen
<1> HIDE DEF g
<1>3. /\ g[{}] = 0
      /\ \A s \in SUBSET S : g[s] \in Int
      /\ \A s \in SUBSET S : \A x \in s : g[s] = f[x] + g[s \ {x}]
    BY <1>1, AnyElement
<1>4. SumsOf(g, f, S)
    BY <1>1, <1>2, <1>3 DEF SumsOf
<1> QED
    BY <1>4

(* The sums of a set do not depend on the set they were made for. *)
LEMMA SumsAgree ==
    ASSUME NEW S, IsFiniteSet(S), NEW f, \A x \in S : f[x] \in Int,
           NEW g, SumsUp(g, f, S), NEW U \in SUBSET S, NEW h, SumsUp(h, f, U)
    PROVE  h[U] = g[U]
<1> DEFINE Q == {s \in SUBSET U : h[s] = g[s]}
<1>1. IsFiniteSet(U) /\ \A x \in U : f[x] \in Int
    BY FS_Subset
<1>2. /\ g[{}] = 0 /\ h[{}] = 0
      /\ \A s \in SUBSET S : \A x \in s : g[s] = f[x] + g[s \ {x}]
      /\ \A s \in SUBSET U : \A x \in s : h[s] = f[x] + h[s \ {x}]
    BY <1>1, AnyElement
<1>3. {} \in Q
    BY <1>2
<1>4. ASSUME NEW s \in SUBSET U, NEW x \in U \ s, s \in Q PROVE s \cup {x} \in Q
    <2>1. (s \cup {x}) \ {x} = s /\ s \cup {x} \in SUBSET U /\ s \cup {x} \in SUBSET S
        OBVIOUS
    <2>2. x \in s \cup {x}
        OBVIOUS
    <2>3. h[s \cup {x}] = f[x] + h[(s \cup {x}) \ {x}]
        BY <1>2, <2>1, <2>2
    <2>4. g[s \cup {x}] = f[x] + g[(s \cup {x}) \ {x}]
        BY <1>2, <2>1, <2>2
    <2>5. h[s] = g[s]
        BY <1>4
    <2> QED
        BY <2>1, <2>3, <2>4, <2>5
<1>5. U \in Q
    <2>1. U \in SUBSET U
        OBVIOUS
    <2> HIDE DEF Q
    <2> QED
        BY <1>1, <1>3, <1>4, <2>1, AllSubsets
<1> QED
    BY <1>5

-----------------------------------------------------------------------------
(* The sum, element by element and changed function by changed function. *)

LEMMA SumOfNone ==
    ASSUME NEW f
    PROVE  SumFunctionOnSet(f, {}) = 0
<1>1. IsFiniteSet({}) /\ \A x \in {} : f[x] \in Int
    BY FS_EmptySet
<1>2. PICK g : SumsOf(g, f, {})
    BY <1>1, SumIsChosen
<1>3. SumsUp(g, f, {}) /\ SumFunctionOnSet(f, {}) = g[{}]
    BY <1>2 DEF SumsOf
<1> QED
    BY <1>1, <1>3, AnyElement

LEMMA SumElements ==
    ASSUME NEW S, IsFiniteSet(S), NEW f, \A x \in S : f[x] \in Int
    PROVE  /\ SumFunctionOnSet(f, S) \in Int
           /\ \A x \in S : SumFunctionOnSet(f, S) = f[x] + SumFunctionOnSet(f, S \ {x})
<1>1. PICK g : SumsOf(g, f, S)
    BY SumIsChosen
<1>2. /\ SumsUp(g, f, S) /\ SumFunctionOnSet(f, S) = g[S]
      /\ g[S] \in Int
      /\ \A x \in S : g[S] = f[x] + g[S \ {x}]
    BY <1>1 DEF SumsOf
<1>3. ASSUME NEW x \in S
      PROVE  SumFunctionOnSet(f, S) = f[x] + SumFunctionOnSet(f, S \ {x})
    <2> DEFINE U == S \ {x}
    <2>1. IsFiniteSet(U) /\ U \in SUBSET S /\ \A y \in U : f[y] \in Int
        BY FS_Subset
    <2> HIDE DEF U
    <2>2. PICK h : SumsOf(h, f, U)
        BY <2>1, SumIsChosen
    <2>3. SumsUp(h, f, U) /\ SumFunctionOnSet(f, U) = h[U]
        BY <2>2 DEF SumsOf
    <2>4. h[U] = g[U]
        BY <1>2, <2>1, <2>3, SumsAgree
    <2> QED
        BY <1>2, <2>3, <2>4 DEF U
<1> QED
    BY <1>2, <1>3

LEMMA SumElement ==
    ASSUME NEW S, IsFiniteSet(S), NEW f, \A y \in S : f[y] \in Int, NEW x \in S
    PROVE  SumFunctionOnSet(f, S) = f[x] + SumFunctionOnSet(f, S \ {x})
BY SumElements

LEMMA SumAdded ==
    ASSUME NEW S, IsFiniteSet(S), NEW f, \A y \in S : f[y] \in Int, NEW x, x \notin S, f[x] \in Int
    PROVE  SumFunctionOnSet(f, S \cup {x}) = f[x] + SumFunctionOnSet(f, S)
<1>1. /\ IsFiniteSet(S \cup {x}) /\ (\A y \in S \cup {x} : f[y] \in Int)
      /\ x \in S \cup {x} /\ (S \cup {x}) \ {x} = S
    BY FS_AddElement
<1>2. SumFunctionOnSet(f, S \cup {x}) = f[x] + SumFunctionOnSet(f, (S \cup {x}) \ {x})
    BY <1>1, SumElement
<1> QED
    BY <1>1, <1>2

LEMMA SumType ==
    ASSUME NEW S, IsFiniteSet(S), NEW f, \A y \in S : f[y] \in Nat
    PROVE  SumFunctionOnSet(f, S) \in Nat
<1> DEFINE Q == {s \in SUBSET S : SumFunctionOnSet(f, s) \in Nat}
<1>1. {} \in Q
    BY SumOfNone
<1>2. ASSUME NEW s \in SUBSET S, NEW x \in S \ s, s \in Q PROVE s \cup {x} \in Q
    <2>1. IsFiniteSet(s) /\ (\A y \in s : f[y] \in Int) /\ x \notin s /\ f[x] \in Nat
        BY FS_Subset
    <2>2. SumFunctionOnSet(f, s \cup {x}) = f[x] + SumFunctionOnSet(f, s)
        BY <2>1, SumAdded
    <2>3. SumFunctionOnSet(f, s \cup {x}) \in Nat
        BY <1>2, <2>1, <2>2
    <2> QED
        BY <2>3
<1>3. S \in SUBSET S
    OBVIOUS
<1>4. S \in Q
    <2> HIDE DEF Q
    <2> QED
        BY <1>1, <1>2, <1>3, AllSubsets
<1> QED
    BY <1>4

(* Two functions that agree on the set, but for the elements of a part of  *)
(* it, where the second has one more.                                      *)
LEMMA SumOfPart ==
    ASSUME NEW S, IsFiniteSet(S), NEW f, NEW h, NEW P \in SUBSET S,
           \A y \in S : f[y] \in Int /\ h[y] = IF y \in P THEN f[y] + 1 ELSE f[y]
    PROVE  SumFunctionOnSet(h, S) = SumFunctionOnSet(f, S) + Cardinality(P)
<1> DEFINE Q == {s \in SUBSET S :
                    /\ SumFunctionOnSet(f, s) \in Int
                    /\ SumFunctionOnSet(h, s) = SumFunctionOnSet(f, s) + Cardinality(s \cap P)}
<1>1. {} \in Q
    <2>1. {} \cap P = {}
        OBVIOUS
    <2>2. Cardinality({} \cap P) = 0
        BY <2>1, FS_EmptySet
    <2>3. SumFunctionOnSet(f, {}) = 0 /\ SumFunctionOnSet(h, {}) = 0
        BY SumOfNone
    <2> QED
        BY <2>2, <2>3
<1>2. ASSUME NEW s \in SUBSET S, NEW x \in S \ s, s \in Q PROVE s \cup {x} \in Q
    <2>1. /\ IsFiniteSet(s) /\ \A y \in s : f[y] \in Int
          /\ x \notin s /\ f[x] \in Int
          /\ h[x] = IF x \in P THEN f[x] + 1 ELSE f[x]
        BY FS_Subset
    <2>2. \A y \in s : h[y] \in Int
        OBVIOUS
    <2>3. h[x] \in Int
        BY <2>1
    <2>4. SumFunctionOnSet(f, s \cup {x}) = f[x] + SumFunctionOnSet(f, s)
        BY <2>1, SumAdded
    <2>5. SumFunctionOnSet(h, s \cup {x}) = h[x] + SumFunctionOnSet(h, s)
        BY <2>1, <2>2, <2>3, SumAdded
    <2>6. IsFiniteSet(s \cap P) /\ Cardinality(s \cap P) \in Nat
        BY <2>1, FS_Intersection, FS_CardinalityType
    <2>7. Cardinality((s \cup {x}) \cap P)
            = IF x \in P THEN Cardinality(s \cap P) + 1 ELSE Cardinality(s \cap P)
        <3>1. CASE x \in P
            <4>1. (s \cup {x}) \cap P = (s \cap P) \cup {x} /\ x \notin s \cap P
                BY <3>1
            <4> QED
                BY <2>6, <3>1, <4>1, FS_AddElement
        <3>2. CASE x \notin P
            <4>1. (s \cup {x}) \cap P = s \cap P
                BY <3>2
            <4> QED
                BY <3>2, <4>1
        <3> QED
            BY <3>1, <3>2
    <2> DEFINE k == Cardinality(s \cap P)
    <2>8. /\ SumFunctionOnSet(f, s) \in Int /\ k \in Nat
          /\ SumFunctionOnSet(h, s) = SumFunctionOnSet(f, s) + k
        BY <1>2, <2>6
    <2> HIDE DEF k
    <2>9. /\ SumFunctionOnSet(f, s \cup {x}) \in Int
          /\ SumFunctionOnSet(h, s \cup {x})
               = SumFunctionOnSet(f, s \cup {x}) + Cardinality((s \cup {x}) \cap P)
        BY <2>1, <2>4, <2>5, <2>7, <2>8 DEF k
    <2> QED
        BY <2>9
<1>3. S \in SUBSET S /\ S \cap P = P
    OBVIOUS
<1>4. S \in Q
    <2> HIDE DEF Q
    <2> QED
        BY <1>1, <1>2, <1>3, AllSubsets
<1> QED
    BY <1>3, <1>4

LEMMA SumOfSame ==
    ASSUME NEW S, IsFiniteSet(S), NEW f, NEW h, \A y \in S : f[y] \in Int /\ h[y] = f[y]
    PROVE  SumFunctionOnSet(h, S) = SumFunctionOnSet(f, S)
<1> DEFINE P == {}
<1>1. P \in SUBSET S /\ Cardinality(P) = 0
    BY FS_EmptySet
<1>2. \A y \in S : f[y] \in Int /\ h[y] = IF y \in P THEN f[y] + 1 ELSE f[y]
    OBVIOUS
<1> HIDE DEF P
<1>3. SumFunctionOnSet(h, S) = SumFunctionOnSet(f, S) + Cardinality(P)
    BY <1>1, <1>2, SumOfPart
<1>4. SumFunctionOnSet(f, S) \in Int
    BY SumElements
<1> QED
    BY <1>1, <1>3, <1>4

LEMMA SumAtOne ==
    ASSUME NEW S, IsFiniteSet(S), NEW f, NEW h, NEW x \in S, NEW n \in Int,
           \A y \in S : f[y] \in Int, \A y \in S \ {x} : h[y] = f[y], h[x] = f[x] + n
    PROVE  SumFunctionOnSet(h, S) = SumFunctionOnSet(f, S) + n
<1> DEFINE U == S \ {x}
<1>1. /\ IsFiniteSet(U) /\ \A y \in U : f[y] \in Int /\ h[y] = f[y]
      /\ f[x] \in Int /\ \A y \in S : h[y] \in Int
    BY FS_Subset
<1>2. SumFunctionOnSet(f, S) = f[x] + SumFunctionOnSet(f, U)
    BY <1>1, SumElement
<1>3. SumFunctionOnSet(h, S) = h[x] + SumFunctionOnSet(h, U)
    BY <1>1, SumElement
<1> HIDE DEF U
<1>4. SumFunctionOnSet(h, U) = SumFunctionOnSet(f, U)
    BY <1>1, SumOfSame
<1>5. SumFunctionOnSet(f, U) \in Int
    BY <1>1, SumElements
<1> QED
    BY <1>1, <1>2, <1>3, <1>4, <1>5

LEMMA SumOfZeros ==
    ASSUME NEW S, IsFiniteSet(S), NEW f, \A y \in S : f[y] = 0
    PROVE  SumFunctionOnSet(f, S) = 0
<1> DEFINE Q == {s \in SUBSET S : SumFunctionOnSet(f, s) = 0}
<1>1. {} \in Q
    BY SumOfNone
<1>2. ASSUME NEW s \in SUBSET S, NEW x \in S \ s, s \in Q PROVE s \cup {x} \in Q
    <2>1. IsFiniteSet(s) /\ (\A y \in s : f[y] \in Int) /\ x \notin s /\ f[x] = 0
        BY FS_Subset
    <2>2. SumFunctionOnSet(f, s \cup {x}) = f[x] + SumFunctionOnSet(f, s)
        BY <2>1, SumAdded
    <2>3. SumFunctionOnSet(f, s \cup {x}) = 0
        BY <1>2, <2>1, <2>2
    <2> QED
        BY <2>3
<1>3. S \in SUBSET S
    OBVIOUS
<1>4. S \in Q
    <2> HIDE DEF Q
    <2> QED
        BY <1>1, <1>2, <1>3, AllSubsets
<1> QED
    BY <1>4
=============================================================================
