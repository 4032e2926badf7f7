------------------------------ MODULE SizeSums ------------------------------
(***************************************************************************)
(* What the sum of the sizes of a finite set of reports obeys, for every   *)
(* sequence of reports: the sum the byte counter of the queue              *)
(* (qm_queue.c) is compared with.  MapThenSumSet takes the elements of a   *)
(* set in an order that CHOOSE fixes; here it is shown that the order does *)
(* not matter.                                                             *)
(***************************************************************************)
EXTENDS Integers, FiniteSetsExt, FiniteSetTheorems, WellFoundedInduction, TLAPS

SizeSum(q, S) == MapThenSumSet(LAMBDA i : q[i].size, S)

(***************************************************************************)
(* The sizes over S are natural numbers; q and r have the same ones there. *)
(***************************************************************************)
Sized(q, S) == \A i \in S : q[i].size \in Nat

SameSizes(q, r, S) == \A i \in S : q[i].size = r[i].size

First(s) == CHOOSE x \in s : TRUE

(***************************************************************************)
(* g is the sum over the subsets of S, by the equation MapThenSumSet       *)
(* defines it with.                                                        *)
(***************************************************************************)
SumsOver(g, q, S) ==
    g = [s \in SUBSET S |-> IF s = {} THEN 0 ELSE q[First(s)].size + g[s \ {First(s)}]]

(***************************************************************************)
(* Induction on the natural numbers, for a set of them.                    *)
(***************************************************************************)
LEMMA InductionOnNat ==
    ASSUME NEW D \in SUBSET Nat, 0 \in D, \A n \in D : n + 1 \in D
    PROVE  D = Nat
<1>. SUFFICES ASSUME Nat \ D # {} PROVE FALSE
  OBVIOUS
<1>1. PICK n \in Nat \ D : \A m \in Nat \ D : <<m, n>> \notin OpToRel(<, Nat)
  BY WFMin, NatLessThanWellFounded
<1>2. \A m \in Nat \ D : ~(m < n)
  BY <1>1 DEF OpToRel
<1>3. n # 0 /\ n - 1 \in Nat /\ n - 1 < n
  OBVIOUS
<1>4. n - 1 \in D
  BY <1>2, <1>3
<1>. QED BY <1>3, <1>4

(***************************************************************************)
(* The sum over S is the value at S of the function the equation defines.  *)
(***************************************************************************)
LEMMA SumIsChosen ==
    ASSUME NEW q, NEW S
    PROVE  SizeSum(q, S) = (CHOOSE g : SumsOver(g, q, S))[S]
BY Zenon DEF MapThenSumSet, MapThenFoldSet, SizeSum, SumsOver, First

(***************************************************************************)
(* A set that is not empty loses one element with its first.               *)
(***************************************************************************)
LEMMA FirstOut ==
    ASSUME NEW s, IsFiniteSet(s), s # {}
    PROVE  /\ First(s) \in s
           /\ IsFiniteSet(s \ {First(s)})
           /\ Cardinality(s) \in Nat /\ Cardinality(s \ {First(s)}) \in Nat
           /\ Cardinality(s \ {First(s)}) = Cardinality(s) - 1
<1>1. First(s) \in s
  BY DEF First
<1>. QED BY <1>1, FS_RemoveElement, FS_CardinalityType
(***************************************************************************)
(* The equation has a solution: it is built up by the number of elements.  *)
(***************************************************************************)
LEMMA SumsExist ==
    ASSUME NEW q, NEW S, IsFiniteSet(S)
    PROVE  \E g : SumsOver(g, q, S)
<1> DEFINE next(g, s) == IF s = {} THEN 0 ELSE q[First(s)].size + g[s \ {First(s)}]
           good(n, g) == \A s \in SUBSET S : Cardinality(s) <= n => g[s] = next(g, s)
           D == {n \in Nat : \E g : good(n, g)}
<1>1. \A s \in SUBSET S : IsFiniteSet(s) /\ Cardinality(s) \in Nat /\ Cardinality(s) <= Cardinality(S)
  BY FS_Subset, FS_CardinalityType
<1>2. \A s \in SUBSET S : s # {} => /\ s \ {First(s)} \in SUBSET S
                                    /\ Cardinality(s \ {First(s)}) = Cardinality(s) - 1
  BY <1>1, FirstOut
<1>3. 0 \in D
  <2> DEFINE g == [s \in SUBSET S |-> 0]
  <2>1. \A s \in SUBSET S : Cardinality(s) <= 0 => s = {}
    BY <1>1, FS_EmptySet
  <2>2. good(0, g)
    BY <2>1
  <2>. QED BY <2>2
<1>4. ASSUME NEW n \in D PROVE n + 1 \in D
  <2>1. PICK g : good(n, g)
    OBVIOUS
  <2> DEFINE h == [s \in SUBSET S |-> IF Cardinality(s) <= n THEN g[s] ELSE next(g, s)]
  <2>2. ASSUME NEW s \in SUBSET S, Cardinality(s) <= n + 1 PROVE h[s] = next(h, s)
    <3>1. h[s] = next(g, s)
      BY <2>1
    <3>2. CASE s = {}
      BY <3>1, <3>2
    <3>3. CASE s # {}
      <4>1. h[s \ {First(s)}] = g[s \ {First(s)}]
        BY <1>1, <1>2, <2>2, <3>3
      <4>. QED BY <3>1, <3>3, <4>1
    <3>. QED BY <3>2, <3>3
  <2>3. good(n + 1, h)
    BY <2>2
  <2>. HIDE DEF h, good
  <2>4. \E k : good(n + 1, k)
    BY <2>3
  <2>. QED BY <2>4
<1>5. D = Nat
  BY <1>3, <1>4, InductionOnNat
<1>6. PICK g : good(Cardinality(S), g)
  BY <1>1, <1>5
<1> DEFINE h == [s \in SUBSET S |-> g[s]]
<1>7. ASSUME NEW s \in SUBSET S PROVE h[s] = next(h, s)
  <2>1. h[s] = next(g, s)
    BY <1>1, <1>6
  <2>. QED BY <1>2, <2>1
<1>8. SumsOver(h, q, S)
  BY <1>7 DEF SumsOver
<1>. QED BY <1>8

(***************************************************************************)
(* Two solutions agree where the sizes do, so the sum over a set does not  *)
(* depend on what else there is.                                           *)
(***************************************************************************)
LEMMA SumsAgree ==
    ASSUME NEW q, NEW r, NEW S, NEW T \in SUBSET S, IsFiniteSet(S),
           SameSizes(q, r, T),
           NEW g, NEW h, SumsOver(g, q, S), SumsOver(h, r, T)
    PROVE  g[T] = h[T]
<1> DEFINE D == {n \in Nat : \A s \in SUBSET T : Cardinality(s) = n => g[s] = h[s]}
<1>1. \A s \in SUBSET T : IsFiniteSet(s) /\ Cardinality(s) \in Nat
  BY FS_Subset, FS_CardinalityType
<1>2. ASSUME NEW s \in SUBSET T
      PROVE  /\ g[s] = IF s = {} THEN 0 ELSE q[First(s)].size + g[s \ {First(s)}]
             /\ h[s] = IF s = {} THEN 0 ELSE r[First(s)].size + h[s \ {First(s)}]
  BY DEF SumsOver
<1>3. 0 \in D
  <2>1. \A s \in SUBSET T : Cardinality(s) = 0 => s = {}
    BY <1>1, FS_EmptySet
  <2>. QED BY <1>2, <2>1
<1>4. ASSUME NEW n \in D PROVE n + 1 \in D
  <2>. SUFFICES ASSUME NEW s \in SUBSET T, Cardinality(s) = n + 1 PROVE g[s] = h[s]
    OBVIOUS
  <2>1. s # {}
    <3>1. n + 1 # 0
      OBVIOUS
    <3>. QED BY <3>1, FS_EmptySet, Zenon
  <2>2. First(s) \in s /\ Cardinality(s \ {First(s)}) = n
    BY <1>1, <2>1, FirstOut
  <2>3. g[s \ {First(s)}] = h[s \ {First(s)}]
    BY <2>2
  <2>. QED BY <1>2, <2>1, <2>2, <2>3 DEF SameSizes
<1>5. D = Nat
  BY <1>3, <1>4, InductionOnNat
<1>. QED BY <1>1, <1>5
(***************************************************************************)
(* The sum over a finite set is that of its first element and the rest,    *)
(* and depends on nothing but the sizes of its elements.                   *)
(***************************************************************************)
LEMMA SumFirst ==
    ASSUME NEW q, NEW S, IsFiniteSet(S)
    PROVE  SizeSum(q, S) = IF S = {} THEN 0
                           ELSE q[First(S)].size + SizeSum(q, S \ {First(S)})
<1> DEFINE sums(T) == CHOOSE g : SumsOver(g, q, T)
           T == S \ {First(S)}
<1>1. IsFiniteSet(T) /\ T \subseteq S
  BY FS_RemoveElement
<1>2. SumsOver(sums(S), q, S) /\ SumsOver(sums(T), q, T)
  BY <1>1, SumsExist
<1>3. SizeSum(q, S) = sums(S)[S] /\ SizeSum(q, T) = sums(T)[T]
  BY SumIsChosen
<1>4. sums(S)[T] = sums(T)[T]
  <2>. HIDE DEF sums, T
  <2>1. SameSizes(q, q, T)
    BY DEF SameSizes
  <2>. QED BY <1>1, <1>2, <2>1, SumsAgree
<1>5. sums(S)[S] = IF S = {} THEN 0 ELSE q[First(S)].size + sums(S)[T]
  <2>. HIDE DEF sums
  <2>. QED BY <1>2 DEF SumsOver
<1>. QED BY <1>3, <1>4, <1>5

(***************************************************************************)
(* The sum over nothing is 0.                                              *)
(***************************************************************************)
LEMMA SumEmpty ==
    ASSUME NEW q
    PROVE  SizeSum(q, {}) = 0
BY SumFirst, FS_EmptySet

(***************************************************************************)
(* Sequences of reports with the same sizes have the same sums.            *)
(***************************************************************************)
LEMMA SumSame ==
    ASSUME NEW q, NEW r, NEW S, IsFiniteSet(S), SameSizes(q, r, S)
    PROVE  SizeSum(q, S) = SizeSum(r, S)
<1> DEFINE g == CHOOSE g : SumsOver(g, q, S)
           h == CHOOSE h : SumsOver(h, r, S)
<1>1. SumsOver(g, q, S) /\ SumsOver(h, r, S)
  BY SumsExist
<1>2. SizeSum(q, S) = g[S] /\ SizeSum(r, S) = h[S]
  BY SumIsChosen
<1>. HIDE DEF g, h
<1>3. g[S] = h[S]
  BY <1>1, SumsAgree
<1>. QED BY <1>2, <1>3

(***************************************************************************)
(* The sum of natural numbers is one.                                      *)
(***************************************************************************)
LEMMA SumType ==
    ASSUME NEW q, NEW S, IsFiniteSet(S), Sized(q, S)
    PROVE  SizeSum(q, S) \in Nat
<1> DEFINE D == {n \in Nat : \A s \in SUBSET S : Cardinality(s) = n => SizeSum(q, s) \in Nat}
<1>1. \A s \in SUBSET S : IsFiniteSet(s) /\ Cardinality(s) \in Nat
  BY FS_Subset, FS_CardinalityType
<1>2. 0 \in D
  BY <1>1, FS_EmptySet, SumEmpty
<1>3. ASSUME NEW n \in D PROVE n + 1 \in D
  <2>. SUFFICES ASSUME NEW s \in SUBSET S, Cardinality(s) = n + 1 PROVE SizeSum(q, s) \in Nat
    OBVIOUS
  <2>1. s # {}
    BY FS_EmptySet
  <2>2. First(s) \in s /\ Cardinality(s \ {First(s)}) = n
    BY <1>1, <2>1, FirstOut
  <2>3. SizeSum(q, s \ {First(s)}) \in Nat
    BY <2>2
  <2>4. SizeSum(q, s) = q[First(s)].size + SizeSum(q, s \ {First(s)})
    BY <1>1, <2>1, SumFirst
  <2>. QED BY <2>2, <2>3, <2>4 DEF Sized
<1>4. D = Nat
  BY <1>2, <1>3, InductionOnNat
<1>. QED BY <1>1, <1>4

(***************************************************************************)
(* Any element can be taken out first.                                     *)
(***************************************************************************)
LEMMA SumRemove ==
    ASSUME NEW q, NEW S, IsFiniteSet(S), Sized(q, S), NEW x \in S
    PROVE  SizeSum(q, S) = q[x].size + SizeSum(q, S \ {x})
<1> DEFINE D == {n \in Nat : \A s \in SUBSET S : Cardinality(s) = n =>
                    \A y \in s : SizeSum(q, s) = q[y].size + SizeSum(q, s \ {y})}
<1>1. \A s \in SUBSET S : IsFiniteSet(s) /\ Cardinality(s) \in Nat
  BY FS_Subset, FS_CardinalityType
<1>2. \A s \in SUBSET S : SizeSum(q, s) \in Nat
  <2>1. \A s \in SUBSET S : Sized(q, s)
    BY DEF Sized
  <2>. QED BY <1>1, <2>1, SumType
<1>3. 0 \in D
  BY <1>1, FS_EmptySet
<1>4. ASSUME NEW n \in D PROVE n + 1 \in D
  <2>. SUFFICES ASSUME NEW s \in SUBSET S, Cardinality(s) = n + 1, NEW y \in s
                PROVE  SizeSum(q, s) = q[y].size + SizeSum(q, s \ {y})
    OBVIOUS
  <2> DEFINE c == First(s)
  <2>1. c \in s /\ Cardinality(s \ {c}) = n
    BY <1>1, FirstOut
  <2>2. Cardinality(s \ {y}) = n
    BY <1>1, FS_RemoveElement
  <2>3. SizeSum(q, s) = q[c].size + SizeSum(q, s \ {c})
    BY <1>1, SumFirst
  <2>. HIDE DEF c
  <2>4. CASE y = c
    BY <2>3, <2>4
  <2>5. CASE y # c
    <3>1. SizeSum(q, s \ {c}) = q[y].size + SizeSum(q, (s \ {c}) \ {y})
      BY <2>1, <2>5
    <3>2. SizeSum(q, s \ {y}) = q[c].size + SizeSum(q, (s \ {y}) \ {c})
      BY <2>1, <2>2, <2>5
    <3>3. (s \ {c}) \ {y} = (s \ {y}) \ {c}
      OBVIOUS
    <3> DEFINE a == q[c].size
               b == q[y].size
               rest == SizeSum(q, (s \ {y}) \ {c})
    <3>4. a \in Nat /\ b \in Nat /\ rest \in Nat
      BY <1>2, <2>1 DEF Sized
    <3>5. SizeSum(q, s) = a + (b + rest) /\ SizeSum(q, s \ {y}) = a + rest
      BY <2>3, <3>1, <3>2, <3>3
    <3>6. a + (b + rest) = b + (a + rest)
      <4>. HIDE DEF a, b, rest
      <4>. QED BY <3>4
    <3>. QED BY <3>5, <3>6
  <2>. QED BY <2>4, <2>5
<1>5. D = Nat
  BY <1>3, <1>4, InductionOnNat
<1>. QED BY <1>1, <1>5

(***************************************************************************)
(* A part of a set and the rest of it sum up to the whole.                 *)
(***************************************************************************)
LEMMA SumSplit ==
    ASSUME NEW q, NEW S, IsFiniteSet(S), Sized(q, S), NEW T \in SUBSET S
    PROVE  /\ SizeSum(q, S) \in Nat /\ SizeSum(q, T) \in Nat /\ SizeSum(q, S \ T) \in Nat
           /\ SizeSum(q, S) = SizeSum(q, T) + SizeSum(q, S \ T)
<1> DEFINE D == {n \in Nat : \A s \in SUBSET S : Cardinality(s) = n =>
                    SizeSum(q, S) = SizeSum(q, s) + SizeSum(q, S \ s)}
<1>1. \A s \in SUBSET S : IsFiniteSet(s) /\ Cardinality(s) \in Nat
  BY FS_Subset, FS_CardinalityType
<1>2. \A s \in SUBSET S : SizeSum(q, s) \in Nat
  <2>1. \A s \in SUBSET S : Sized(q, s)
    BY DEF Sized
  <2>. QED BY <1>1, <2>1, SumType
<1>3. 0 \in D
  <2>. SUFFICES ASSUME NEW s \in SUBSET S, Cardinality(s) = 0
                PROVE  SizeSum(q, S) = SizeSum(q, s) + SizeSum(q, S \ s)
    OBVIOUS
  <2>1. s = {} /\ S \ s = S
    BY <1>1, FS_EmptySet
  <2>. QED BY <1>2, <2>1, SumEmpty
<1>4. ASSUME NEW n \in D PROVE n + 1 \in D
  <2>. SUFFICES ASSUME NEW s \in SUBSET S, Cardinality(s) = n + 1
                PROVE  SizeSum(q, S) = SizeSum(q, s) + SizeSum(q, S \ s)
    OBVIOUS
  <2>1. PICK x \in s : TRUE
    BY FS_EmptySet
  <2> DEFINE t == s \ {x}
             u == S \ t
  <2>2. Cardinality(t) = n /\ t \in SUBSET S
    <3>1. IsFiniteSet(s)
      BY <1>1
    <3>2. Cardinality(t) = Cardinality(s) - 1
      BY <3>1, FS_RemoveElement
    <3>. QED BY <3>2
  <2>3. SizeSum(q, S) = SizeSum(q, t) + SizeSum(q, u)
    BY <2>2
  <2>4. SizeSum(q, s) = q[x].size + SizeSum(q, t)
    <3>1. Sized(q, s)
      BY DEF Sized
    <3>. QED BY <1>1, <3>1, SumRemove
  <2>5. u \in SUBSET S /\ x \in u /\ u \ {x} = S \ s
    OBVIOUS
  <2>6. SizeSum(q, u) = q[x].size + SizeSum(q, u \ {x})
    <3>1. Sized(q, u)
      BY DEF Sized
    <3>. QED BY <1>1, <2>5, <3>1, SumRemove
  <2> DEFINE a == q[x].size
             b == SizeSum(q, t)
             c == SizeSum(q, S \ s)
  <2>7. a \in Nat /\ b \in Nat /\ c \in Nat
    BY <1>2, <2>2 DEF Sized
  <2>8. SizeSum(q, S) = b + (a + c) /\ SizeSum(q, s) = a + b
    BY <2>3, <2>4, <2>5, <2>6
  <2>9. b + (a + c) = (a + b) + c
    <3>. HIDE DEF a, b, c
    <3>. QED BY <2>7
  <2>. QED BY <2>8, <2>9
<1>5. D = Nat
  BY <1>3, <1>4, InductionOnNat
<1>. QED BY <1>1, <1>2, <1>5
(***************************************************************************)
(* An element that is new to a set adds its size to the sum.               *)
(***************************************************************************)
LEMMA SumAdd ==
    ASSUME NEW q, NEW S, NEW x, IsFiniteSet(S), Sized(q, S), x \notin S, q[x].size \in Nat
    PROVE  SizeSum(q, S \union {x}) = q[x].size + SizeSum(q, S)
<1> DEFINE T == S \union {x}
<1>1. IsFiniteSet(T) /\ x \in T /\ T \ {x} = S
  BY FS_AddElement
<1>2. Sized(q, T)
  BY DEF Sized
<1>. HIDE DEF T
<1>3. SizeSum(q, T) = q[x].size + SizeSum(q, T \ {x})
  BY <1>1, <1>2, SumRemove
<1>. QED BY <1>1, <1>3 DEF T
=============================================================================
