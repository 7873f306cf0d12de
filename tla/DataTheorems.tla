---------------------------- MODULE DataTheorems ----------------------------
(***************************************************************************)
(* Lemmas about the data of the models that several proof modules need:    *)
(* queues that are pushed and popped, finite sets and their orders, and    *)
(* sums over finite sets.  For SumFunctionOnSet of the community modules:  *)
(* its recursion defines something, the order of the terms does not        *)
(* matter, and what adding, replacing or taking out a term does.           *)
(***************************************************************************)
EXTENDS Integers, Sequences, SequencesExt, FiniteSets, FiniteSetsExt, Functions, TLAPS, FiniteSetTheorems, NaturalsInduction, WellFoundedInduction

-----------------------------------------------------------------------------
(* Queues, and sets in some order *)

(* The last of a queue after a push, and what was there before. *)
LEMMA PushBack ==
  ASSUME NEW S, NEW s \in Seq(S), NEW e \in S
  PROVE  /\ Append(s, e) \in Seq(S) /\ Len(Append(s, e)) = Len(s) + 1
         /\ Len(s) \in Nat /\ \A i \in 1 .. Len(s) : Append(s, e)[i] = s[i]
         /\ Append(s, e)[Len(s) + 1] = e
         /\ ToSet(Append(s, e)) = ToSet(s) \cup {e}
<1>1. /\ Append(s, e) \in Seq(S) /\ Len(Append(s, e)) = Len(s) + 1
      /\ \A i \in 1 .. Len(s) : Append(s, e)[i] = s[i]
      /\ Append(s, e)[Len(s) + 1] = e
  OBVIOUS
<1>2. DOMAIN Append(s, e) = 1 .. Len(s) + 1 /\ DOMAIN s = 1 .. Len(s) /\ Len(s) \in Nat
  BY <1>1
<1>3. ToSet(Append(s, e)) \subseteq ToSet(s) \cup {e}
  BY <1>1, <1>2 DEF ToSet
<1>4. ToSet(s) \subseteq ToSet(Append(s, e))
  BY <1>1, <1>2 DEF ToSet
<1>5. e \in ToSet(Append(s, e))
  BY <1>1, <1>2 DEF ToSet
<1> QED
  BY <1>1, <1>2, <1>3, <1>4, <1>5

(* The front of a queue is taken. *)
LEMMA PopFront ==
  ASSUME NEW S, NEW q \in Seq(S), q # <<>>
  PROVE  /\ Len(q) \in Nat \ {0} /\ Head(q) = q[1] /\ q[1] \in S
         /\ Tail(q) \in Seq(S) /\ Len(Tail(q)) = Len(q) - 1
         /\ \A i \in 1 .. Len(Tail(q)) : i + 1 \in 1 .. Len(q) /\ Tail(q)[i] = q[i + 1]
         /\ ToSet(Tail(q)) \subseteq ToSet(q) /\ ToSet(q) \subseteq ToSet(Tail(q)) \cup {q[1]}
         /\ q[1] \in ToSet(q)
         /\ Tail(q) # <<>> <=> Len(q) > 1
<1>1. /\ Len(q) \in Nat \ {0} /\ Head(q) = q[1] /\ q[1] \in S
      /\ Tail(q) \in Seq(S) /\ Len(Tail(q)) = Len(q) - 1
      /\ \A i \in 1 .. Len(Tail(q)) : i + 1 \in 1 .. Len(q) /\ Tail(q)[i] = q[i + 1]
      /\ DOMAIN q = 1 .. Len(q) /\ DOMAIN Tail(q) = 1 .. Len(Tail(q))
      /\ Tail(q) # <<>> <=> Len(q) > 1
  OBVIOUS
<1>2. ToSet(Tail(q)) \subseteq ToSet(q) /\ q[1] \in ToSet(q)
  BY <1>1 DEF ToSet
<1>3. ASSUME NEW i \in 1 .. Len(q) PROVE i = 1 \/ q[i] \in ToSet(Tail(q))
  <2>1. i # 1 => i - 1 \in 1 .. Len(Tail(q)) /\ (i - 1) + 1 = i
    BY <1>1
  <2> HIDE DEF ToSet
  <2>2. i # 1 => Tail(q)[i - 1] = q[i]
    BY <1>1, <2>1
  <2> QED
    BY <1>1, <2>1, <2>2 DEF ToSet
<1>4. ToSet(q) \subseteq ToSet(Tail(q)) \cup {q[1]}
  BY <1>1, <1>3 DEF ToSet
<1> QED
  BY <1>1, <1>2, <1>4

(* The image of a finite set is finite. *)
LEMMA ImageIsFinite ==
  ASSUME NEW f, IsFiniteSet(DOMAIN f), f = [x \in DOMAIN f |-> f[x]]
  PROVE  IsFiniteSet({f[x] : x \in DOMAIN f})
<1> DEFINE T == {f[x] : x \in DOMAIN f}
<1>1. f \in Surjection(DOMAIN f, T)
  BY DEF Surjection
<1> QED
  BY <1>1, FS_Surjection

(* A set in some order: all of it, and nothing else. *)
LEMMA InSomeOrder ==
  ASSUME NEW S, IsFiniteSet(S)
  PROVE  SetToSeq(S) \in Seq(S) /\ ToSet(SetToSeq(S)) = S
<1> DEFINE n == Cardinality(S)
           f == SetToSeq(S)
<1>1. n \in Nat /\ ExistsBijection(1 .. n, S)
  BY FS_CardinalityType
<1>2. \E g \in [1 .. n -> S] : IsInjective(g)
  BY <1>1 DEF ExistsBijection, Bijection, Injection, IsInjective
<1>3. f \in [1 .. n -> S] /\ IsInjective(f)
  BY <1>2 DEF SetToSeq
<1>4. f \in Injection(1 .. n, S)
  BY <1>3 DEF Injection
<1>5. IsFiniteSet(1 .. n) /\ Cardinality(1 .. n) = n
  BY <1>1, FS_Interval
<1> HIDE DEF f
<1>6. f \in Surjection(1 .. n, S)
  BY <1>4, <1>5, FS_Injection
<1>7. \A x \in S : \E i \in 1 .. n : f[i] = x
  BY <1>6 DEF Surjection
<1>8. ToSet(f) = S /\ f \in Seq(S)
  BY <1>1, <1>3, <1>7 DEF ToSet
<1> QED
  BY <1>8 DEF f

-----------------------------------------------------------------------------
(* Induction on a natural number, and on a finite set *)

(* A nonempty set of naturals has a least member. *)
LEMMA LeastOf ==
  ASSUME NEW T, T \subseteq Nat, T # {}
  PROVE  \E x \in T : \A y \in T : x <= y
<1> DEFINE R == OpToRel(<, Nat)
<1>1. IsWellFoundedOn(R, Nat)
  BY NatLessThanWellFounded
<1>2. \A x, y \in Nat : y < x => <<y, x>> \in R
  BY DEF OpToRel
<1> HIDE DEF R
<1>3. PICK x \in T : \A y \in T : ~ (<<y, x>> \in R)
  BY <1>1, WFMin
<1>4. \A y \in T : ~ (y < x)
  BY <1>2, <1>3
<1>5. \A y \in T : x <= y
  BY <1>4
<1> QED
  BY <1>5

(* Among subsets of a finite set there is one that is none of them any     *)
(* more when a member is taken out.                                        *)
LEMMA SmallestOf ==
  ASSUME NEW S, IsFiniteSet(S), NEW B, B \subseteq SUBSET S, B # {}
  PROVE  \E s \in B : \A x \in s : s \ {x} \notin B
<1> DEFINE T == {Cardinality(s) : s \in B}
<1>1. \A s \in B : IsFiniteSet(s) /\ Cardinality(s) \in Nat
  BY FS_Subset, FS_CardinalityType
<1>2. T \subseteq Nat /\ T # {}
  BY <1>1
<1>3. PICK n \in T : \A m \in T : n <= m
  BY <1>2, LeastOf
<1>4. PICK s \in B : n = Cardinality(s)
  BY <1>3
<1>5. ASSUME NEW x \in s, s \ {x} \in B PROVE FALSE
  <2>1. Cardinality(s \ {x}) = Cardinality(s) - 1
    BY <1>1, <1>4, <1>5, FS_RemoveElement
  <2>2. n <= Cardinality(s \ {x})
    BY <1>3, <1>5
  <2> QED
    BY <1>1, <1>4, <2>1, <2>2
<1> QED
  BY <1>4, <1>5

-----------------------------------------------------------------------------
(* Sums *)

Pick(s) == CHOOSE x \in s : TRUE

(* g is the recursive function of SumFunctionOnSet on the sets in D. *)
Sums(g, f, D) ==
  g = [s \in D |-> IF s = {} THEN 0 ELSE f[Pick(s)] + g[s \ {Pick(s)}]]

(* The recursive definition of a sum defines something. *)
LEMMA SumsExist ==
  ASSUME NEW S, IsFiniteSet(S), NEW f
  PROVE  \E g : Sums(g, f, SUBSET S)
<1> DEFINE Upto(n) == {s \in SUBSET S : Cardinality(s) <= n}
           Exists(n) == \E g : Sums(g, f, Upto(n))
           T == {n \in Nat : ~Exists(n)}
<1>1. \A s \in SUBSET S : IsFiniteSet(s) /\ Cardinality(s) \in Nat
  BY FS_Subset, FS_CardinalityType
<1>2. \A n \in Nat : Exists(n)
  <2> SUFFICES ASSUME T # {} PROVE FALSE
    OBVIOUS
  <2>1. PICK n \in T : \A m \in T : n <= m
    <3>1. T \subseteq Nat
      OBVIOUS
    <3> HIDE DEF T
    <3> QED
      BY <3>1, LeastOf
  <2>2. n \in Nat /\ ~Exists(n)
    BY <2>1
  <2>3. CASE n = 0
    <3>1. \A s \in Upto(0) : s = {}
      <4> SUFFICES ASSUME NEW s \in Upto(0) PROVE s = {}
        OBVIOUS
      <4>1. Cardinality(s) = 0
        BY <1>1
      <4> QED
        BY <1>1, <4>1, FS_EmptySet
    <3> DEFINE g == [s \in Upto(0) |-> 0]
    <3>2. g = [s \in Upto(0) |-> IF s = {} THEN 0 ELSE f[Pick(s)] + g[s \ {Pick(s)}]]
      BY <3>1
    <3>3. Sums(g, f, Upto(0))
      BY <3>2 DEF Sums
    <3> QED
      BY <2>2, <2>3, <3>3
  <2>4. CASE n # 0
    <3>1. n - 1 \in Nat
      BY <2>2, <2>4
    <3>2. n - 1 \notin T
      <4>1. n - 1 \in T => n <= n - 1
        BY <2>1
      <4> HIDE DEF T
      <4> QED
        BY <2>2, <4>1
    <3>3. PICK g : Sums(g, f, Upto(n - 1))
      BY <3>1, <3>2
    <3> DEFINE h == [s \in Upto(n) |-> IF s = {} THEN 0 ELSE f[Pick(s)] + g[s \ {Pick(s)}]]
    <3>4. ASSUME NEW s \in Upto(n), s # {} PROVE s \ {Pick(s)} \in Upto(n - 1)
      <4>1. Pick(s) \in s
        BY <3>4 DEF Pick
      <4>2. Cardinality(s \ {Pick(s)}) = Cardinality(s) - 1
        BY <1>1, <4>1, FS_RemoveElement
      <4> QED
        BY <1>1, <2>2, <4>2
    <3>5. \A t \in Upto(n - 1) : t \in Upto(n)
      BY <1>1, <2>2
    <3>6. ASSUME NEW t \in Upto(n - 1) PROVE h[t] = g[t]
      <4>1. h[t] = IF t = {} THEN 0 ELSE f[Pick(t)] + g[t \ {Pick(t)}]
        BY <3>5
      <4> HIDE DEF h
      <4>2. g[t] = IF t = {} THEN 0 ELSE f[Pick(t)] + g[t \ {Pick(t)}]
        BY <3>3 DEF Sums
      <4> QED
        BY <4>1, <4>2
    <3>7. h = [s \in Upto(n) |-> IF s = {} THEN 0 ELSE f[Pick(s)] + h[s \ {Pick(s)}]]
      <4>1. \A s \in Upto(n) : s # {} => h[s \ {Pick(s)}] = g[s \ {Pick(s)}]
        <5> HIDE DEF h, Upto
        <5> QED
          BY <3>4, <3>6
      <4> HIDE DEF Upto
      <4> QED
        BY <4>1
    <3>8. Sums(h, f, Upto(n))
      BY <3>7 DEF Sums
    <3> QED
      BY <2>2, <3>8
  <2> QED
    BY <2>3, <2>4
<1>3. Upto(Cardinality(S)) = SUBSET S /\ Cardinality(S) \in Nat
  BY FS_Subset, FS_CardinalityType
<1> QED
  BY <1>2, <1>3

(* SumFunctionOnSet is that function at the whole set. *)
LEMMA SumIsSums ==
  ASSUME NEW S, IsFiniteSet(S), NEW f
  PROVE  \E g : Sums(g, f, SUBSET S) /\ SumFunctionOnSet(f, S) = g[S]
<1> DEFINE iter == CHOOSE iter : iter = [s \in SUBSET S |->
                     IF s = {} THEN 0
                     ELSE LET x == CHOOSE x \in s : TRUE IN f[x] + iter[s \ {x}]]
<1>1. \E g : g = [s \in SUBSET S |->
                     IF s = {} THEN 0
                     ELSE LET x == CHOOSE x \in s : TRUE IN f[x] + g[s \ {x}]]
  <2>1. PICK g : Sums(g, f, SUBSET S)
    BY SumsExist
  <2> QED
    BY <2>1, Zenon DEF Sums, Pick
<1>2. iter = [s \in SUBSET S |->
                     IF s = {} THEN 0
                     ELSE LET x == CHOOSE x \in s : TRUE IN f[x] + iter[s \ {x}]]
  BY <1>1, Zenon
<1>3. SumFunctionOnSet(f, S) = iter[S]
  BY Zenon DEF SumFunctionOnSet, FoldFunctionOnSet, MapThenFoldSet
<1> HIDE DEF iter
<1>4. Sums(iter, f, SUBSET S)
  BY <1>2 DEF Sums, Pick
<1> QED
  BY <1>3, <1>4

(* One step of the recursion. *)
LEMMA SumsUnfold ==
  ASSUME NEW S, NEW f, NEW g, Sums(g, f, SUBSET S), NEW s \in SUBSET S
  PROVE  /\ s = {} => g[s] = 0
         /\ s # {} => Pick(s) \in s /\ g[s] = f[Pick(s)] + g[s \ {Pick(s)}]
<1>1. g[s] = IF s = {} THEN 0 ELSE f[Pick(s)] + g[s \ {Pick(s)}]
  BY DEF Sums
<1>2. s # {} => Pick(s) \in s
  BY DEF Pick
<1> QED
  BY <1>1, <1>2

Ints(f, S) == \A x \in S : f[x] \in Int

LEMMA SumsInt ==
  ASSUME NEW S, IsFiniteSet(S), NEW f, Ints(f, S), NEW g, Sums(g, f, SUBSET S)
  PROVE  \A s \in SUBSET S : g[s] \in Int
<1> DEFINE B == {s \in SUBSET S : g[s] \notin Int}
<1> SUFFICES ASSUME B # {} PROVE FALSE
  OBVIOUS
<1>1. B \subseteq SUBSET S
  OBVIOUS
<1>2. PICK s \in B : \A x \in s : s \ {x} \notin B
  <2> HIDE DEF B
  <2> QED
    BY <1>1, SmallestOf
<1>3. s # {} /\ Pick(s) \in s /\ g[s] = f[Pick(s)] + g[s \ {Pick(s)}]
  <2>1. s \in SUBSET S /\ g[s] \notin Int
    BY <1>2
  <2>2. /\ s = {} => g[s] = 0
        /\ s # {} => Pick(s) \in s /\ g[s] = f[Pick(s)] + g[s \ {Pick(s)}]
    BY <2>1, SumsUnfold
  <2> QED
    BY <2>1, <2>2
<1>4. g[s \ {Pick(s)}] \in Int
  BY <1>2, <1>3
<1>5. f[Pick(s)] \in Int
  BY <1>2, <1>3 DEF Ints
<1> QED
  BY <1>2, <1>3, <1>4, <1>5

(* The sums of the subsets of R are the same whether computed in R or in S. *)
LEMMA SumsAgree ==
  ASSUME NEW S, IsFiniteSet(S), NEW R \in SUBSET S, NEW f, NEW g, NEW h,
         Sums(g, f, SUBSET S), Sums(h, f, SUBSET R)
  PROVE  g[R] = h[R]
<1> DEFINE B == {s \in SUBSET R : g[s] # h[s]}
<1>0. IsFiniteSet(R)
  BY FS_Subset
<1>1. B \subseteq SUBSET R
  OBVIOUS
<1>2. B = {}
  <2> SUFFICES ASSUME B # {} PROVE FALSE
    OBVIOUS
  <2>1. PICK s \in B : \A x \in s : s \ {x} \notin B
    <3> HIDE DEF B
    <3> QED
      BY <1>0, <1>1, SmallestOf
  <2>2. s \in SUBSET R /\ s \in SUBSET S /\ g[s] # h[s]
    BY <2>1
  <2>3. /\ s = {} => g[s] = 0
        /\ s # {} => Pick(s) \in s /\ g[s] = f[Pick(s)] + g[s \ {Pick(s)}]
    BY <2>2, SumsUnfold, SMTT(30)
  <2>4. /\ s = {} => h[s] = 0
        /\ s # {} => h[s] = f[Pick(s)] + h[s \ {Pick(s)}]
    BY <2>2, SumsUnfold, SMTT(30)
  <2>5. s # {} => g[s \ {Pick(s)}] = h[s \ {Pick(s)}]
    BY <2>1, <2>2, <2>3
  <2> QED
    BY <2>2, <2>3, <2>4, <2>5
<1> QED
  BY <1>2

(* Any member may be taken out first. *)
LEMMA SumsStep ==
  ASSUME NEW S, IsFiniteSet(S), NEW f, Ints(f, S), NEW g, Sums(g, f, SUBSET S)
  PROVE  \A s \in SUBSET S : \A x \in s : g[s] = f[x] + g[s \ {x}]
<1> DEFINE B == {s \in SUBSET S : \E x \in s : g[s] # f[x] + g[s \ {x}]}
<1> SUFFICES ASSUME B # {} PROVE FALSE
  OBVIOUS
<1>1. B \subseteq SUBSET S
  OBVIOUS
<1>2. PICK s \in B : \A x \in s : s \ {x} \notin B
  <2> HIDE DEF B
  <2> QED
    BY <1>1, SmallestOf
<1>3. PICK x \in s : g[s] # f[x] + g[s \ {x}]
  BY <1>2
<1> DEFINE y == Pick(s)
<1>4. y \in s /\ g[s] = f[y] + g[s \ {y}]
  <2>1. s \in SUBSET S /\ s # {}
    BY <1>2, <1>3
  <2> HIDE DEF B
  <2> QED
    BY <2>1, SumsUnfold
<1> HIDE DEF y
<1>5. y # x
  BY <1>3, <1>4
<1>6. s \in SUBSET S /\ s \ {x} \in SUBSET S /\ s \ {y} \in SUBSET S
  BY <1>2
<1>7. g[s \ {y}] = f[x] + g[(s \ {y}) \ {x}]
  <2>1. s \ {y} \notin B /\ x \in s \ {y}
    BY <1>2, <1>3, <1>4, <1>5
  <2> QED
    BY <1>6, <2>1
<1>8. g[s \ {x}] = f[y] + g[(s \ {x}) \ {y}]
  <2>1. s \ {x} \notin B /\ y \in s \ {x}
    BY <1>2, <1>3, <1>4, <1>5
  <2> QED
    BY <1>6, <2>1
<1>9. (s \ {y}) \ {x} = (s \ {x}) \ {y}
  OBVIOUS
<1>10. f[x] \in Int /\ f[y] \in Int /\ g[(s \ {x}) \ {y}] \in Int
  <2>1. (s \ {x}) \ {y} \in SUBSET S /\ x \in S /\ y \in S
    BY <1>3, <1>4, <1>6
  <2> QED
    BY <2>1, SumsInt DEF Ints
<1>11. \A a, b, c \in Int : a + (b + c) = b + (a + c)
  OBVIOUS
<1>12. f[y] + (f[x] + g[(s \ {x}) \ {y}]) = f[x] + (f[y] + g[(s \ {x}) \ {y}])
  BY <1>10, <1>11
<1>13. g[s] = f[y] + (f[x] + g[(s \ {x}) \ {y}])
  BY <1>4, <1>7, <1>9
<1>14. f[x] + g[s \ {x}] = f[x] + (f[y] + g[(s \ {x}) \ {y}])
  BY <1>8
<1> QED
  BY <1>3, <1>12, <1>13, <1>14, Zenon

(* What the rest uses of sums. *)
LEMMA SumOfNone ==
  ASSUME NEW f
  PROVE  SumFunctionOnSet(f, {}) = 0
<1>1. PICK g : Sums(g, f, SUBSET {}) /\ SumFunctionOnSet(f, {}) = g[{}]
  BY FS_EmptySet, SumIsSums
<1>2. g[{}] = 0
  BY <1>1, SumsUnfold
<1> QED
  BY <1>1, <1>2

LEMMA SumInt ==
  ASSUME NEW S, IsFiniteSet(S), NEW f, Ints(f, S)
  PROVE  SumFunctionOnSet(f, S) \in Int
<1>1. PICK g : Sums(g, f, SUBSET S) /\ SumFunctionOnSet(f, S) = g[S]
  BY SumIsSums
<1>2. g[S] \in Int
  BY <1>1, SumsInt
<1> QED
  BY <1>1, <1>2

LEMMA SumWithout ==
  ASSUME NEW S, IsFiniteSet(S), NEW f, Ints(f, S), NEW x \in S
  PROVE  SumFunctionOnSet(f, S) = f[x] + SumFunctionOnSet(f, S \ {x})
<1>0. IsFiniteSet(S \ {x}) /\ S \ {x} \in SUBSET S
  BY FS_RemoveElement
<1>1. PICK g : Sums(g, f, SUBSET S) /\ SumFunctionOnSet(f, S) = g[S]
  BY SumIsSums
<1>2. PICK h : Sums(h, f, SUBSET (S \ {x})) /\ SumFunctionOnSet(f, S \ {x}) = h[S \ {x}]
  BY <1>0, SumIsSums
<1>3. g[S \ {x}] = h[S \ {x}]
  <2> DEFINE R == S \ {x}
  <2>1. R \in SUBSET S /\ Sums(h, f, SUBSET R)
    BY <1>0, <1>2
  <2> HIDE DEF R
  <2>2. g[R] = h[R]
    BY <1>1, <2>1, SumsAgree
  <2> QED
    BY <2>2 DEF R
<1>4. g[S] = f[x] + g[S \ {x}]
  BY <1>1, SumsStep
<1> QED
  BY <1>1, <1>2, <1>3, <1>4

LEMMA SumSame ==
  ASSUME NEW S, IsFiniteSet(S), NEW f, NEW g, Ints(f, S), \A x \in S : g[x] = f[x]
  PROVE  SumFunctionOnSet(g, S) = SumFunctionOnSet(f, S)
<1> DEFINE B == {s \in SUBSET S : SumFunctionOnSet(g, s) # SumFunctionOnSet(f, s)}
<1> SUFFICES ASSUME B # {} PROVE FALSE
  OBVIOUS
<1>1. B \subseteq SUBSET S
  OBVIOUS
<1>2. PICK s \in B : \A x \in s : s \ {x} \notin B
  <2> HIDE DEF B
  <2> QED
    BY <1>1, SmallestOf
<1>3. s \in SUBSET S /\ IsFiniteSet(s) /\ SumFunctionOnSet(g, s) # SumFunctionOnSet(f, s)
  BY <1>2, FS_Subset
<1>4. s # {}
  BY <1>3, SumOfNone
<1>5. PICK x \in s : TRUE
  BY <1>4
<1>6. Ints(f, s) /\ Ints(g, s) /\ g[x] = f[x]
  BY <1>3, <1>5 DEF Ints
<1>7. SumFunctionOnSet(g, s \ {x}) = SumFunctionOnSet(f, s \ {x})
  BY <1>2, <1>3, <1>5
<1>8. SumFunctionOnSet(f, s) = f[x] + SumFunctionOnSet(f, s \ {x})
  BY <1>3, <1>5, <1>6, SumWithout
<1>9. SumFunctionOnSet(g, s) = g[x] + SumFunctionOnSet(g, s \ {x})
  BY <1>3, <1>5, <1>6, SumWithout
<1> QED
  BY <1>3, <1>6, <1>7, <1>8, <1>9

LEMMA SumPlus ==
  ASSUME NEW S, IsFiniteSet(S), NEW f, NEW g, NEW h, Ints(f, S), Ints(g, S),
         \A x \in S : h[x] = f[x] + g[x]
  PROVE  SumFunctionOnSet(h, S) = SumFunctionOnSet(f, S) + SumFunctionOnSet(g, S)
<1> DEFINE B == {s \in SUBSET S : SumFunctionOnSet(h, s)
                                   # SumFunctionOnSet(f, s) + SumFunctionOnSet(g, s)}
<1> SUFFICES ASSUME B # {} PROVE FALSE
  OBVIOUS
<1>1. B \subseteq SUBSET S
  OBVIOUS
<1>2. PICK s \in B : \A x \in s : s \ {x} \notin B
  <2> HIDE DEF B
  <2> QED
    BY <1>1, SmallestOf
<1>3. /\ s \in SUBSET S /\ IsFiniteSet(s)
      /\ SumFunctionOnSet(h, s) # SumFunctionOnSet(f, s) + SumFunctionOnSet(g, s)
  BY <1>2, FS_Subset
<1>4. s # {}
  BY <1>3, SumOfNone
<1>5. PICK x \in s : TRUE
  BY <1>4
<1>6. /\ Ints(f, s) /\ Ints(g, s) /\ Ints(h, s) /\ Ints(f, s \ {x}) /\ Ints(g, s \ {x})
      /\ h[x] = f[x] + g[x] /\ f[x] \in Int /\ g[x] \in Int
  BY <1>3, <1>5 DEF Ints
<1>7. SumFunctionOnSet(h, s \ {x}) = SumFunctionOnSet(f, s \ {x}) + SumFunctionOnSet(g, s \ {x})
  BY <1>2, <1>3, <1>5
<1>8. SumFunctionOnSet(f, s) = f[x] + SumFunctionOnSet(f, s \ {x})
  BY <1>3, <1>5, <1>6, SumWithout
<1>9. SumFunctionOnSet(g, s) = g[x] + SumFunctionOnSet(g, s \ {x})
  BY <1>3, <1>5, <1>6, SumWithout
<1>10. SumFunctionOnSet(h, s) = h[x] + SumFunctionOnSet(h, s \ {x})
  BY <1>3, <1>5, <1>6, SumWithout
<1>11. SumFunctionOnSet(f, s \ {x}) \in Int /\ SumFunctionOnSet(g, s \ {x}) \in Int
  <2>1. IsFiniteSet(s \ {x})
    BY <1>3, FS_RemoveElement
  <2> QED
    BY <1>6, <2>1, SumInt
<1>12. \A a, b, c, d \in Int : (a + b) + (c + d) = (a + c) + (b + d)
  OBVIOUS
<1> HIDE DEF B
<1> QED
  BY <1>3, <1>6, <1>7, <1>8, <1>9, <1>10, <1>11, <1>12

(* One term is replaced. *)
LEMMA SumReplaced ==
  ASSUME NEW S, IsFiniteSet(S), NEW f, NEW g, Ints(f, S), NEW i \in S, g[i] \in Int,
         \A x \in S : x # i => g[x] = f[x]
  PROVE  SumFunctionOnSet(g, S) = SumFunctionOnSet(f, S) - f[i] + g[i]
<1>1. Ints(g, S) /\ f[i] \in Int /\ Ints(f, S \ {i}) /\ IsFiniteSet(S \ {i})
  BY FS_RemoveElement DEF Ints
<1>2. SumFunctionOnSet(f, S) = f[i] + SumFunctionOnSet(f, S \ {i})
  BY SumWithout
<1>3. SumFunctionOnSet(g, S) = g[i] + SumFunctionOnSet(g, S \ {i})
  BY <1>1, SumWithout
<1>4. SumFunctionOnSet(g, S \ {i}) = SumFunctionOnSet(f, S \ {i})
  <2>1. \A x \in S \ {i} : g[x] = f[x]
    OBVIOUS
  <2> QED
    BY <1>1, <2>1, SumSame
<1>5. SumFunctionOnSet(f, S \ {i}) \in Int
  BY <1>1, SumInt
<1> QED
  BY <1>1, <1>2, <1>3, <1>4, <1>5

(* A term is added at the end. *)
LEMMA SumLast ==
  ASSUME NEW n \in Nat, NEW f, Ints(f, 1 .. n + 1)
  PROVE  SumFunctionOnSet(f, 1 .. n + 1) = f[n + 1] + SumFunctionOnSet(f, 1 .. n)
<1>1. n + 1 \in 1 .. n + 1 /\ (1 .. n + 1) \ {n + 1} = 1 .. n /\ IsFiniteSet(1 .. n + 1)
  <2>1. \A m \in Int : IsFiniteSet(1 .. m)
    BY FS_Interval
  <2>2. IsFiniteSet(1 .. n + 1)
    BY <2>1
  <2>3. n + 1 \in 1 .. n + 1
    OBVIOUS
  <2>4. \A j : j \in (1 .. n + 1) \ {n + 1} <=> j \in 1 .. n
    OBVIOUS
  <2>5. (1 .. n + 1) \ {n + 1} = 1 .. n
    BY <2>4, Zenon
  <2> QED
    BY <2>2, <2>3, <2>5
<1> DEFINE S == 1 .. n + 1
<1>2. Ints(f, S) /\ IsFiniteSet(S) /\ n + 1 \in S /\ S \ {n + 1} = 1 .. n
  BY <1>1
<1> HIDE DEF S
<1>3. SumFunctionOnSet(f, S) = f[n + 1] + SumFunctionOnSet(f, S \ {n + 1})
  BY <1>2, SumWithout
<1> QED
  BY <1>2, <1>3 DEF S

(* A term is taken out and those after it move up. *)
MovedUp(f, g, n, i) == \A j \in 1 .. n - 1 : g[j] = IF j < i THEN f[j] ELSE f[j + 1]

LEMMA SumRemoved ==
  ASSUME NEW n \in Nat, NEW i \in 1 .. n, NEW f, NEW g, Ints(f, 1 .. n), MovedUp(f, g, n, i)
  PROVE  SumFunctionOnSet(g, 1 .. n - 1) = SumFunctionOnSet(f, 1 .. n) - f[i]
<1>0. \A j \in 1 .. n - 1 : g[j] = IF j < i THEN f[j] ELSE f[j + 1]
  BY DEF MovedUp
<1> USE <1>0
<1> DEFINE Holds(m) == SumFunctionOnSet(f, 1 .. m) = f[i] + SumFunctionOnSet(g, 1 .. m - 1)
           T == {m \in i .. n : ~Holds(m)}
<1>1. \A m \in 0 .. n : IsFiniteSet(1 .. m) /\ Ints(f, 1 .. m)
  <2>1. \A m \in 0 .. n : IsFiniteSet(1 .. m)
    BY FS_Interval
  <2> QED
    BY <2>1 DEF Ints
<1>2. \A m \in 0 .. n - 1 : IsFiniteSet(1 .. m) /\ Ints(g, 1 .. m)
  <2>1. \A j \in 1 .. n - 1 : g[j] \in Int
    BY DEF Ints
  <2>2. \A m \in 0 .. n - 1 : IsFiniteSet(1 .. m)
    BY FS_Interval
  <2> QED
    BY <2>1, <2>2 DEF Ints
<1>3. \A m \in i .. n : Holds(m)
  <2> SUFFICES ASSUME T # {} PROVE FALSE
    OBVIOUS
  <2>1. T \subseteq Nat
    OBVIOUS
  <2>2. PICK m \in T : \A k \in T : m <= k
    <3> HIDE DEF T
    <3> QED
      BY <2>1, LeastOf
  <2>3. m \in i .. n /\ m \in 1 .. n /\ ~Holds(m) /\ (m - 1) + 1 = m /\ m - 1 \in Nat
    BY <2>2
  <2>4. SumFunctionOnSet(f, 1 .. m) = f[m] + SumFunctionOnSet(f, 1 .. m - 1)
    <3> DEFINE p == m - 1
    <3>1. p \in Nat /\ p + 1 = m /\ Ints(f, 1 .. p + 1)
      BY <1>1, <2>3
    <3> HIDE DEF p
    <3>2. SumFunctionOnSet(f, 1 .. p + 1) = f[p + 1] + SumFunctionOnSet(f, 1 .. p)
      BY <3>1, SumLast
    <3> QED
      BY <3>1, <3>2 DEF p
  <2>5. CASE m = i
    <3>1. IsFiniteSet(1 .. m - 1) /\ Ints(f, 1 .. m - 1)
      BY <1>1, <2>3
    <3>2. \A j \in 1 .. m - 1 : g[j] = f[j]
      BY <2>3, <2>5
    <3>3. SumFunctionOnSet(g, 1 .. m - 1) = SumFunctionOnSet(f, 1 .. m - 1)
      BY <3>1, <3>2, SumSame
    <3> QED
      BY <2>3, <2>4, <2>5, <3>3
  <2>6. CASE m # i
    <3>1. m - 1 \in i .. n /\ m - 1 \in 1 .. n - 1
      BY <2>3, <2>6
    <3>2. m - 1 \notin T
      <4>1. m - 1 \in T => m <= m - 1
        BY <2>2
      <4> HIDE DEF T
      <4> QED
        BY <2>3, <4>1
    <3>3. SumFunctionOnSet(f, 1 .. m - 1) = f[i] + SumFunctionOnSet(g, 1 .. (m - 1) - 1)
      BY <3>1, <3>2
    <3>4. SumFunctionOnSet(g, 1 .. m - 1) = g[m - 1] + SumFunctionOnSet(g, 1 .. (m - 1) - 1)
      <4> DEFINE p == (m - 1) - 1
      <4>1. p \in Nat /\ p + 1 = m - 1 /\ Ints(g, 1 .. p + 1)
        BY <1>2, <3>1
      <4> HIDE DEF p
      <4>2. SumFunctionOnSet(g, 1 .. p + 1) = g[p + 1] + SumFunctionOnSet(g, 1 .. p)
        BY <4>1, SumLast
      <4> QED
        BY <4>1, <4>2 DEF p
    <3>5. g[m - 1] = f[m]
      BY <2>3, <3>1
    <3>6. f[m] \in Int /\ f[i] \in Int
      BY <2>3 DEF Ints
    <3>7. SumFunctionOnSet(g, 1 .. (m - 1) - 1) \in Int
      <4> DEFINE p == (m - 1) - 1
      <4>1. p \in 0 .. n - 1
        BY <3>1
      <4> HIDE DEF p
      <4>2. SumFunctionOnSet(g, 1 .. p) \in Int
        BY <1>2, <4>1, SumInt
      <4> QED
        BY <4>2 DEF p
    <3>8. \A a, b, c \in Int : a + (b + c) = b + (a + c)
      OBVIOUS
    <3>9. SumFunctionOnSet(f, 1 .. m) = f[i] + (f[m] + SumFunctionOnSet(g, 1 .. (m - 1) - 1))
      BY <2>4, <3>3, <3>6, <3>7, <3>8
    <3> QED
      BY <2>3, <3>4, <3>5, <3>9
  <2> QED
    BY <2>5, <2>6
<1>4. SumFunctionOnSet(f, 1 .. n) = f[i] + SumFunctionOnSet(g, 1 .. n - 1)
  BY <1>3
<1>5. f[i] \in Int /\ SumFunctionOnSet(g, 1 .. n - 1) \in Int
  <2> DEFINE p == n - 1
  <2>1. p \in 0 .. n - 1
    OBVIOUS
  <2> HIDE DEF p
  <2>2. SumFunctionOnSet(g, 1 .. p) \in Int
    BY <1>2, <2>1, SumInt
  <2> QED
    BY <2>2 DEF p, Ints
<1> QED
  BY <1>4, <1>5
=============================================================================
