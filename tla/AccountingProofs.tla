-------------------------- MODULE AccountingProofs --------------------------
(***************************************************************************)
(* AccountingProofs: index and book, the daily P&L, the gates, and the     *)
(* hedge's P&L and average entry price, for every book and every fill.     *)
(* First totals over the book, then the invariants: AccountInv for the     *)
(* book and its histories, InsideOK for the gates, HedgePnlOK and          *)
(* AverageOK for the hedge, in exact fractions.                            *)
(***************************************************************************)
EXTENDS Accounting, DataTheorems, TLAPS, FiniteSetTheorems, FunctionTheorems, SequenceTheorems, NaturalsInduction, WellFoundedInduction

-----------------------------------------------------------------------------
(* Totals over a book *)

Valuations == [BookEntry -> Int]

(* The total of V over the positions of a book. *)
Total(ps, V) == SumFunctionOnSet([i \in DOMAIN ps |-> V[ps[i]]], 1 .. Len(ps))

LEMMA BookTerms ==
  ASSUME NEW ps \in Seq(BookEntry), NEW V \in Valuations
  PROVE  /\ Len(ps) \in Nat /\ DOMAIN ps = 1 .. Len(ps) /\ IsFiniteSet(1 .. Len(ps))
         /\ \A i \in 1 .. Len(ps) : ps[i] \in BookEntry
         /\ \A i \in 1 .. Len(ps) : [j \in DOMAIN ps |-> V[ps[j]]][i] = V[ps[i]]
         /\ Ints([i \in DOMAIN ps |-> V[ps[i]]], 1 .. Len(ps))
<1>1. Len(ps) \in Nat /\ DOMAIN ps = 1 .. Len(ps) /\ \A i \in 1 .. Len(ps) : ps[i] \in BookEntry
  OBVIOUS
<1>2. \A m \in Int : IsFiniteSet(1 .. m)
  BY FS_Interval
<1>3. \A i \in 1 .. Len(ps) : [j \in DOMAIN ps |-> V[ps[j]]][i] = V[ps[i]]
  BY <1>1
<1>4. \A p \in BookEntry : V[p] \in Int
  BY DEF Valuations
<1>5. Ints([i \in DOMAIN ps |-> V[ps[i]]], 1 .. Len(ps))
  BY <1>1, <1>3, <1>4 DEF Ints
<1> QED
  BY <1>1, <1>2, <1>3, <1>5

LEMMA TotalInt ==
  ASSUME NEW ps \in Seq(BookEntry), NEW V \in Valuations
  PROVE  Total(ps, V) \in Int
<1> DEFINE f == [i \in DOMAIN ps |-> V[ps[i]]]
<1>1. IsFiniteSet(1 .. Len(ps)) /\ Ints(f, 1 .. Len(ps))
  BY BookTerms
<1> HIDE DEF f
<1>2. SumFunctionOnSet(f, 1 .. Len(ps)) \in Int
  BY <1>1, SumInt
<1> QED
  BY <1>2 DEF Total, f

LEMMA TotalNone ==
  ASSUME NEW V
  PROVE  Total(<<>>, V) = 0
<1>1. 1 .. Len(<<>>) = {}
  OBVIOUS
<1> QED
  BY <1>1, SumOfNone DEF Total

LEMMA TotalSame ==
  ASSUME NEW ps \in Seq(BookEntry), NEW qs \in Seq(BookEntry), NEW V \in Valuations,
         NEW W \in Valuations,
         Len(qs) = Len(ps), \A i \in 1 .. Len(ps) : W[qs[i]] = V[ps[i]]
  PROVE  Total(qs, W) = Total(ps, V)
<1> DEFINE f == [i \in DOMAIN ps |-> V[ps[i]]]
           g == [i \in DOMAIN qs |-> W[qs[i]]]
<1>1. /\ IsFiniteSet(1 .. Len(ps)) /\ Ints(f, 1 .. Len(ps))
      /\ \A i \in 1 .. Len(ps) : f[i] = V[ps[i]]
  BY BookTerms
<1>2. \A i \in 1 .. Len(ps) : g[i] = W[qs[i]]
  BY BookTerms
<1> HIDE DEF f, g
<1>3. \A i \in 1 .. Len(ps) : g[i] = f[i]
  BY <1>1, <1>2
<1>4. SumFunctionOnSet(g, 1 .. Len(ps)) = SumFunctionOnSet(f, 1 .. Len(ps))
  BY <1>1, <1>3, SumSame
<1> QED
  BY <1>4 DEF Total, f, g

LEMMA TotalPlus ==
  ASSUME NEW ps \in Seq(BookEntry), NEW V \in Valuations, NEW W \in Valuations,
         NEW X \in Valuations, \A i \in 1 .. Len(ps) : X[ps[i]] = V[ps[i]] + W[ps[i]]
  PROVE  Total(ps, X) = Total(ps, V) + Total(ps, W)
<1> DEFINE f == [i \in DOMAIN ps |-> V[ps[i]]]
           g == [i \in DOMAIN ps |-> W[ps[i]]]
           h == [i \in DOMAIN ps |-> X[ps[i]]]
<1>1. /\ IsFiniteSet(1 .. Len(ps)) /\ Ints(f, 1 .. Len(ps))
      /\ \A i \in 1 .. Len(ps) : f[i] = V[ps[i]]
  BY BookTerms
<1>2. Ints(g, 1 .. Len(ps)) /\ \A i \in 1 .. Len(ps) : g[i] = W[ps[i]]
  BY BookTerms
<1>3. \A i \in 1 .. Len(ps) : h[i] = X[ps[i]]
  BY BookTerms
<1> HIDE DEF f, g, h
<1>4. \A i \in 1 .. Len(ps) : h[i] = f[i] + g[i]
  BY <1>1, <1>2, <1>3
<1>5. SumFunctionOnSet(h, 1 .. Len(ps))
        = SumFunctionOnSet(f, 1 .. Len(ps)) + SumFunctionOnSet(g, 1 .. Len(ps))
  <2> DEFINE S == 1 .. Len(ps)
  <2>1. IsFiniteSet(S) /\ Ints(f, S) /\ Ints(g, S) /\ \A x \in S : h[x] = f[x] + g[x]
    BY <1>1, <1>2, <1>4
  <2> HIDE DEF S
  <2>2. SumFunctionOnSet(h, S) = SumFunctionOnSet(f, S) + SumFunctionOnSet(g, S)
    BY <2>1, SumPlus
  <2> QED
    BY <2>2 DEF S
<1> QED
  BY <1>5 DEF Total, f, g, h

LEMMA TotalAppend ==
  ASSUME NEW ps \in Seq(BookEntry), NEW p \in BookEntry, NEW V \in Valuations
  PROVE  Append(ps, p) \in Seq(BookEntry) /\ Total(Append(ps, p), V) = Total(ps, V) + V[p]
<1> DEFINE qs == Append(ps, p)
           f == [i \in DOMAIN ps |-> V[ps[i]]]
           g == [i \in DOMAIN qs |-> V[qs[i]]]
           n == Len(ps)
<1>1. /\ qs \in Seq(BookEntry) /\ Len(qs) = n + 1 /\ qs[n + 1] = p
      /\ \A i \in 1 .. n : qs[i] = ps[i]
  OBVIOUS
<1> HIDE DEF qs
<1>2. /\ n \in Nat /\ IsFiniteSet(1 .. n) /\ Ints(f, 1 .. n)
      /\ \A i \in 1 .. n : f[i] = V[ps[i]]
  BY BookTerms
<1>3. Ints(g, 1 .. n + 1) /\ \A i \in 1 .. n + 1 : g[i] = V[qs[i]]
  BY <1>1, BookTerms
<1> HIDE DEF f, g, n
<1>4. SumFunctionOnSet(g, 1 .. n + 1) = g[n + 1] + SumFunctionOnSet(g, 1 .. n)
  BY <1>2, <1>3, SumLast
<1>5. SumFunctionOnSet(g, 1 .. n) = SumFunctionOnSet(f, 1 .. n)
  <2>1. \A i \in 1 .. n : g[i] = f[i]
    <3>1. \A i \in 1 .. n : i \in 1 .. n + 1
      BY <1>2
    <3> QED
      BY <1>1, <1>2, <1>3, <3>1
  <2> QED
    BY <1>2, <2>1, SumSame
<1>6. g[n + 1] = V[p] /\ V[p] \in Int
  <2>1. n + 1 \in 1 .. n + 1
    BY <1>2
  <2> QED
    BY <1>1, <1>3, <2>1 DEF Valuations
<1>7. SumFunctionOnSet(f, 1 .. n) \in Int
  BY <1>2, SumInt
<1>8. Total(qs, V) = SumFunctionOnSet(g, 1 .. n + 1) /\ Total(ps, V) = SumFunctionOnSet(f, 1 .. n)
  BY <1>1 DEF Total, f, g, n
<1> QED
  BY <1>1, <1>4, <1>5, <1>6, <1>7, <1>8 DEF qs

LEMMA TotalReplaced ==
  ASSUME NEW ps \in Seq(BookEntry), NEW i \in 1 .. Len(ps), NEW qs \in Seq(BookEntry),
         Len(qs) = Len(ps), \A j \in 1 .. Len(ps) : j # i => qs[j] = ps[j],
         NEW V \in Valuations
  PROVE  Total(qs, V) = Total(ps, V) - V[ps[i]] + V[qs[i]]
<1> DEFINE f == [j \in DOMAIN ps |-> V[ps[j]]]
           g == [j \in DOMAIN qs |-> V[qs[j]]]
<1>1. /\ IsFiniteSet(1 .. Len(ps)) /\ Ints(f, 1 .. Len(ps))
      /\ \A j \in 1 .. Len(ps) : f[j] = V[ps[j]]
  BY BookTerms
<1>2. /\ Ints(g, 1 .. Len(ps))
      /\ \A j \in 1 .. Len(ps) : g[j] = V[qs[j]]
  BY BookTerms
<1> HIDE DEF f, g
<1>3. g[i] \in Int /\ \A j \in 1 .. Len(ps) : j # i => g[j] = f[j]
  BY <1>1, <1>2 DEF Ints
<1>4. SumFunctionOnSet(g, 1 .. Len(ps)) = SumFunctionOnSet(f, 1 .. Len(ps)) - f[i] + g[i]
  BY <1>1, <1>3, SumReplaced
<1>5. Total(qs, V) = SumFunctionOnSet(g, 1 .. Len(ps))
  BY DEF Total, g
<1>6. Total(ps, V) = SumFunctionOnSet(f, 1 .. Len(ps))
  BY DEF Total, f
<1> QED
  BY <1>1, <1>2, <1>4, <1>5, <1>6

(* What RemoveAt leaves, and in which places. *)
LEMMA RemovedFrom ==
  ASSUME NEW S, NEW ps \in Seq(S), NEW i \in 1 .. Len(ps)
  PROVE  /\ RemoveAt(ps, i) \in Seq(S) /\ Len(RemoveAt(ps, i)) = Len(ps) - 1
         /\ \A j \in 1 .. Len(ps) - 1 :
              RemoveAt(ps, i)[j] = IF j < i THEN ps[j] ELSE ps[j + 1]
<1> DEFINE a == SubSeq(ps, 1, i - 1)
           b == SubSeq(ps, i + 1, Len(ps))
<1>1. Len(ps) \in Nat /\ \A j \in 1 .. Len(ps) : ps[j] \in S
  OBVIOUS
<1>2. a \in Seq(S) /\ Len(a) = i - 1 /\ \A j \in 1 .. i - 1 : a[j] = ps[j]
  <2>1. \A j \in 1 .. i - 1 : ps[j] \in S
    BY <1>1
  <2> QED
    BY <1>1, <2>1, SubSeqProperties
<1>3. /\ b \in Seq(S) /\ Len(b) = Len(ps) - i
      /\ \A j \in 1 .. Len(ps) - i : b[j] = ps[i + j]
  <2>1. \A j \in i + 1 .. Len(ps) : ps[j] \in S
    BY <1>1
  <2>2. i + 1 <= Len(ps) + 1 /\ i + 1 \in Int /\ Len(ps) \in Int
    BY <1>1
  <2>3. b \in Seq(S) /\ Len(b) = Len(ps) - (i + 1) + 1
    BY <2>1, <2>2, SubSeqProperties
  <2>4. \A j \in 1 .. Len(ps) - (i + 1) + 1 : b[j] = ps[i + 1 + j - 1]
    BY <2>1, <2>2, SubSeqProperties
  <2>5. Len(ps) - (i + 1) + 1 = Len(ps) - i /\ \A j \in Int : i + 1 + j - 1 = i + j
    BY <1>1
  <2>6. ASSUME NEW j \in 1 .. Len(ps) - i PROVE b[j] = ps[i + j]
    <3>1. j \in 1 .. Len(ps) - (i + 1) + 1 /\ i + 1 + j - 1 = i + j
      BY <2>5
    <3> HIDE DEF b
    <3> QED
      BY <2>4, <3>1
  <2> HIDE DEF b
  <2> QED
    BY <2>3, <2>5, <2>6
<1> HIDE DEF a, b
<1>4. /\ a \o b \in Seq(S) /\ Len(a \o b) = Len(a) + Len(b)
      /\ \A j \in 1 .. Len(a) + Len(b) : (a \o b)[j] = IF j <= Len(a) THEN a[j] ELSE b[j - Len(a)]
  BY <1>2, <1>3, ConcatProperties
<1>5. RemoveAt(ps, i) = a \o b
  BY DEF RemoveAt, a, b
<1>6. ASSUME NEW j \in 1 .. Len(ps) - 1
      PROVE  (a \o b)[j] = IF j < i THEN ps[j] ELSE ps[j + 1]
  <2>1. j \in 1 .. Len(a) + Len(b)
    BY <1>1, <1>2, <1>3
  <2>2. CASE j < i
    <3>1. j <= Len(a) /\ j \in 1 .. i - 1
      BY <1>2, <2>2
    <3> QED
      BY <1>2, <1>4, <2>1, <2>2, <3>1
  <2>3. CASE ~(j < i)
    <3>1. ~(j <= Len(a)) /\ j - (i - 1) \in 1 .. Len(ps) - i /\ i + (j - (i - 1)) = j + 1
      BY <1>1, <1>2, <2>3
    <3>2. (a \o b)[j] = b[j - (i - 1)]
      BY <1>2, <1>4, <2>1, <3>1
    <3>3. b[j - (i - 1)] = ps[j + 1]
      BY <1>3, <3>1
    <3> QED
      BY <2>3, <3>2, <3>3
  <2> QED
    BY <2>2, <2>3
<1> QED
  BY <1>1, <1>2, <1>3, <1>4, <1>5, <1>6

LEMMA TotalRemoved ==
  ASSUME NEW ps \in Seq(BookEntry), NEW i \in 1 .. Len(ps), NEW V \in Valuations
  PROVE  Total(RemoveAt(ps, i), V) = Total(ps, V) - V[ps[i]]
<1> DEFINE qs == RemoveAt(ps, i)
           f == [j \in DOMAIN ps |-> V[ps[j]]]
           g == [j \in DOMAIN qs |-> V[qs[j]]]
           n == Len(ps)
<1>1. /\ qs \in Seq(BookEntry) /\ Len(qs) = n - 1
      /\ \A j \in 1 .. n - 1 : qs[j] = IF j < i THEN ps[j] ELSE ps[j + 1]
  BY RemovedFrom
<1> HIDE DEF qs
<1>2. /\ n \in Nat /\ Ints(f, 1 .. n) /\ \A j \in 1 .. n : f[j] = V[ps[j]]
  BY BookTerms
<1>3. \A j \in 1 .. n - 1 : g[j] = V[qs[j]]
  BY <1>1, BookTerms
<1> HIDE DEF f, g
<1>4. MovedUp(f, g, n, i)
  <2> SUFFICES ASSUME NEW j \in 1 .. n - 1
               PROVE  g[j] = IF j < i THEN f[j] ELSE f[j + 1]
    BY DEF MovedUp
  <2>1. j \in 1 .. n /\ j + 1 \in 1 .. n
    BY <1>2
  <2>2. f[j] = V[ps[j]] /\ f[j + 1] = V[ps[j + 1]]
    BY <1>2, <2>1
  <2>3. g[j] = V[qs[j]] /\ qs[j] = IF j < i THEN ps[j] ELSE ps[j + 1]
    BY <1>1, <1>3
  <2> HIDE DEF n
  <2> QED
    BY <2>2, <2>3
<1>5. n \in Nat /\ i \in 1 .. n
  BY <1>2
<1> HIDE DEF n
<1>6. SumFunctionOnSet(g, 1 .. n - 1) = SumFunctionOnSet(f, 1 .. n) - f[i]
  BY <1>2, <1>4, <1>5, SumRemoved
<1>7. Total(qs, V) = SumFunctionOnSet(g, 1 .. n - 1) /\ Total(ps, V) = SumFunctionOnSet(f, 1 .. n)
  BY <1>1 DEF Total, f, g, n
<1> QED
  BY <1>2, <1>5, <1>6, <1>7 DEF qs


-----------------------------------------------------------------------------
(* The book and its index *)

IndexFinds(ix, ps) ==
  /\ DOMAIN ix = {ps[i].key : i \in DOMAIN ps}
  /\ \A k \in DOMAIN ix : ix[k] \in DOMAIN ps /\ ps[ix[k]].key = k

BookOK == positions \in Seq(BookEntry) /\ IndexFinds(index, positions)

(* A rebuilt index finds a position of every key. *)
LEMMA RebuiltIndexFinds ==
  ASSUME NEW ps \in Seq(BookEntry)
  PROVE  IndexFinds(rebuild_index(ps), ps)
<1> DEFINE K == {ps[i].key : i \in DOMAIN ps}
           Latest(k, i) == ps[i].key = k /\ \A j \in DOMAIN ps : ps[j].key = k => j <= i
<1>1. DOMAIN rebuild_index(ps) = K
  BY DEF rebuild_index
<1>2. ASSUME NEW k \in K PROVE \E i \in DOMAIN ps : Latest(k, i)
  <2> DEFINE n == Len(ps)
             T == {m \in Nat : n - m \in DOMAIN ps /\ ps[n - m].key = k}
  <2>1. n \in Nat /\ DOMAIN ps = 1 .. n
    OBVIOUS
  <2> HIDE DEF n
  <2>2. ASSUME NEW i \in DOMAIN ps, ps[i].key = k PROVE n - i \in T /\ n - (n - i) = i
    <3>1. i \in Nat /\ i <= n /\ n - i \in Nat /\ n - (n - i) = i
      BY <2>1
    <3> QED
      BY <2>2, <3>1
  <2>3. T # {} /\ T \subseteq Nat
    <3>1. PICK i \in DOMAIN ps : ps[i].key = k
      BY <1>2
    <3> QED
      BY <2>2, <3>1
  <2>4. PICK m \in T : \A x \in T : m <= x
    <3> HIDE DEF T
    <3> QED
      BY <2>3, LeastOf
  <2>5. n - m \in DOMAIN ps /\ ps[n - m].key = k /\ m \in Nat
    BY <2>4
  <2>6. ASSUME NEW j \in DOMAIN ps, ps[j].key = k PROVE j <= n - m
    <3>1. n - j \in T
      BY <2>2, <2>6
    <3>2. m <= n - j
      BY <2>4, <3>1
    <3>3. j \in Nat
      BY <2>1
    <3> HIDE DEF T
    <3> QED
      BY <2>1, <2>5, <3>2, <3>3
  <2> QED
    BY <2>5, <2>6
<1>3. ASSUME NEW k \in K
      PROVE  rebuild_index(ps)[k] \in DOMAIN ps /\ ps[rebuild_index(ps)[k]].key = k
  <2>1. rebuild_index(ps)[k] = CHOOSE i \in DOMAIN ps : Latest(k, i)
    BY DEF rebuild_index
  <2> QED
    BY <1>2, <2>1
<1> QED
  BY <1>1, <1>3 DEF IndexFinds

Merged(p, qty, price) == [p EXCEPT !.quantity = @ + qty, !.avg_fill_price = price]

(* What a fill does to every total of the book. *)
FillOpens(k, qty, price) ==
  /\ ~Held(k)
  /\ Position(k, qty, price) \in BookEntry
  /\ \A V \in Valuations :
       Total(positions', V) = Total(positions, V) + V[Position(k, qty, price)]

FillCloses(k, qty) ==
  /\ Held(k) /\ At(k) \in BookEntry /\ At(k).key = k /\ At(k).quantity + qty = 0
  /\ \A V \in Valuations : Total(positions', V) = Total(positions, V) - V[At(k)]

FillMerges(k, qty, price) ==
  /\ Held(k) /\ At(k) \in BookEntry /\ At(k).key = k
  /\ Merged(At(k), qty, price) \in BookEntry
  /\ \A V \in Valuations :
       Total(positions', V) = Total(positions, V) - V[At(k)] + V[Merged(At(k), qty, price)]

LEMMA FillOpensBook ==
  ASSUME BookOK, NEW k \in Keys, NEW qty \in Int, qty # 0, NEW price \in Int,
         Open(k, qty, price)
  PROVE  BookOK' /\ FillOpens(k, qty, price)
<1> DEFINE p == Position(k, qty, price)
           n == Len(positions)
<1>1. p \in BookEntry /\ p.key = k
  BY DEF Position, BookEntry
<1> HIDE DEF p
<1>2. ~Held(k) /\ positions' = Append(positions, p)
      /\ index' = [x \in DOMAIN index \cup {k} |-> IF x = k THEN n + 1 ELSE index[x]]
  BY DEF Open, p
<1>3. positions \in Seq(BookEntry) /\ IndexFinds(index, positions)
  BY DEF BookOK
<1>4. /\ positions' \in Seq(BookEntry) /\ DOMAIN positions = 1 .. n /\ DOMAIN positions' = 1 .. n + 1
      /\ n \in Nat /\ positions'[n + 1] = p /\ \A i \in 1 .. n : positions'[i] = positions[i]
  BY <1>1, <1>2, <1>3
<1>5. IndexFinds(index', positions')
  <2>1. {positions'[i].key : i \in DOMAIN positions'} = {positions[i].key : i \in DOMAIN positions} \cup {k}
    <3>1. \A i : i \in 1 .. n + 1 <=> i \in 1 .. n \/ i = n + 1
      BY <1>4
    <3> QED
      BY <1>1, <1>4, <3>1
  <2>2. DOMAIN index' = DOMAIN index \cup {k}
    BY <1>2
  <2>3. ASSUME NEW x \in DOMAIN index' PROVE index'[x] \in DOMAIN positions' /\ positions'[index'[x]].key = x
    <3>1. CASE x = k
      <4>1. index'[x] = n + 1 /\ n + 1 \in 1 .. n + 1
        BY <1>2, <1>4, <3>1
      <4> QED
        BY <1>1, <1>4, <3>1, <4>1
    <3>2. CASE x # k
      <4>1. x \in DOMAIN index /\ index'[x] = index[x]
        BY <1>2, <2>2, <3>2
      <4>2. index[x] \in 1 .. n /\ positions[index[x]].key = x
        BY <1>3, <1>4, <4>1 DEF IndexFinds
      <4>3. index[x] \in 1 .. n + 1
        BY <1>4, <4>2
      <4> QED
        BY <1>4, <4>1, <4>2, <4>3
    <3> QED
      BY <3>1, <3>2
  <2> QED
    BY <1>3, <2>1, <2>2, <2>3 DEF IndexFinds
<1>6. \A V \in Valuations : Total(positions', V) = Total(positions, V) + V[p]
  BY <1>1, <1>2, <1>3, TotalAppend
<1> QED
  BY <1>1, <1>2, <1>4, <1>5, <1>6 DEF BookOK, FillOpens, p

(* The place of a key that is held. *)
LEMMA HeldAt ==
  ASSUME BookOK, NEW k, Held(k)
  PROVE  /\ index[k] \in 1 .. Len(positions) /\ DOMAIN positions = 1 .. Len(positions)
         /\ At(k) \in BookEntry /\ At(k).key = k
BY DEF BookOK, Held, At, IndexFinds

LEMMA FillClosesBook ==
  ASSUME BookOK, NEW k \in Keys, NEW qty \in Int, Close(k, qty)
  PROVE  BookOK' /\ FillCloses(k, qty)
<1>1. /\ Held(k) /\ At(k).quantity + qty = 0 /\ positions' = RemoveAt(positions, index[k])
      /\ index' = rebuild_index(positions')
  BY DEF Close
<1>2. positions \in Seq(BookEntry) /\ index[k] \in 1 .. Len(positions)
      /\ At(k) \in BookEntry /\ At(k).key = k
  BY <1>1, HeldAt DEF BookOK
<1>3. positions' \in Seq(BookEntry)
  BY <1>1, <1>2, RemovedFrom
<1>4. IndexFinds(index', positions')
  BY <1>1, <1>3, RebuiltIndexFinds
<1>5. \A V \in Valuations : Total(positions', V) = Total(positions, V) - V[At(k)]
  BY <1>1, <1>2, TotalRemoved DEF At
<1> QED
  BY <1>1, <1>2, <1>3, <1>4, <1>5 DEF BookOK, FillCloses

LEMMA FillMergesBook ==
  ASSUME BookOK, NEW k \in Keys, NEW qty \in Int, NEW price \in Int, Merge(k, qty, price)
  PROVE  BookOK' /\ FillMerges(k, qty, price)
<1> DEFINE m == Merged(At(k), qty, price)
           n == Len(positions)
<1>1. /\ Held(k) /\ At(k).quantity + qty # 0 /\ index' = index
      /\ positions' = [positions EXCEPT ![index[k]].quantity = @ + qty,
                                        ![index[k]].avg_fill_price = price]
  BY DEF Merge
<1>2. /\ positions \in Seq(BookEntry) /\ index[k] \in 1 .. n /\ DOMAIN positions = 1 .. n
      /\ At(k) \in BookEntry /\ At(k).key = k /\ IndexFinds(index, positions)
  BY <1>1, HeldAt DEF BookOK
<1>3. m \in BookEntry /\ m.key = k
  <2>1. \A p \in BookEntry : p.quantity \in Int
    BY DEF BookEntry
  <2>2. At(k).quantity + qty \in Int \ {0}
    BY <1>1, <1>2, <2>1
  <2>3. ASSUME NEW p \in BookEntry, NEW q \in Int \ {0}
        PROVE  LET r == [p EXCEPT !.quantity = q, !.avg_fill_price = price]
               IN  r \in BookEntry /\ r.key = p.key
    BY DEF BookEntry
  <2>4. m = [At(k) EXCEPT !.quantity = At(k).quantity + qty, !.avg_fill_price = price]
    BY DEF Merged
  <2> HIDE DEF m
  <2> QED
    BY <1>2, <2>2, <2>3, <2>4
<1>4. positions' = [positions EXCEPT ![index[k]] = m]
  BY <1>1, <1>2 DEF Merged, At, BookEntry
<1> HIDE DEF m
<1>5. /\ positions' \in Seq(BookEntry) /\ Len(positions') = n /\ DOMAIN positions' = 1 .. n
      /\ positions'[index[k]] = m
      /\ \A j \in 1 .. n : j # index[k] => positions'[j] = positions[j]
  BY <1>2, <1>3, <1>4
<1>6. \A j \in 1 .. n : positions'[j].key = positions[j].key
  BY <1>2, <1>3, <1>5 DEF At
<1>7. IndexFinds(index', positions')
  <2>1. {positions'[i].key : i \in DOMAIN positions'} = {positions[i].key : i \in DOMAIN positions}
    BY <1>2, <1>5, <1>6
  <2>2. \A x \in DOMAIN index : index[x] \in 1 .. n /\ positions[index[x]].key = x
    BY <1>2 DEF IndexFinds
  <2>3. \A x \in DOMAIN index : index[x] \in DOMAIN positions' /\ positions'[index[x]].key = x
    BY <1>5, <1>6, <2>2
  <2> QED
    BY <1>1, <1>2, <2>1, <2>3 DEF IndexFinds
<1>8. \A V \in Valuations : Total(positions', V) = Total(positions, V) - V[At(k)] + V[m]
  BY <1>2, <1>5, TotalReplaced DEF At
<1> QED
  BY <1>1, <1>2, <1>3, <1>5, <1>7, <1>8 DEF BookOK, FillMerges, m


-----------------------------------------------------------------------------
(* The ledger: quantities and cost *)

Amount(k) == [p \in BookEntry |-> IF p.key = k THEN p.quantity ELSE 0]
Cost == [p \in BookEntry |-> p.quantity * p.avg_fill_price]

MarketOK == quotes \in [Keys -> Nat] /\ forward \in Prices \cup {0}

LedgerOK ==
  /\ net \in [Keys -> Int] /\ flow \in Int /\ missed \in Int
  /\ \A k \in Keys : net[k] = Total(positions, Amount(k))
  /\ missed = flow + Total(positions, Cost)

AccountInv == BookOK /\ MarketOK /\ LedgerOK

LEMMA AmountAndCost == Cost \in Valuations /\ \A k : Amount(k) \in Valuations
<1>1. \A p \in BookEntry : p.quantity \in Int /\ p.avg_fill_price \in Int
  BY DEF BookEntry
<1>2. \A p \in BookEntry : p.quantity * p.avg_fill_price \in Int
  BY <1>1
<1> QED
  BY <1>1, <1>2 DEF Amount, Cost, Valuations

(* Every fill moves the totals as it moves the histories. *)
LEMMA FillKeepsLedger ==
  ASSUME AccountInv, NEW k \in Keys, NEW qty \in Int, qty # 0, NEW price \in Int,
         OptionFill(k, qty, price)
  PROVE  BookOK' /\ LedgerOK'
<1>0. BookOK /\ LedgerOK
  BY DEF AccountInv
<1>1. /\ Open(k, qty, price) \/ Close(k, qty) \/ Merge(k, qty, price)
      /\ net' = [net EXCEPT ![k] = @ + qty]
      /\ flow' = flow - qty * price
      /\ missed' = IF Held(k) THEN missed + At(k).quantity * (price - At(k).avg_fill_price)
                   ELSE missed
  BY DEF OptionFill, add_fill, RecordOption
<1>2. /\ net \in [Keys -> Int] /\ flow \in Int /\ missed \in Int
      /\ \A x \in Keys : net[x] = Total(positions, Amount(x))
      /\ missed = flow + Total(positions, Cost)
  BY <1>0 DEF LedgerOK
<1>3. \A V \in Valuations : Total(positions, V) \in Int
  BY <1>0, TotalInt DEF BookOK
<1>4. net' \in [Keys -> Int] /\ \A x \in Keys : net'[x] = net[x] + (IF x = k THEN qty ELSE 0)
  BY <1>1, <1>2
<1>5. qty * price \in Int /\ flow' \in Int
  BY <1>1, <1>2
<1>6. Cost \in Valuations /\ \A x \in Keys : Amount(x) \in Valuations
  BY AmountAndCost
<1>7. Total(positions, Cost) \in Int /\ \A x \in Keys : net[x] \in Int
  BY <1>2, <1>3, <1>6
<1> DEFINE a == At(k)
           q == a.quantity
           v == a.avg_fill_price
<1>8. Held(k) => a \in BookEntry /\ a.key = k /\ q \in Int /\ v \in Int
  BY <1>0, HeldAt DEF BookEntry
<1>9. CASE Open(k, qty, price)
  <2>1. BookOK' /\ FillOpens(k, qty, price)
    BY <1>0, <1>9, FillOpensBook
  <2> DEFINE p == Position(k, qty, price)
  <2>2. /\ ~Held(k) /\ p \in BookEntry
        /\ \A V \in Valuations : Total(positions', V) = Total(positions, V) + V[p]
    BY <2>1 DEF FillOpens
  <2>3. p.key = k /\ p.quantity = qty /\ p.avg_fill_price = price
    BY DEF Position
  <2> HIDE DEF p
  <2>4. Cost[p] = qty * price /\ \A x \in Keys : Amount(x)[p] = IF x = k THEN qty ELSE 0
    BY <2>2, <2>3 DEF Cost, Amount
  <2>5. \A x \in Keys : net'[x] = Total(positions', Amount(x))
    BY <1>2, <1>4, <1>6, <2>2, <2>4
  <2>6. missed' = missed
    BY <1>1, <2>2
  <2>7. Total(positions', Cost) = Total(positions, Cost) + qty * price
    BY <1>6, <2>2, <2>4
  <2>8. \A m, f, t, c \in Int : m = f + t => m = (f - c) + (t + c)
    OBVIOUS
  <2>9. missed' = flow' + Total(positions', Cost)
    BY <1>1, <1>2, <1>5, <1>7, <2>6, <2>7, <2>8
  <2> QED
    BY <1>2, <1>4, <1>5, <2>1, <2>5, <2>6, <2>9 DEF LedgerOK
<1>10. CASE Close(k, qty)
  <2>1. BookOK' /\ FillCloses(k, qty)
    BY <1>0, <1>10, FillClosesBook
  <2>2. /\ Held(k) /\ q + qty = 0
        /\ \A V \in Valuations : Total(positions', V) = Total(positions, V) - V[a]
    BY <2>1 DEF FillCloses
  <2>3. a \in BookEntry /\ a.key = k /\ q \in Int /\ v \in Int
    BY <1>8, <2>2
  <2>4. Cost[a] = q * v /\ \A x \in Keys : Amount(x)[a] = IF x = k THEN q ELSE 0
    BY <2>3 DEF Cost, Amount
  <2>5. \A x \in Keys : net'[x] = Total(positions', Amount(x))
    <3>1. \A x \in Keys : Total(positions', Amount(x)) = net[x] - (IF x = k THEN q ELSE 0)
      BY <1>2, <1>6, <2>2, <2>4
    <3>2. \A t \in Int : t - q = t + qty /\ t - 0 = t + 0
      BY <2>2, <2>3
    <3> HIDE DEF q
    <3> QED
      BY <1>4, <1>7, <3>1, <3>2
  <2>6. Total(positions', Cost) = Total(positions, Cost) - q * v
    BY <1>6, <2>2, <2>4
  <2>7. missed' = missed + q * (price - v)
    BY <1>1, <2>2
  <2> HIDE DEF q, v
  <2>8. q * (price - v) = q * price - q * v /\ q * price \in Int /\ q * v \in Int
    BY <2>3
  <2>9. flow' = flow + q * price
    <3>1. qty = -q
      BY <2>2, <2>3
    <3>2. qty * price = -(q * price)
      BY <2>3, <3>1
    <3>3. flow' = flow - (-(q * price))
      BY <1>1, <3>2, Zenon
    <3>4. \A x, y \in Int : x - (-y) = x + y
      OBVIOUS
    <3>5. flow - (-(q * price)) = flow + q * price
      BY <1>2, <2>8, <3>4
    <3> QED
      BY <3>3, <3>5, Zenon
  <2>10. missed' = flow' + Total(positions', Cost) /\ missed' \in Int
    BY <1>2, <1>7, <2>6, <2>7, <2>8, <2>9
  <2> QED
    BY <1>4, <1>5, <2>1, <2>5, <2>10 DEF LedgerOK
<1>11. CASE Merge(k, qty, price)
  <2>1. BookOK' /\ FillMerges(k, qty, price)
    BY <1>0, <1>11, FillMergesBook
  <2> DEFINE m == Merged(a, qty, price)
  <2>2. /\ Held(k) /\ m \in BookEntry
        /\ \A V \in Valuations : Total(positions', V) = Total(positions, V) - V[a] + V[m]
    BY <2>1 DEF FillMerges
  <2>3. a \in BookEntry /\ a.key = k /\ q \in Int /\ v \in Int
    BY <1>8, <2>2
  <2>4. m.key = k /\ m.quantity = q + qty /\ m.avg_fill_price = price
    BY <2>3 DEF Merged, BookEntry
  <2> HIDE DEF m
  <2>5. Cost[a] = q * v /\ \A x \in Keys : Amount(x)[a] = IF x = k THEN q ELSE 0
    BY <2>3 DEF Cost, Amount
  <2>6. Cost[m] = (q + qty) * price /\ \A x \in Keys : Amount(x)[m] = IF x = k THEN q + qty ELSE 0
    BY <2>2, <2>4 DEF Cost, Amount
  <2>7. \A x \in Keys : net'[x] = Total(positions', Amount(x))
    <3>1. \A x \in Keys : Total(positions', Amount(x))
                            = net[x] - (IF x = k THEN q ELSE 0) + (IF x = k THEN q + qty ELSE 0)
      BY <1>2, <1>6, <2>2, <2>5, <2>6
    <3>2. \A t \in Int : t - q + (q + qty) = t + qty /\ t - 0 + 0 = t + 0
      BY <2>3
    <3> HIDE DEF q
    <3> QED
      BY <1>4, <1>7, <3>1, <3>2
  <2>8. Total(positions', Cost) = Total(positions, Cost) - q * v + (q + qty) * price
    BY <1>6, <2>2, <2>5, <2>6
  <2>9. missed' = missed + q * (price - v)
    BY <1>1, <2>2
  <2> HIDE DEF q, v
  <2>10. /\ q * (price - v) = q * price - q * v /\ q * price \in Int /\ q * v \in Int
         /\ (q + qty) * price = q * price + qty * price
    BY <2>3
  <2>11. missed' = flow' + Total(positions', Cost) /\ missed' \in Int
    BY <1>1, <1>2, <1>5, <1>7, <2>8, <2>9, <2>10
  <2> QED
    BY <1>4, <1>5, <2>1, <2>7, <2>11 DEF LedgerOK
<1> QED
  BY <1>1, <1>9, <1>10, <1>11

Keyed(V) ==
  \A p, q \in BookEntry :
    p.key = q.key /\ p.quantity = q.quantity /\ p.avg_fill_price = q.avg_fill_price => V[p] = V[q]

(* A refresh changes Greeks and marks only. *)
LEMMA RefreshedEntry ==
  ASSUME MarketOK, NEW p \in BookEntry
  PROVE  LET r == Refreshed(p, forward)
         IN  /\ r \in BookEntry /\ r.key = p.key /\ r.quantity = p.quantity
             /\ r.avg_fill_price = p.avg_fill_price
<1>1. p.key \in Keys /\ quotes[p.key] \in Int /\ ThetaOf[p.key] \in Int /\ p.current_price \in Int
  BY PortfolioAssumption DEF MarketOK, BookEntry
<1>2. CASE forward <= 0 \/ p.key \in Expired
  BY <1>2 DEF Refreshed
<1>3. CASE ~(forward <= 0 \/ p.key \in Expired)
  <2>1. forward \in Prices
    BY <1>3 DEF MarketOK
  <2>2. DeltaOf[p.key][forward] \in Int
    BY <1>1, <2>1, AccountingAssumption
  <2>3. Refreshed(p, forward) =
          [p EXCEPT !.delta = DeltaOf[p.key][forward], !.theta = ThetaOf[p.key],
                    !.current_price = IF quotes[p.key] > 0 THEN quotes[p.key] ELSE @]
    BY <1>3 DEF Refreshed
  <2> DEFINE c == IF quotes[p.key] > 0 THEN quotes[p.key] ELSE p.current_price
             d == DeltaOf[p.key][forward]
             t == ThetaOf[p.key]
  <2>4. c \in Int /\ d \in Int /\ t \in Int
    BY <1>1, <2>2
  <2>5. Refreshed(p, forward) = [p EXCEPT !.delta = d, !.theta = t, !.current_price = c]
    BY <2>3 DEF BookEntry
  <2> HIDE DEF c, d, t
  <2>6. LET r == [p EXCEPT !.delta = d, !.theta = t, !.current_price = c]
        IN  /\ r \in BookEntry /\ r.key = p.key /\ r.quantity = p.quantity
            /\ r.avg_fill_price = p.avg_fill_price
    BY <2>4 DEF BookEntry
  <2> QED
    BY <2>5, <2>6, Zenon
<1> QED
  BY <1>2, <1>3

LEMMA RefreshKeepsTotals ==
  ASSUME BookOK, MarketOK, refresh_greeks(forward)
  PROVE  BookOK' /\ \A V \in Valuations : Keyed(V) => Total(positions', V) = Total(positions, V)
<1>1. /\ positions' = [i \in DOMAIN positions |-> Refreshed(positions[i], forward)]
      /\ index' = index
  BY DEF refresh_greeks
<1>2. /\ positions \in Seq(BookEntry) /\ DOMAIN positions = 1 .. Len(positions)
      /\ Len(positions) \in Nat /\ \A i \in 1 .. Len(positions) : positions[i] \in BookEntry
  BY DEF BookOK
<1>3. \A i \in 1 .. Len(positions) :
        /\ positions'[i] \in BookEntry /\ positions'[i].key = positions[i].key
        /\ positions'[i].quantity = positions[i].quantity
        /\ positions'[i].avg_fill_price = positions[i].avg_fill_price
  BY <1>1, <1>2, RefreshedEntry
<1>4. positions' \in Seq(BookEntry) /\ Len(positions') = Len(positions)
      /\ DOMAIN positions' = 1 .. Len(positions)
  BY <1>1, <1>2, <1>3
<1>5. IndexFinds(index', positions')
  <2>1. {positions'[i].key : i \in DOMAIN positions'} = {positions[i].key : i \in DOMAIN positions}
    BY <1>2, <1>3, <1>4
  <2>2. \A x \in DOMAIN index : index[x] \in 1 .. Len(positions) /\ positions[index[x]].key = x
    BY <1>2 DEF BookOK, IndexFinds
  <2>3. \A x \in DOMAIN index : index[x] \in DOMAIN positions' /\ positions'[index[x]].key = x
    BY <1>3, <1>4, <2>2
  <2> QED
    BY <1>1, <2>1, <2>3 DEF BookOK, IndexFinds
<1>6. ASSUME NEW V \in Valuations, Keyed(V) PROVE Total(positions', V) = Total(positions, V)
  <2>1. \A i \in 1 .. Len(positions) : V[positions'[i]] = V[positions[i]]
    BY <1>2, <1>3, <1>6 DEF Keyed
  <2> QED
    BY <1>2, <1>4, <2>1, TotalSame
<1> QED
  BY <1>4, <1>5, <1>6 DEF BookOK


-----------------------------------------------------------------------------
(* The sums of the model are totals *)

LEMMA SumIsTotal ==
  ASSUME NEW ps \in Seq(BookEntry), NEW V \in Valuations, NEW f, DOMAIN f = DOMAIN ps,
         \A i \in DOMAIN ps : f[i] = V[ps[i]]
  PROVE  SumFunction(f) = Total(ps, V)
<1> DEFINE g == [i \in DOMAIN ps |-> V[ps[i]]]
<1>1. DOMAIN ps = 1 .. Len(ps) /\ IsFiniteSet(1 .. Len(ps))
      /\ Ints(g, 1 .. Len(ps)) /\ \A i \in 1 .. Len(ps) : g[i] = V[ps[i]]
  BY BookTerms
<1> HIDE DEF g
<1>2. \A i \in 1 .. Len(ps) : f[i] = g[i]
  BY <1>1
<1>3. SumFunctionOnSet(f, 1 .. Len(ps)) = SumFunctionOnSet(g, 1 .. Len(ps))
  BY <1>1, <1>2, SumSame
<1>4. SumFunction(f) = SumFunctionOnSet(f, 1 .. Len(ps))
  BY <1>1 DEF SumFunction
<1> QED
  BY <1>3, <1>4 DEF Total, g

(* Holding of the book ps. *)
HoldingOf(ps) ==
  [k \in Keys |-> SumFunction([i \in DOMAIN ps |-> IF ps[i].key = k THEN ps[i].quantity ELSE 0])]

LEMMA HoldingOfBook ==
  ASSUME NEW ps \in Seq(BookEntry)
  PROVE  HoldingOf(ps) \in [Keys -> Int] /\ \A k \in Keys : HoldingOf(ps)[k] = Total(ps, Amount(k))
<1>1. ASSUME NEW k \in Keys
      PROVE  HoldingOf(ps)[k] = Total(ps, Amount(k)) /\ Total(ps, Amount(k)) \in Int
  <2> DEFINE f == [i \in DOMAIN ps |-> IF ps[i].key = k THEN ps[i].quantity ELSE 0]
  <2>1. HoldingOf(ps)[k] = SumFunction(f)
    BY DEF HoldingOf
  <2>2. \A i \in DOMAIN ps : f[i] = Amount(k)[ps[i]]
    BY DEF Amount
  <2>3. DOMAIN f = DOMAIN ps /\ Amount(k) \in Valuations
    BY AmountAndCost
  <2> HIDE DEF f
  <2>4. SumFunction(f) = Total(ps, Amount(k))
    BY <2>2, <2>3, SumIsTotal
  <2> QED
    BY <2>1, <2>3, <2>4, TotalInt
<1>2. HoldingOf(ps) = [k \in Keys |-> HoldingOf(ps)[k]]
  BY DEF HoldingOf
<1> QED
  BY <1>1, <1>2

LEMMA HoldingIsTotal ==
  ASSUME BookOK
  PROVE  Holding \in [Keys -> Int] /\ \A k \in Keys : Holding[k] = Total(positions, Amount(k))
<1>1. Holding = HoldingOf(positions)
  BY DEF Holding, HoldingOf, SumPositions
<1> QED
  BY <1>1, HoldingOfBook DEF BookOK

LEMMA NextHoldingIsTotal ==
  ASSUME BookOK'
  PROVE  Holding' \in [Keys -> Int] /\ \A k \in Keys : Holding'[k] = Total(positions', Amount(k))
<1>1. Holding' = HoldingOf(positions')
  BY DEF Holding, HoldingOf, SumPositions
<1> QED
  BY <1>1, HoldingOfBook DEF BookOK

LEMMA CostIsTotal ==
  ASSUME BookOK
  PROVE  SumPositions(LAMBDA p : p.quantity * p.avg_fill_price) = Total(positions, Cost)
<1> DEFINE f == [i \in DOMAIN positions |-> positions[i].quantity * positions[i].avg_fill_price]
<1>1. SumPositions(LAMBDA p : p.quantity * p.avg_fill_price) = SumFunction(f)
  BY DEF SumPositions
<1>2. \A i \in DOMAIN positions : f[i] = Cost[positions[i]]
  BY DEF BookOK, Cost
<1>3. DOMAIN f = DOMAIN positions /\ Cost \in Valuations
  BY AmountAndCost
<1> HIDE DEF f
<1>4. SumFunction(f) = Total(positions, Cost)
  BY <1>2, <1>3, SumIsTotal DEF BookOK
<1> QED
  BY <1>1, <1>4

-----------------------------------------------------------------------------
(* The invariant *)

LEMMA AccountInit == Init => AccountInv
<1> SUFFICES ASSUME Init PROVE AccountInv
  OBVIOUS
<1>1. BookOK
  BY AccountingAssumption, RebuiltIndexFinds DEF Init, BookOK
<1>2. MarketOK
  BY DEF Init, MarketOK
<1>3. net = Holding /\ missed = 0 /\ flow = -Total(positions, Cost)
  BY <1>1, CostIsTotal DEF Init
<1>4. Total(positions, Cost) \in Int
  BY <1>1, AmountAndCost, TotalInt DEF BookOK
<1>5. flow \in Int /\ missed = flow + Total(positions, Cost)
  BY <1>3, <1>4
<1> QED
  BY <1>1, <1>2, <1>3, <1>5, HoldingIsTotal DEF AccountInv, LedgerOK

LEMMA AmountAndCostKeyed == Keyed(Cost) /\ \A k : Keyed(Amount(k))
BY DEF Keyed, Cost, Amount

LEMMA AccountStep == AccountInv /\ [Next]_vars => AccountInv'
<1> SUFFICES ASSUME AccountInv, [Next]_vars PROVE AccountInv'
  OBVIOUS
<1>0. BookOK /\ MarketOK /\ LedgerOK
  BY DEF AccountInv
<1>1. ASSUME NEW k \in Keys, NEW e \in Effects, NEW p \in OptionPrices, OptionFill(k, e, p)
      PROVE  AccountInv'
  <2>1. e \in Int /\ e # 0 /\ p \in Int
    BY AccountingAssumption
  <2>2. BookOK' /\ LedgerOK'
    BY <1>1, <2>1, FillKeepsLedger
  <2>3. MarketOK'
    BY <1>0, <1>1 DEF OptionFill, MarketOK
  <2> QED
    BY <2>2, <2>3 DEF AccountInv
<1>2. ASSUME UNCHANGED <<portfolioVars, net, flow, missed>>, MarketOK'
      PROVE  AccountInv'
  BY <1>0, <1>2 DEF AccountInv, BookOK, LedgerOK, portfolioVars
<1>3. ASSUME UNCHANGED <<positions, index, net, flow, missed>>, MarketOK'
      PROVE  AccountInv'
  BY <1>0, <1>3 DEF AccountInv, BookOK, LedgerOK
<1>4. ASSUME NEW e \in Effects, NEW p \in Prices, handle_fill(HedgeContract, e, p)
      PROVE  AccountInv'
  <2>1. HedgeFill(e, p)
    BY <1>4 DEF handle_fill
  <2>2. UNCHANGED <<portfolioVars, net, flow, missed, forward>>
    BY <2>1 DEF HedgeFill
  <2> QED
    BY <1>0, <1>2, <2>2 DEF MarketOK, portfolioVars
<1>5. ASSUME NEW k \in Keys, NEW e \in Effects, NEW p \in OptionPrices, handle_fill(k, e, p)
      PROVE  AccountInv'
  BY <1>1, <1>5, AccountingAssumption DEF handle_fill
<1>6. ASSUME NEW k \in Keys, NEW e \in Effects, NEW p \in OptionPrices, GatedFill(k, e, p)
      PROVE  AccountInv'
  BY <1>1, <1>6 DEF GatedFill
<1>7. ASSUME NEW e \in Effects, NEW p \in Prices, ReconcileHedge(e, p)
      PROVE  AccountInv'
  BY <1>0, <1>2, <1>7 DEF ReconcileHedge, MarketOK, portfolioVars
<1>8. ASSUME NEW m \in BrokerMargins, periodic_account_poll(m)
      PROVE  AccountInv'
  BY <1>0, <1>2, <1>8 DEF periodic_account_poll, MarketOK, portfolioVars
<1>9. ASSUME NEW k \in Keys, NEW p \in OptionPrices \cup {0}, QuoteMoves(k, p)
      PROVE  AccountInv'
  <2>1. p \in Nat
    BY AccountingAssumption
  <2>2. MarketOK'
    BY <1>0, <1>9, <2>1 DEF QuoteMoves, MarketOK
  <2> QED
    BY <1>3, <1>9, <2>2 DEF QuoteMoves
<1>10. ASSUME NEW p \in Prices, ForwardMoves(p)
       PROVE  AccountInv'
  BY <1>0, <1>2, <1>10 DEF ForwardMoves, MarketOK, portfolioVars
<1>11. ASSUME periodic_greek_refresh
       PROVE  AccountInv'
  <2>1. refresh_greeks(forward) /\ UNCHANGED <<quotes, forward, net, flow, missed>>
    BY <1>11 DEF periodic_greek_refresh, refresh_greeks
  <2>2. BookOK' /\ \A V \in Valuations : Keyed(V) => Total(positions', V) = Total(positions, V)
    BY <1>0, <2>1, RefreshKeepsTotals
  <2>3. Total(positions', Cost) = Total(positions, Cost)
        /\ \A k \in Keys : Total(positions', Amount(k)) = Total(positions, Amount(k))
    BY <2>2, AmountAndCost, AmountAndCostKeyed
  <2>4. MarketOK'
    BY <1>0, <2>1 DEF MarketOK
  <2> QED
    BY <1>0, <2>1, <2>2, <2>3, <2>4 DEF AccountInv, LedgerOK
<1>12. CASE UNCHANGED vars
  BY <1>0, <1>2, <1>12 DEF vars, MarketOK, portfolioVars
<1> QED
  BY <1>4, <1>5, <1>6, <1>7, <1>8, <1>9, <1>10, <1>11, <1>12 DEF Next

LEMMA AccountInvariant == Spec => []AccountInv
BY AccountInit, AccountStep, PTL DEF Spec

-----------------------------------------------------------------------------
(* BookIsSeedPlusFills: through every opening, merging, closing and        *)
(* flipping fill of add_fill and every refresh, for every seed, the index  *)
(* finds a position of each held key, no empty position stays and the book *)
(* holds the seed plus the fills.                                          *)
THEOREM TheBookIsSeedPlusFills == Spec => []BookIsSeedPlusFills
<1>1. AccountInv => BookIsSeedPlusFills
  <2> SUFFICES ASSUME AccountInv PROVE BookIsSeedPlusFills
    OBVIOUS
  <2>1. BookOK /\ LedgerOK
    BY DEF AccountInv
  <2>2. /\ DOMAIN index = {positions[i].key : i \in DOMAIN positions}
        /\ \A k \in DOMAIN index : index[k] \in DOMAIN positions /\ At(k).key = k
    BY <2>1 DEF BookOK, IndexFinds, At
  <2>3. \A i \in DOMAIN positions : positions[i].quantity # 0
    <3>1. \A p \in BookEntry : p.quantity # 0
      BY DEF BookEntry
    <3>2. \A i \in DOMAIN positions : positions[i] \in BookEntry
      BY <2>1 DEF BookOK
    <3> QED
      BY <3>1, <3>2
  <2>4. Holding = net
    BY <2>1, HoldingIsTotal DEF LedgerOK
  <2> QED
    BY <2>2, <2>3, <2>4 DEF BookIsSeedPlusFills
<1> QED
  BY <1>1, AccountInvariant, PTL


-----------------------------------------------------------------------------
(* The daily P&L *)

Marked == [p \in BookEntry |->
             IF Live(p) <= 0 THEN 0 ELSE p.quantity * (Live(p) - p.avg_fill_price)]
Worth == [p \in BookEntry |-> p.quantity * Live(p)]

LEMMA MarkedAndWorth ==
  ASSUME MarketOK
  PROVE  /\ Marked \in Valuations /\ Worth \in Valuations
         /\ \A p \in BookEntry : Live(p) > 0 => Worth[p] = Marked[p] + Cost[p]
<1>1. ASSUME NEW p \in BookEntry
      PROVE  p.quantity \in Int /\ p.avg_fill_price \in Int /\ Live(p) \in Int
  <2>1. /\ p.quantity \in Int /\ p.avg_fill_price \in Int /\ p.current_price \in Int
        /\ p.key \in Keys
    BY DEF BookEntry
  <2>2. quotes[p.key] \in Int
    BY <2>1 DEF MarketOK
  <2> QED
    BY <2>1, <2>2 DEF Live
<1>2. \A q, l, v \in Int : q * (l - v) \in Int /\ q * l \in Int /\ q * l = q * (l - v) + q * v
  OBVIOUS
<1>3. \A p \in BookEntry : Live(p) > 0 => ~(Live(p) <= 0)
  BY <1>1
<1>4. \A p \in BookEntry : /\ p.quantity * (Live(p) - p.avg_fill_price) \in Int
                           /\ p.quantity * Live(p) \in Int
                           /\ p.quantity * Live(p) = p.quantity * (Live(p) - p.avg_fill_price)
                                                     + p.quantity * p.avg_fill_price
  BY <1>1, <1>2
<1> QED
  BY <1>3, <1>4 DEF Marked, Worth, Cost, Valuations

(* What the option book is marked at, and what its fills realised, are     *)
(* together the options' cash flow and worth.                              *)
LEMMA OptionsPnl ==
  AccountInv /\ Priced =>
    daily_pnl + missed = flow + SumPositions(LAMBDA p : p.quantity * Live(p))
<1> SUFFICES ASSUME AccountInv, Priced
             PROVE  daily_pnl + missed = flow + SumPositions(LAMBDA p : p.quantity * Live(p))
  OBVIOUS
<1>1. BookOK /\ MarketOK /\ LedgerOK
  BY DEF AccountInv
<1>2. /\ Marked \in Valuations /\ Worth \in Valuations /\ Cost \in Valuations
      /\ \A p \in BookEntry : Live(p) > 0 => Worth[p] = Marked[p] + Cost[p]
  BY <1>1, MarkedAndWorth, AmountAndCost
<1>3. \A i \in DOMAIN positions : positions[i] \in BookEntry /\ Live(positions[i]) > 0
  BY <1>1 DEF BookOK, Priced
<1>4. compute_mtm_pnl = Total(positions, Marked)
  <2> DEFINE f == [i \in DOMAIN positions |->
                     IF Live(positions[i]) <= 0 THEN 0
                     ELSE positions[i].quantity * (Live(positions[i]) - positions[i].avg_fill_price)]
  <2>1. compute_mtm_pnl = SumFunction(f)
    BY DEF compute_mtm_pnl, SumPositions
  <2>2. \A i \in DOMAIN positions : f[i] = Marked[positions[i]]
    BY <1>3 DEF Marked
  <2>3. DOMAIN f = DOMAIN positions
    OBVIOUS
  <2> HIDE DEF f
  <2> QED
    BY <1>1, <1>2, <2>1, <2>2, <2>3, SumIsTotal DEF BookOK
<1>5. SumPositions(LAMBDA p : p.quantity * Live(p)) = Total(positions, Worth)
  <2> DEFINE f == [i \in DOMAIN positions |-> positions[i].quantity * Live(positions[i])]
  <2>1. SumPositions(LAMBDA p : p.quantity * Live(p)) = SumFunction(f)
    BY DEF SumPositions
  <2>2. \A i \in DOMAIN positions : f[i] = Worth[positions[i]]
    BY <1>3 DEF Worth
  <2>3. DOMAIN f = DOMAIN positions
    OBVIOUS
  <2> HIDE DEF f
  <2> QED
    BY <1>1, <1>2, <2>1, <2>2, <2>3, SumIsTotal DEF BookOK
<1>6. Total(positions, Worth) = Total(positions, Marked) + Total(positions, Cost)
  <2>1. positions \in Seq(BookEntry) /\ DOMAIN positions = 1 .. Len(positions)
    BY <1>1 DEF BookOK
  <2>2. \A i \in 1 .. Len(positions) :
          Worth[positions[i]] = Marked[positions[i]] + Cost[positions[i]]
    BY <1>2, <1>3, <2>1
  <2> QED
    BY <1>2, <2>1, <2>2, TotalPlus
<1>7. Total(positions, Marked) \in Int /\ Total(positions, Cost) \in Int
  BY <1>1, <1>2, TotalInt DEF BookOK
<1>8. flow \in Int /\ missed = flow + Total(positions, Cost)
  BY <1>1 DEF LedgerOK
<1>9. daily_pnl = 0 + Total(positions, Marked)
  BY <1>4 DEF daily_pnl, realized_pnl_persisted
<1>10. \A a, b, c \in Int : (0 + a) + (b + c) = b + (a + c)
  OBVIOUS
<1>11. daily_pnl + missed = flow + Total(positions, Worth)
  BY <1>6, <1>7, <1>8, <1>9, <1>10
<1> QED
  BY <1>5, <1>11


-----------------------------------------------------------------------------
(* Fractions *)

Fractions == [num : Int, den : Nat \ {0}]

(* A finite nonempty set of integers has a maximum, and Max is it. *)
LEMMA FiniteMax ==
  ASSUME NEW T, IsFiniteSet(T), T \subseteq Int, T # {}
  PROVE  Max(T) \in T /\ \A y \in T : Max(T) >= y
<1> DEFINE HasMax(s) == \E x \in s : \A y \in s : x >= y
           B == {s \in SUBSET T : s # {} /\ ~HasMax(s)}
<1>1. B = {}
  <2> SUFFICES ASSUME B # {} PROVE FALSE
    OBVIOUS
  <2>1. B \subseteq SUBSET T
    OBVIOUS
  <2>2. PICK s \in B : \A x \in s : s \ {x} \notin B
    <3> HIDE DEF B
    <3> QED
      BY <2>1, SmallestOf
  <2>3. s \in SUBSET T /\ s # {} /\ ~HasMax(s) /\ s \subseteq Int
    BY <2>2
  <2>4. PICK x \in s : TRUE
    BY <2>3
  <2>5. CASE s \ {x} = {}
    <3>1. \A y \in s : y = x
      BY <2>5
    <3>2. x >= x
      BY <2>3
    <3> QED
      BY <2>3, <3>1, <3>2
  <2>6. CASE s \ {x} # {}
    <3>1. HasMax(s \ {x})
      BY <2>2, <2>3, <2>6
    <3>2. PICK z \in s \ {x} : \A y \in s \ {x} : z >= y
      BY <3>1
    <3>3. x \in Int /\ z \in Int /\ \A y \in s : y \in Int
      BY <2>3
    <3>4. CASE z >= x
      <4>1. \A y \in s : z >= y
        BY <3>2, <3>4
      <4> QED
        BY <2>3, <4>1
    <3>5. CASE ~(z >= x)
      <4>1. \A y \in s : x >= y
        <5> SUFFICES ASSUME NEW y \in s PROVE x >= y
          OBVIOUS
        <5>1. y # x => z >= y
          BY <3>2
        <5> QED
          BY <3>3, <3>5, <5>1
      <4> QED
        BY <2>3, <4>1
    <3> QED
      BY <3>4, <3>5
  <2> QED
    BY <2>5, <2>6
<1>2. \E x \in T : \A y \in T : x >= y
  BY <1>1
<1> QED
  BY <1>2 DEF Max

LEMMA GcdDivides ==
  ASSUME NEW m \in Nat, NEW n \in Nat
  PROVE  Gcd(m, n) \in Nat \ {0} /\ m % Gcd(m, n) = 0 /\ n % Gcd(m, n) = 0
<1> DEFINE M == Max({m, n, 1})
           G == {k \in 1 .. M : m % k = 0 /\ n % k = 0}
<1>1. M \in Nat /\ M >= 1
  <2>1. \E x \in {m, n, 1} : \A y \in {m, n, 1} : x >= y
    OBVIOUS
  <2>2. M \in {m, n, 1} /\ \A y \in {m, n, 1} : M >= y
    BY <2>1 DEF Max
  <2> QED
    BY <2>2
<1> HIDE DEF M
<1>2. IsFiniteSet(G)
  <2>1. IsFiniteSet(1 .. M)
    BY <1>1, FS_Interval
  <2> QED
    BY <2>1, FS_Subset
<1>3. 1 \in G /\ G \subseteq Int
  <2>1. m % 1 = 0 /\ n % 1 = 0
    OBVIOUS
  <2> QED
    BY <1>1, <2>1
<1>4. Max(G) \in G
  <2> HIDE DEF G
  <2> QED
    BY <1>2, <1>3, FiniteMax
<1>5. Gcd(m, n) = Max(G)
  BY DEF Gcd, M
<1> QED
  BY <1>4, <1>5

LEMMA ExactDivision ==
  ASSUME NEW a \in Int, NEW g \in Nat \ {0}, Abs(a) % g = 0
  PROVE  a \div g \in Int /\ (a \div g) * g = a
<1>1. CASE a >= 0
  <2>1. Abs(a) = a
    BY <1>1 DEF Abs
  <2> QED
    BY <1>1, <2>1
<1>2. CASE ~(a >= 0)
  <2>1. Abs(a) = -a /\ -a \in Nat
    BY <1>2 DEF Abs
  <2> DEFINE c == (-a) \div g
  <2>2. c \in Int /\ c * g = -a
    BY <2>1
  <2> HIDE DEF c
  <2>3. a = g * (-c)
    BY <2>2
  <2>4. a \div g = -c
    BY <2>2, <2>3
  <2> QED
    BY <2>2, <2>3, <2>4
<1> QED
  BY <1>1, <1>2


(* a is the fraction n / d. *)
Is(a, n, d) ==
  a \in Fractions /\ n \in Int /\ d \in Int \ {0} /\ a.num * d = n * a.den

LEMMA FracIs ==
  ASSUME NEW n \in Int, NEW d \in Int \ {0}
  PROVE  Is(Frac(n, d), n, d)
<1> DEFINE g == Gcd(Abs(n), Abs(d))
           q == Frac(n, d)
           s == IF d < 0 THEN -1 ELSE 1
<1>1. Abs(n) \in Nat /\ Abs(d) \in Nat /\ s * d = Abs(d) /\ s * d > 0
  BY DEF Abs
<1>2. g \in Nat \ {0} /\ Abs(n) % g = 0 /\ Abs(d) % g = 0
  BY <1>1, GcdDivides
<1>3. q = [num |-> (s * n) \div g, den |-> (s * d) \div g]
  BY DEF Frac
<1>4. s \in Int /\ s * n \in Int /\ s * d \in Int /\ Abs(s * n) = Abs(n) /\ Abs(s * d) = Abs(d)
  BY DEF Abs
<1> HIDE DEF g, q, s
<1>5. q.num = (s * n) \div g /\ q.den = (s * d) \div g /\ q = [num |-> q.num, den |-> q.den]
  BY <1>3
<1>6. q.num \in Int /\ q.num * g = s * n
  BY <1>2, <1>4, <1>5, ExactDivision
<1>7. q.den \in Int /\ q.den * g = s * d
  BY <1>2, <1>4, <1>5, ExactDivision
<1>8. q.den > 0
  <2>1. \A x \in Int : \A y \in Nat \ {0} : x * y > 0 => x > 0
    OBVIOUS
  <2> QED
    BY <1>1, <1>2, <1>7, <2>1
<1>9. q \in Fractions
  BY <1>5, <1>6, <1>7, <1>8 DEF Fractions
<1>10. q.num * d = n * q.den
  <2>1. \A x, y, z \in Int : x * (y * z) = (x * z) * y
    OBVIOUS
  <2>2. q.num * (q.den * g) = (q.num * g) * q.den
    BY <1>2, <1>6, <1>7, <2>1
  <2>3. q.num * (s * d) = (s * n) * q.den
    BY <1>6, <1>7, <2>2
  <2>4. \A w, x, y, z \in Int : w * (1 * x) = (1 * y) * z => w * x = y * z
    OBVIOUS
  <2>5. \A w, x, y, z \in Int : w * (-1 * x) = (-1 * y) * z => w * x = y * z
    OBVIOUS
  <2>6. s = 1 \/ s = -1
    BY DEF s
  <2> QED
    BY <1>6, <1>7, <2>3, <2>4, <2>5, <2>6
<1> QED
  BY <1>9, <1>10 DEF Is, q

LEMMA FracOf ==
  ASSUME NEW n \in Int, NEW d \in Nat \ {0}
  PROVE  Frac(n, d) \in Fractions /\ Frac(n, d).num * d = n * Frac(n, d).den
<1>1. d \in Int \ {0}
  OBVIOUS
<1> QED
  BY <1>1, FracIs DEF Is

LEMMA TimesOf ==
  ASSUME NEW a \in Fractions, NEW n \in Int
  PROVE  Times(a, n) \in Fractions
<1>1. a.num \in Int /\ a.den \in Nat \ {0}
  BY DEF Fractions
<1>2. a.num * n \in Int
  BY <1>1
<1> QED
  BY <1>1, <1>2, FracOf DEF Times

(* Less than something that is at most the limit is not over it. *)
LEMMA LessThanAtMost ==
  ASSUME NEW a \in Fractions, NEW b \in Fractions, NEW c \in Fractions,
         Less(a, b), AtMost(b, c)
  PROVE  AtMost(a, c)
<1>1. /\ a.num \in Int /\ b.num \in Int /\ c.num \in Int
      /\ a.den \in Nat \ {0} /\ b.den \in Nat \ {0} /\ c.den \in Nat \ {0}
  BY DEF Fractions
<1>2. ~(b.num * a.den <= a.num * b.den) /\ b.num * c.den <= c.num * b.den
  BY DEF Less, AtMost
<1>3. ASSUME NEW an \in Int, NEW bn \in Int, NEW cn \in Int,
             NEW ad \in Nat \ {0}, NEW bd \in Nat \ {0}, NEW cd \in Nat \ {0},
             ~(bn * ad <= an * bd), bn * cd <= cn * bd
      PROVE  an * cd <= cn * ad
  <2>1. an * bd < bn * ad
    BY <1>3
  <2>2. \A x, y \in Int : \A z \in Nat \ {0} : x < y => x * z < y * z
    OBVIOUS
  <2>3. \A x, y \in Int : \A z \in Nat \ {0} : x <= y => x * z <= y * z
    OBVIOUS
  <2>4. an * bd \in Int /\ bn * ad \in Int /\ bn * cd \in Int /\ cn * bd \in Int
        /\ an * cd \in Int /\ cn * ad \in Int
    OBVIOUS
  <2>5. (an * bd) * cd < (bn * ad) * cd
    BY <2>1, <2>2, <2>4
  <2>6. (bn * cd) * ad <= (cn * bd) * ad
    BY <1>3, <2>3, <2>4
  <2>7. \A x, y, z \in Int : (x * y) * z = (x * z) * y
    OBVIOUS
  <2>8. /\ (an * bd) * cd = (an * cd) * bd /\ (bn * ad) * cd = (bn * cd) * ad
        /\ (cn * bd) * ad = (cn * ad) * bd
    BY <2>7
  <2>9. (an * cd) * bd < (cn * ad) * bd
    <3>1. \A w, x, y, z \in Int : w < x /\ x <= z => w < z
      OBVIOUS
    <3>2. /\ (an * cd) * bd \in Int /\ (bn * cd) * ad \in Int /\ (cn * ad) * bd \in Int
      BY <2>4
    <3>3. (an * cd) * bd < (bn * cd) * ad /\ (bn * cd) * ad <= (cn * ad) * bd
      BY <2>5, <2>6, <2>8
    <3> QED
      BY <3>1, <3>2, <3>3
  <2>10. \A x, y \in Int : \A z \in Nat \ {0} : x * z < y * z => x <= y
    OBVIOUS
  <2> QED
    BY <2>4, <2>9, <2>10
<1> QED
  BY <1>1, <1>2, <1>3 DEF AtMost

-----------------------------------------------------------------------------
(* Sums over the keys *)

LEMMA SumOfZeros ==
  ASSUME NEW S, IsFiniteSet(S), NEW f, \A x \in S : f[x] = 0
  PROVE  SumFunctionOnSet(f, S) = 0
<1>1. Ints(f, S) /\ \A x \in S : f[x] = f[x] + f[x]
  BY DEF Ints
<1>2. SumFunctionOnSet(f, S) = SumFunctionOnSet(f, S) + SumFunctionOnSet(f, S)
  BY <1>1, SumPlus
<1>3. SumFunctionOnSet(f, S) \in Int
  BY <1>1, SumInt
<1>4. \A x \in Int : x = x + x => x = 0
  OBVIOUS
<1> QED
  BY <1>2, <1>3, <1>4

(* The sum over the keys of a function of them. *)
LEMMA KeySum ==
  ASSUME NEW f, DOMAIN f = Keys, \A k \in Keys : f[k] \in Int
  PROVE  SumFunction(f) \in Int /\ ((\A k \in Keys : f[k] = 0) => SumFunction(f) = 0)
<1>1. IsFiniteSet(Keys) /\ Ints(f, Keys) /\ SumFunction(f) = SumFunctionOnSet(f, Keys)
  BY PortfolioAssumption DEF Ints, SumFunction
<1> QED
  BY <1>1, SumInt, SumOfZeros

LEMMA LongPremiumOf ==
  ASSUME NEW h \in [Keys -> Int]
  PROVE  LongPremium(h) \in Int /\ ((\A k \in Keys : h[k] = 0) => LongPremium(h) = 0)
<1> DEFINE f == [k \in Keys |-> IF h[k] > 0 THEN BasePrice[k] * h[k] ELSE 0]
<1>1. LongPremium(h) = SumFunction(f)
  BY DEF LongPremium, SumKeys
<1>2. \A k \in Keys : h[k] \in Int /\ BasePrice[k] \in Int
  BY ConstraintAssumption
<1>3. DOMAIN f = Keys /\ \A k \in Keys : f[k] \in Int
  BY <1>2
<1>4. (\A k \in Keys : h[k] = 0) => \A k \in Keys : f[k] = 0
  OBVIOUS
<1> HIDE DEF f
<1> QED
  BY <1>1, <1>3, <1>4, KeySum

LEMMA ShortCountOf ==
  ASSUME NEW h \in [Keys -> Int]
  PROVE  ShortCount(h) \in Int /\ ((\A k \in Keys : h[k] = 0) => ShortCount(h) = 0)
<1> DEFINE f == [k \in Keys |-> IF h[k] < 0 THEN -h[k] ELSE 0]
<1>1. ShortCount(h) = SumFunction(f)
  BY DEF ShortCount, SumKeys
<1>2. \A k \in Keys : h[k] \in Int
  OBVIOUS
<1>3. DOMAIN f = Keys /\ \A k \in Keys : f[k] \in Int
  BY <1>2
<1>4. (\A k \in Keys : h[k] = 0) => \A k \in Keys : f[k] = 0
  OBVIOUS
<1> HIDE DEF f
<1> QED
  BY <1>1, <1>3, <1>4, KeySum


(* The maximum of the losses over the scenarios, and of a book of nothing. *)
LEMMA MarginOf ==
  ASSUME NEW h \in [Keys -> Int]
  PROVE  portfolio_margin(h) \in Int /\ ((\A k \in Keys : h[k] = 0) => portfolio_margin(h) = 0)
<1> DEFINE loss == [s \in Scenarios |-> SumFunction([k \in Keys |-> RiskArray[k][s] * h[k]])]
           losses == {loss[s] : s \in Scenarios}
           scan_risk == Max({0} \cup losses)
           nov == SumFunction([k \in Keys |-> BasePrice[k] * h[k]])
           four == {0, scan_risk - nov, ShortCount(h) * ShortOptionMinimum, LongPremium(h)}
           Empty == \A k \in Keys : h[k] = 0
<1>1. portfolio_margin(h) = Max(four)
  <2>1. losses = {SumFunction([k \in Keys |-> RiskArray[k][s] * h[k]]) : s \in Scenarios}
    OBVIOUS
  <2> QED
    BY <2>1, Zenon DEF portfolio_margin, SumKeys
<1>2. \A k \in Keys : h[k] \in Int /\ BasePrice[k] \in Int /\ \A s \in Scenarios : RiskArray[k][s] \in Int
  BY ConstraintAssumption
<1>3. ASSUME NEW s \in Scenarios
      PROVE  loss[s] \in Int /\ (Empty => loss[s] = 0)
  <2> DEFINE f == [k \in Keys |-> RiskArray[k][s] * h[k]]
  <2>1. DOMAIN f = Keys /\ \A k \in Keys : f[k] \in Int
    BY <1>2
  <2>2. Empty => \A k \in Keys : f[k] = 0
    BY <1>2
  <2>3. loss[s] = SumFunction(f)
    OBVIOUS
  <2> HIDE DEF f, loss
  <2> QED
    BY <2>1, <2>2, <2>3, KeySum
<1>4. nov \in Int /\ (Empty => nov = 0)
  <2> DEFINE f == [k \in Keys |-> BasePrice[k] * h[k]]
  <2>1. DOMAIN f = Keys /\ \A k \in Keys : f[k] \in Int
    BY <1>2
  <2>2. Empty => \A k \in Keys : f[k] = 0
    BY <1>2
  <2> HIDE DEF f
  <2>3. SumFunction(f) \in Int /\ (Empty => SumFunction(f) = 0)
    BY <2>1, <2>2, KeySum
  <2> QED
    BY <2>3 DEF f
<1>5. scan_risk \in {0} \cup losses
  <2>1. loss \in Surjection(Scenarios, losses)
    <3>1. loss \in [Scenarios -> losses]
      OBVIOUS
    <3> HIDE DEF loss
    <3> QED
      BY <3>1 DEF Surjection
  <2>2. IsFiniteSet(losses)
    <3> HIDE DEF loss, losses
    <3> QED
      BY <2>1, ConstraintAssumption, FS_Surjection
  <2> DEFINE T == losses \cup {0}
  <2>3. IsFiniteSet(T)
    <3> HIDE DEF losses
    <3> QED
      BY <2>2, FS_AddElement
  <2>4. T \subseteq Int /\ T # {}
    <3> HIDE DEF loss
    <3> QED
      BY <1>3
  <2>5. T = {0} \cup losses
    <3> HIDE DEF losses
    <3> QED
      OBVIOUS
  <2> HIDE DEF T, losses
  <2>6. Max(T) \in T
    BY <2>3, <2>4, FiniteMax
  <2> QED
    BY <2>5, <2>6
<1>6. scan_risk \in Int /\ (Empty => scan_risk = 0)
  <2> HIDE DEF scan_risk, loss
  <2> QED
    BY <1>3, <1>5
<1>7. LongPremium(h) \in Int /\ (Empty => LongPremium(h) = 0)
  BY LongPremiumOf
<1>8. /\ ShortCount(h) * ShortOptionMinimum \in Int
      /\ Empty => ShortCount(h) * ShortOptionMinimum = 0
  <2>1. ShortCount(h) \in Int /\ (Empty => ShortCount(h) = 0)
    BY ShortCountOf
  <2> QED
    BY <2>1, ConstraintAssumption
<1> HIDE DEF scan_risk, nov, Empty
<1> DEFINE x == scan_risk - nov
           y == ShortCount(h) * ShortOptionMinimum
           z == LongPremium(h)
<1>9. x \in Int /\ y \in Int /\ z \in Int /\ (Empty => x = 0 /\ y = 0 /\ z = 0)
  BY <1>4, <1>6, <1>7, <1>8
<1>10. four = {0, x, y, z}
  OBVIOUS
<1> HIDE DEF x, y, z, four
<1>11. Max(four) \in four
  <2>1. \E m \in four : \A w \in four : m >= w
    <3>1. \E m \in {0, x} : m >= 0 /\ m >= x
      BY <1>9
    <3>2. PICK m \in {0, x} : m >= 0 /\ m >= x
      BY <3>1
    <3>3. \E n \in {y, z} : n >= y /\ n >= z
      BY <1>9
    <3>4. PICK n \in {y, z} : n >= y /\ n >= z
      BY <3>3
    <3>5. m \in Int /\ n \in Int
      BY <1>9, <3>2, <3>4
    <3>6. CASE m >= n
      <4>1. m >= 0 /\ m >= x /\ m >= y /\ m >= z
        BY <1>9, <3>2, <3>4, <3>5, <3>6
      <4> QED
        BY <1>10, <4>1
    <3>7. CASE ~(m >= n)
      <4>1. n >= 0 /\ n >= x /\ n >= y /\ n >= z
        BY <1>9, <3>2, <3>4, <3>5, <3>7
      <4> QED
        BY <1>10, <4>1
    <3> QED
      BY <3>6, <3>7
  <2> QED
    BY <2>1 DEF Max
<1> QED
  BY <1>1, <1>9, <1>10, <1>11 DEF Empty


-----------------------------------------------------------------------------
(* The figures that the checker judges *)

ScaleOK == ibkr_scale \in Fractions /\ hedge_qty \in Int

LEMMA ScannedMargin ==
  ASSUME ibkr_scale \in Fractions, NEW h \in [Keys -> Int]
  PROVE  /\ portfolio_margin(Scanned(h)) \in Int /\ Margin(h) \in Fractions
         /\ (\A k \in Keys : h[k] = 0) => portfolio_margin(Scanned(h)) = 0
<1>1. Scanned(h) \in [Keys -> Int] /\ ((\A k \in Keys : h[k] = 0) => \A k \in Keys : Scanned(h)[k] = 0)
  BY DEF Scanned
<1>2. /\ portfolio_margin(Scanned(h)) \in Int
      /\ (\A k \in Keys : h[k] = 0) => portfolio_margin(Scanned(h)) = 0
  BY <1>1, MarginOf
<1> QED
  BY <1>2, TimesOf DEF Margin

DeltaValue == [p \in BookEntry |-> p.delta * p.quantity]
ThetaValue == [p \in BookEntry |-> p.theta * p.quantity]

LEMMA GreeksAreTotals ==
  ASSUME BookOK
  PROVE  /\ DeltaValue \in Valuations /\ ThetaValue \in Valuations
         /\ delta_for_product = Total(positions, DeltaValue) /\ delta_for_product \in Int
         /\ theta_for_product = Total(positions, ThetaValue) /\ theta_for_product \in Int
<1>1. \A p \in BookEntry : p.delta \in Int /\ p.theta \in Int /\ p.quantity \in Int
  BY DEF BookEntry
<1>2. \A p \in BookEntry : p.delta * p.quantity \in Int /\ p.theta * p.quantity \in Int
  BY <1>1
<1>3. DeltaValue \in Valuations /\ ThetaValue \in Valuations
  BY <1>2 DEF DeltaValue, ThetaValue, Valuations
<1>4. \A i \in DOMAIN positions : positions[i] \in BookEntry
  BY DEF BookOK
<1>5. delta_for_product = Total(positions, DeltaValue)
  <2> DEFINE f == [i \in DOMAIN positions |-> positions[i].delta * positions[i].quantity]
  <2>1. delta_for_product = SumFunction(f)
    BY DEF delta_for_product, SumPositions
  <2>2. DOMAIN f = DOMAIN positions /\ \A i \in DOMAIN positions : f[i] = DeltaValue[positions[i]]
    BY <1>4 DEF DeltaValue
  <2> HIDE DEF f
  <2> QED
    BY <1>3, <2>1, <2>2, SumIsTotal DEF BookOK
<1>6. theta_for_product = Total(positions, ThetaValue)
  <2> DEFINE f == [i \in DOMAIN positions |-> positions[i].theta * positions[i].quantity]
  <2>1. theta_for_product = SumFunction(f)
    BY DEF theta_for_product, SumPositions
  <2>2. DOMAIN f = DOMAIN positions /\ \A i \in DOMAIN positions : f[i] = ThetaValue[positions[i]]
    BY <1>4 DEF ThetaValue
  <2> HIDE DEF f
  <2> QED
    BY <1>3, <2>1, <2>2, SumIsTotal DEF BookOK
<1> QED
  BY <1>3, <1>5, <1>6, TotalInt DEF BookOK

FigureType ==
  [cur_margin : Fractions, post_margin : Fractions, cur_delta : Int, post_delta : Int,
   cur_theta : Int, post_theta : Int, cur_premium : Int, post_premium : Int]

LEMMA FiguresOf ==
  ASSUME BookOK, ScaleOK, NEW k \in Keys, NEW qty \in Int, NEW f \in Prices
  PROVE  Figures(k, qty, f, hedge_qty) \in FigureType
<1>1. Holding \in [Keys -> Int] /\ After(Holding, k, qty) \in [Keys -> Int]
  BY HoldingIsTotal DEF After
<1>2. Margin(Holding) \in Fractions /\ Margin(After(Holding, k, qty)) \in Fractions
  BY <1>1, ScannedMargin DEF ScaleOK
<1>3. LongPremium(Holding) \in Int /\ LongPremium(After(Holding, k, qty)) \in Int
  BY <1>1, LongPremiumOf
<1>4. DeltaOf[k][f] \in Int /\ ThetaOf[k] * Multiplier \in Int
  BY AccountingAssumption, PortfolioAssumption, ConstraintAssumption
<1>5. /\ delta_for_product + hedge_qty \in Int /\ theta_for_product \in Int
      /\ delta_for_product + hedge_qty + DeltaOf[k][f] * qty \in Int
      /\ theta_for_product + (ThetaOf[k] * Multiplier) * qty \in Int
  BY <1>4, GreeksAreTotals DEF ScaleOK
<1> QED
  BY <1>2, <1>3, <1>5 DEF Figures, FigureType

(* A fill that improves every figure and ends within the kill limits. *)
LEMMA ImprovingIsAccepted ==
  ASSUME NEW c \in FigureType, Improves(c), ~KillLimit(c)
  PROVE  check(c) \in {"Accepted", "AcceptedMarginEscape"}
<1>1. /\ c.cur_margin \in Fractions /\ c.post_margin \in Fractions
      /\ c.cur_delta \in Int /\ c.post_delta \in Int /\ c.cur_theta \in Int /\ c.post_theta \in Int
      /\ c.cur_premium \in Int /\ c.post_premium \in Int
  BY DEF FigureType
<1>2. /\ Less(c.post_margin, c.cur_margin) /\ Abs(c.post_delta) < Abs(c.cur_delta)
      /\ c.post_theta > c.cur_theta /\ c.post_premium <= c.cur_premium
  BY DEF Improves
<1>3. ~PremiumRejects(c)
  BY <1>1, <1>2 DEF PremiumRejects
<1>4. ~MarginRejects(c)
  <2>1. Frac(MarginCeiling, 1) \in Fractions
    BY ConstraintAssumption, FracOf
  <2>2. AtMost(c.cur_margin, Frac(MarginCeiling, 1)) => AtMost(c.post_margin, Frac(MarginCeiling, 1))
    BY <1>1, <1>2, <2>1, LessThanAtMost
  <2> QED
    BY <1>2, <2>2 DEF MarginRejects, Over
<1>5. ~DeltaRejects(c)
  <2>1. Abs(c.post_delta) \in Int /\ Abs(c.cur_delta) \in Int
    BY <1>1 DEF Abs
  <2> QED
    BY <1>2, <2>1 DEF DeltaRejects
<1>6. ~ThetaRejects(c)
  BY <1>1, <1>2 DEF ThetaRejects
<1> QED
  BY <1>3, <1>4, <1>5, <1>6 DEF check

-----------------------------------------------------------------------------
(* The margin scale stays a fraction and the hedge a whole number. *)

LEMMA ScaleStep == AccountInv /\ ScaleOK /\ [Next]_vars => ScaleOK'
<1> SUFFICES ASSUME AccountInv, ScaleOK, [Next]_vars PROVE ScaleOK'
  OBVIOUS
<1>0. BookOK /\ ibkr_scale \in Fractions /\ hedge_qty \in Int
  BY DEF AccountInv, ScaleOK
<1>1. ASSUME UNCHANGED <<ibkr_scale, hedge_qty>> PROVE ScaleOK'
  BY <1>0, <1>1 DEF ScaleOK
<1>2. ASSUME NEW k \in Keys, NEW e \in Effects, NEW p \in OptionPrices, OptionFill(k, e, p)
      PROVE  ScaleOK'
  BY <1>1, <1>2 DEF OptionFill, hedgeStateVars
<1>3. ASSUME NEW e \in Effects, NEW p \in Prices, handle_fill(HedgeContract, e, p)
      PROVE  ScaleOK'
  <2>1. HedgeFill(e, p) /\ e \in Int
    BY <1>3, AccountingAssumption DEF handle_fill
  <2>2. ibkr_scale' = ibkr_scale /\ apply_fill(e, p)
    BY <2>1 DEF HedgeFill, BrokerFill
  <2>3. hedge_qty' \in Int
    BY <1>0, <2>1, <2>2 DEF apply_fill, Flat, Extend, Reduce, Flip
  <2> QED
    BY <1>0, <2>2, <2>3 DEF ScaleOK
<1>4. ASSUME NEW k \in Keys, NEW e \in Effects, NEW p \in OptionPrices, handle_fill(k, e, p)
      PROVE  ScaleOK'
  BY <1>2, <1>4, AccountingAssumption DEF handle_fill
<1>5. ASSUME NEW k \in Keys, NEW e \in Effects, NEW p \in OptionPrices, GatedFill(k, e, p)
      PROVE  ScaleOK'
  BY <1>2, <1>5 DEF GatedFill
<1>6. ASSUME NEW e \in Effects, NEW p \in Prices, ReconcileHedge(e, p)
      PROVE  ScaleOK'
  <2>1. e \in Int /\ hedge_qty' = e /\ ibkr_scale' = ibkr_scale
    BY <1>6, AccountingAssumption DEF ReconcileHedge, replace
  <2> QED
    BY <1>0, <2>1 DEF ScaleOK
<1>7. ASSUME NEW m \in BrokerMargins, periodic_account_poll(m)
      PROVE  ScaleOK'
  <2>1. hedge_qty' = hedge_qty /\ update_cached_margin(m) /\ m \in Int
    BY <1>7, AccountingAssumption DEF periodic_account_poll, hedgeStateVars
  <2> DEFINE raw == portfolio_margin(Scanned(Holding))
  <2>2. raw \in Int
    BY <1>0, HoldingIsTotal, ScannedMargin
  <2>3. ibkr_scale' = IF m <= 0 \/ raw <= 0 THEN ibkr_scale ELSE Bounded(Frac(m, raw))
    BY <2>1 DEF update_cached_margin
  <2> HIDE DEF raw
  <2>4. One \in Fractions
    BY FracOf DEF One
  <2>5. CASE m <= 0 \/ raw <= 0
    BY <1>0, <2>1, <2>3, <2>5 DEF ScaleOK
  <2>6. CASE ~(m <= 0 \/ raw <= 0)
    <3>1. raw \in Nat \ {0}
      BY <2>1, <2>2, <2>6
    <3>2. Frac(m, raw) \in Fractions
      BY <2>1, <3>1, FracOf
    <3>3. ibkr_scale' = Frac(m, raw) \/ ibkr_scale' = One
      BY <2>3, <2>6 DEF Bounded
    <3> QED
      BY <1>0, <2>1, <2>4, <3>2, <3>3 DEF ScaleOK
  <2> QED
    BY <2>5, <2>6
<1>8. ASSUME NEW k \in Keys, NEW p \in OptionPrices \cup {0}, QuoteMoves(k, p)
      PROVE  ScaleOK'
  BY <1>1, <1>8 DEF QuoteMoves, hedgeStateVars
<1>9. ASSUME NEW p \in Prices, ForwardMoves(p)
      PROVE  ScaleOK'
  BY <1>1, <1>9 DEF ForwardMoves, hedgeStateVars
<1>10. ASSUME periodic_greek_refresh
       PROVE  ScaleOK'
  BY <1>1, <1>10 DEF periodic_greek_refresh, hedgeStateVars
<1>11. CASE UNCHANGED vars
  BY <1>1, <1>11 DEF vars
<1> QED
  BY <1>3, <1>4, <1>5, <1>6, <1>7, <1>8, <1>9, <1>10, <1>11 DEF Next

LEMMA ScaleInvariant == Spec => []ScaleOK
<1>1. Init => ScaleOK
  <2>1. One \in Fractions
    BY FracOf DEF One
  <2>2. Init => ibkr_scale = One /\ hedge_qty = 0
    BY DEF Init, HedgeStateInit
  <2> QED
    BY <2>1, <2>2 DEF ScaleOK
<1> QED
  BY <1>1, AccountInvariant, ScaleStep, PTL DEF Spec

(* WayBackIsOpen: in every reachable state, however far over its limits    *)
(* the book is, ConstraintChecker::check accepts a fill that improves      *)
(* every figure and ends within the kill limits, whatever the limits, the  *)
(* Greeks, the scenario losses and the calibrated margin scale are.        *)
THEOREM TheWayBackIsOpen == Spec => []WayBackIsOpen
<1>1. AccountInv /\ ScaleOK => WayBackIsOpen
  <2> SUFFICES ASSUME AccountInv, ScaleOK, forward > 0,
                      NEW k \in Keys \ Expired, NEW qty \in Effects,
                      Improves(Figures(k, qty, forward, hedge_qty)),
                      ~KillLimit(Figures(k, qty, forward, hedge_qty))
               PROVE  Accepts(k, qty)
    BY DEF WayBackIsOpen
  <2>1. BookOK /\ forward \in Prices /\ qty \in Int
    BY AccountingAssumption DEF AccountInv, MarketOK
  <2>2. Figures(k, qty, forward, hedge_qty) \in FigureType
    BY <2>1, FiguresOf
  <2> QED
    BY <2>2, ImprovingIsAccepted DEF Accepts
<1> QED
  BY <1>1, AccountInvariant, ScaleInvariant, PTL


-----------------------------------------------------------------------------
(* Gated fills *)

(* What delta and theta would be after a refresh at the forward f. *)
FreshDelta(f) == [p \in BookEntry |-> IF f \in Prices THEN DeltaOf[p.key][f] * p.quantity ELSE 0]
FreshTheta == [p \in BookEntry |-> ThetaOf[p.key] * p.quantity]

(* A book that only gated, fresh fills made is within the limits once its  *)
(* Greeks are refreshed.                                                   *)
WithinLimits ==
  /\ Abs(Total(positions, FreshDelta(forward)) + hedge_qty) <= DeltaCeiling
  /\ Total(positions, FreshTheta) >= ThetaFloor
  /\ ~Over(Margin(Holding), MarginCeiling)
  /\ LongPremium(Holding) <= Capital

InsideOK == inside => WithinLimits

LEMMA FreshValues ==
  /\ FreshTheta \in Valuations /\ Keyed(FreshTheta)
  /\ \A f : FreshDelta(f) \in Valuations /\ Keyed(FreshDelta(f))
<1>1. \A p \in BookEntry : p.quantity \in Int /\ p.key \in Keys
  BY DEF BookEntry
<1>2. \A p \in BookEntry : ThetaOf[p.key] \in Int /\ \A f \in Prices : DeltaOf[p.key][f] \in Int
  BY <1>1, AccountingAssumption, PortfolioAssumption
<1>3. \A p \in BookEntry : /\ ThetaOf[p.key] * p.quantity \in Int
                           /\ \A f \in Prices : DeltaOf[p.key][f] * p.quantity \in Int
  BY <1>1, <1>2
<1>4. FreshTheta \in Valuations /\ \A f : FreshDelta(f) \in Valuations
  BY <1>3 DEF FreshTheta, FreshDelta, Valuations
<1>5. Keyed(FreshTheta) /\ \A f : Keyed(FreshDelta(f))
  BY DEF Keyed, FreshTheta, FreshDelta
<1> QED
  BY <1>4, <1>5

(* With fresh Greeks the aggregates are those of a refresh. *)
LEMMA FreshAggregates ==
  ASSUME BookOK, MarketOK, Fresh
  PROVE  /\ delta_for_product = Total(positions, FreshDelta(forward))
         /\ theta_for_product = Total(positions, FreshTheta)
<1>1. /\ positions \in Seq(BookEntry) /\ DOMAIN positions = 1 .. Len(positions)
      /\ \A i \in 1 .. Len(positions) : positions[i] \in BookEntry
  BY DEF BookOK
<1>2. \A i \in 1 .. Len(positions) :
        /\ forward > 0 /\ positions[i].delta = DeltaOf[positions[i].key][forward]
        /\ positions[i].theta = ThetaOf[positions[i].key]
  BY <1>1 DEF Fresh
<1>3. forward > 0 => forward \in Prices
  BY DEF MarketOK
<1>4. \A i \in 1 .. Len(positions) :
        /\ DeltaValue[positions[i]] = FreshDelta(forward)[positions[i]]
        /\ ThetaValue[positions[i]] = FreshTheta[positions[i]]
  BY <1>1, <1>2, <1>3 DEF DeltaValue, ThetaValue, FreshDelta, FreshTheta
<1>5. FreshDelta(forward) \in Valuations /\ FreshTheta \in Valuations
      /\ DeltaValue \in Valuations /\ ThetaValue \in Valuations
  BY FreshValues, GreeksAreTotals
<1>6. Total(positions, DeltaValue) = Total(positions, FreshDelta(forward))
  BY <1>1, <1>4, <1>5, TotalSame
<1>7. Total(positions, ThetaValue) = Total(positions, FreshTheta)
  BY <1>1, <1>4, <1>5, TotalSame
<1> QED
  BY <1>6, <1>7, GreeksAreTotals

(* A fill adds its own Greeks to the refreshed totals. *)
LEMMA FillAddsFresh ==
  ASSUME BookOK, NEW k \in Keys, NEW qty \in Int, qty # 0, NEW price \in Int,
         add_fill(k, qty, price), NEW f \in Prices
  PROVE  /\ Total(positions', FreshDelta(f)) = Total(positions, FreshDelta(f)) + DeltaOf[k][f] * qty
         /\ Total(positions', FreshTheta) = Total(positions, FreshTheta) + ThetaOf[k] * qty
<1> DEFINE D == FreshDelta(f)
           H == FreshTheta
           d == DeltaOf[k][f]
           t == ThetaOf[k]
<1>1. D \in Valuations /\ H \in Valuations
  BY FreshValues
<1>2. d \in Int /\ t \in Int
  BY AccountingAssumption, PortfolioAssumption
<1>3. \A p \in BookEntry : p.key = k => D[p] = d * p.quantity /\ H[p] = t * p.quantity
  BY DEF FreshDelta, FreshTheta
<1>4. Total(positions, D) \in Int /\ Total(positions, H) \in Int
  BY <1>1, TotalInt DEF BookOK
<1>5. \A p \in BookEntry : p.quantity \in Int
  BY DEF BookEntry
<1> HIDE DEF D, H, d, t
<1>6. CASE Open(k, qty, price)
  <2> DEFINE p == Position(k, qty, price)
  <2>1. FillOpens(k, qty, price)
    BY <1>6, FillOpensBook
  <2>2. p.key = k /\ p.quantity = qty
    BY DEF Position
  <2>3. /\ p \in BookEntry
        /\ \A V \in Valuations : Total(positions', V) = Total(positions, V) + V[p]
    BY <2>1 DEF FillOpens
  <2> HIDE DEF p
  <2>4. /\ Total(positions', D) = Total(positions, D) + d * qty
        /\ Total(positions', H) = Total(positions, H) + t * qty
    BY <1>1, <1>3, <2>2, <2>3
  <2> QED
    BY <2>4 DEF D, H, d, t
<1>7. CASE Close(k, qty)
  <2> DEFINE a == At(k)
             q == a.quantity
  <2>1. FillCloses(k, qty)
    BY <1>7, FillClosesBook
  <2>2. /\ a \in BookEntry /\ a.key = k /\ q + qty = 0
        /\ \A V \in Valuations : Total(positions', V) = Total(positions, V) - V[a]
    BY <2>1 DEF FillCloses
  <2>3. q \in Int /\ D[a] = d * q /\ H[a] = t * q
    BY <1>3, <1>5, <2>2
  <2>4. /\ Total(positions', D) = Total(positions, D) - d * q
        /\ Total(positions', H) = Total(positions, H) - t * q
    BY <1>1, <2>2, <2>3
  <2> HIDE DEF a, q
  <2>5. qty = -q
    BY <2>2, <2>3
  <2>6. \A x, y, z \in Int : x - y * z = x + y * (-z)
    OBVIOUS
  <2>7. /\ Total(positions', D) = Total(positions, D) + d * qty
        /\ Total(positions', H) = Total(positions, H) + t * qty
    BY <1>2, <1>4, <2>3, <2>4, <2>5, <2>6
  <2> QED
    BY <2>7 DEF D, H, d, t
<1>8. CASE Merge(k, qty, price)
  <2> DEFINE a == At(k)
             q == a.quantity
             m == Merged(a, qty, price)
  <2>1. FillMerges(k, qty, price)
    BY <1>8, FillMergesBook
  <2>2. /\ a \in BookEntry /\ a.key = k /\ m \in BookEntry
        /\ \A V \in Valuations : Total(positions', V) = Total(positions, V) - V[a] + V[m]
    BY <2>1 DEF FillMerges
  <2>3. m.key = k /\ m.quantity = q + qty
    BY <2>2 DEF Merged, BookEntry
  <2>4. q \in Int /\ D[a] = d * q /\ H[a] = t * q
    BY <1>3, <1>5, <2>2
  <2> HIDE DEF m
  <2>5. D[m] = d * (q + qty) /\ H[m] = t * (q + qty)
    BY <1>3, <2>2, <2>3
  <2>6. /\ Total(positions', D) = Total(positions, D) - d * q + d * (q + qty)
        /\ Total(positions', H) = Total(positions, H) - t * q + t * (q + qty)
    BY <1>1, <2>2, <2>4, <2>5
  <2> HIDE DEF a, q
  <2>7. \A x, y, z, w \in Int : x - y * z + y * (z + w) = x + y * w
    OBVIOUS
  <2>8. /\ Total(positions', D) = Total(positions, D) + d * qty
        /\ Total(positions', H) = Total(positions, H) + t * qty
    BY <1>2, <1>4, <2>4, <2>6, <2>7
  <2> QED
    BY <2>8 DEF D, H, d, t
<1> QED
  BY <1>6, <1>7, <1>8 DEF add_fill

(* From inside the limits, what is accepted is inside them. *)
LEMMA AcceptedStaysInside ==
  ASSUME NEW c \in FigureType, check(c) \in {"Accepted", "AcceptedMarginEscape"},
         ~Over(c.cur_margin, MarginCeiling), Abs(c.cur_delta) <= DeltaCeiling,
         c.cur_theta >= ThetaFloor, c.cur_premium <= Capital
  PROVE  /\ ~Over(c.post_margin, MarginCeiling) /\ Abs(c.post_delta) <= DeltaCeiling
         /\ c.post_theta >= ThetaFloor /\ c.post_premium <= Capital
<1>1. /\ c.cur_delta \in Int /\ c.post_delta \in Int /\ c.cur_theta \in Int /\ c.post_theta \in Int
      /\ c.cur_premium \in Int /\ c.post_premium \in Int
  BY DEF FigureType
<1>2. Abs(c.cur_delta) \in Int /\ Abs(c.post_delta) \in Int
  BY <1>1 DEF Abs
<1>3. ~EscapeApplies(c)
  BY DEF EscapeApplies
<1>4. ~PremiumRejects(c) /\ ~MarginRejects(c) /\ ~DeltaRejects(c) /\ ~ThetaRejects(c)
  <2>1. "Rejected" \notin {"Accepted", "AcceptedMarginEscape"}
    OBVIOUS
  <2> QED
    BY <1>3, <2>1 DEF check
<1>5. ~Over(c.post_margin, MarginCeiling)
  BY <1>4 DEF MarginRejects
<1>6. Abs(c.post_delta) <= DeltaCeiling
  BY <1>2, <1>4, ConstraintAssumption DEF DeltaRejects
<1>7. c.post_theta >= ThetaFloor
  BY <1>1, <1>4, ConstraintAssumption DEF ThetaRejects
<1>8. c.post_premium <= Capital
  BY <1>1, <1>4, ConstraintAssumption DEF PremiumRejects
<1> QED
  BY <1>5, <1>6, <1>7, <1>8


(* Nothing is not over a ceiling. *)
LEMMA NoMarginIsNotOver ==
  ASSUME ibkr_scale \in Fractions
  PROVE  ~Over(Times(ibkr_scale, 0), MarginCeiling)
<1> DEFINE z == Times(ibkr_scale, 0)
           l == Frac(MarginCeiling, 1)
<1>1. ibkr_scale.num \in Int /\ ibkr_scale.den \in Nat \ {0} /\ MarginCeiling \in Nat
  BY ConstraintAssumption DEF Fractions
<1>2. z = Frac(0, ibkr_scale.den)
  <2>1. ibkr_scale.num * 0 = 0
    BY <1>1
  <2> QED
    BY <2>1 DEF Times
<1>3. z \in Fractions /\ z.num * ibkr_scale.den = 0 * z.den
  BY <1>1, <1>2, FracOf
<1>4. l \in Fractions /\ l.num * 1 = MarginCeiling * l.den
  BY <1>1, FracOf
<1> HIDE DEF z, l
<1>5. z.num \in Int /\ z.den \in Nat \ {0} /\ l.num \in Int /\ l.den \in Nat \ {0}
  BY <1>3, <1>4 DEF Fractions
<1>6. z.num = 0
  <2>1. \A x \in Int : \A y \in Nat \ {0} : x * y = 0 => x = 0
    OBVIOUS
  <2>2. 0 * z.den = 0
    BY <1>5
  <2> QED
    BY <1>1, <1>3, <1>5, <2>1, <2>2
<1>7. l.num >= 0
  <2>1. \A x, y \in Nat : x * y >= 0
    OBVIOUS
  <2>2. l.num * 1 = l.num
    BY <1>5
  <2> QED
    BY <1>1, <1>4, <1>5, <2>1, <2>2
<1>8. z.num * l.den <= l.num * z.den
  <2>1. \A x \in Int : \A y \in Nat : x >= 0 => 0 * y <= x * y
    OBVIOUS
  <2>2. \A x \in Int : 0 * x = 0
    OBVIOUS
  <2> QED
    BY <1>5, <1>6, <1>7, <2>1, <2>2
<1> QED
  BY <1>8 DEF Over, AtMost, z, l

LEMMA InsideInit == Init => InsideOK
<1> SUFFICES ASSUME Init, inside PROVE WithinLimits
  BY DEF InsideOK
<1>1. positions = <<>> /\ ibkr_scale = One /\ hedge_qty = 0
  BY DEF Init, HedgeStateInit
<1>2. BookOK
  BY AccountInit DEF AccountInv
<1>3. One \in Fractions
  BY FracOf DEF One
<1>4. \A V : Total(positions, V) = 0
  BY <1>1, TotalNone
<1>5. Holding \in [Keys -> Int] /\ \A k \in Keys : Holding[k] = 0
  BY <1>2, <1>4, HoldingIsTotal
<1>6. portfolio_margin(Scanned(Holding)) = 0 /\ LongPremium(Holding) = 0
  BY <1>1, <1>3, <1>5, ScannedMargin, LongPremiumOf
<1>7. ~Over(Margin(Holding), MarginCeiling)
  BY <1>1, <1>3, <1>6, NoMarginIsNotOver DEF Margin
<1>8. Abs(0 + 0) = 0
  BY DEF Abs
<1> QED
  BY <1>1, <1>4, <1>6, <1>7, <1>8, ConstraintAssumption DEF WithinLimits

LEMMA Swap == \A x, y, z \in Int : (x * y) * z = (x * z) * y /\ x * y = y * x /\ x * (y * z) = (x * y) * z
OBVIOUS

(* check's theta of a fill, multiplied once too often, errs on the side of *)
(* its sign.                                                               *)
LEMMA WorseByMore ==
  ASSUME NEW y \in Int, NEW n \in Nat \ {0}, y < 0
  PROVE  y * n <= y
<1>1. y * n - y = y * (n - 1)
  OBVIOUS
<1>2. y * (n - 1) <= 0
  OBVIOUS
<1>3. y * n \in Int
  OBVIOUS
<1> QED
  BY <1>1, <1>2, <1>3

LEMMA GatedFillStaysInside ==
  ASSUME AccountInv, ScaleOK, InsideOK, AccountInv', NEW k \in Keys, NEW e \in Effects,
         NEW p \in OptionPrices, GatedFill(k, e, p), inside'
  PROVE  WithinLimits'
<1>1. BookOK /\ MarketOK /\ LedgerOK /\ BookOK' /\ LedgerOK'
  BY DEF AccountInv
<1>2. e \in Int /\ e # 0 /\ p \in Int
  BY AccountingAssumption
<1>3. inside /\ Fresh /\ forward > 0 /\ Accepts(k, e) /\ OptionFill(k, e, p)
  BY DEF GatedFill
<1>4. add_fill(k, e, p) /\ net' = [net EXCEPT ![k] = @ + e]
      /\ ibkr_scale' = ibkr_scale /\ forward' = forward /\ hedge_qty' = hedge_qty
  BY <1>3 DEF OptionFill, RecordOption, hedgeStateVars
<1>5. forward \in Prices
  BY <1>1, <1>3 DEF MarketOK
<1>6. WithinLimits
  BY <1>3 DEF InsideOK
<1> DEFINE c == Figures(k, e, forward, hedge_qty)
           D == Total(positions, FreshDelta(forward))
           H == Total(positions, FreshTheta)
<1>7. c \in FigureType
  BY <1>1, <1>2, <1>5, FiguresOf
<1>8. delta_for_product = D /\ theta_for_product = H
  BY <1>1, <1>3, FreshAggregates
<1>9. /\ c.cur_margin = Margin(Holding) /\ c.post_margin = Margin(After(Holding, k, e))
      /\ c.cur_delta = D + hedge_qty /\ c.post_delta = D + hedge_qty + DeltaOf[k][forward] * e
      /\ c.cur_theta = H /\ c.post_theta = H + (ThetaOf[k] * Multiplier) * e
      /\ c.cur_premium = LongPremium(Holding) /\ c.post_premium = LongPremium(After(Holding, k, e))
  <2> HIDE DEF D, H
  <2> QED
    BY <1>8 DEF Figures
<1>10. check(c) \in {"Accepted", "AcceptedMarginEscape"}
  BY <1>3 DEF Accepts
<1> HIDE DEF c
<1>11. /\ ~Over(c.post_margin, MarginCeiling) /\ Abs(c.post_delta) <= DeltaCeiling
       /\ c.post_theta >= ThetaFloor /\ c.post_premium <= Capital
  BY <1>6, <1>7, <1>9, <1>10, AcceptedStaysInside DEF WithinLimits
<1>12. Holding' = After(Holding, k, e)
  <2>1. Holding = net
    BY <1>1, HoldingIsTotal DEF LedgerOK
  <2>2. Holding' = net'
    BY <1>1, NextHoldingIsTotal DEF LedgerOK
  <2> QED
    BY <1>4, <2>1, <2>2 DEF After
<1>13. /\ Total(positions', FreshDelta(forward)) = D + DeltaOf[k][forward] * e
       /\ Total(positions', FreshTheta) = H + ThetaOf[k] * e
  BY <1>1, <1>2, <1>4, <1>5, FillAddsFresh
<1>14. Abs(Total(positions', FreshDelta(forward)) + hedge_qty) <= DeltaCeiling
  <2>1. D \in Int /\ DeltaOf[k][forward] * e \in Int /\ hedge_qty \in Int
    <3>1. DeltaOf[k][forward] \in Int
      BY <1>5, AccountingAssumption
    <3>2. D \in Int
      BY <1>1, FreshValues, TotalInt DEF BookOK
    <3> HIDE DEF D
    <3> QED
      BY <1>2, <3>1, <3>2 DEF ScaleOK
  <2> HIDE DEF D
  <2>2. \A x, y, z \in Int : (x + y) + z = x + z + y
    OBVIOUS
  <2>3. Total(positions', FreshDelta(forward)) + hedge_qty = c.post_delta
    BY <1>9, <1>13, <2>1, <2>2
  <2> QED
    BY <1>11, <2>3
<1>15. Total(positions', FreshTheta) >= ThetaFloor
  <2> DEFINE y == ThetaOf[k] * e
  <2>1. ThetaOf[k] \in Int /\ H \in Int /\ y \in Int
    BY <1>1, <1>2, PortfolioAssumption, FreshValues, TotalInt DEF BookOK
  <2>2. Multiplier \in Nat \ {0} /\ ThetaFloor \in Int
    BY ConstraintAssumption
  <2>3. (ThetaOf[k] * Multiplier) * e = y * Multiplier
    BY <1>2, <2>1, <2>2, Swap
  <2>4. H + y * Multiplier >= ThetaFloor /\ H >= ThetaFloor
    BY <1>6, <1>9, <1>11, <2>3 DEF WithinLimits
  <2> HIDE DEF y, H
  <2>5. y >= 0 \/ y * Multiplier <= y
    BY <2>1, <2>2, WorseByMore
  <2>6. H + y >= ThetaFloor
    <3>1. y * Multiplier \in Int
      BY <2>1, <2>2
    <3> QED
      BY <2>1, <2>2, <2>4, <2>5, <3>1
  <2> QED
    BY <1>13, <2>6 DEF y, H
<1>16. Margin(Holding)' = Margin(After(Holding, k, e))
       /\ LongPremium(Holding)' = LongPremium(After(Holding, k, e))
  BY <1>4, <1>12 DEF Margin
<1>17. ~Over(Margin(Holding)', MarginCeiling) /\ LongPremium(Holding)' <= Capital
  BY <1>9, <1>11, <1>16
<1> QED
  BY <1>4, <1>14, <1>15, <1>17 DEF WithinLimits


LEMMA InsideStep ==
  AccountInv /\ ScaleOK /\ InsideOK /\ [Next]_vars /\ AccountInv' => InsideOK'
<1> SUFFICES ASSUME AccountInv, ScaleOK, InsideOK, [Next]_vars, AccountInv', inside'
             PROVE  WithinLimits'
  BY DEF InsideOK
<1>0. BookOK /\ MarketOK /\ LedgerOK /\ BookOK' /\ LedgerOK'
  BY DEF AccountInv
<1>1. ASSUME inside, UNCHANGED <<ibkr_scale, hedge_qty, net>>,
             Total(positions', FreshDelta(forward)') = Total(positions, FreshDelta(forward)),
             Total(positions', FreshTheta) = Total(positions, FreshTheta)
      PROVE  WithinLimits'
  <2>1. WithinLimits
    BY <1>1 DEF InsideOK
  <2>2. Holding = net
    BY <1>0, HoldingIsTotal DEF LedgerOK
  <2>3. Holding' = net'
    BY <1>0, NextHoldingIsTotal DEF LedgerOK
  <2>4. Holding' = Holding
    BY <1>1, <2>2, <2>3
  <2>5. Margin(Holding)' = Margin(Holding) /\ LongPremium(Holding)' = LongPremium(Holding)
    BY <1>1, <2>4 DEF Margin
  <2> QED
    BY <1>1, <2>1, <2>5 DEF WithinLimits
<1>2. ASSUME inside, UNCHANGED <<positions, forward, ibkr_scale, hedge_qty, net>>
      PROVE  WithinLimits'
  BY <1>1, <1>2
<1>3. ASSUME NEW e \in Effects, NEW p \in Prices, handle_fill(HedgeContract, e, p)
      PROVE  FALSE
  BY <1>3 DEF handle_fill, HedgeFill
<1>4. ASSUME NEW k \in Keys, NEW e \in Effects, NEW p \in OptionPrices, handle_fill(k, e, p)
      PROVE  FALSE
  BY <1>4, AccountingAssumption DEF handle_fill
<1>5. ASSUME NEW k \in Keys, NEW e \in Effects, NEW p \in OptionPrices, GatedFill(k, e, p)
      PROVE  WithinLimits'
  BY <1>5, GatedFillStaysInside
<1>6. ASSUME NEW e \in Effects, NEW p \in Prices, ReconcileHedge(e, p)
      PROVE  FALSE
  BY <1>6 DEF ReconcileHedge
<1>7. ASSUME NEW m \in BrokerMargins, periodic_account_poll(m)
      PROVE  WithinLimits'
  BY <1>2, <1>7 DEF periodic_account_poll, portfolioVars, hedgeStateVars
<1>8. ASSUME NEW k \in Keys, NEW p \in OptionPrices \cup {0}, QuoteMoves(k, p)
      PROVE  WithinLimits'
  BY <1>2, <1>8 DEF QuoteMoves, hedgeStateVars
<1>9. ASSUME NEW p \in Prices, ForwardMoves(p)
      PROVE  WithinLimits'
  <2>1. /\ inside /\ positions = <<>> /\ positions' = <<>>
        /\ UNCHANGED <<ibkr_scale, hedge_qty, net>>
    BY <1>9 DEF ForwardMoves, portfolioVars, hedgeStateVars
  <2>2. \A V : Total(positions, V) = 0 /\ Total(positions', V) = 0
    BY <2>1, TotalNone
  <2> QED
    BY <1>1, <2>1, <2>2
<1>10. ASSUME periodic_greek_refresh
       PROVE  WithinLimits'
  <2>1. /\ refresh_greeks(forward) /\ inside
        /\ UNCHANGED <<forward, ibkr_scale, hedge_qty, net>>
    BY <1>10 DEF periodic_greek_refresh, hedgeStateVars
  <2>2. \A V \in Valuations : Keyed(V) => Total(positions', V) = Total(positions, V)
    BY <1>0, <2>1, RefreshKeepsTotals
  <2>3. /\ Total(positions', FreshTheta) = Total(positions, FreshTheta)
        /\ Total(positions', FreshDelta(forward)) = Total(positions, FreshDelta(forward))
    BY <2>2, FreshValues
  <2> QED
    BY <1>1, <2>1, <2>3
<1>11. CASE UNCHANGED vars
  BY <1>2, <1>11 DEF vars
<1> QED
  BY <1>3, <1>4, <1>5, <1>6, <1>7, <1>8, <1>9, <1>10, <1>11 DEF Next

(* GatedBookStaysInside: what ConstraintChecker::check predicts for a fill *)
(* is what add_fill and the next refresh make of it, so a book made only   *)
(* of accepted fills, each judged on fresh Greeks, never leaves its soft   *)
(* limits, for any limits, tables and calibrated margin scale.             *)
THEOREM GatedBooksStayInside == Spec => []GatedBookStaysInside
<1>1. AccountInv /\ InsideOK => GatedBookStaysInside
  <2> SUFFICES ASSUME AccountInv, InsideOK, inside, Fresh
               PROVE  /\ Abs(delta_for_product + hedge_qty) <= DeltaCeiling
                      /\ theta_for_product >= ThetaFloor
                      /\ ~Over(Margin(Holding), MarginCeiling)
                      /\ LongPremium(Holding) <= Capital
    BY DEF GatedBookStaysInside
  <2>1. WithinLimits /\ BookOK /\ MarketOK
    BY DEF InsideOK, AccountInv
  <2>2. /\ delta_for_product = Total(positions, FreshDelta(forward))
        /\ theta_for_product = Total(positions, FreshTheta)
    BY <2>1, FreshAggregates
  <2> QED
    BY <2>1, <2>2 DEF WithinLimits
<1>2. Spec => []InsideOK
  BY InsideInit, InsideStep, AccountInvariant, ScaleInvariant, PTL DEF Spec
<1> QED
  BY <1>1, <1>2, AccountInvariant, PTL


-----------------------------------------------------------------------------
(* Arithmetic of fractions, over a common denominator *)

LEMMA Cancel ==
  ASSUME NEW x \in Int, NEW y \in Int, NEW z \in Int \ {0}, x * z = y * z
  PROVE  x = y
OBVIOUS

LEMMA IsScaled ==
  ASSUME NEW a, NEW n, NEW d, Is(a, n, d), NEW k \in Int \ {0}
  PROVE  Is(a, n * k, d * k)
<1>1. a \in Fractions /\ a.num \in Int /\ a.den \in Int /\ n \in Int /\ d \in Int \ {0} /\ a.num * d = n * a.den
  BY DEF Is, Fractions
<1>2. n * k \in Int /\ d * k \in Int \ {0}
  BY <1>1
<1>3. a.num * (d * k) = (a.num * d) * k /\ (n * a.den) * k = (n * k) * a.den
  BY <1>1, Swap
<1> QED
  BY <1>1, <1>2, <1>3 DEF Is

LEMMA PlusIs ==
  ASSUME NEW a, NEW b, NEW n, NEW m, NEW d, Is(a, n, d), Is(b, m, d)
  PROVE  Is(Plus(a, b), n + m, d)
<1> DEFINE X == a.num * b.den + b.num * a.den
           Y == a.den * b.den
           c == Plus(a, b)
<1>1. /\ a.num \in Int /\ a.den \in Int \ {0} /\ b.num \in Int /\ b.den \in Int \ {0}
      /\ n \in Int /\ m \in Int /\ d \in Int \ {0}
      /\ a.num * d = n * a.den /\ b.num * d = m * b.den
  BY DEF Is, Fractions
<1>2. X \in Int /\ Y \in Int \ {0}
  <2>1. \A x, y \in Int \ {0} : x * y \in Int \ {0}
    OBVIOUS
  <2>2. X \in Int
    BY <1>1
  <2> QED
    BY <1>1, <2>1, <2>2
<1>3. Is(c, X, Y)
  BY <1>2, FracIs DEF Plus
<1>4. X * d = (n + m) * Y
  <2>1. (a.num * b.den) * d = n * Y
    <3>1. (a.num * b.den) * d = (a.num * d) * b.den
      BY <1>1, Swap
    <3>2. (n * a.den) * b.den = n * (a.den * b.den)
      BY <1>1, Swap
    <3> QED
      BY <1>1, <3>1, <3>2
  <2>2. (b.num * a.den) * d = m * Y
    <3>1. (b.num * a.den) * d = (b.num * d) * a.den
      BY <1>1, Swap
    <3>2. (m * b.den) * a.den = (m * a.den) * b.den /\ (m * a.den) * b.den = m * (a.den * b.den)
      BY <1>1, Swap
    <3> QED
      BY <1>1, <3>1, <3>2
  <2>3. \A x, y, z \in Int : (x + y) * z = x * z + y * z
    OBVIOUS
  <2>4. a.num * b.den \in Int /\ b.num * a.den \in Int
    BY <1>1
  <2>5. X * d = (a.num * b.den) * d + (b.num * a.den) * d
    BY <1>1, <2>3, <2>4
  <2> HIDE DEF X, Y
  <2>6. (n + m) * Y = n * Y + m * Y
    BY <1>1, <1>2, <2>3
  <2> QED
    BY <2>1, <2>2, <2>5, <2>6
<1> HIDE DEF X, Y, c
<1>5. c \in Fractions /\ c.num \in Int /\ c.den \in Int /\ c.num * Y = X * c.den
  BY <1>3 DEF Is, Fractions
<1>6. (c.num * d) * Y = ((n + m) * c.den) * Y
  <2>1. (c.num * d) * Y = (c.num * Y) * d /\ (X * c.den) * d = (X * d) * c.den
    BY <1>1, <1>2, <1>5, Swap
  <2>2. n + m \in Int
    BY <1>1
  <2>3. ((n + m) * Y) * c.den = ((n + m) * c.den) * Y
    BY <1>2, <1>5, <2>2, Swap
  <2> QED
    BY <1>4, <1>5, <2>1, <2>3
<1>7. c.num * d \in Int /\ (n + m) * c.den \in Int /\ n + m \in Int
  BY <1>1, <1>5
<1>8. c.num * d = (n + m) * c.den
  BY <1>2, <1>6, <1>7, Cancel
<1> QED
  BY <1>1, <1>5, <1>7, <1>8 DEF Is, c

LEMMA TimesIs ==
  ASSUME NEW a, NEW n, NEW d, Is(a, n, d), NEW k \in Int
  PROVE  Is(Times(a, k), n * k, d)
<1> DEFINE c == Times(a, k)
<1>1. /\ a.num \in Int /\ a.den \in Int \ {0} /\ n \in Int /\ d \in Int \ {0}
      /\ a.num * d = n * a.den
  BY DEF Is, Fractions
<1>2. a.num * k \in Int
  BY <1>1
<1>3. Is(c, a.num * k, a.den)
  BY <1>1, <1>2, FracIs DEF Times
<1> HIDE DEF c
<1>4. c \in Fractions /\ c.num \in Int /\ c.den \in Int /\ c.num * a.den = (a.num * k) * c.den
  BY <1>3 DEF Is, Fractions
<1>5. (c.num * d) * a.den = ((n * k) * c.den) * a.den
  <2>1. (c.num * d) * a.den = (c.num * a.den) * d /\ ((a.num * k) * c.den) * d = ((a.num * k) * d) * c.den
    BY <1>1, <1>2, <1>4, Swap
  <2>2. (a.num * k) * d = (a.num * d) * k /\ (n * a.den) * k = (n * k) * a.den
    BY <1>1, Swap
  <2>3. n * k \in Int
    BY <1>1
  <2>4. ((n * k) * a.den) * c.den = ((n * k) * c.den) * a.den
    BY <1>1, <1>4, <2>3, Swap
  <2> QED
    BY <1>1, <1>4, <2>1, <2>2, <2>4
<1>6. n * k \in Int /\ c.num * d \in Int /\ (n * k) * c.den \in Int
  BY <1>1, <1>4
<1>7. c.num * d = (n * k) * c.den
  BY <1>1, <1>5, <1>6, Cancel
<1> QED
  BY <1>1, <1>4, <1>6, <1>7 DEF Is, c

LEMMA MinusIs ==
  ASSUME NEW a, NEW b, NEW n, NEW m, NEW d, Is(a, n, d), Is(b, m, d)
  PROVE  Is(Minus(a, b), n - m, d)
<1>1. n \in Int /\ m \in Int
  BY DEF Is
<1>2. Is(Times(b, -1), m * (-1), d)
  BY TimesIs
<1>3. Is(Plus(a, Times(b, -1)), n + m * (-1), d)
  BY <1>2, PlusIs
<1>4. n + m * (-1) = n - m
  BY <1>1
<1> QED
  BY <1>3, <1>4 DEF Minus

(* A whole number over any denominator. *)
LEMMA WholeIs ==
  ASSUME NEW p \in Int, NEW d \in Int \ {0}
  PROVE  Is(Frac(p, 1), p * d, d)
<1>1. Is(Frac(p, 1), p, 1)
  BY FracIs
<1>2. Is(Frac(p, 1), p * d, 1 * d)
  BY <1>1, IsScaled
<1>3. 1 * d = d
  OBVIOUS
<1> QED
  BY <1>2, <1>3


(* No common divisor is greater. *)
LEMMA GcdIsGreatest ==
  ASSUME NEW m \in Nat, NEW n \in Nat \ {0}, NEW k \in Nat \ {0}, m % k = 0, n % k = 0, k <= n
  PROVE  k <= Gcd(m, n)
<1> DEFINE M == Max({m, n, 1})
           G == {j \in 1 .. M : m % j = 0 /\ n % j = 0}
<1>1. M \in Nat /\ M >= n
  <2>1. \E x \in {m, n, 1} : \A y \in {m, n, 1} : x >= y
    OBVIOUS
  <2>2. M \in {m, n, 1} /\ \A y \in {m, n, 1} : M >= y
    BY <2>1 DEF Max
  <2> QED
    BY <2>2
<1> HIDE DEF M
<1>2. IsFiniteSet(G)
  <2>1. IsFiniteSet(1 .. M)
    BY <1>1, FS_Interval
  <2> QED
    BY <2>1, FS_Subset
<1>3. k \in G /\ G \subseteq Int
  BY <1>1
<1>4. Max(G) \in G /\ \A y \in G : Max(G) >= y
  <2> HIDE DEF G
  <2> QED
    BY <1>2, <1>3, FiniteMax
<1>5. Gcd(m, n) = Max(G)
  BY DEF Gcd, M
<1>6. Max(G) \in Int /\ Max(G) >= k
  BY <1>3, <1>4
<1> QED
  BY <1>5, <1>6

(* All fractions equal to n / d are multiples of a / b. *)
Multiples(n, d, a, b) ==
  \A e \in Nat \ {0}, m \in Int :
    n * e = m * d => \E q \in Nat \ {0} : e = q * b /\ m = q * a

LEMMA LeastDenominator ==
  ASSUME NEW n \in Int, NEW d \in Nat \ {0}
  PROVE  \E b \in Nat \ {0}, a \in Int : Multiples(n, d, a, b)
<1> DEFINE T == {e \in Nat : e # 0 /\ \E m \in Int : n * e = m * d}
<1>1. T \subseteq Nat /\ d \in T
  OBVIOUS
<1>2. PICK b \in T : \A e \in T : b <= e
  <2> HIDE DEF T
  <2> QED
    BY <1>1, LeastOf
<1>3. b \in Nat \ {0}
  BY <1>2
<1>4. PICK a \in Int : n * b = a * d
  BY <1>2
<1>5. ASSUME NEW e \in Nat \ {0}, NEW m \in Int, n * e = m * d
      PROVE  \E q \in Nat \ {0} : e = q * b /\ m = q * a
  <2> DEFINE q == e \div b
             r == e % b
  <2>1. q \in Nat /\ r \in Nat /\ r < b /\ e = q * b + r
    BY <1>3
  <2> HIDE DEF q, r
  <2>2. n * r = (m - q * a) * d
    <3>1. n * e = (n * b) * q + n * r
      BY <1>3, <2>1
    <3>2. (n * b) * q = (q * a) * d /\ (q * a) * d \in Int
      <4>1. (a * d) * q = (q * a) * d
        BY <2>1
      <4> QED
        BY <1>4, <2>1, <4>1
    <3>3. (m - q * a) * d = m * d - (q * a) * d
      BY <2>1
    <3>4. n * r \in Int /\ m * d \in Int
      BY <2>1
    <3> QED
      BY <1>5, <3>1, <3>2, <3>3, <3>4
  <2>3. r = 0
    <3> SUFFICES ASSUME r # 0 PROVE FALSE
      OBVIOUS
    <3>1. m - q * a \in Int
      BY <2>1
    <3>2. r \in T
      BY <2>1, <2>2, <3>1
    <3>3. b <= r
      BY <1>2, <3>2
    <3> HIDE DEF T
    <3> QED
      BY <1>3, <2>1, <3>3
  <2>4. e = q * b
    BY <1>3, <2>1, <2>3
  <2>5. q # 0
    BY <1>3, <2>4
  <2>6. m = q * a
    <3>1. n * r = 0
      BY <2>3
    <3>2. (m - q * a) * d = 0 /\ m - q * a \in Int /\ q * a \in Int
      BY <2>1, <2>2, <3>1
    <3>3. \A x \in Int : x * d = 0 => x = 0
      OBVIOUS
    <3>4. m - q * a = 0
      BY <3>2, <3>3
    <3> QED
      BY <3>2, <3>4
  <2> QED
    BY <2>1, <2>4, <2>5, <2>6
<1> QED
  BY <1>3, <1>5 DEF Multiples

Terms(a, b) == [num |-> a, den |-> b]

(* Frac gives the lowest terms. *)
LEMMA LowestTerms ==
  ASSUME NEW m \in Int, NEW e \in Nat \ {0}, NEW a \in Int, NEW b \in Nat \ {0},
         Multiples(m, e, a, b)
  PROVE  Frac(m, e) = Terms(a, b)
<1> DEFINE g == Gcd(Abs(m), e)
           m1 == m \div g
           e1 == e \div g
<1>1. Abs(m) \in Nat /\ Abs(e) = e /\ e \in Nat
  BY DEF Abs
<1>2. g \in Nat \ {0} /\ Abs(m) % g = 0 /\ Abs(e) % g = 0
  BY <1>1, GcdDivides
<1>3. Frac(m, e) = [num |-> m1, den |-> e1]
  <2>1. ~(e < 0) /\ 1 * m = m /\ 1 * e = e
    OBVIOUS
  <2> QED
    BY <1>1, <2>1 DEF Frac
<1>4. m1 \in Int /\ m1 * g = m /\ e1 \in Int /\ e1 * g = e
  <2> HIDE DEF g
  <2>1. m1 \in Int /\ m1 * g = m
    BY <1>2, ExactDivision
  <2>2. e1 \in Int /\ e1 * g = e
    BY <1>2, ExactDivision
  <2> QED
    BY <2>1, <2>2
<1>5. g \in Nat \ {0} /\ \A k \in Nat \ {0} : Abs(m) % k = 0 /\ e % k = 0 /\ k <= e => k <= g
  BY <1>1, <1>2, GcdIsGreatest
<1> HIDE DEF g, m1, e1
<1>6. e1 \in Nat \ {0}
  <2>1. \A x \in Int : \A y \in Nat \ {0} : x * y > 0 => x > 0
    OBVIOUS
  <2> QED
    BY <1>4, <1>5, <2>1
<1>7. m * e1 = m1 * e
  <2>1. (m1 * g) * e1 = m1 * (e1 * g)
    BY <1>4, <1>5, Swap
  <2> QED
    BY <1>4, <2>1
<1>8. PICK q \in Nat \ {0} : e1 = q * b /\ m1 = q * a
  BY <1>4, <1>6, <1>7 DEF Multiples
<1>9. PICK k \in Nat \ {0} : e = k * b /\ m = k * a
  BY <1>1 DEF Multiples
<1>10. Abs(m) % k = 0 /\ e % k = 0 /\ k <= e
  <2>1. \A x \in Nat : (k * x) % k = 0
    OBVIOUS
  <2>2. Abs(m) = k * Abs(a) /\ Abs(a) \in Nat
    <3>1. CASE a < 0
      <4>1. k * a < 0 /\ -(k * a) = k * (-a)
        BY <3>1
      <4> QED
        BY <1>9, <3>1, <4>1 DEF Abs
    <3>2. CASE ~(a < 0)
      <4>1. ~(k * a < 0)
        BY <3>2
      <4> QED
        BY <1>9, <3>2, <4>1 DEF Abs
    <3> QED
      BY <3>1, <3>2
  <2>3. k <= k * b
    OBVIOUS
  <2> QED
    BY <1>9, <2>1, <2>2, <2>3
<1>11. k <= g
  BY <1>5, <1>10
<1>12. q * g = k
  <2>1. (q * g) * b = (q * b) * g
    BY <1>5, Swap
  <2>2. (q * g) * b = k * b
    BY <1>4, <1>8, <1>9, <2>1
  <2>3. q * g \in Int
    BY <1>5
  <2> QED
    BY <2>2, <2>3, Cancel
<1>13. q = 1
  <2>1. \A x, y, z \in Nat \ {0} : z <= y /\ x * y = z => x = 1
    <3> SUFFICES ASSUME NEW x \in Nat \ {0}, NEW y \in Nat \ {0}, NEW z \in Nat \ {0},
                        z <= y, x * y = z, x # 1
                 PROVE  FALSE
      OBVIOUS
    <3>1. PICK w \in Nat : x = w + 2
      <4>1. x - 2 \in Nat /\ x = (x - 2) + 2
        OBVIOUS
      <4> QED
        BY <4>1
    <3>2. x * y = w * y + 2 * y /\ w * y \in Nat
      BY <3>1
    <3> QED
      BY <3>2
  <2> QED
    BY <1>5, <1>11, <1>12, <2>1
<1>14. e1 = b /\ m1 = a
  BY <1>8, <1>13
<1> QED
  BY <1>3, <1>14 DEF Terms

(* Equal quotients have the same lowest terms. *)
LEMMA SameFrac ==
  ASSUME NEW n \in Int, NEW d \in Nat \ {0}, NEW m \in Int, NEW e \in Nat \ {0}, n * e = m * d
  PROVE  Frac(n, d) = Frac(m, e)
<1>1. PICK b \in Nat \ {0}, a \in Int : Multiples(n, d, a, b)
  BY LeastDenominator
<1>2. Frac(n, d) = Terms(a, b)
  BY <1>1, LowestTerms
<1>3. ASSUME NEW f \in Nat \ {0}, NEW l \in Int, m * f = l * e
      PROVE  n * f = l * d
  <2>1. (n * f) * e = (n * e) * f /\ (m * d) * f = (m * f) * d /\ (l * e) * d = (l * d) * e
    BY Swap
  <2>2. (n * f) * e = (l * d) * e
    BY <1>3, <2>1
  <2>3. n * f \in Int /\ l * d \in Int
    OBVIOUS
  <2> QED
    BY <2>2, <2>3, Cancel
<1>4. Multiples(m, e, a, b)
  <2> SUFFICES ASSUME NEW f \in Nat \ {0}, NEW l \in Int, m * f = l * e
               PROVE  \E q \in Nat \ {0} : f = q * b /\ l = q * a
    BY Zenon DEF Multiples
  <2>1. n * f = l * d
    BY <1>3
  <2> QED
    BY <1>1, <2>1, Zenon DEF Multiples
<1>5. Frac(m, e) = Terms(a, b)
  BY <1>1, <1>4, LowestTerms
<1> QED
  BY <1>2, <1>5


LEMMA IsSame ==
  ASSUME NEW a, NEW n, NEW d, NEW m, NEW e, Is(a, n, d), Is(a, m, e)
  PROVE  n * e = m * d
<1>1. /\ a.num \in Int /\ a.den \in Int \ {0} /\ n \in Int /\ d \in Int /\ m \in Int /\ e \in Int
      /\ a.num * d = n * a.den /\ a.num * e = m * a.den
  BY DEF Is, Fractions
<1>2. (n * e) * a.den = (n * a.den) * e /\ (m * d) * a.den = (m * a.den) * d
      /\ (a.num * d) * e = (a.num * e) * d
  BY <1>1, Swap
<1>3. (n * e) * a.den = (m * d) * a.den
  BY <1>1, <1>2
<1>4. n * e \in Int /\ m * d \in Int
  BY <1>1
<1> QED
  BY <1>1, <1>3, <1>4, Cancel

(* Two sums with the same quotient are the same fraction. *)
LEMMA EqualSums ==
  ASSUME NEW a \in Fractions, NEW b \in Fractions, NEW c \in Fractions, NEW f \in Fractions,
         NEW n, NEW d, Is(Plus(a, b), n, d), Is(Plus(c, f), n, d)
  PROVE  Plus(a, b) = Plus(c, f)
<1> DEFINE X == a.num * b.den + b.num * a.den
           Y == a.den * b.den
           Z == c.num * f.den + f.num * c.den
           W == c.den * f.den
<1>1. n \in Int /\ d \in Int \ {0}
  BY DEF Is
<1>2. \A x, y \in Nat \ {0} : x * y \in Nat \ {0}
  OBVIOUS
<1>3. X \in Int /\ Y \in Nat \ {0} /\ Z \in Int /\ W \in Nat \ {0}
  <2>1. /\ a.num \in Int /\ b.num \in Int /\ c.num \in Int /\ f.num \in Int
        /\ a.den \in Nat \ {0} /\ b.den \in Nat \ {0} /\ c.den \in Nat \ {0} /\ f.den \in Nat \ {0}
    BY DEF Fractions
  <2>2. Y \in Nat \ {0} /\ W \in Nat \ {0}
    BY <1>2, <2>1
  <2>3. X \in Int /\ Z \in Int
    BY <2>1
  <2> QED
    BY <2>2, <2>3
<1>4. Plus(a, b) = Frac(X, Y) /\ Plus(c, f) = Frac(Z, W)
  BY DEF Plus
<1> HIDE DEF X, Y, Z, W
<1>5. Is(Frac(X, Y), X, Y) /\ Is(Frac(Z, W), Z, W)
  BY <1>3, FracIs
<1>6. X * d = n * Y
  BY <1>4, <1>5, IsSame
<1>7. Z * d = n * W
  BY <1>4, <1>5, IsSame
<1>8. (X * W) * d = (Z * Y) * d
  <2>1. (X * W) * d = (X * d) * W /\ (n * Y) * W = (n * W) * Y /\ (Z * d) * Y = (Z * Y) * d
    BY <1>1, <1>3, Swap
  <2> QED
    BY <1>6, <1>7, <2>1
<1>9. X * W \in Int /\ Z * Y \in Int
  BY <1>3
<1>10. X * W = Z * Y
  BY <1>1, <1>8, <1>9, Cancel
<1> QED
  BY <1>3, <1>4, <1>10, SameFrac

(* A fraction divided by a whole number. *)
LEMMA QuotientIs ==
  ASSUME NEW a, NEW n, NEW d, Is(a, n, d), NEW k \in Int \ {0}
  PROVE  Is(Frac(a.num, a.den * k), n, d * k)
<1> DEFINE e == a.den * k
           c == Frac(a.num, e)
<1>0. \A x, y \in Int \ {0} : x * y \in Int \ {0}
  OBVIOUS
<1>1. /\ a.num \in Int /\ a.den \in Int \ {0} /\ n \in Int /\ d \in Int \ {0} /\ a.num * d = n * a.den
  BY DEF Is, Fractions
<1>2. e \in Int \ {0} /\ d * k \in Int \ {0}
  BY <1>0, <1>1
<1>3. Is(c, a.num, e)
  BY <1>1, <1>2, FracIs
<1> HIDE DEF c
<1>4. c \in Fractions /\ c.num \in Int /\ c.den \in Int /\ c.num * (a.den * k) = a.num * c.den
  BY <1>3 DEF Is, Fractions
<1>5. (c.num * (d * k)) * a.den = (n * c.den) * a.den
  <2>1. (c.num * (d * k)) * a.den = (c.num * (a.den * k)) * d
    <3>1. c.num * (d * k) = (c.num * d) * k /\ c.num * (a.den * k) = (c.num * a.den) * k
      BY <1>1, <1>4, Swap
    <3>2. c.num * d \in Int /\ c.num * a.den \in Int
      BY <1>1, <1>4
    <3>3. ((c.num * d) * k) * a.den = ((c.num * d) * a.den) * k
      BY <1>1, <3>2, Swap
    <3>4. (c.num * d) * a.den = (c.num * a.den) * d
      BY <1>1, <1>4, Swap
    <3>5. ((c.num * a.den) * d) * k = ((c.num * a.den) * k) * d
      BY <1>1, <3>2, Swap
    <3> QED
      BY <3>1, <3>3, <3>4, <3>5
  <2>2. (a.num * c.den) * d = (a.num * d) * c.den /\ (n * a.den) * c.den = (n * c.den) * a.den
    BY <1>1, <1>4, Swap
  <2> QED
    BY <1>1, <1>4, <2>1, <2>2
<1>6. c.num * (d * k) \in Int /\ n * c.den \in Int
  <2>1. \A x, y \in Int : x * y \in Int
    OBVIOUS
  <2> QED
    BY <1>1, <1>2, <1>4, <2>1
<1>7. c.num * (d * k) = n * c.den
  BY <1>1, <1>5, <1>6, Cancel
<1> QED
  BY <1>1, <1>2, <1>4, <1>7 DEF Is, c

-----------------------------------------------------------------------------
(* The hedge's P&L *)

(* Realised P&L, cash and average entry price over a common denominator:   *)
(* what was realised is the cash plus the position at its entry price.     *)
HedgeLedger(realized, paidIn, avg, qty, d, r, c, v) ==
  /\ Is(realized, r, d) /\ Is(paidIn, c, d) /\ Is(avg, v, d)
  /\ r = c + v * qty

HedgePnlOK ==
  \E d, r, c, v \in Int : HedgeLedger(realized_pnl_usd, cash, avg_entry_f, hedge_qty, d, r, c, v)

LEMMA RealizeIs ==
  ASSUME NEW a, NEW b, NEW r, NEW v, NEW d, Is(a, r, d), Is(b, v, d), NEW p \in Int, NEW k \in Int
  PROVE  Is(Plus(a, Times(Minus(Frac(p, 1), b), k)), r + (p * d - v) * k, d)
<1>1. d \in Int \ {0}
  BY DEF Is
<1>2. Is(Frac(p, 1), p * d, d)
  BY <1>1, WholeIs
<1>3. Is(Minus(Frac(p, 1), b), p * d - v, d)
  BY <1>2, MinusIs
<1>4. Is(Times(Minus(Frac(p, 1), b), k), (p * d - v) * k, d)
  BY <1>3, TimesIs
<1> QED
  BY <1>4, PlusIs

LEMMA CashIs ==
  ASSUME NEW a, NEW c, NEW d, Is(a, c, d), NEW p \in Int
  PROVE  Is(Plus(a, Frac(p, 1)), c + p * d, d)
<1>1. d \in Int \ {0}
  BY DEF Is
<1>2. Is(Frac(p, 1), p * d, d)
  BY <1>1, WholeIs
<1> QED
  BY <1>2, PlusIs

(* Closing k contracts of the position. *)
LEMMA SignedClose ==
  ASSUME hedge_qty \in Int, hedge_qty # 0
  PROVE  /\ Sign * Abs(hedge_qty) = hedge_qty
         /\ \A e \in Int : Opposite(e) => Sign * Abs(e) = -e
<1>1. Sign * Abs(hedge_qty) = hedge_qty
  BY DEF Sign, Abs
<1>2. ASSUME NEW e \in Int, hedge_qty * e < 0 PROVE Sign * Abs(e) = -e
  <2>1. CASE hedge_qty > 0
    <3>1. e < 0
      BY <1>2, <2>1
    <3> QED
      BY <2>1, <3>1 DEF Sign, Abs
  <2>2. CASE ~(hedge_qty > 0)
    <3>1. e > 0
      BY <1>2, <2>2
    <3> QED
      BY <2>2, <3>1 DEF Sign, Abs
  <2> QED
    BY <2>1, <2>2
<1> QED
  BY <1>1, <1>2 DEF Opposite


LEMMA FillKeepsHedgePnl ==
  ASSUME HedgePnlOK, hedge_qty \in Int, NEW e \in Int, e # 0, NEW p \in Int, BrokerFill(e, p)
  PROVE  HedgePnlOK'
<1>1. PICK d, r, c, v \in Int :
        HedgeLedger(realized_pnl_usd, cash, avg_entry_f, hedge_qty, d, r, c, v)
  BY DEF HedgePnlOK
<1> DEFINE Q == hedge_qty
           x == p * d
<1>2. /\ Is(realized_pnl_usd, r, d) /\ Is(cash, c, d) /\ Is(avg_entry_f, v, d)
      /\ r = c + v * Q /\ d \in Int \ {0}
  BY <1>1 DEF HedgeLedger, Is
<1>3. apply_fill(e, p) /\ cash' = Plus(cash, Frac(-(e * p), 1))
  BY DEF BrokerFill, Record
<1>4. Is(cash', c - e * x, d)
  <2>1. -(e * p) \in Int
    OBVIOUS
  <2>2. Is(cash', c + (-(e * p)) * d, d)
    BY <1>2, <1>3, <2>1, CashIs
  <2>3. c + (-(e * p)) * d = c - e * (p * d)
    OBVIOUS
  <2> QED
    BY <2>2, <2>3
<1>5. x \in Int /\ Q \in Int
  OBVIOUS
<1>6. ASSUME NEW k \in Int,
             realized_pnl_usd' = Plus(realized_pnl_usd, Times(Minus(Frac(p, 1), avg_entry_f), k))
      PROVE  Is(realized_pnl_usd', r + (x - v) * k, d)
  BY <1>2, <1>6, RealizeIs
<1>7. Is(Zero, 0, d) /\ Is(Frac(p, 1), x, d)
  <2>1. Is(Zero, 0 * d, d) /\ Is(Frac(p, 1), p * d, d)
    BY <1>2, WholeIs DEF Zero
  <2>2. 0 * d = 0
    OBVIOUS
  <2> QED
    BY <2>1, <2>2
<1>8. CASE Flat(e, p)
  <2>1. /\ Q + e = 0 /\ Q # 0 /\ Realize(p, Abs(Q)) /\ hedge_qty' = 0 /\ avg_entry_f' = Zero
    BY <1>5, <1>8 DEF Flat
  <2>2. Sign * Abs(Q) = Q
    BY <2>1, SignedClose
  <2>3. Is(realized_pnl_usd', r + (x - v) * Q, d)
    BY <1>5, <1>6, <2>1, <2>2 DEF Realize
  <2>4. r + (x - v) * Q = (c - e * x) + 0 * 0
    <3> HIDE DEF x
    <3>1. e = -Q
      BY <2>1
    <3> HIDE DEF Q
    <3>2. (x - v) * Q = x * Q - v * Q /\ e * x = -(x * Q) /\ x * Q \in Int /\ v * Q \in Int
      BY <1>5, <3>1
    <3> QED
      BY <1>2, <3>2
  <2>5. r + (x - v) * Q \in Int /\ c - e * x \in Int
    BY <1>5
  <2>6. HedgeLedger(realized_pnl_usd', cash', avg_entry_f', hedge_qty', d,
                    r + (x - v) * Q, c - e * x, 0)
    BY <1>4, <1>7, <2>1, <2>3, <2>4 DEF HedgeLedger
  <2> HIDE DEF x, Q
  <2> QED
    BY <2>5, <2>6 DEF HedgePnlOK
<1>9. CASE Extend(e, p)
  <2> DEFINE q == Q + e
             N == Plus(Times(avg_entry_f, Q), Frac(p * e, 1))
             n == v * Q + (p * e) * d
  <2>1. /\ (Q >= 0 /\ e >= 0) \/ (Q <= 0 /\ e <= 0)
        /\ hedge_qty' = q /\ avg_entry_f' = Frac(N.num, N.den * q)
        /\ realized_pnl_usd' = realized_pnl_usd
    BY <1>9 DEF Extend
  <2>2. q \in Int \ {0}
    BY <1>5, <2>1
  <2>3. Is(N, n, d)
    <3>1. Is(Times(avg_entry_f, Q), v * Q, d)
      BY <1>2, <1>5, TimesIs
    <3>2. p * e \in Int
      OBVIOUS
    <3> QED
      BY <3>1, <3>2, CashIs
  <2> HIDE DEF N
  <2>4. n = v * Q + x * e /\ n \in Int
    <3>1. (p * e) * d = (p * d) * e
      BY Swap
    <3> QED
      BY <3>1
  <2> HIDE DEF n, x
  <2>5. Is(avg_entry_f', n, d * q)
    <3> HIDE DEF q
    <3> QED
      BY <2>1, <2>2, <2>3, QuotientIs
  <2>6. Is(realized_pnl_usd', r * q, d * q)
    <3> HIDE DEF q
    <3> QED
      BY <1>2, <2>1, <2>2, IsScaled
  <2>7. Is(cash', (c - e * x) * q, d * q)
    <3> HIDE DEF q
    <3> QED
      BY <1>4, <2>2, IsScaled
  <2>8. r * q = (c - e * x) * q + n * q
    <3>1. r = (c - e * x) + n
      <4>1. v * Q \in Int /\ e * x \in Int /\ x * e = e * x
        BY <1>5
      <4> QED
        BY <1>2, <2>4, <4>1
    <3>2. c - e * x \in Int
      BY <1>5
    <3>3. \A a, b, z \in Int : (a + b) * z = a * z + b * z
      OBVIOUS
    <3> HIDE DEF q
    <3> QED
      BY <2>2, <2>4, <3>1, <3>2, <3>3
  <2>9. d * q \in Int /\ r * q \in Int /\ (c - e * x) * q \in Int
    <3> HIDE DEF q
    <3> QED
      BY <1>5, <2>2
  <2>10. HedgeLedger(realized_pnl_usd', cash', avg_entry_f', hedge_qty', d * q,
                     r * q, (c - e * x) * q, n)
    <3> HIDE DEF q
    <3> QED
      BY <2>1, <2>5, <2>6, <2>7, <2>8 DEF HedgeLedger
  <2> HIDE DEF q
  <2> QED
    BY <2>4, <2>9, <2>10 DEF HedgePnlOK
<1>10. CASE Reduce(e, p)
  <2>1. /\ Opposite(e) /\ Realize(p, Abs(e)) /\ hedge_qty' = Q + e /\ avg_entry_f' = avg_entry_f
    BY <1>10 DEF Reduce
  <2>2. Q # 0
    BY <1>5, <2>1 DEF Opposite
  <2>3. Sign * Abs(e) = -e /\ -e \in Int
    BY <2>1, <2>2, SignedClose
  <2>4. Is(realized_pnl_usd', r + (x - v) * (-e), d)
    BY <1>6, <2>1, <2>3 DEF Realize
  <2> HIDE DEF x
  <2>5. r + (x - v) * (-e) = (c - e * x) + v * (Q + e)
    <3>1. /\ (x - v) * (-e) = v * e - e * x /\ v * (Q + e) = v * Q + v * e
          /\ v * e \in Int /\ e * x \in Int /\ v * Q \in Int
      BY <1>5
    <3> QED
      BY <1>2, <3>1
  <2>6. r + (x - v) * (-e) \in Int /\ c - e * x \in Int
    BY <1>5
  <2>7. HedgeLedger(realized_pnl_usd', cash', avg_entry_f', hedge_qty', d,
                    r + (x - v) * (-e), c - e * x, v)
    BY <1>2, <1>4, <2>1, <2>4, <2>5 DEF HedgeLedger
  <2> HIDE DEF Q
  <2> QED
    BY <2>6, <2>7 DEF HedgePnlOK
<1>11. CASE Flip(e, p)
  <2>1. /\ Opposite(e) /\ Realize(p, Abs(Q)) /\ hedge_qty' = Q + e /\ avg_entry_f' = Frac(p, 1)
    BY <1>11 DEF Flip
  <2>2. Q # 0
    BY <1>5, <2>1 DEF Opposite
  <2>3. Sign * Abs(Q) = Q
    BY <2>2, SignedClose
  <2>4. Is(realized_pnl_usd', r + (x - v) * Q, d)
    BY <1>5, <1>6, <2>1, <2>3 DEF Realize
  <2> HIDE DEF x
  <2>5. r + (x - v) * Q = (c - e * x) + x * (Q + e)
    <3>1. /\ (x - v) * Q = x * Q - v * Q /\ x * (Q + e) = x * Q + e * x
          /\ x * Q \in Int /\ e * x \in Int /\ v * Q \in Int
      BY <1>5
    <3> QED
      BY <1>2, <3>1
  <2>6. r + (x - v) * Q \in Int /\ c - e * x \in Int
    BY <1>5
  <2>7. HedgeLedger(realized_pnl_usd', cash', avg_entry_f', hedge_qty', d,
                    r + (x - v) * Q, c - e * x, x)
    BY <1>4, <1>7, <2>1, <2>4, <2>5 DEF HedgeLedger
  <2> HIDE DEF Q
  <2> QED
    BY <1>5, <2>6, <2>7 DEF HedgePnlOK
<1> QED
  BY <1>3, <1>8, <1>9, <1>10, <1>11 DEF apply_fill

LEMMA ReplaceKeepsHedgePnl ==
  ASSUME HedgePnlOK, NEW q \in Int, NEW p \in Int, replace(q, p)
  PROVE  HedgePnlOK'
<1>1. PICK d, r, c, v \in Int :
        HedgeLedger(realized_pnl_usd, cash, avg_entry_f, hedge_qty, d, r, c, v)
  BY DEF HedgePnlOK
<1>2. Is(realized_pnl_usd, r, d) /\ d \in Int \ {0}
  BY <1>1 DEF HedgeLedger, Is
<1>3. /\ hedge_qty' = q /\ avg_entry_f' = Frac(p, 1) /\ realized_pnl_usd' = realized_pnl_usd
      /\ cash' = Minus(realized_pnl_usd, Times(Frac(p, 1), q))
  BY DEF replace
<1>4. Is(Frac(p, 1), p * d, d)
  BY <1>2, WholeIs
<1>5. Is(Times(Frac(p, 1), q), (p * d) * q, d)
  BY <1>4, TimesIs
<1>6. Is(cash', r - (p * d) * q, d)
  BY <1>2, <1>3, <1>5, MinusIs
<1>7. r = (r - (p * d) * q) + (p * d) * q /\ r - (p * d) * q \in Int /\ p * d \in Int
  <2> DEFINE y == (p * d) * q
  <2>1. y \in Int /\ p * d \in Int
    OBVIOUS
  <2> HIDE DEF y
  <2>2. r = (r - y) + y /\ r - y \in Int
    BY <2>1
  <2> QED
    BY <2>1, <2>2 DEF y
<1>8. HedgeLedger(realized_pnl_usd', cash', avg_entry_f', hedge_qty', d,
                  r, r - (p * d) * q, p * d)
  BY <1>2, <1>3, <1>4, <1>6, <1>7 DEF HedgeLedger
<1> QED
  BY <1>7, <1>8 DEF HedgePnlOK


LEMMA HedgePnlStep == ScaleOK /\ HedgePnlOK /\ [Next]_vars => HedgePnlOK'
<1> SUFFICES ASSUME ScaleOK, HedgePnlOK, [Next]_vars PROVE HedgePnlOK'
  OBVIOUS
<1>0. hedge_qty \in Int
  BY DEF ScaleOK
<1>1. ASSUME UNCHANGED hedgeStateVars PROVE HedgePnlOK'
  BY <1>1 DEF HedgePnlOK, hedgeStateVars
<1>2. ASSUME NEW e \in Effects, NEW p \in Prices, handle_fill(HedgeContract, e, p)
      PROVE  HedgePnlOK'
  <2>1. e \in Int /\ e # 0 /\ p \in Int /\ BrokerFill(e, p)
    BY <1>2, AccountingAssumption DEF handle_fill, HedgeFill
  <2> QED
    BY <1>0, <2>1, FillKeepsHedgePnl
<1>3. ASSUME NEW k \in Keys, NEW e \in Effects, NEW p \in OptionPrices, handle_fill(k, e, p)
      PROVE  HedgePnlOK'
  BY <1>1, <1>3, AccountingAssumption DEF handle_fill, OptionFill
<1>4. ASSUME NEW k \in Keys, NEW e \in Effects, NEW p \in OptionPrices, GatedFill(k, e, p)
      PROVE  HedgePnlOK'
  BY <1>1, <1>4 DEF GatedFill, OptionFill
<1>5. ASSUME NEW e \in Effects, NEW p \in Prices, ReconcileHedge(e, p)
      PROVE  HedgePnlOK'
  <2>1. e \in Int /\ p \in Int /\ replace(e, p)
    BY <1>5, AccountingAssumption DEF ReconcileHedge
  <2> QED
    BY <2>1, ReplaceKeepsHedgePnl
<1>6. ASSUME NEW m \in BrokerMargins, periodic_account_poll(m)
      PROVE  HedgePnlOK'
  BY <1>1, <1>6 DEF periodic_account_poll
<1>7. ASSUME NEW k \in Keys, NEW p \in OptionPrices \cup {0}, QuoteMoves(k, p)
      PROVE  HedgePnlOK'
  BY <1>1, <1>7 DEF QuoteMoves
<1>8. ASSUME NEW p \in Prices, ForwardMoves(p)
      PROVE  HedgePnlOK'
  BY <1>1, <1>8 DEF ForwardMoves
<1>9. ASSUME periodic_greek_refresh
      PROVE  HedgePnlOK'
  BY <1>1, <1>9 DEF periodic_greek_refresh
<1>10. CASE UNCHANGED vars
  BY <1>1, <1>10 DEF vars, hedgeStateVars
<1> QED
  BY <1>2, <1>3, <1>4, <1>5, <1>6, <1>7, <1>8, <1>9, <1>10 DEF Next

(* HedgePnlIsAccountPnl: through adding, reducing, closing, flipping and   *)
(* reconciling in any order, HedgeState's realised P&L and mtm_usd         *)
(* together are the cash flows plus the position at the forward, exactly.  *)
THEOREM HedgePnlIsTheAccounts == Spec => []HedgePnlIsAccountPnl
<1>1. Init => HedgePnlOK
  <2> SUFFICES ASSUME Init PROVE HedgePnlOK
    OBVIOUS
  <2>1. /\ hedge_qty = 0 /\ avg_entry_f = Zero /\ realized_pnl_usd = Zero /\ cash = Zero
    BY DEF Init, HedgeStateInit
  <2>2. Is(Zero, 0, 1)
    BY FracIs DEF Zero
  <2>3. HedgeLedger(realized_pnl_usd, cash, avg_entry_f, hedge_qty, 1, 0, 0, 0)
    BY <2>1, <2>2 DEF HedgeLedger
  <2>4. 0 \in Int /\ 1 \in Int
    OBVIOUS
  <2> QED
    BY <2>3, <2>4 DEF HedgePnlOK
<1>2. AccountInv /\ ScaleOK /\ HedgePnlOK => HedgePnlIsAccountPnl
  <2> SUFFICES ASSUME AccountInv, ScaleOK, HedgePnlOK, forward > 0
               PROVE  Plus(realized_pnl_usd, mtm_usd(forward))
                        = Plus(cash, Frac(hedge_qty * forward, 1))
    BY DEF HedgePnlIsAccountPnl, PnlIsCashPlusPosition
  <2>1. forward \in Int /\ hedge_qty \in Int
    BY AccountingAssumption DEF AccountInv, MarketOK, ScaleOK
  <2>2. PICK d, r, c, v \in Int :
          HedgeLedger(realized_pnl_usd, cash, avg_entry_f, hedge_qty, d, r, c, v)
    BY DEF HedgePnlOK
  <2>3. /\ Is(realized_pnl_usd, r, d) /\ Is(cash, c, d) /\ Is(avg_entry_f, v, d)
        /\ r = c + v * hedge_qty /\ d \in Int \ {0}
    BY <2>2 DEF HedgeLedger, Is
  <2> DEFINE f == forward
             Q == hedge_qty
             n == c + (Q * f) * d
  <2>4. Q * f \in Int /\ f \in Int /\ Q \in Int
    BY <2>1
  <2>5. Is(Plus(cash, Frac(Q * f, 1)), n, d)
    BY <2>3, <2>4, CashIs
  <2>6. Is(Plus(realized_pnl_usd, mtm_usd(f)), n, d)
    <3>1. CASE Q = 0
      <4>1. mtm_usd(f) = Frac(0, 1)
        BY <3>1 DEF mtm_usd, Zero
      <4>2. Is(Plus(realized_pnl_usd, Frac(0, 1)), r + 0 * d, d)
        BY <2>3, CashIs
      <4>3. r + 0 * d = n
        <5>1. v * Q = 0 /\ (Q * f) * d = 0 /\ 0 * d = 0
          BY <2>1, <3>1
        <5> QED
          BY <2>3, <5>1
      <4> QED
        BY <4>1, <4>2, <4>3
    <3>2. CASE Q # 0
      <4>1. mtm_usd(f) = Times(Minus(Frac(f, 1), avg_entry_f), Q)
        BY <2>1, <3>2 DEF mtm_usd
      <4>2. Is(Plus(realized_pnl_usd, mtm_usd(f)), r + (f * d - v) * Q, d)
        BY <2>3, <2>4, <4>1, RealizeIs
      <4>3. r + (f * d - v) * Q = n
        <5>1. (f * d - v) * Q = (Q * f) * d - v * Q /\ (Q * f) * d \in Int /\ v * Q \in Int
          BY <2>4
        <5> QED
          BY <2>3, <5>1
      <4> QED
        BY <4>2, <4>3
    <3> QED
      BY <3>1, <3>2
  <2>7. /\ realized_pnl_usd \in Fractions /\ cash \in Fractions /\ Frac(Q * f, 1) \in Fractions
        /\ mtm_usd(f) \in Fractions
    <3>1. realized_pnl_usd \in Fractions /\ cash \in Fractions /\ avg_entry_f \in Fractions
      BY <2>3 DEF Is
    <3>2. Frac(Q * f, 1) \in Fractions /\ Zero \in Fractions
      BY <2>4, FracOf DEF Zero
    <3>3. Is(Minus(Frac(f, 1), avg_entry_f), f * d - v, d)
      BY <2>3, <2>4, WholeIs, MinusIs
    <3>4. Times(Minus(Frac(f, 1), avg_entry_f), Q) \in Fractions
      BY <2>4, <3>3, TimesOf DEF Is
    <3> QED
      BY <3>1, <3>2, <3>4 DEF mtm_usd
  <2> HIDE DEF n, Q, f
  <2>8. Plus(realized_pnl_usd, mtm_usd(f)) = Plus(cash, Frac(Q * f, 1))
    BY <2>5, <2>6, <2>7, EqualSums
  <2> QED
    BY <2>8 DEF Q, f
<1>3. Spec => []HedgePnlOK
  BY <1>1, HedgePnlStep, ScaleInvariant, PTL DEF Spec
<1> QED
  BY <1>2, <1>3, AccountInvariant, ScaleInvariant, PTL

(* DailyPnlOmitsHedgeAndRealised: at every moment, whatever was filled,    *)
(* merged, closed, reconciled and marked before, the P&L that the daily    *)
(* halt judges is the account's less what fills on held option positions   *)
(* realised and less all of the hedge's P&L, realised or not.              *)
THEOREM HaltPnlFallsShort == Spec => []DailyPnlOmitsHedgeAndRealised
<1>1. AccountInv /\ HedgePnlIsAccountPnl => DailyPnlOmitsHedgeAndRealised
  <2> SUFFICES ASSUME AccountInv, HedgePnlIsAccountPnl, Priced, forward > 0
               PROVE  AccountPnl = Plus(Frac(daily_pnl + missed, 1), HedgePnl)
    BY DEF DailyPnlOmitsHedgeAndRealised
  <2>1. daily_pnl + missed = flow + SumPositions(LAMBDA p : p.quantity * Live(p))
    BY OptionsPnl
  <2>2. HedgePnl = Plus(cash, Frac(hedge_qty * forward, 1))
    BY DEF HedgePnlIsAccountPnl, PnlIsCashPlusPosition, HedgePnl
  <2> QED
    BY <2>1, <2>2 DEF AccountPnl
<1> QED
  BY <1>1, HedgePnlIsTheAccounts, AccountInvariant, PTL


-----------------------------------------------------------------------------
(* The hedge's average entry price *)

(* The fraction lies between two whole numbers. *)
Between(a, l, u) == a \in Fractions /\ l * a.den <= a.num /\ a.num <= u * a.den

(* An open position has entry prices, and its average lies between two of  *)
(* them.                                                                   *)
AverageOK ==
  IF hedge_qty = 0 THEN avg_entry_f = Zero /\ paid = {}
  ELSE /\ IsFiniteSet(paid) /\ paid \subseteq Prices
       /\ \E l, u \in paid : Between(avg_entry_f, l, u)

LEMMA BetweenIs ==
  ASSUME NEW a, NEW n, NEW d, Is(a, n, d), d > 0, NEW l \in Int, NEW u \in Int,
         l * d <= n, n <= u * d
  PROVE  Between(a, l, u)
<1>1. /\ a \in Fractions /\ a.num \in Int /\ a.den \in Nat \ {0} /\ n \in Int /\ d \in Nat \ {0}
      /\ a.num * d = n * a.den
  BY DEF Is, Fractions
<1>2. \A x, y \in Int : \A z \in Nat \ {0} : x <= y => x * z <= y * z
  OBVIOUS
<1>3. \A x, y \in Int : \A z \in Nat \ {0} : x * z <= y * z => x <= y
  OBVIOUS
<1>4. l * d \in Int /\ u * d \in Int /\ l * a.den \in Int /\ u * a.den \in Int
  BY <1>1
<1>5. (l * d) * a.den <= n * a.den /\ n * a.den <= (u * d) * a.den
  BY <1>1, <1>2, <1>4
<1>6. (l * d) * a.den = (l * a.den) * d /\ (u * d) * a.den = (u * a.den) * d
  BY <1>1, Swap
<1>7. (l * a.den) * d <= a.num * d /\ a.num * d <= (u * a.den) * d
  BY <1>1, <1>5, <1>6
<1>8. l * a.den <= a.num /\ a.num <= u * a.den
  BY <1>1, <1>3, <1>4, <1>7
<1> QED
  BY <1>1, <1>8 DEF Between

(* A size-weighted average is not outside what it averages. *)
LEMMA Weighted ==
  ASSUME NEW v \in Int, NEW d \in Nat \ {0}, NEW Q \in Nat, NEW e \in Nat \ {0}, NEW p \in Int
  PROVE  /\ \A m \in Int : m <= p /\ (Q = 0 \/ m * d <= v) => m * (d * (Q + e)) <= v * Q + (p * e) * d
         /\ \A m \in Int : p <= m /\ (Q = 0 \/ v <= m * d) => v * Q + (p * e) * d <= m * (d * (Q + e))
<1> DEFINE w == e * d
<1>1. w \in Nat \ {0} /\ (p * e) * d = p * w
  <2>1. \A x, y \in Nat \ {0} : x * y \in Nat \ {0}
    OBVIOUS
  <2>2. p * (e * d) = (p * e) * d
    BY Swap
  <2> QED
    BY <2>1, <2>2
<1>2. \A m \in Int : m * (d * (Q + e)) = (m * d) * Q + m * w
  <2> SUFFICES ASSUME NEW m \in Int PROVE m * (d * (Q + e)) = (m * d) * Q + m * w
    OBVIOUS
  <2>1. d * (Q + e) = d * Q + w /\ d * Q \in Int
    OBVIOUS
  <2>2. m * (d * Q) = (m * d) * Q
    BY Swap
  <2>3. \A x, y \in Int : m * (x + y) = m * x + m * y
    OBVIOUS
  <2> HIDE DEF w
  <2> QED
    BY <1>1, <2>1, <2>2, <2>3
<1> HIDE DEF w
<1>3. \A x, y \in Int : \A z \in Nat : x <= y => x * z <= y * z
  OBVIOUS
<1>4. ASSUME NEW m \in Int, m <= p, Q = 0 \/ m * d <= v
      PROVE  m * (d * (Q + e)) <= v * Q + (p * e) * d
  <2>1. m * w <= p * w /\ m * w \in Int /\ p * w \in Int
    BY <1>1, <1>3, <1>4
  <2>2. (m * d) * Q <= v * Q /\ (m * d) * Q \in Int /\ v * Q \in Int
    <3>1. m * d \in Int
      OBVIOUS
    <3>2. \A x, y \in Int : x * 0 <= y * 0
      OBVIOUS
    <3> QED
      BY <1>3, <1>4, <3>1, <3>2
  <2>3. \A x, y, z, t \in Int : x <= y /\ z <= t => x + z <= y + t
    OBVIOUS
  <2>4. (m * d) * Q + m * w <= v * Q + p * w
    BY <2>1, <2>2, <2>3
  <2> QED
    BY <1>1, <1>2, <2>4
<1>5. ASSUME NEW m \in Int, p <= m, Q = 0 \/ v <= m * d
      PROVE  v * Q + (p * e) * d <= m * (d * (Q + e))
  <2>1. p * w <= m * w /\ m * w \in Int /\ p * w \in Int
    BY <1>1, <1>3, <1>5
  <2>2. v * Q <= (m * d) * Q /\ (m * d) * Q \in Int /\ v * Q \in Int
    <3>1. m * d \in Int
      OBVIOUS
    <3>2. \A x, y \in Int : x * 0 <= y * 0
      OBVIOUS
    <3> QED
      BY <1>3, <1>5, <3>1, <3>2
  <2>3. \A x, y, z, t \in Int : x <= y /\ z <= t => x + z <= y + t
    OBVIOUS
  <2>4. v * Q + p * w <= (m * d) * Q + m * w
    BY <2>1, <2>2, <2>3
  <2> QED
    BY <1>1, <1>2, <2>4
<1> QED
  BY <1>4, <1>5

LEMMA WholeIsBetween ==
  ASSUME NEW p \in Int
  PROVE  Between(Frac(p, 1), p, p)
<1>1. Is(Frac(p, 1), p, 1)
  BY FracIs
<1>2. p * 1 <= p /\ p <= p * 1 /\ 1 > 0
  OBVIOUS
<1> QED
  BY <1>1, <1>2, BetweenIs

(* The average of an extended position, between any bounds of the old      *)
(* average and of the fill's price.                                        *)
LEMMA ExtendedAverage ==
  ASSUME hedge_qty \in Int, avg_entry_f \in Fractions,
         NEW e \in Int, e # 0, NEW p \in Int, Extend(e, p),
         NEW l \in Int, NEW u \in Int, l <= p, p <= u,
         hedge_qty = 0 \/ Between(avg_entry_f, l, u)
  PROVE  Between(avg_entry_f', l, u)
<1> DEFINE Q == hedge_qty
           q == Q + e
           v == avg_entry_f.num
           d == avg_entry_f.den
           N == Plus(Times(avg_entry_f, Q), Frac(p * e, 1))
           n == v * Q + (p * e) * d
<1>1. /\ (Q >= 0 /\ e >= 0) \/ (Q <= 0 /\ e <= 0)
      /\ avg_entry_f' = Frac(N.num, N.den * q)
  BY DEF Extend
<1>2. v \in Int /\ d \in Nat \ {0} /\ Q \in Int
  BY DEF Fractions
<1>3. q \in Int \ {0}
  BY <1>1, <1>2
<1>4. Is(avg_entry_f, v, d)
  BY <1>2 DEF Is
<1>5. Is(N, n, d)
  <2>1. Is(Times(avg_entry_f, Q), v * Q, d)
    BY <1>2, <1>4, TimesIs
  <2>2. p * e \in Int
    OBVIOUS
  <2> QED
    BY <2>1, <2>2, CashIs
<1> HIDE DEF N
<1>6. Q = 0 \/ (l * d <= v /\ v <= u * d)
  BY DEF Between
<1>7. Is(avg_entry_f', n, d * q)
  <2> HIDE DEF n, q, d
  <2> QED
    BY <1>1, <1>3, <1>5, QuotientIs
<1> HIDE DEF v, d, Q
<1>8. CASE e > 0
  <2>1. Q \in Nat /\ e \in Nat \ {0}
    BY <1>1, <1>2, <1>8
  <2>2. l * (d * q) <= n /\ n <= u * (d * q)
    BY <1>2, <1>6, <2>1, Weighted
  <2>3. d * q > 0
    <3>1. \A x, y \in Nat \ {0} : x * y > 0
      OBVIOUS
    <3>2. q \in Nat \ {0}
      BY <2>1
    <3> QED
      BY <1>2, <3>1, <3>2
  <2> HIDE DEF n, q
  <2> QED
    BY <1>7, <2>2, <2>3, BetweenIs
<1>9. CASE ~(e > 0)
  <2> DEFINE R == -Q
             f == -e
             r == R + f
             m == v * R + (p * f) * d
  <2>1. R \in Nat /\ f \in Nat \ {0}
    BY <1>1, <1>2, <1>9
  <2>2. l * (d * r) <= m /\ m <= u * (d * r)
    <3>1. R = 0 \/ (l * d <= v /\ v <= u * d)
      BY <1>2, <1>6
    <3> HIDE DEF R, f
    <3> QED
      BY <1>2, <2>1, <3>1, Weighted
  <2>3. d * r > 0
    <3>1. \A x, y \in Nat \ {0} : x * y > 0
      OBVIOUS
    <3>2. r \in Nat \ {0}
      BY <2>1
    <3> HIDE DEF r
    <3> QED
      BY <1>2, <3>1, <3>2
  <2>4. Is(avg_entry_f', n * (-1), (d * q) * (-1))
    <3> HIDE DEF n, q
    <3> QED
      BY <1>7, IsScaled
  <2>5. (d * q) * (-1) = d * r
    <3>1. r = -q
      BY <1>2
    <3>2. \A x, y \in Int : (x * y) * (-1) = x * (-y)
      OBVIOUS
    <3> HIDE DEF r, q
    <3> QED
      BY <1>2, <1>3, <3>1, <3>2
  <2>6. n * (-1) = m
    <3>1. \A x, y \in Int : x * (-y) = -(x * y) /\ (-x) * y = -(x * y) /\ x * y \in Int
      OBVIOUS
    <3>2. v * R = -(v * Q) /\ v * Q \in Int
      BY <1>2, <3>1
    <3>3. (p * f) * d = -((p * e) * d) /\ (p * e) * d \in Int
      <4>1. p * f = -(p * e) /\ p * e \in Int
        BY <3>1
      <4> QED
        BY <1>2, <3>1, <4>1
    <3>4. \A x, y \in Int : (x + y) * (-1) = (-x) + (-y)
      OBVIOUS
    <3> QED
      BY <3>2, <3>3, <3>4
  <2> HIDE DEF m, r, n, q
  <2> QED
    BY <2>2, <2>3, <2>4, <2>5, <2>6, BetweenIs
<1> QED
  BY <1>8, <1>9

LEMMA FillKeepsAverage ==
  ASSUME AverageOK, hedge_qty \in Int, NEW e \in Int, e # 0, NEW p \in Prices, BrokerFill(e, p)
  PROVE  AverageOK'
<1>1. p \in Int /\ Prices \subseteq Int
  BY AccountingAssumption
<1>2. /\ apply_fill(e, p)
      /\ paid' = IF hedge_qty + e = 0 THEN {}
                 ELSE IF Opposite(e) /\ Abs(e) > Abs(hedge_qty) THEN {p}
                 ELSE IF Opposite(e) THEN paid
                 ELSE paid \cup {p}
  BY DEF BrokerFill, Record
<1>3. IsFiniteSet({p})
  BY FS_Singleton
<1>4. CASE Flat(e, p)
  <2>1. hedge_qty' = 0 /\ avg_entry_f' = Zero /\ paid' = {}
    BY <1>2, <1>4 DEF Flat
  <2> QED
    BY <2>1 DEF AverageOK
<1>5. CASE Extend(e, p)
  <2>1. /\ (hedge_qty >= 0 /\ e >= 0) \/ (hedge_qty <= 0 /\ e <= 0)
        /\ hedge_qty' = hedge_qty + e
    BY <1>5 DEF Extend
  <2>2. hedge_qty' # 0 /\ hedge_qty + e # 0
    BY <2>1
  <2>3. ~Opposite(e)
    <3>1. \A x, y \in Int : (x >= 0 /\ y >= 0) \/ (x <= 0 /\ y <= 0) => ~(x * y < 0)
      OBVIOUS
    <3> QED
      BY <2>1, <3>1 DEF Opposite
  <2>4. paid' = paid \cup {p}
    BY <1>2, <2>2, <2>3
  <2>5. IsFiniteSet(paid) /\ paid \subseteq Prices
    <3>1. IsFiniteSet({})
      BY FS_EmptySet
    <3> QED
      BY <3>1 DEF AverageOK
  <2>6. IsFiniteSet(paid') /\ paid' \subseteq Prices
    BY <2>4, <2>5, FS_AddElement
  <2>7. avg_entry_f \in Fractions
    <3>1. Zero \in Fractions
      BY FracOf DEF Zero
    <3> QED
      BY <3>1 DEF AverageOK, Between
  <2>8. \E l, u \in paid' : Between(avg_entry_f', l, u)
    <3>1. CASE hedge_qty = 0
      <4>1. p <= p
        BY <1>1
      <4>2. Between(avg_entry_f', p, p)
        BY <1>1, <1>5, <2>7, <3>1, <4>1, ExtendedAverage
      <4> QED
        BY <2>4, <4>2
    <3>2. CASE hedge_qty # 0
      <4>1. PICK l, u \in paid : Between(avg_entry_f, l, u)
        BY <3>2 DEF AverageOK
      <4> DEFINE l1 == IF l <= p THEN l ELSE p
                 u1 == IF p <= u THEN u ELSE p
      <4>2. l \in Int /\ u \in Int
        BY <1>1, <2>5
      <4>3. l1 \in Int /\ u1 \in Int /\ l1 <= p /\ p <= u1 /\ l1 <= l /\ u <= u1
        BY <1>1, <4>2
      <4>4. l1 \in paid' /\ u1 \in paid'
        BY <2>4, <4>1
      <4> HIDE DEF l1, u1
      <4>5. Between(avg_entry_f, l1, u1)
        <5>1. /\ avg_entry_f.num \in Int /\ avg_entry_f.den \in Nat
              /\ l * avg_entry_f.den <= avg_entry_f.num /\ avg_entry_f.num <= u * avg_entry_f.den
          BY <2>7, <4>1 DEF Between, Fractions
        <5>2. \A x, y \in Int : \A z \in Nat : x <= y => x * z <= y * z
          OBVIOUS
        <5>3. l1 * avg_entry_f.den <= l * avg_entry_f.den /\ u * avg_entry_f.den <= u1 * avg_entry_f.den
          BY <4>2, <4>3, <5>1, <5>2
        <5>4. \A x, y, z \in Int : x <= y /\ y <= z => x <= z
          OBVIOUS
        <5>5. /\ l * avg_entry_f.den \in Int /\ u * avg_entry_f.den \in Int
              /\ l1 * avg_entry_f.den \in Int /\ u1 * avg_entry_f.den \in Int
          BY <4>2, <4>3, <5>1
        <5> QED
          BY <2>7, <5>1, <5>3, <5>4, <5>5 DEF Between
      <4>6. Between(avg_entry_f', l1, u1)
        BY <1>1, <1>5, <2>7, <4>3, <4>5, ExtendedAverage
      <4> QED
        BY <4>4, <4>6
    <3> QED
      BY <3>1, <3>2
  <2> QED
    BY <2>2, <2>6, <2>8 DEF AverageOK
<1>6. CASE Reduce(e, p)
  <2>1. /\ Opposite(e) /\ Abs(e) < Abs(hedge_qty) /\ hedge_qty' = hedge_qty + e
        /\ avg_entry_f' = avg_entry_f
    BY <1>6 DEF Reduce
  <2>2. hedge_qty + e # 0 /\ ~(Abs(e) > Abs(hedge_qty)) /\ hedge_qty # 0
    BY <2>1 DEF Abs
  <2>3. paid' = paid
    BY <1>2, <2>1, <2>2
  <2> QED
    BY <2>1, <2>2, <2>3 DEF AverageOK
<1>7. CASE Flip(e, p)
  <2>1. /\ Opposite(e) /\ Abs(e) > Abs(hedge_qty) /\ hedge_qty' = hedge_qty + e
        /\ avg_entry_f' = Frac(p, 1)
    BY <1>7 DEF Flip
  <2>2. hedge_qty + e # 0
    BY <2>1 DEF Abs
  <2>3. paid' = {p}
    BY <1>2, <2>1, <2>2
  <2>4. Between(avg_entry_f', p, p)
    BY <1>1, <2>1, WholeIsBetween
  <2> QED
    BY <1>3, <2>1, <2>2, <2>3, <2>4 DEF AverageOK
<1> QED
  BY <1>2, <1>4, <1>5, <1>6, <1>7 DEF apply_fill

LEMMA AverageStep == ScaleOK /\ AverageOK /\ [Next]_vars => AverageOK'
<1> SUFFICES ASSUME ScaleOK, AverageOK, [Next]_vars PROVE AverageOK'
  OBVIOUS
<1>0. hedge_qty \in Int
  BY DEF ScaleOK
<1>1. ASSUME UNCHANGED hedgeStateVars PROVE AverageOK'
  BY <1>1 DEF AverageOK, hedgeStateVars
<1>2. ASSUME NEW e \in Effects, NEW p \in Prices, handle_fill(HedgeContract, e, p)
      PROVE  AverageOK'
  <2>1. e \in Int /\ e # 0 /\ BrokerFill(e, p)
    BY <1>2, AccountingAssumption DEF handle_fill, HedgeFill
  <2> QED
    BY <1>0, <2>1, FillKeepsAverage
<1>3. ASSUME NEW k \in Keys, NEW e \in Effects, NEW p \in OptionPrices, handle_fill(k, e, p)
      PROVE  AverageOK'
  BY <1>1, <1>3, AccountingAssumption DEF handle_fill, OptionFill
<1>4. ASSUME NEW k \in Keys, NEW e \in Effects, NEW p \in OptionPrices, GatedFill(k, e, p)
      PROVE  AverageOK'
  BY <1>1, <1>4 DEF GatedFill, OptionFill
<1>5. ASSUME NEW e \in Effects, NEW p \in Prices, ReconcileHedge(e, p)
      PROVE  AverageOK'
  <2>1. e # 0 /\ p \in Int /\ hedge_qty' = e /\ avg_entry_f' = Frac(p, 1) /\ paid' = {p}
    BY <1>5, AccountingAssumption DEF ReconcileHedge, replace
  <2>2. Between(avg_entry_f', p, p) /\ IsFiniteSet({p})
    BY <2>1, WholeIsBetween, FS_Singleton
  <2> QED
    BY <2>1, <2>2 DEF AverageOK
<1>6. ASSUME NEW m \in BrokerMargins, periodic_account_poll(m)
      PROVE  AverageOK'
  BY <1>1, <1>6 DEF periodic_account_poll
<1>7. ASSUME NEW k \in Keys, NEW p \in OptionPrices \cup {0}, QuoteMoves(k, p)
      PROVE  AverageOK'
  BY <1>1, <1>7 DEF QuoteMoves
<1>8. ASSUME NEW p \in Prices, ForwardMoves(p)
      PROVE  AverageOK'
  BY <1>1, <1>8 DEF ForwardMoves
<1>9. ASSUME periodic_greek_refresh
      PROVE  AverageOK'
  BY <1>1, <1>9 DEF periodic_greek_refresh
<1>10. CASE UNCHANGED vars
  BY <1>1, <1>10 DEF vars, hedgeStateVars
<1> QED
  BY <1>2, <1>3, <1>4, <1>5, <1>6, <1>7, <1>8, <1>9, <1>10 DEF Next

(* AverageIsBetweenEntries: whatever was added, reduced, flipped or        *)
(* reconciled, the average that mtm_usd marks against lies between the     *)
(* lowest and the highest price that the open position was entered at, and *)
(* a flat position keeps no average.                                       *)
THEOREM TheAverageIsBetweenEntries == Spec => []AverageIsBetweenEntries
<1>1. Init => AverageOK
  BY DEF Init, HedgeStateInit, AverageOK
<1>2. AverageOK => AverageIsBetweenEntries
  <2> SUFFICES ASSUME AverageOK PROVE AverageIsBetweenEntries
    OBVIOUS
  <2>1. CASE hedge_qty = 0
    BY <2>1 DEF AverageOK, AverageIsBetweenEntries
  <2>2. CASE hedge_qty # 0
    <3> DEFINE lo == Min(paid)
               hi == Max(paid)
               a == avg_entry_f
    <3>1. IsFiniteSet(paid) /\ paid \subseteq Prices
      BY <2>2 DEF AverageOK
    <3>2. PICK l, u \in paid : Between(a, l, u)
      BY <2>2 DEF AverageOK
    <3>3. paid \subseteq Nat /\ paid \subseteq Int /\ paid # {}
      BY <3>1, <3>2, AccountingAssumption
    <3>4. lo \in paid /\ \A y \in paid : lo <= y
      <4>1. \E x \in paid : \A y \in paid : x <= y
        BY <3>3, LeastOf
      <4> QED
        BY <4>1 DEF Min
    <3>5. hi \in paid /\ \A y \in paid : hi >= y
      BY <3>1, <3>3, FiniteMax
    <3> HIDE DEF lo, hi
    <3>6. lo \in Int /\ hi \in Int /\ l \in Int /\ u \in Int /\ lo <= l /\ u <= hi
      <4>1. \A x \in paid : x \in Int
        BY <3>3
      <4> QED
        BY <3>2, <3>4, <3>5, <4>1
    <3>7. /\ a.num \in Int /\ a.den \in Nat \ {0}
          /\ l * a.den <= a.num /\ a.num <= u * a.den
      BY <3>2 DEF Between, Fractions
    <3>8. \A x, y \in Int : \A z \in Nat : x <= y => x * z <= y * z
      OBVIOUS
    <3>9. lo * a.den <= l * a.den /\ u * a.den <= hi * a.den
      BY <3>6, <3>7, <3>8
    <3>10. lo * a.den <= a.num /\ a.num <= hi * a.den
      <4>1. \A x, y, z \in Int : x <= y /\ y <= z => x <= z
        OBVIOUS
      <4>2. lo * a.den \in Int /\ l * a.den \in Int /\ u * a.den \in Int /\ hi * a.den \in Int
        BY <3>6, <3>7
      <4> QED
        BY <3>7, <3>9, <4>1, <4>2
    <3>11. ASSUME NEW x \in Int
           PROVE  /\ x * a.den <= a.num => AtMost(Frac(x, 1), a)
                  /\ a.num <= x * a.den => AtMost(a, Frac(x, 1))
      <4> DEFINE w == Frac(x, 1)
      <4>1. w.num \in Int /\ w.den \in Nat \ {0} /\ w.num * 1 = x * w.den
        BY FracOf DEF Fractions
      <4> HIDE DEF w
      <4>2. w.num = x * w.den
        BY <4>1
      <4>3. w.num * a.den = (x * a.den) * w.den
        BY <3>7, <4>1, <4>2, Swap
      <4>4. x * a.den \in Int
        BY <3>7
      <4>5. /\ x * a.den <= a.num => (x * a.den) * w.den <= a.num * w.den
            /\ a.num <= x * a.den => a.num * w.den <= (x * a.den) * w.den
        BY <3>7, <3>8, <4>1, <4>4
      <4>6. /\ x * a.den <= a.num => AtMost(w, a)
            /\ a.num <= x * a.den => AtMost(a, w)
        BY <4>3, <4>5 DEF AtMost
      <4> QED
        BY <4>6 DEF w
    <3>12. AtMost(Frac(lo, 1), a) /\ AtMost(a, Frac(hi, 1))
      BY <3>6, <3>10, <3>11
    <3> QED
      BY <2>2, <3>12 DEF AverageIsBetweenEntries, lo, hi
  <2> QED
    BY <2>1, <2>2
<1>3. Spec => []AverageOK
  BY <1>1, AverageStep, ScaleInvariant, PTL DEF Spec
<1> QED
  BY <1>2, <1>3, PTL
=============================================================================
