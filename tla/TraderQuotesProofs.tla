------------------------- MODULE TraderQuotesProofs -------------------------
(***************************************************************************)
(* TraderQuotes for all prices, limits, ring sizes and numbers of orders:  *)
(* the edge of every quote, the bookkeeping of ids, and no order lost.     *)
(***************************************************************************)
EXTENDS TraderQuotes, DataTheorems, SequenceTheorems, FiniteSetTheorems, TLAPS

-----------------------------------------------------------------------------
(* The inductive invariant *)

Command == [kind : {"cancel"}, id : Ids, side : {""}, price : {0}]
      \cup [kind : {"place"}, id : {0}, side : Sides, price : Nat]
Event == [kind : {"place_ack"}, id : Ids, side : Sides, price : Nat]
    \cup [kind : {"order_ack"}, id : Ids, side : {""}, price : {0}]
Decision == [side : Sides, price : Nat, cancel : 0 .. MaxOrders]
Stale == [side : Sides, id : Ids]
Order == [price : Nat, age : 0 .. 3, id : 0 .. MaxOrders] \cup {None}
Live == [id : Ids, side : Sides]

(* One decision and one cancel at most for a side. *)
OnePerSide(todo) == \A d, e \in todo : d.side = e.side => d = e

Types ==
  /\ our_orders \in [Sides -> Order] /\ orderid_to_key \in [Ids -> Sides \cup {"none"}]
  /\ tick \in [bid : Nat, ask : Nat] /\ theo \in Nat
  /\ hot \in [pc : {"idle", "send", "track"}, todo : SUBSET Decision]
  /\ OnePerSide(hot.todo) /\ (hot.pc = "idle" => hot.todo = {})
  /\ stale \in [pc : {"idle", "cancel"}, todo : SUBSET Stale] /\ IsFiniteSet(stale.todo)
  /\ commands \in Seq(Command) /\ Len(commands) <= RingCap
  /\ events \in Seq(Event) /\ Len(events) <= RingCap
  /\ live \subseteq Live /\ placed \in 0 .. MaxOrders

(* An id that the trader holds: with an order, or to be cancelled. *)
Holds(orders, decisions, cancels, i) ==
  \/ \E s \in Sides : orders[s].id = i
  \/ \E d \in decisions : d.cancel = i
  \/ \E c \in cancels : c.id = i

(* Ids are given in order, so that the ones above `placed` are new. *)
OldIds ==
  /\ \A i \in Ids : Holds(our_orders, hot.todo, stale.todo, i) => i <= placed
  /\ \A i \in Ids : i > placed => orderid_to_key[i] = "none"
  /\ \A e \in ToSet(events) : e.id <= placed
  /\ \A o \in live : o.id <= placed

(* What is to be cancelled belongs to the side it was found on. *)
CancelsAreMapped ==
  /\ \A d \in hot.todo : d.cancel # 0 => orderid_to_key[d.cancel] \in {d.side, "none"}
  /\ \A c \in stale.todo : orderid_to_key[c.id] \in {c.side, "none"}

(* An id whose acknowledgement is on its way is not yet known, and is      *)
(* acknowledged once.                                                      *)
IsAck(e) == e.kind = "place_ack"
AcksAreNew ==
  \A e \in ToSet(events) : IsAck(e) =>
    orderid_to_key[e.id] = "none" /\ ~Holds(our_orders, hot.todo, stale.todo, e.id)
AcksAreOnce(queue) ==
  \A i, j \in 1 .. Len(queue) : IsAck(queue[i]) /\ IsAck(queue[j]) /\ queue[i].id = queue[j].id => i = j

IdInv == Types /\ OldIds /\ CancelsAreMapped /\ AcksAreNew /\ AcksAreOnce(events) /\ IdsAreMapped

(* The acknowledgements are true: they name the order's side, and an order *)
(* that has ended does not rest.                                           *)
EventsAreTrue ==
  /\ \A o, p \in live : o.id = p.id => o = p
  /\ \A o \in live : \A e \in ToSet(events) : e.id = o.id => IsAck(e) /\ e.side = o.side

(* Once the frames are written, a decision's cancel is behind it. *)
CancelsAreSent ==
  hot.pc = "track" =>
    \A d \in hot.todo : \A o \in live : o.id = d.cancel =>
      o.id \in excused \/ CancelOrder(o.id) \in ToSet(commands)

(* NoOrphans, with the rings as sets. *)
Safe(o) ==
  \/ o.id \in excused
  \/ our_orders[o.side].id = o.id
  \/ CancelOrder(o.id) \in ToSet(commands)
  \/ \E e \in ToSet(events) : IsAck(e) /\ e.id = o.id

OrphanInv == EventsAreTrue /\ CancelsAreSent /\ \A o \in live : Safe(o)

-----------------------------------------------------------------------------
(* Rings *)

(* Frames written to a ring: what was there stays, in its place, the rest  *)
(* is there or was dropped.                                                *)
LEMMA WriteFrames ==
  ASSUME NEW S, NEW q \in Seq(S), Len(q) <= RingCap, NEW fs \in Seq(S)
  PROVE  /\ Written(q, fs) \in Seq(S) /\ Len(Written(q, fs)) <= RingCap
         /\ ToSet(q) \subseteq ToSet(Written(q, fs))
         /\ ToSet(Written(q, fs)) \subseteq ToSet(q) \cup ToSet(fs)
         /\ ToSet(fs) \subseteq ToSet(Written(q, fs)) \cup Dropped(q, fs)
<1> DEFINE all == q \o fs
           n == IF Len(all) > RingCap THEN RingCap ELSE Len(all)
           w == SubSeq(all, 1, n)
           d == SubSeq(all, RingCap + 1, Len(all))
<1>1. /\ all \in Seq(S) /\ Len(all) = Len(q) + Len(fs) /\ Len(q) \in Nat /\ Len(fs) \in Nat
      /\ \A i \in 1 .. Len(q) : all[i] = q[i]
      /\ \A i \in 1 .. Len(fs) : all[Len(q) + i] = fs[i]
      /\ DOMAIN q = 1 .. Len(q) /\ DOMAIN fs = 1 .. Len(fs)
  OBVIOUS
<1>2. RingCap \in Nat /\ n \in Nat /\ n <= Len(all) /\ n <= RingCap /\ Len(q) <= n
  BY <1>1, TraderAssumption
<1>3. \A i \in 1 .. Len(all) : all[i] \in S
  BY <1>1
<1> HIDE DEF all, n
<1>4. w \in Seq(S) /\ Len(w) = n /\ \A i \in 1 .. n : w[i] = all[i]
  <2>1. \A i \in 1 .. n : all[i] \in S /\ i \in 1 .. Len(all)
    BY <1>1, <1>2, <1>3
  <2> QED
    BY <1>1, <1>2, <2>1, SubSeqProperties
<1>5. DOMAIN w = 1 .. n /\ w = Written(q, fs)
  BY <1>4 DEF Written, all, n
<1> HIDE DEF w
<1>6. ToSet(q) \subseteq ToSet(w)
  BY <1>1, <1>2, <1>4, <1>5 DEF ToSet
<1>7. ToSet(w) \subseteq ToSet(q) \cup ToSet(fs)
  <2> SUFFICES ASSUME NEW i \in 1 .. n PROVE w[i] \in ToSet(q) \cup ToSet(fs)
    BY <1>5 DEF ToSet
  <2>1. CASE i <= Len(q)
    <3>1. i \in 1 .. Len(q)
      BY <1>1, <1>2, <2>1
    <3>2. w[i] = q[i]
      BY <1>1, <1>4, <3>1
    <3> QED
      BY <1>1, <3>1, <3>2 DEF ToSet
  <2>2. CASE i > Len(q)
    <3> DEFINE j == i - Len(q)
    <3>a. i \in Nat /\ i <= Len(q) + Len(fs) /\ Len(q) \in Nat /\ Len(fs) \in Nat
      BY <1>1, <1>2
    <3>b. j \in 1 .. Len(fs)
      BY <2>2, <3>a
    <3>1. j \in 1 .. Len(fs) /\ all[Len(q) + j] = fs[j]
      <4> HIDE DEF j
      <4> QED
        BY <1>1, <3>b
    <3>2. all[i] = fs[i - Len(q)]
      BY <1>1, <3>1
    <3> QED
      BY <1>1, <1>4, <3>1, <3>2 DEF ToSet
  <2> QED
    BY <1>1, <1>2, <2>1, <2>2
<1>8. ToSet(fs) \subseteq ToSet(w) \cup ToSet(d)
  <2> SUFFICES ASSUME NEW i \in 1 .. Len(fs) PROVE fs[i] \in ToSet(w) \cup ToSet(d)
    BY <1>1 DEF ToSet
  <2> DEFINE k == Len(q) + i
  <2>1. k \in 1 .. Len(all) /\ all[k] = fs[i]
    <3>1. Len(q) \in Nat /\ Len(fs) \in Nat /\ Len(all) = Len(q) + Len(fs)
      BY <1>1
    <3>2. k \in 1 .. Len(all)
      BY <3>1
    <3>3. all[k] = fs[i]
      BY <1>1
    <3> QED
      BY <3>2, <3>3
  <2> HIDE DEF k
  <2>2. CASE k <= n
    BY <1>2, <1>4, <1>5, <2>1, <2>2 DEF ToSet
  <2>3. CASE k > n
    <3>1. n = RingCap /\ Len(all) > RingCap
      BY <1>1, <1>2, <2>1, <2>3 DEF n
    <3>2. /\ Len(d) = Len(all) - RingCap
          /\ \A j \in 1 .. Len(all) - RingCap : d[j] = all[RingCap + 1 + j - 1]
      <4>1. RingCap + 1 \in Int /\ Len(all) \in Int /\ RingCap + 1 <= Len(all) + 1
        BY <1>1, <1>2, <3>1
      <4>2. \A j \in (RingCap + 1) .. Len(all) : all[j] \in S /\ j \in 1 .. Len(all)
        BY <1>1, <1>2, <1>3
      <4>3. \A j \in 1 .. Len(all) - RingCap : d[j] = all[RingCap + 1 + j - 1]
        BY <1>1, <1>2, <3>1, <4>1, <4>2, SubSeqProperties
      <4>4. Len(d) = Len(all) - RingCap
        BY <1>1, <1>2, <3>1, <4>1, <4>2, SubSeqProperties
      <4> QED
        BY <4>3, <4>4
    <3>3. DOMAIN d = 1 .. Len(d)
      BY <1>1, <1>2, <3>1
    <3>4. k - RingCap \in 1 .. Len(all) - RingCap /\ RingCap + 1 + (k - RingCap) - 1 = k
      BY <1>1, <1>2, <2>1, <2>3, <3>1
    <3> HIDE DEF d
    <3>5. d[k - RingCap] = all[k]
      BY <3>2, <3>4
    <3> QED
      BY <2>1, <3>2, <3>3, <3>4, <3>5 DEF ToSet
  <2> QED
    BY <1>1, <1>2, <2>1, <2>2, <2>3
<1> QED
  BY <1>2, <1>4, <1>5, <1>6, <1>7, <1>8 DEF Dropped, all

(* One frame is written at the end, or not at all. *)
LEMMA WriteOne ==
  ASSUME NEW S, NEW q \in Seq(S), Len(q) <= RingCap, NEW e \in S
  PROVE  /\ Written(q, <<e>>) \in Seq(S) /\ Len(Written(q, <<e>>)) <= RingCap
         /\ Written(q, <<e>>) \in {q, Append(q, e)}
         /\ e \in ToSet(Written(q, <<e>>)) \cup Dropped(q, <<e>>)
         /\ ToSet(q) \subseteq ToSet(Written(q, <<e>>))
         /\ ToSet(Written(q, <<e>>)) \subseteq ToSet(q) \cup {e}
<1> DEFINE fs == <<e>>
           w == Written(q, fs)
<1>1. fs \in Seq(S) /\ ToSet(fs) = {e} /\ Len(fs) = 1
  BY DEF ToSet
<1>2. q \o fs = Append(q, e) /\ Len(q) \in Nat /\ Len(q \o fs) = Len(q) + 1 /\ RingCap \in Nat
  BY TraderAssumption
<1>3. w \in {q, Append(q, e)}
  <2>1. CASE Len(q) + 1 > RingCap
    <3>1. RingCap = Len(q)
      BY <1>2, <2>1
    <3>2. w = SubSeq(Append(q, e), 1, Len(q))
      BY <1>2, <2>1, <3>1 DEF Written
    <3>3. SubSeq(Append(q, e), 1, Len(q)) = q
      BY <1>2
    <3> QED
      BY <3>2, <3>3
  <2>2. CASE ~(Len(q) + 1 > RingCap)
    <3>1. w = SubSeq(Append(q, e), 1, Len(q) + 1)
      BY <1>2, <2>2 DEF Written
    <3>2. SubSeq(Append(q, e), 1, Len(q) + 1) = Append(q, e)
      BY <1>2
    <3> QED
      BY <3>1, <3>2
  <2> QED
    BY <2>1, <2>2
<1> HIDE DEF fs
<1>4. /\ w \in Seq(S) /\ Len(w) <= RingCap /\ ToSet(q) \subseteq ToSet(w)
      /\ ToSet(w) \subseteq ToSet(q) \cup ToSet(fs)
      /\ ToSet(fs) \subseteq ToSet(w) \cup Dropped(q, fs)
  BY <1>1, WriteFrames
<1> QED
  BY <1>1, <1>3, <1>4 DEF fs


-----------------------------------------------------------------------------
(* The decision *)

Edge(d, th, t) ==
  IF d.side = "B"
  THEN 4 * d.price <= th - 4 * MinEdgeTicks + 2 /\ d.price <= t.ask
  ELSE 4 * d.price >= th + 4 * MinEdgeTicks - 2 /\ d.price >= t.bid

(* The nearest tick is at most half a tick away. *)
LEMMA NearestTick ==
  ASSUME NEW x \in Int
  PROVE  /\ (x + 2) \div 4 \in Int
         /\ 4 * ((x + 2) \div 4) <= x + 2 /\ 4 * ((x + 2) \div 4) >= x - 1
OBVIOUS

(* The target keeps the edge, and its rounding gives up half a tick. *)
LEMMA PriceKeepsEdge ==
  ASSUME theo \in Nat \ {0}, NEW t \in [bid : Nat, ask : Nat], NEW side \in Sides,
         Naive(side) > 0, ~WouldCross(side, t)
  PROVE  /\ Quantized(side, t) \in Nat
         /\ side = "B" => /\ 4 * Quantized(side, t) <= theo - 4 * MinEdgeTicks + 2
                          /\ Quantized(side, t) <= t.ask
         /\ side # "B" => /\ 4 * Quantized(side, t) >= theo + 4 * MinEdgeTicks - 2
                          /\ Quantized(side, t) >= t.bid
<1> DEFINE x == Target(side, t)
           p == Quantized(side, t)
<1>1. MinEdgeTicks \in Nat /\ t.bid \in Nat /\ t.ask \in Nat
  BY TraderAssumption
<1>2. x \in Int /\ x > 0
  BY <1>1 DEF Target, Naive, Sides
<1>3. side = "B" => x <= theo - 4 * MinEdgeTicks /\ x < 4 * t.ask
  BY <1>1, <1>2 DEF Target, Naive, WouldCross
<1>4. side # "B" => x >= theo + 4 * MinEdgeTicks /\ x > 4 * t.bid
  BY <1>1, <1>2 DEF Target, Naive, WouldCross
<1> HIDE DEF x
<1>5. p \in Int /\ 4 * p <= x + 2 /\ 4 * p >= x - 1
  BY <1>2, NearestTick DEF Quantized, x
<1> HIDE DEF p
<1>6. p >= 0
  BY <1>2, <1>5
<1>7. side = "B" => 4 * p <= theo - 4 * MinEdgeTicks + 2 /\ p <= t.ask
  BY <1>1, <1>2, <1>3, <1>5
<1>8. side # "B" => 4 * p >= theo + 4 * MinEdgeTicks - 2 /\ p >= t.bid
  BY <1>1, <1>2, <1>4, <1>5
<1> QED
  BY <1>5, <1>6, <1>7, <1>8 DEF p

(* What a decision holds. *)
LEMMA Decisions ==
  ASSUME Types, NEW t \in [bid : Nat, ask : Nat], NEW blocked
  PROVE  LET D == decide_on_tick(t, blocked)
         IN /\ D \subseteq Decision /\ OnePerSide(D)
            /\ \A d \in D : Edge(d, theo, t)
            /\ \A d \in D : d.cancel \in {0, our_orders[d.side].id}
<1> DEFINE D == decide_on_tick(t, blocked)
<1>1. ASSUME NEW d \in D
      PROVE  /\ theo # 0 /\ d.side \in Sides /\ Quoted(d.side, t, blocked)
             /\ d = [side |-> d.side, price |-> Quantized(d.side, t), cancel |-> CancelOld(d.side)]
  BY <1>1 DEF decide_on_tick
<1>2. theo \in Nat /\ our_orders \in [Sides -> Order]
  BY DEF Types
<1>3. \A s \in Sides : our_orders[s].id \in 0 .. MaxOrders
  BY <1>2, TraderAssumption DEF Order, None
<1>4. \A s \in Sides : CancelOld(s) \in {0, our_orders[s].id}
  BY DEF CancelOld
<1>5. 0 \in 0 .. MaxOrders
  BY TraderAssumption
<1> HIDE DEF D
<1>6. ASSUME NEW d \in D PROVE d.price \in Nat /\ Edge(d, theo, t)
  <2>1. Naive(d.side) > 0 /\ ~WouldCross(d.side, t) /\ d.side \in Sides /\ theo \in Nat \ {0}
    BY <1>1, <1>2 DEF Quoted
  <2>2. d.price = Quantized(d.side, t)
    BY <1>1
  <2> QED
    BY <2>1, <2>2, PriceKeepsEdge DEF Edge
<1>7. \A d \in D : d.cancel \in {0, our_orders[d.side].id} /\ d.cancel \in 0 .. MaxOrders
  BY <1>1, <1>3, <1>4, <1>5
<1>8. D \subseteq Decision
  <2> SUFFICES ASSUME NEW d \in D PROVE d \in Decision
    OBVIOUS
  <2>1. d.price = Quantized(d.side, t) /\ d.cancel = CancelOld(d.side)
    BY <1>1
  <2>2. d = [side |-> d.side, price |-> d.price, cancel |-> d.cancel]
    BY <1>1, <2>1
  <2> QED
    BY <1>1, <1>6, <1>7, <2>2 DEF Decision
<1>9. OnePerSide(D)
  BY <1>1 DEF OnePerSide
<1> QED
  BY <1>6, <1>7, <1>8, <1>9 DEF D


-----------------------------------------------------------------------------
(* Ids: the frame of a step *)

(* The shape of an order. *)
LEMMA OrderShape ==
  ASSUME NEW o \in Order
  PROVE  /\ o.id \in 0 .. MaxOrders
         /\ o # None => o \in [price : Nat, age : 0 .. 3, id : 0 .. MaxOrders]
         /\ o = None => o.id = 0
         /\ None \in Order
BY TraderAssumption DEF Order, None

(* A step that gives the trader no id that is new to it. *)
LEMMA NothingNew ==
  ASSUME IdInv, Types', placed' = placed, live' \subseteq live, AcksAreOnce(events)',
         \A e \in ToSet(events') : e \in ToSet(events) \/ (~IsAck(e) /\ e.id <= placed),
         \A i \in Ids : Holds(our_orders', hot'.todo, stale'.todo, i) =>
                        Holds(our_orders, hot.todo, stale.todo, i),
         \A i \in Ids : orderid_to_key'[i] \in {orderid_to_key[i], "none"},
         CancelsAreMapped', IdsAreMapped'
  PROVE  IdInv'
<1>1. OldIds'
  BY DEF IdInv, OldIds
<1>2. AcksAreNew'
  <2> SUFFICES ASSUME NEW e \in ToSet(events'), IsAck(e)
               PROVE  orderid_to_key'[e.id] = "none" /\ ~Holds(our_orders', hot'.todo, stale'.todo, e.id)
    BY DEF AcksAreNew
  <2>1. e \in ToSet(events)
    OBVIOUS
  <2>2. orderid_to_key[e.id] = "none" /\ ~Holds(our_orders, hot.todo, stale.todo, e.id)
    BY <2>1 DEF IdInv, AcksAreNew
  <2>3. e \in Event
    BY <2>1 DEF IdInv, Types, ToSet
  <2>4. e.id \in Ids
    BY <2>3 DEF Event
  <2> QED
    BY <2>2, <2>4
<1> QED
  BY <1>1, <1>2 DEF IdInv

(* With a ring and the trader's plans as they were, the rest stays. *)
LEMMA SamePlans ==
  ASSUME IdInv, hot'.todo \subseteq hot.todo, stale'.todo \subseteq stale.todo,
         \A i \in Ids : orderid_to_key'[i] \in {orderid_to_key[i], "none"}
  PROVE  CancelsAreMapped'
<1>1. \A d \in hot.todo : d.cancel # 0 => d.cancel \in Ids
  BY DEF IdInv, Types, Decision, Ids
<1>2. \A c \in stale.todo : c.id \in Ids
  BY DEF IdInv, Types, Stale
<1> QED
  BY <1>1, <1>2 DEF IdInv, CancelsAreMapped

(* An acknowledgement is at the front at most once, and what remains, or   *)
(* gets another frame that is none, has each once.                         *)
LEMMA OnceStays ==
  ASSUME NEW q \in Seq(Event), AcksAreOnce(q)
  PROVE  /\ q # <<>> => AcksAreOnce(Tail(q))
         /\ \A e \in Event : ~IsAck(e) => AcksAreOnce(Append(q, e))
         /\ \A e \in Event : (\A i \in 1 .. Len(q) : q[i].id # e.id) => AcksAreOnce(Append(q, e))
         /\ q # <<>> /\ IsAck(q[1]) => \A e \in ToSet(Tail(q)) : IsAck(e) => e.id # q[1].id
<1>1. ASSUME q # <<>>
      PROVE  /\ AcksAreOnce(Tail(q))
             /\ IsAck(q[1]) => \A e \in ToSet(Tail(q)) : IsAck(e) => e.id # q[1].id
  <2>1. /\ Len(q) \in Nat \ {0}
        /\ \A i \in 1 .. Len(Tail(q)) : i + 1 \in 1 .. Len(q) /\ Tail(q)[i] = q[i + 1]
        /\ Tail(q) \in Seq(Event)
    BY <1>1, PopFront
  <2>2. ASSUME NEW i \in 1 .. Len(Tail(q)), NEW j \in 1 .. Len(Tail(q)),
               IsAck(Tail(q)[i]), IsAck(Tail(q)[j]), Tail(q)[i].id = Tail(q)[j].id
        PROVE  i = j
    <3>1. i + 1 = j + 1
      BY <2>1, <2>2 DEF AcksAreOnce
    <3> QED
      BY <2>1, <3>1
  <2>3. ASSUME NEW i \in 1 .. Len(Tail(q)), IsAck(q[1]), IsAck(Tail(q)[i]), Tail(q)[i].id = q[1].id
        PROVE  FALSE
    <3>1. i + 1 = 1
      BY <2>1, <2>3 DEF AcksAreOnce
    <3> QED
      BY <2>1, <3>1
  <2>4. AcksAreOnce(Tail(q))
    BY <2>2 DEF AcksAreOnce
  <2> QED
    BY <2>1, <2>3, <2>4 DEF ToSet
<1>2. ASSUME NEW e \in Event, ~IsAck(e) \/ \A i \in 1 .. Len(q) : q[i].id # e.id
      PROVE  AcksAreOnce(Append(q, e))
  <2> DEFINE a == Append(q, e)
  <2>1. /\ Len(a) = Len(q) + 1 /\ Len(q) \in Nat
        /\ \A i \in 1 .. Len(q) : a[i] = q[i]
        /\ a[Len(q) + 1] = e
    OBVIOUS
  <2> HIDE DEF a
  <2>2. \A i \in 1 .. Len(a) : i \in 1 .. Len(q) \/ i = Len(q) + 1
    BY <2>1
  <2>3. ASSUME NEW i \in 1 .. Len(a), NEW j \in 1 .. Len(a), IsAck(a[i]), IsAck(a[j]), a[i].id = a[j].id
        PROVE  i = j
    BY <1>2, <2>1, <2>2, <2>3 DEF AcksAreOnce
  <2> QED
    BY <2>3 DEF AcksAreOnce, a
<1> QED
  BY <1>1, <1>2


-----------------------------------------------------------------------------
(* Ids: the actions *)

LEMMA IdInit == Init => IdInv
<1> SUFFICES ASSUME Init PROVE IdInv
  OBVIOUS
<1>1. ToSet(<<>>) = {} /\ IsFiniteSet({})
  BY FS_EmptySet DEF ToSet
<1>2. RingCap \in Nat \ {0} /\ MaxOrders \in Nat
  BY TraderAssumption
<1>3. None \in Order /\ None.id = 0
  BY DEF Order, None
<1>4. Types
  BY <1>1, <1>2, <1>3 DEF Init, Types, Idle, NoTick, OnePerSide
<1>5. ASSUME NEW i \in Ids PROVE ~Holds(our_orders, hot.todo, stale.todo, i)
  BY <1>3 DEF Init, Holds, Idle, Ids
<1>6. OldIds /\ CancelsAreMapped /\ AcksAreNew
  BY <1>1, <1>5 DEF Init, OldIds, CancelsAreMapped, AcksAreNew, Idle
<1>7. AcksAreOnce(events) /\ IdsAreMapped
  BY <1>3 DEF Init, AcksAreOnce, IdsAreMapped
<1> QED
  BY <1>4, <1>6, <1>7 DEF IdInv

(* A decision cancels the orders it sees, which are mapped to their sides. *)
LEMMA OnTickIds ==
  ASSUME IdInv, NEW t \in [bid : Nat, ask : Nat], NEW blocked, OnTick(t, blocked)
  PROVE  IdInv'
<1> USE DEF market, book, broker
<1> DEFINE D == decide_on_tick(t, blocked)
<1>1. /\ D \subseteq Decision /\ OnePerSide(D)
      /\ \A d \in D : d.cancel \in {0, our_orders[d.side].id}
  BY Decisions DEF IdInv
<1> HIDE DEF D
<1>2. hot.pc = "idle" /\ tick' = t /\ hot' \in {Idle, [pc |-> "send", todo |-> D]}
      /\ UNCHANGED <<theo, our_orders, orderid_to_key, stale, commands, events, live, placed>>
  BY DEF OnTick, D
<1>3. hot'.todo \in {{}, D} /\ (hot'.pc = "idle" => hot'.todo = {})
  BY <1>2 DEF Idle
<1>4. hot' \in [pc : {"idle", "send", "track"}, todo : SUBSET Decision] /\ OnePerSide(hot'.todo)
  BY <1>1, <1>2 DEF Idle, OnePerSide
<1>5. Types'
  BY <1>2, <1>3, <1>4 DEF IdInv, Types
<1>6. \A d \in hot'.todo : d.side \in Sides /\ d.cancel \in {0, our_orders[d.side].id}
  BY <1>1, <1>3 DEF Decision
<1>7. ASSUME NEW i \in Ids, Holds(our_orders', hot'.todo, stale'.todo, i)
      PROVE  Holds(our_orders, hot.todo, stale.todo, i)
  BY <1>2, <1>6, <1>7 DEF Holds, Ids
<1>8. CancelsAreMapped'
  BY <1>2, <1>6 DEF IdInv, CancelsAreMapped, IdsAreMapped
<1>9. IdsAreMapped' /\ AcksAreOnce(events)'
  BY <1>2 DEF IdInv, IdsAreMapped
<1> QED
  BY <1>2, <1>5, <1>7, <1>8, <1>9, NothingNew

(* The frames of a decision: its orders, and the cancels of all that it    *)
(* replaces and cancels.                                                   *)
LEMMA DecisionFrames ==
  ASSUME Types
  PROVE  LET frames == FramesFor("B") \o FramesFor("S")
         IN /\ frames \in Seq(Command)
            /\ \A d \in hot.todo : d.cancel # 0 => CancelOrder(d.cancel) \in ToSet(frames)
<1>1. hot.todo \subseteq Decision /\ OnePerSide(hot.todo)
  BY DEF Types
<1>2. ASSUME NEW side \in Sides
      PROVE  /\ FramesFor(side) \in Seq(Command)
             /\ \A d \in hot.todo : d.side = side /\ d.cancel # 0 =>
                  CancelOrder(d.cancel) \in ToSet(FramesFor(side))
  <2> DEFINE mine == {d \in hot.todo : d.side = side}
             d == CHOOSE d \in mine : TRUE
  <2>1. CASE mine = {}
    <3>1. FramesFor(side) = <<>>
      BY <2>1 DEF FramesFor
    <3> QED
      BY <2>1, <3>1
  <2>2. CASE mine # {}
    <3>1. d \in mine
      BY <2>2
    <3>2. FramesFor(side) = (IF d.cancel # 0 THEN <<CancelOrder(d.cancel)>> ELSE <<>>)
                              \o <<PlaceOrder(side, d.price)>>
      BY <2>2 DEF FramesFor
    <3> HIDE DEF d
    <3>3. d \in Decision /\ d \in hot.todo /\ d.side = side
      BY <1>1, <3>1
    <3> HIDE DEF mine
    <3>4. \A e \in hot.todo : e.side = side => e = d
      BY <1>1, <3>3 DEF OnePerSide
    <3> DEFINE p == PlaceOrder(side, d.price)
               c == CancelOrder(d.cancel)
    <3>5. p \in Command /\ (d.cancel # 0 => c \in Command)
      BY <3>3 DEF Decision, Command, PlaceOrder, CancelOrder, Ids
    <3>6. CASE d.cancel # 0
      <4>1. FramesFor(side) = <<c>> \o <<p>>
        BY <3>2, <3>6
      <4> HIDE DEF p, c
      <4> DEFINE f == FramesFor(side)
      <4>2. <<c>> \in Seq(Command) /\ <<p>> \in Seq(Command) /\ Len(<<c>>) = 1 /\ <<c>>[1] = c
        BY <3>5, <3>6
      <4>3. f \in Seq(Command) /\ f[1] = c /\ Len(f) = 2
        BY <4>1, <4>2
      <4>4. c \in ToSet(f)
        BY <4>3 DEF ToSet
      <4> QED
        BY <3>4, <4>3, <4>4 DEF c
    <3>7. CASE d.cancel = 0
      <4>1. FramesFor(side) = <<>> \o <<p>>
        BY <3>2, <3>7
      <4> HIDE DEF p, c
      <4>2. FramesFor(side) = <<p>>
        BY <4>1
      <4>3. <<p>> \in Seq(Command)
        BY <3>5
      <4> QED
        BY <3>4, <3>7, <4>2, <4>3
    <3> QED
      BY <3>6, <3>7
  <2> QED
    BY <2>1, <2>2
<1> DEFINE b == FramesFor("B")
           s == FramesFor("S")
<1>3. b \in Seq(Command) /\ s \in Seq(Command)
  BY <1>2 DEF Sides
<1>4. \A d \in hot.todo : d.cancel # 0 => CancelOrder(d.cancel) \in ToSet(b) \cup ToSet(s)
  BY <1>1, <1>2 DEF Sides, Decision
<1> HIDE DEF b, s
<1>5. b \o s \in Seq(Command) /\ ToSet(b) \cup ToSet(s) \subseteq ToSet(b \o s)
  <2>1. /\ b \o s \in Seq(Command) /\ Len(b) \in Nat /\ Len(s) \in Nat
        /\ DOMAIN b = 1 .. Len(b) /\ DOMAIN s = 1 .. Len(s)
        /\ DOMAIN (b \o s) = 1 .. Len(b) + Len(s)
        /\ \A i \in 1 .. Len(b) : (b \o s)[i] = b[i]
        /\ \A i \in 1 .. Len(s) : (b \o s)[Len(b) + i] = s[i]
    BY <1>3
  <2>2. ToSet(b) \subseteq ToSet(b \o s)
    BY <2>1 DEF ToSet
  <2>3. ToSet(s) \subseteq ToSet(b \o s)
    <3>1. \A i \in 1 .. Len(s) : Len(b) + i \in 1 .. Len(b) + Len(s)
      BY <2>1
    <3> QED
      BY <2>1, <3>1 DEF ToSet
  <2> QED
    BY <2>1, <2>2, <2>3
<1> QED
  BY <1>4, <1>5 DEF b, s

(* Writing the frames changes neither ids nor plans. *)
LEMMA SendIds ==
  ASSUME IdInv, Send PROVE IdInv'
<1> USE DEF market, book, broker
<1> DEFINE frames == FramesFor("B") \o FramesFor("S")
<1>1. /\ hot.pc = "send" /\ hot' = [hot EXCEPT !.pc = "track"]
      /\ commands' = Written(commands, frames)
      /\ UNCHANGED <<tick, theo, our_orders, orderid_to_key, stale, events, live, placed>>
  BY DEF Send
<1>2. frames \in Seq(Command)
  BY DecisionFrames DEF IdInv
<1> HIDE DEF frames
<1>3. commands' \in Seq(Command) /\ Len(commands') <= RingCap
  BY <1>1, <1>2, WriteFrames DEF IdInv, Types
<1>4. hot' \in [pc : {"idle", "send", "track"}, todo : SUBSET Decision] /\ hot'.pc = "track" /\ hot'.todo = hot.todo
  BY <1>1 DEF IdInv, Types
<1>5. Types'
  BY <1>1, <1>3, <1>4 DEF IdInv, Types
<1>6. IdsAreMapped' /\ AcksAreOnce(events)' /\ CancelsAreMapped'
  BY <1>1, <1>4 DEF IdInv, IdsAreMapped, CancelsAreMapped
<1> QED
  BY <1>1, <1>4, <1>5, <1>6, NothingNew

(* A replaced order has no id; an id that is forgotten is of no other side. *)
LEMMA TrackIds ==
  ASSUME IdInv, Track PROVE IdInv'
<1> USE DEF market, book, broker
<1> DEFINE replaced == {d.side : d \in hot.todo}
           cancelled == {d.cancel : d \in hot.todo}
<1>1. /\ hot' = Idle
      /\ our_orders' = [s \in Sides |->
          IF s \in replaced
          THEN [price |-> (CHOOSE d \in hot.todo : d.side = s).price, age |-> 0, id |-> 0]
          ELSE our_orders[s]]
      /\ orderid_to_key' = [i \in Ids |-> IF i \in cancelled THEN "none" ELSE orderid_to_key[i]]
      /\ UNCHANGED <<tick, theo, stale, commands, events, live, placed>>
  BY DEF Track
<1>2. hot.todo \subseteq Decision /\ our_orders \in [Sides -> Order] /\ orderid_to_key \in [Ids -> Sides \cup {"none"}]
  BY DEF IdInv, Types
<1>3. ASSUME NEW s \in Sides
      PROVE  /\ our_orders'[s] \in Order
             /\ s \in replaced => our_orders'[s].id = 0
             /\ s \notin replaced => our_orders'[s] = our_orders[s]
  <2>1. CASE s \in replaced
    <3> DEFINE p == (CHOOSE d \in hot.todo : d.side = s).price
    <3>1. p \in Nat
      BY <1>2, <2>1 DEF Decision
    <3>2. our_orders'[s] = [price |-> p, age |-> 0, id |-> 0]
      BY <1>1, <2>1
    <3> HIDE DEF p
    <3> QED
      BY <2>1, <3>1, <3>2, TraderAssumption DEF Order
  <2>2. CASE s \notin replaced
    BY <1>1, <1>2, <2>2
  <2> QED
    BY <2>1, <2>2
<1>4. our_orders' \in [Sides -> Order]
  BY <1>1, <1>3
<1>5. orderid_to_key' \in [Ids -> Sides \cup {"none"}]
      /\ \A i \in Ids : orderid_to_key'[i] \in {orderid_to_key[i], "none"}
  BY <1>1, <1>2
<1>6. hot' \in [pc : {"idle", "send", "track"}, todo : SUBSET Decision] /\ hot'.todo = {}
  BY <1>1 DEF Idle
<1>7. Types'
  BY <1>1, <1>4, <1>5, <1>6 DEF IdInv, Types, OnePerSide
<1>8. ASSUME NEW i \in Ids, Holds(our_orders', hot'.todo, stale'.todo, i)
      PROVE  Holds(our_orders, hot.todo, stale.todo, i)
  BY <1>1, <1>3, <1>6, <1>8 DEF Holds, Ids
<1>9. IdsAreMapped'
  <2> SUFFICES ASSUME NEW s \in Sides, our_orders'[s].id # 0
               PROVE  orderid_to_key'[our_orders'[s].id] = s
    BY DEF IdsAreMapped
  <2> DEFINE i == our_orders[s].id
  <2>1. our_orders'[s] = our_orders[s] /\ s \notin replaced
    BY <1>3
  <2>2. i \in Ids
    BY <1>2, <2>1, OrderShape DEF Ids
  <2>3. orderid_to_key[i] = s
    BY <2>1 DEF IdInv, IdsAreMapped
  <2>4. \A d \in hot.todo : d.cancel = i => orderid_to_key[i] \in {d.side, "none"}
    BY <2>2 DEF IdInv, CancelsAreMapped, Ids
  <2>5. i \notin cancelled
    BY <2>1, <2>3, <2>4 DEF Sides
  <2> QED
    BY <1>1, <2>1, <2>2, <2>3, <2>5
<1>10. CancelsAreMapped'
  BY <1>1, <1>5, <1>6, SamePlans
<1>11. AcksAreOnce(events)'
  BY <1>1 DEF IdInv
<1> QED
  BY <1>1, <1>5, <1>7, <1>8, <1>9, <1>10, <1>11, NothingNew


(* An event is taken from the ring. *)
LEMMA EventTaken ==
  ASSUME IdInv, events # <<>>, events' = Tail(events)
  PROVE  /\ Head(events) \in Event /\ Head(events) \in ToSet(events)
         /\ events' \in Seq(Event) /\ Len(events') <= RingCap
         /\ ToSet(events') \subseteq ToSet(events) /\ AcksAreOnce(events)'
         /\ IsAck(Head(events)) =>
              \A e \in ToSet(events') : IsAck(e) => e.id # Head(events).id
<1>1. events \in Seq(Event) /\ Len(events) <= RingCap /\ AcksAreOnce(events) /\ RingCap \in Nat
  BY TraderAssumption DEF IdInv, Types
<1>2. /\ Len(events) \in Nat \ {0} /\ Head(events) = events[1] /\ events[1] \in Event
      /\ Tail(events) \in Seq(Event) /\ Len(Tail(events)) = Len(events) - 1
      /\ ToSet(Tail(events)) \subseteq ToSet(events) /\ events[1] \in ToSet(events)
  BY <1>1, PopFront
<1>3. /\ AcksAreOnce(Tail(events))
      /\ IsAck(events[1]) => \A e \in ToSet(Tail(events)) : IsAck(e) => e.id # events[1].id
  BY <1>1, OnceStays
<1>4. Len(events') <= RingCap
  BY <1>1, <1>2
<1>5. AcksAreOnce(events)'
  BY <1>3
<1> QED
  BY <1>2, <1>3, <1>4, <1>5

(* A new id comes in: it is mapped to the side that gets it, and to no     *)
(* other, because it was unknown.                                          *)
LEMMA PlaceAckIds ==
  ASSUME IdInv, place_ack PROVE IdInv'
<1> USE DEF market, book, broker
<1> DEFINE m == Head(events)
           ex == our_orders[m.side]
           new == IF ex = None THEN [price |-> m.price, age |-> 0, id |-> m.id]
                  ELSE [ex EXCEPT !.id = m.id]
<1>1. /\ events # <<>> /\ events' = Tail(events) /\ m.kind = "place_ack" /\ hot.pc = "idle"
      /\ our_orders' = [our_orders EXCEPT ![m.side] = new]
      /\ orderid_to_key' = [orderid_to_key EXCEPT ![m.id] = m.side]
      /\ UNCHANGED <<tick, theo, hot, stale, commands, live, placed>>
  BY DEF place_ack, EventAtHead
<1>2. /\ m \in Event /\ m \in ToSet(events) /\ events' \in Seq(Event) /\ Len(events') <= RingCap
      /\ ToSet(events') \subseteq ToSet(events) /\ AcksAreOnce(events)'
      /\ \A e \in ToSet(events') : IsAck(e) => e.id # m.id
  BY <1>1, EventTaken DEF IsAck
<1>3. m.id \in Ids /\ m.side \in Sides /\ m.price \in Nat
  BY <1>1, <1>2 DEF Event
<1>4. /\ orderid_to_key[m.id] = "none" /\ ~Holds(our_orders, hot.todo, stale.todo, m.id)
      /\ m.id <= placed
  BY <1>1, <1>2 DEF IdInv, AcksAreNew, IsAck, OldIds
<1>5. our_orders \in [Sides -> Order] /\ orderid_to_key \in [Ids -> Sides \cup {"none"}]
  BY DEF IdInv, Types
<1> HIDE DEF m
<1>6. new \in Order /\ new.id = m.id
  <2>1. ex \in Order /\ m.id \in 0 .. MaxOrders
    BY <1>3, <1>5 DEF Ids
  <2>2. CASE ex = None
    BY <1>3, <2>1, <2>2, TraderAssumption DEF Order
  <2>3. CASE ex # None
    <3> HIDE DEF ex
    <3>1. ex \in [price : Nat, age : 0 .. 3, id : 0 .. MaxOrders]
      BY <2>1, <2>3, OrderShape
    <3>2. /\ [ex EXCEPT !.id = m.id] \in [price : Nat, age : 0 .. 3, id : 0 .. MaxOrders]
          /\ [ex EXCEPT !.id = m.id].id = m.id
      BY <2>1, <3>1
    <3> QED
      BY <2>3, <3>2 DEF Order
  <2> QED
    BY <2>2, <2>3
<1> HIDE DEF new
<1>7. /\ our_orders' \in [Sides -> Order] /\ our_orders'[m.side].id = m.id
      /\ \A s \in Sides : s # m.side => our_orders'[s] = our_orders[s]
  BY <1>1, <1>3, <1>5, <1>6
<1>8. /\ orderid_to_key' \in [Ids -> Sides \cup {"none"}] /\ orderid_to_key'[m.id] = m.side
      /\ \A i \in Ids : i # m.id => orderid_to_key'[i] = orderid_to_key[i]
  BY <1>1, <1>3, <1>5
<1>9. Types'
  BY <1>1, <1>2, <1>7, <1>8 DEF IdInv, Types
<1>10. ASSUME NEW i \in Ids, Holds(our_orders', hot'.todo, stale'.todo, i)
       PROVE  i = m.id \/ Holds(our_orders, hot.todo, stale.todo, i)
  BY <1>1, <1>7, <1>10 DEF Holds
<1>11. OldIds'
  <2>1. \A i \in Ids : Holds(our_orders', hot'.todo, stale'.todo, i) => i <= placed
    BY <1>4, <1>10 DEF IdInv, OldIds
  <2>2. \A i \in Ids : i > placed => i # m.id
    BY <1>3, <1>4 DEF IdInv, Types, Ids
  <2>3. \A i \in Ids : i > placed => orderid_to_key'[i] = "none"
    BY <1>8, <2>2 DEF IdInv, OldIds
  <2>4. (\A e \in ToSet(events') : e.id <= placed) /\ \A o \in live : o.id <= placed
    BY <1>2 DEF IdInv, OldIds
  <2> QED
    BY <1>1, <2>1, <2>3, <2>4 DEF OldIds
<1>12. AcksAreNew'
  <2> SUFFICES ASSUME NEW e \in ToSet(events'), IsAck(e)
               PROVE  orderid_to_key'[e.id] = "none" /\ ~Holds(our_orders', hot'.todo, stale'.todo, e.id)
    BY DEF AcksAreNew
  <2>1. e \in ToSet(events) /\ e.id # m.id
    BY <1>2
  <2>2. orderid_to_key[e.id] = "none" /\ ~Holds(our_orders, hot.todo, stale.todo, e.id)
    BY <2>1 DEF IdInv, AcksAreNew
  <2>3. e \in Event
    BY <2>1 DEF IdInv, Types, ToSet
  <2>4. e.id \in Ids
    BY <2>3 DEF Event
  <2> QED
    BY <1>8, <1>10, <2>1, <2>2, <2>4
<1>13. CancelsAreMapped'
  <2>1. \A d \in hot.todo : d.cancel # 0 => d.cancel \in Ids /\ d.cancel # m.id
    BY <1>3, <1>4 DEF IdInv, Types, Decision, Ids, Holds
  <2>2. \A c \in stale.todo : c.id \in Ids /\ c.id # m.id
    BY <1>4 DEF IdInv, Types, Stale, Holds
  <2> QED
    BY <1>1, <1>8, <2>1, <2>2 DEF IdInv, CancelsAreMapped
<1>14. IdsAreMapped'
  <2> SUFFICES ASSUME NEW s \in Sides, our_orders'[s].id # 0
               PROVE  orderid_to_key'[our_orders'[s].id] = s
    BY DEF IdsAreMapped
  <2>1. CASE s = m.side
    BY <1>7, <1>8, <2>1
  <2>2. CASE s # m.side
    <3>1. our_orders'[s] = our_orders[s] /\ our_orders[s].id # m.id
      BY <1>4, <1>7, <2>2 DEF Holds
    <3>2. our_orders[s].id \in Ids
      BY <1>5, <3>1, OrderShape DEF Ids
    <3> QED
      BY <1>8, <3>1, <3>2 DEF IdInv, IdsAreMapped
  <2> QED
    BY <2>1, <2>2
<1> QED
  BY <1>2, <1>9, <1>11, <1>12, <1>13, <1>14 DEF IdInv

(* An order's end: the side it is mapped to is emptied.  The other side    *)
(* has another id.                                                         *)
LEMMA OrderAckIds ==
  ASSUME IdInv, order_ack PROVE IdInv'
<1> USE DEF market, book, broker
<1> DEFINE m == Head(events)
           side == orderid_to_key[m.id]
<1>1. /\ events # <<>> /\ events' = Tail(events) /\ m.kind = "order_ack" /\ hot.pc = "idle"
      /\ side = "none" => UNCHANGED <<our_orders, orderid_to_key>>
      /\ side # "none" => /\ orderid_to_key' = [orderid_to_key EXCEPT ![m.id] = "none"]
                          /\ our_orders' = [our_orders EXCEPT ![side] = None]
      /\ UNCHANGED <<tick, theo, hot, stale, commands, live, placed>>
  BY DEF order_ack, EventAtHead
<1>2. /\ m \in Event /\ m \in ToSet(events) /\ events' \in Seq(Event) /\ Len(events') <= RingCap
      /\ ToSet(events') \subseteq ToSet(events) /\ AcksAreOnce(events)'
  BY <1>1, EventTaken
<1>3. m.id \in Ids
  BY <1>2 DEF Event
<1>4. our_orders \in [Sides -> Order] /\ orderid_to_key \in [Ids -> Sides \cup {"none"}] /\ None \in Order /\ None.id = 0
  BY DEF IdInv, Types, Order, None
<1> HIDE DEF m, side
<1>5. /\ our_orders' \in [Sides -> Order]
      /\ \A s \in Sides : our_orders'[s] = our_orders[s] \/ our_orders'[s] = None
      /\ side # "none" => our_orders'[side] = None
  BY <1>1, <1>3, <1>4 DEF side
<1>6. /\ orderid_to_key' \in [Ids -> Sides \cup {"none"}]
      /\ \A i \in Ids : orderid_to_key'[i] \in {orderid_to_key[i], "none"}
      /\ \A i \in Ids : i # m.id => orderid_to_key'[i] = orderid_to_key[i]
      /\ side = "none" => orderid_to_key' = orderid_to_key
  BY <1>1, <1>3, <1>4
<1>7. Types'
  BY <1>1, <1>2, <1>5, <1>6 DEF IdInv, Types
<1>8. ASSUME NEW i \in Ids, Holds(our_orders', hot'.todo, stale'.todo, i)
      PROVE  Holds(our_orders, hot.todo, stale.todo, i)
  BY <1>1, <1>4, <1>5, <1>8 DEF Holds, Ids
<1>9. IdsAreMapped'
  <2> SUFFICES ASSUME NEW s \in Sides, our_orders'[s].id # 0
               PROVE  orderid_to_key'[our_orders'[s].id] = s
    BY DEF IdsAreMapped
  <2>1. our_orders'[s] = our_orders[s] /\ (side = "none" \/ s # side)
    BY <1>4, <1>5
  <2>2. our_orders[s].id \in Ids /\ orderid_to_key[our_orders[s].id] = s
    BY <1>4, <2>1, OrderShape DEF Ids, IdInv, IdsAreMapped
  <2>3. our_orders[s].id = m.id => s = side
    BY <2>2 DEF side
  <2>4. s # "none"
    BY DEF Sides
  <2> QED
    BY <1>6, <2>1, <2>2, <2>3, <2>4
<1>10. CancelsAreMapped'
  BY <1>1, <1>6, SamePlans
<1> QED
  BY <1>1, <1>2, <1>6, <1>7, <1>8, <1>9, <1>10, NothingNew

(* A surface, and time. *)
LEMMA QuietIds ==
  ASSUME IdInv, (\E t \in Theos : vol_surface(t)) \/ (\E older \in SUBSET Sides : TimePasses(older))
  PROVE  IdInv'
<1> USE DEF market, book, broker
<1>1. our_orders \in [Sides -> Order]
  BY DEF IdInv, Types
<1>2. /\ UNCHANGED <<tick, orderid_to_key, hot, stale, commands, events, live, placed>>
      /\ theo' \in Nat /\ our_orders' \in [Sides -> Order]
      /\ \A s \in Sides : our_orders'[s].id = our_orders[s].id
  <2>1. ASSUME NEW t \in Theos, vol_surface(t)
        PROVE /\ UNCHANGED <<tick, orderid_to_key, hot, stale, commands, events, live, placed>>
              /\ theo' \in Nat /\ our_orders' = our_orders
    BY <2>1, TraderAssumption DEF vol_surface
  <2>2. ASSUME NEW older \in SUBSET Sides, TimePasses(older)
        PROVE /\ UNCHANGED <<tick, orderid_to_key, hot, stale, commands, events, live, placed>>
              /\ theo' = theo /\ our_orders' \in [Sides -> Order]
              /\ \A s \in Sides : our_orders'[s].id = our_orders[s].id
    <3>1. /\ UNCHANGED <<tick, theo, orderid_to_key, hot, stale, commands, events, live, placed>>
          /\ our_orders' = [s \in Sides |-> IF s \in older THEN [our_orders[s] EXCEPT !.age = @ + 1]
                                            ELSE our_orders[s]]
          /\ \A s \in older : our_orders[s] # None /\ our_orders[s].age < 3
      BY <2>2 DEF TimePasses
    <3>2. ASSUME NEW s \in Sides PROVE our_orders'[s] \in Order /\ our_orders'[s].id = our_orders[s].id
      <4>1. CASE s \in older
        <5> DEFINE o == our_orders[s]
        <5>1. o \in [price : Nat, age : 0 .. 3, id : 0 .. MaxOrders] /\ o.age < 3
          BY <1>1, <3>1, <4>1, OrderShape
        <5>2. our_orders'[s] = [o EXCEPT !.age = o.age + 1]
          BY <3>1, <4>1
        <5> HIDE DEF o
        <5>3. o.age + 1 \in 0 .. 3
          BY <5>1
        <5>4. /\ [o EXCEPT !.age = o.age + 1] \in [price : Nat, age : 0 .. 3, id : 0 .. MaxOrders]
              /\ [o EXCEPT !.age = o.age + 1].id = o.id
          BY <5>1, <5>3
        <5> QED
          BY <5>2, <5>4 DEF Order, o
      <4>2. CASE s \notin older
        BY <1>1, <3>1, <4>2
      <4> QED
        BY <4>1, <4>2
    <3> QED
      BY <3>1, <3>2
  <2>3. theo \in Nat
    BY DEF IdInv, Types
  <2> QED
    BY <1>1, <2>1, <2>2, <2>3
<1>3. Types'
  BY <1>2 DEF IdInv, Types
<1>4. IdsAreMapped' /\ AcksAreOnce(events)' /\ CancelsAreMapped'
  BY <1>2 DEF IdInv, IdsAreMapped, CancelsAreMapped
<1>5. ASSUME NEW i \in Ids, Holds(our_orders', hot'.todo, stale'.todo, i)
      PROVE  Holds(our_orders, hot.todo, stale.todo, i)
  BY <1>2, <1>5 DEF Holds
<1> QED
  BY <1>2, <1>3, <1>4, <1>5, NothingNew


(* What is found stale has an id, which is mapped to its side. *)
LEMMA FindStaleIds ==
  ASSUME IdInv, FindStale PROVE IdInv'
<1> USE DEF market, book, broker
<1> DEFINE bad == {x \in Sides : IsStale(x)}
           f == [s \in bad |-> [side |-> s, id |-> our_orders[s].id]]
<1>1. /\ stale' = [pc |-> "cancel", todo |-> {f[s] : s \in bad}]
      /\ UNCHANGED <<tick, theo, our_orders, orderid_to_key, hot, commands, events, live, placed>>
  BY DEF FindStale
<1>2. IsFiniteSet(Sides)
  <2>1. Sides = {"B"} \cup {"S"} /\ IsFiniteSet({"B"}) /\ IsFiniteSet({"S"})
    BY FS_Singleton DEF Sides
  <2> QED
    BY <2>1, FS_Union
<1>3. IsFiniteSet(bad)
  BY <1>2, FS_Subset
<1>4. IsFiniteSet({f[s] : s \in DOMAIN f}) /\ DOMAIN f = bad
  <2>1. DOMAIN f = bad /\ f = [s \in DOMAIN f |-> f[s]]
    OBVIOUS
  <2> HIDE DEF f, bad
  <2> QED
    BY <1>3, <2>1, ImageIsFinite
<1>5. ASSUME NEW c \in stale'.todo
      PROVE  c \in Stale /\ c.side \in Sides /\ c.id = our_orders[c.side].id /\ c.id # 0
  <2>1. PICK s \in Sides : IsStale(s) /\ c = [side |-> s, id |-> our_orders[s].id]
    BY <1>1, <1>5
  <2>2. our_orders[s].id # 0
    BY <2>1 DEF IsStale
  <2>3. our_orders[s] \in Order
    BY DEF IdInv, Types
  <2>4. our_orders[s].id \in Ids
    BY <2>2, <2>3, OrderShape DEF Ids
  <2> QED
    BY <2>1, <2>2, <2>4 DEF Stale
<1>6. IsFiniteSet(stale'.todo) /\ stale' = [pc |-> "cancel", todo |-> stale'.todo]
  BY <1>1, <1>4
<1>7. stale' \in [pc : {"idle", "cancel"}, todo : SUBSET Stale]
  BY <1>5, <1>6
<1>8. Types'
  BY <1>1, <1>6, <1>7 DEF IdInv, Types
<1>9. IdsAreMapped' /\ AcksAreOnce(events)'
  BY <1>1 DEF IdInv, IdsAreMapped
<1>10. CancelsAreMapped'
  BY <1>1, <1>5 DEF IdInv, IdsAreMapped, CancelsAreMapped
<1>11. ASSUME NEW i \in Ids, Holds(our_orders', hot'.todo, stale'.todo, i)
       PROVE  Holds(our_orders, hot.todo, stale.todo, i)
  BY <1>1, <1>5, <1>11 DEF Holds
<1> QED
  BY <1>1, <1>8, <1>9, <1>10, <1>11, NothingNew

(* The cancels of staleness_check are written, or dropped. *)
LEMMA StaleFrames ==
  ASSUME Types
  PROVE  LET frames == SetToSeq({CancelOrder(c.id) : c \in stale.todo})
         IN /\ frames \in Seq(Command)
            /\ \A c \in stale.todo : CancelOrder(c.id) \in ToSet(frames)
<1> DEFINE f == [c \in stale.todo |-> CancelOrder(c.id)]
           S == {f[c] : c \in DOMAIN f}
<1>1. IsFiniteSet(stale.todo) /\ stale.todo \subseteq Stale
  BY DEF Types
<1>2. IsFiniteSet(S)
  <2>1. DOMAIN f = stale.todo /\ f = [c \in DOMAIN f |-> f[c]]
    OBVIOUS
  <2> HIDE DEF f
  <2> QED
    BY <1>1, <2>1, ImageIsFinite
<1>3. S \subseteq Command /\ S = {CancelOrder(c.id) : c \in stale.todo}
  <2>1. \A i \in Ids : CancelOrder(i) \in Command
    BY DEF Command, CancelOrder
  <2>2. \A c \in stale.todo : c.id \in Ids
    BY <1>1 DEF Stale
  <2> QED
    BY <2>1, <2>2
<1> HIDE DEF S
<1>4. SetToSeq(S) \in Seq(S) /\ ToSet(SetToSeq(S)) = S
  BY <1>2, InSomeOrder
<1>5. SetToSeq(S) \in Seq(Command)
  BY <1>3, <1>4
<1> QED
  BY <1>3, <1>4, <1>5

(* The sides found stale are emptied and their ids forgotten; the other    *)
(* side has another id.                                                    *)
LEMMA CancelStaleIds ==
  ASSUME IdInv, CancelStale PROVE IdInv'
<1> USE DEF market, book, broker
<1> DEFINE frames == SetToSeq({CancelOrder(c.id) : c \in stale.todo})
           ids == {c.id : c \in stale.todo}
           gone == {c.side : c \in stale.todo}
<1>1. /\ commands' = Written(commands, frames) /\ stale' = Idle
      /\ our_orders' = [s \in Sides |-> IF s \in gone THEN None ELSE our_orders[s]]
      /\ orderid_to_key' = [i \in Ids |-> IF i \in ids THEN "none" ELSE orderid_to_key[i]]
      /\ UNCHANGED <<tick, theo, hot, events, live, placed>>
  BY DEF CancelStale
<1>2. frames \in Seq(Command)
  BY StaleFrames DEF IdInv
<1>3. commands' \in Seq(Command) /\ Len(commands') <= RingCap
  BY <1>1, <1>2, WriteFrames DEF IdInv, Types
<1>4. our_orders \in [Sides -> Order] /\ orderid_to_key \in [Ids -> Sides \cup {"none"}] /\ None \in Order /\ None.id = 0
  BY DEF IdInv, Types, Order, None
<1>5. our_orders' \in [Sides -> Order] /\ orderid_to_key' \in [Ids -> Sides \cup {"none"}]
      /\ \A i \in Ids : orderid_to_key'[i] \in {orderid_to_key[i], "none"}
  BY <1>1, <1>4
<1>6. stale' \in [pc : {"idle", "cancel"}, todo : SUBSET Stale] /\ IsFiniteSet(stale'.todo) /\ stale'.todo = {}
  BY <1>1, FS_EmptySet DEF Idle
<1>7. Types'
  BY <1>1, <1>3, <1>5, <1>6 DEF IdInv, Types
<1>8. ASSUME NEW i \in Ids, Holds(our_orders', hot'.todo, stale'.todo, i)
      PROVE  Holds(our_orders, hot.todo, stale.todo, i)
  BY <1>1, <1>4, <1>6, <1>8 DEF Holds, Ids
<1>9. IdsAreMapped'
  <2> SUFFICES ASSUME NEW s \in Sides, our_orders'[s].id # 0
               PROVE  orderid_to_key'[our_orders'[s].id] = s
    BY DEF IdsAreMapped
  <2>1. our_orders'[s] = our_orders[s] /\ s \notin gone
    BY <1>1, <1>4
  <2>2. our_orders[s].id \in Ids /\ orderid_to_key[our_orders[s].id] = s
    BY <1>4, <2>1, OrderShape DEF Ids, IdInv, IdsAreMapped
  <2>3. our_orders[s].id \notin ids
    BY <2>1, <2>2 DEF IdInv, CancelsAreMapped, Sides
  <2> QED
    BY <1>1, <2>1, <2>2, <2>3
<1>10. CancelsAreMapped'
  BY <1>1, <1>5, <1>6, SamePlans
<1>11. AcksAreOnce(events)'
  BY <1>1 DEF IdInv
<1> QED
  BY <1>1, <1>5, <1>7, <1>8, <1>9, <1>10, <1>11, NothingNew

(* A command is taken from the ring. *)
LEMMA CommandTaken ==
  ASSUME Types, commands # <<>>, commands' = Tail(commands)
  PROVE  /\ Head(commands) \in Command /\ Head(commands) \in ToSet(commands)
         /\ commands' \in Seq(Command) /\ Len(commands') <= RingCap
         /\ ToSet(commands) \subseteq ToSet(commands') \cup {Head(commands)}
<1>1. commands \in Seq(Command) /\ Len(commands) <= RingCap /\ RingCap \in Nat
  BY TraderAssumption DEF Types
<1>2. /\ Len(commands) \in Nat \ {0} /\ Head(commands) = commands[1] /\ commands[1] \in Command
      /\ Tail(commands) \in Seq(Command) /\ Len(Tail(commands)) = Len(commands) - 1
      /\ commands[1] \in ToSet(commands)
      /\ ToSet(commands) \subseteq ToSet(Tail(commands)) \cup {commands[1]}
  BY <1>1, PopFront
<1>3. Len(commands') <= RingCap
  BY <1>1, <1>2
<1> QED
  BY <1>2, <1>3

(* An order is accepted: its id is new to everyone. *)
LEMMA BrokerPlaceIds ==
  ASSUME IdInv, BrokerPlace PROVE IdInv'
<1> USE DEF market, book, broker
<1> DEFINE m == Head(commands)
           id == placed + 1
           ack == PlaceAck(id, m.side, m.price)
<1>1. /\ commands # <<>> /\ m.kind = "place" /\ placed < MaxOrders
      /\ live' = live \cup {[id |-> id, side |-> m.side]}
      /\ events' = Written(events, <<ack>>)
      /\ placed' = id /\ commands' = Tail(commands)
      /\ UNCHANGED <<tick, theo, our_orders, orderid_to_key, hot, stale>>
  BY DEF BrokerPlace, CommandAtHead
<1>2. m \in Command /\ commands' \in Seq(Command) /\ Len(commands') <= RingCap
  BY <1>1, CommandTaken DEF IdInv
<1>3. m.side \in Sides /\ m.price \in Nat /\ id \in Ids /\ placed \in Nat /\ MaxOrders \in Nat
  <2>1. m.side \in Sides /\ m.price \in Nat
    BY <1>1, <1>2 DEF Command
  <2>2. placed \in 0 .. MaxOrders /\ MaxOrders \in Nat
    BY TraderAssumption DEF IdInv, Types
  <2> QED
    BY <1>1, <2>1, <2>2 DEF Ids
<1>4. ack \in Event /\ ack.id = id /\ IsAck(ack)
  BY <1>3 DEF Event, PlaceAck, IsAck
<1> HIDE DEF ack, m
<1>5. /\ events' \in Seq(Event) /\ Len(events') <= RingCap /\ events' \in {events, Append(events, ack)}
      /\ ToSet(events') \subseteq ToSet(events) \cup {ack}
  BY <1>1, <1>4, WriteOne DEF IdInv, Types
<1>6. Types'
  <2>1. live' \subseteq Live
    BY <1>1, <1>3 DEF IdInv, Types, Live
  <2>2. placed' \in 0 .. MaxOrders
    BY <1>1, <1>3
  <2> QED
    BY <1>1, <1>2, <1>5, <2>1, <2>2 DEF IdInv, Types
<1>7. \A e \in ToSet(events) : e.id \in Nat /\ e.id # id /\ e.id <= id /\ e.id <= placed
  <2>1. \A e \in ToSet(events) : e \in Event
    BY DEF IdInv, Types, ToSet
  <2>2. \A e \in ToSet(events) : e.id \in Ids
    BY <2>1 DEF Event
  <2> QED
    BY <1>3, <2>2 DEF Ids, IdInv, OldIds
<1>8. \A i \in Ids : (i <= placed => i <= id) /\ (i > id => i > placed)
  BY <1>3 DEF Ids
<1>9. OldIds'
  <2>1. \A o \in live' : o.id <= id
    BY <1>1, <1>3, <1>8 DEF IdInv, OldIds, Types, Live
  <2>2. \A e \in ToSet(events') : e.id <= id
    BY <1>3, <1>4, <1>5, <1>7
  <2> QED
    BY <1>1, <1>8, <2>1, <2>2 DEF IdInv, OldIds
<1>10. AcksAreNew'
  <2>1. orderid_to_key[id] = "none" /\ ~Holds(our_orders, hot.todo, stale.todo, id)
    BY <1>3 DEF IdInv, OldIds
  <2> QED
    BY <1>1, <1>4, <1>5, <2>1 DEF IdInv, AcksAreNew
<1>11. AcksAreOnce(events)'
  <2>1. \A i \in 1 .. Len(events) : events[i] \in ToSet(events)
    BY DEF IdInv, Types, ToSet
  <2>2. AcksAreOnce(Append(events, ack))
    BY <1>4, <1>7, <2>1, OnceStays DEF IdInv, Types
  <2> QED
    BY <1>5, <2>2 DEF IdInv
<1>12. CancelsAreMapped' /\ IdsAreMapped'
  BY <1>1 DEF IdInv, CancelsAreMapped, IdsAreMapped
<1> QED
  BY <1>6, <1>9, <1>10, <1>11, <1>12 DEF IdInv

(* An order is refused, is cancelled or ends. *)
LEMMA BrokerEndsIds ==
  ASSUME IdInv, BrokerRefuses \/ BrokerCancel \/ \E o \in live : OrderEnds(o)
  PROVE  IdInv'
<1> USE DEF market, book, broker
<1>1. UNCHANGED <<tick, theo, our_orders, orderid_to_key, hot, stale, placed>>
  BY DEF BrokerRefuses, BrokerCancel, OrderEnds
<1>2. commands' \in Seq(Command) /\ Len(commands') <= RingCap
  <2>1. CASE BrokerRefuses \/ BrokerCancel
    BY <2>1, CommandTaken DEF BrokerRefuses, BrokerCancel, CommandAtHead, IdInv
  <2>2. CASE \E o \in live : OrderEnds(o)
    BY <2>2 DEF OrderEnds, IdInv, Types
  <2> QED
    BY <2>1, <2>2
<1>3. /\ live' \subseteq live
      /\ events' = events \/ \E o \in live : events' = Written(events, <<OrderAck(o.id)>>)
  <2>1. CASE BrokerRefuses
    BY <2>1 DEF BrokerRefuses
  <2>2. CASE BrokerCancel
    BY <2>2 DEF BrokerCancel
  <2>3. CASE \E o \in live : OrderEnds(o)
    BY <2>3 DEF OrderEnds
  <2> QED
    BY <2>1, <2>2, <2>3
<1>4. /\ events' \in Seq(Event) /\ Len(events') <= RingCap /\ AcksAreOnce(events)'
      /\ \A e \in ToSet(events') : e \in ToSet(events) \/ (~IsAck(e) /\ e.id <= placed)
  <2>1. CASE events' = events
    BY <2>1 DEF IdInv, Types
  <2>2. ASSUME NEW o \in live, events' = Written(events, <<OrderAck(o.id)>>)
        PROVE  /\ events' \in Seq(Event) /\ Len(events') <= RingCap /\ AcksAreOnce(events)'
               /\ \A e \in ToSet(events') : e \in ToSet(events) \/ (~IsAck(e) /\ e.id <= placed)
    <3> DEFINE a == OrderAck(o.id)
    <3>1. a \in Event /\ ~IsAck(a) /\ a.id <= placed
      BY DEF IdInv, Types, Live, OldIds, Event, OrderAck, IsAck
    <3> HIDE DEF a
    <3>2. /\ events' \in Seq(Event) /\ Len(events') <= RingCap /\ events' \in {events, Append(events, a)}
          /\ ToSet(events') \subseteq ToSet(events) \cup {a}
      BY <2>2, <3>1, WriteOne DEF IdInv, Types, a
    <3>3. AcksAreOnce(Append(events, a))
      BY <3>1, OnceStays DEF IdInv, Types
    <3>4. AcksAreOnce(events)'
      BY <3>2, <3>3 DEF IdInv
    <3> QED
      BY <3>1, <3>2, <3>4
  <2> QED
    BY <1>3, <2>1, <2>2
<1>5. Types'
  BY <1>1, <1>2, <1>3, <1>4 DEF IdInv, Types
<1>6. CancelsAreMapped' /\ IdsAreMapped'
  BY <1>1 DEF IdInv, CancelsAreMapped, IdsAreMapped
<1> QED
  BY <1>1, <1>3, <1>4, <1>5, <1>6, NothingNew

(* Every step keeps the ids in order. *)
LEMMA IdNext == IdInv /\ [Next]_vars => IdInv'
<1> SUFFICES ASSUME IdInv, [Next]_vars PROVE IdInv'
  OBVIOUS
<1>1. ASSUME NEW b \in Bids, NEW a \in Asks, NEW blocked \in Gates, OnTick([bid |-> b, ask |-> a], blocked)
      PROVE  IdInv'
  <2>1. [bid |-> b, ask |-> a] \in [bid : Nat, ask : Nat]
    BY TraderAssumption
  <2> DEFINE t == [bid |-> b, ask |-> a]
  <2> HIDE DEF t
  <2> QED
    BY <1>1, <2>1, OnTickIds DEF t
<1>2. CASE HotLoop
  BY <1>1, <1>2, SendIds, TrackIds, PlaceAckIds, OrderAckIds, QuietIds DEF HotLoop
<1>3. CASE \E older \in SUBSET Sides \ {{}} : TimePasses(older)
  BY <1>3, QuietIds
<1>4. CASE FindStale \/ CancelStale
  BY <1>4, FindStaleIds, CancelStaleIds
<1>5. CASE BrokerPlace \/ BrokerRefuses \/ BrokerCancel \/ \E o \in live : OrderEnds(o)
  BY <1>5, BrokerPlaceIds, BrokerEndsIds
<1>6. CASE UNCHANGED vars
  <2>1. Types'
    BY <1>6 DEF vars, market, book, broker, IdInv, Types
  <2>2. OldIds' /\ CancelsAreMapped' /\ AcksAreNew' /\ IdsAreMapped' /\ AcksAreOnce(events)'
    BY <1>6 DEF vars, market, book, broker, IdInv, OldIds, CancelsAreMapped, AcksAreNew, IdsAreMapped
  <2> QED
    BY <2>1, <2>2 DEF IdInv
<1> QED
  BY <1>2, <1>3, <1>4, <1>5, <1>6 DEF Next

(* Ids: invariant of the specification. *)
LEMMA IdInvariant == Spec => []IdInv
BY IdInit, IdNext, PTL DEF Spec

(* Every variable has its type; the rings keep to their size. *)
THEOREM TypeCorrect == Spec => []TypeOK
<1>1. IdInv => TypeOK
  BY DEF IdInv, Types, TypeOK, Order
<1> QED
  BY <1>1, IdInvariant, PTL

(* The trader finds every order that it may cancel from its id: under      *)
(* late acknowledgements, replacements in between and a staleness_check    *)
(* on another thread.                                                      *)
THEOREM OrdersAreFound == Spec => []IdsAreMapped
<1>1. IdInv => IdsAreMapped
  BY DEF IdInv
<1> QED
  BY <1>1, IdInvariant, PTL


-----------------------------------------------------------------------------
(* The edge *)

(* A decision keeps the edge to the theo and the book it was made with,    *)
(* and both stay until it is carried out.                                  *)
LEMMA EdgeNext == IdInv /\ QuoteKeepsEdge /\ [Next]_vars => QuoteKeepsEdge'
<1> SUFFICES ASSUME IdInv, QuoteKeepsEdge, [Next]_vars PROVE QuoteKeepsEdge'
  OBVIOUS
<1> USE DEF market, book, broker
<1>1. ASSUME hot'.todo = {} PROVE QuoteKeepsEdge'
  BY <1>1 DEF QuoteKeepsEdge
<1>2. ASSUME hot'.todo = hot.todo, UNCHANGED <<tick, theo>> PROVE QuoteKeepsEdge'
  BY <1>2 DEF QuoteKeepsEdge
<1>3. ASSUME NEW b \in Bids, NEW a \in Asks, NEW blocked \in Gates, OnTick([bid |-> b, ask |-> a], blocked)
      PROVE  QuoteKeepsEdge'
  <2> DEFINE t == [bid |-> b, ask |-> a]
             D == decide_on_tick(t, blocked)
  <2>1. t \in [bid : Nat, ask : Nat]
    BY TraderAssumption
  <2>2. tick' = t /\ theo' = theo /\ hot' \in {Idle, [pc |-> "send", todo |-> D]}
    BY <1>3 DEF OnTick
  <2> HIDE DEF t
  <2>3. \A d \in D : Edge(d, theo, t)
    BY <2>1, Decisions DEF IdInv
  <2> HIDE DEF D
  <2>4. hot'.todo \in {{}, D}
    BY <2>2 DEF Idle
  <2>5. \A d \in hot'.todo : Edge(d, theo', tick')
    BY <2>2, <2>3, <2>4
  <2> QED
    BY <2>5 DEF QuoteKeepsEdge, Edge
<1>4. CASE Send
  BY <1>2, <1>4 DEF Send, IdInv, Types
<1>5. CASE Track
  BY <1>1, <1>5 DEF Track, Idle
<1>6. CASE place_ack \/ order_ack
  BY <1>2, <1>6 DEF place_ack, order_ack
<1>7. CASE \E t \in Theos : vol_surface(t)
  BY <1>1, <1>7 DEF vol_surface, IdInv, Types
<1>8. CASE FindStale \/ CancelStale \/ \E older \in SUBSET Sides \ {{}} : TimePasses(older)
  BY <1>2, <1>8 DEF FindStale, CancelStale, TimePasses
<1>9. CASE BrokerPlace \/ BrokerRefuses \/ BrokerCancel \/ \E o \in live : OrderEnds(o)
  BY <1>2, <1>9 DEF BrokerPlace, BrokerRefuses, BrokerCancel, OrderEnds
<1>10. CASE UNCHANGED vars
  BY <1>2, <1>10 DEF vars
<1> QED
  BY <1>3, <1>4, <1>5, <1>6, <1>7, <1>8, <1>9, <1>10 DEF Next, HotLoop

(* No quote gives up more than half a tick of the edge, none goes through  *)
(* the other side's best price: for every theo, every book and every edge. *)
THEOREM QuotesKeepTheEdge == Spec => []QuoteKeepsEdge
<1>1. Init => QuoteKeepsEdge
  BY DEF Init, QuoteKeepsEdge, Idle
<1> QED
  BY <1>1, IdInvariant, EdgeNext, PTL DEF Spec

-----------------------------------------------------------------------------
(* Orphans: the actions *)

(* A step of the trader in which no order is lost, no event is new and no  *)
(* command is taken.                                                       *)
LEMMA StillSafe ==
  ASSUME IdInv, OrphanInv, live' = live, events' = events,
         ToSet(commands) \subseteq ToSet(commands'), excused \subseteq excused',
         \A o \in live : our_orders[o.side].id = o.id =>
           \/ our_orders'[o.side].id = o.id \/ o.id \in excused'
           \/ CancelOrder(o.id) \in ToSet(commands'),
         CancelsAreSent'
  PROVE  OrphanInv'
<1>1. EventsAreTrue'
  BY DEF OrphanInv, EventsAreTrue
<1>2. \A o \in live : Safe(o)'
  BY DEF OrphanInv, Safe
<1> QED
  BY <1>1, <1>2 DEF OrphanInv

(* A frame for an id is there, or was dropped and is excused. *)
LEMMA CancelWritten ==
  ASSUME NEW q \in Seq(Command), Len(q) <= RingCap, NEW fs \in Seq(Command), NEW i,
         CancelOrder(i) \in ToSet(fs)
  PROVE  CancelOrder(i) \in ToSet(Written(q, fs)) \/ i \in DroppedIds(q, fs, "cancel")
<1>1. CancelOrder(i) \in ToSet(Written(q, fs)) \/ CancelOrder(i) \in Dropped(q, fs)
  BY WriteFrames
<1>2. CancelOrder(i).kind = "cancel" /\ CancelOrder(i).id = i
  BY DEF CancelOrder
<1> QED
  BY <1>1, <1>2 DEF DroppedIds

LEMMA QuietOrphans ==
  ASSUME IdInv, OrphanInv,
         \/ \E t, blocked : OnTick(t, blocked)
         \/ \E t \in Theos : vol_surface(t)
         \/ \E older \in SUBSET Sides : TimePasses(older)
         \/ FindStale \/ UNCHANGED vars
  PROVE  OrphanInv'
<1> USE DEF market, book, broker
<1>1. UNCHANGED <<live, events, commands, excused>>
  BY DEF OnTick, vol_surface, TimePasses, FindStale, vars
<1>2. \A o \in live : our_orders'[o.side].id = our_orders[o.side].id
  <2>1. CASE our_orders' = our_orders
    BY <2>1
  <2>2. ASSUME NEW older \in SUBSET Sides, TimePasses(older), NEW o \in live
        PROVE  our_orders'[o.side].id = our_orders[o.side].id
    <3>1. o.side \in Sides
      BY DEF IdInv, Types, Live
    <3>2. our_orders'[o.side] \in {our_orders[o.side], [our_orders[o.side] EXCEPT !.age = @ + 1]}
      BY <2>2, <3>1 DEF TimePasses
    <3>3. our_orders[o.side] \in Order
      BY <3>1 DEF IdInv, Types
    <3>4. our_orders'[o.side] # our_orders[o.side] => o.side \in older
      BY <2>2, <3>1 DEF TimePasses
    <3>5. o.side \in older => our_orders[o.side] \in [price : Nat, age : 0 .. 3, id : 0 .. MaxOrders]
      BY <2>2, <3>3, OrderShape DEF TimePasses
    <3> QED
      BY <3>2, <3>4, <3>5
  <2> QED
    BY <2>1, <2>2 DEF OnTick, vol_surface, FindStale, vars
<1>3. hot'.pc = "track" => hot' = hot
  BY DEF OnTick, Idle, vol_surface, TimePasses, FindStale, vars
<1>4. CancelsAreSent'
  BY <1>1, <1>3 DEF OrphanInv, CancelsAreSent
<1> QED
  BY <1>1, <1>2, <1>4, StillSafe

(* The cancels are written before the orders are booked. *)
LEMMA SendOrphans ==
  ASSUME IdInv, OrphanInv, Send PROVE OrphanInv'
<1> USE DEF market, book, broker
<1> DEFINE frames == FramesFor("B") \o FramesFor("S")
<1>1. /\ hot' = [hot EXCEPT !.pc = "track"] /\ commands' = Written(commands, frames)
      /\ excused' = excused \cup DroppedIds(commands, frames, "cancel")
      /\ UNCHANGED <<our_orders, events, live>>
  BY DEF Send
<1>2. /\ frames \in Seq(Command)
      /\ \A d \in hot.todo : d.cancel # 0 => CancelOrder(d.cancel) \in ToSet(frames)
  BY DecisionFrames DEF IdInv
<1> HIDE DEF frames
<1>3. commands \in Seq(Command) /\ Len(commands) <= RingCap
  BY DEF IdInv, Types
<1>4. ToSet(commands) \subseteq ToSet(commands')
  BY <1>1, <1>2, <1>3, WriteFrames
<1>5. hot'.todo = hot.todo
  BY <1>1 DEF IdInv, Types
<1>6. CancelsAreSent'
  <2> SUFFICES ASSUME NEW d \in hot.todo, NEW o \in live, o.id = d.cancel
               PROVE  o.id \in excused' \/ CancelOrder(o.id) \in ToSet(commands')
    BY <1>1, <1>5 DEF CancelsAreSent
  <2>1. d.cancel # 0
    BY DEF IdInv, Types, Live, Ids
  <2> QED
    BY <1>1, <1>2, <1>3, <2>1, CancelWritten
<1> QED
  BY <1>1, <1>4, <1>6, StillSafe

(* What is replaced was cancelled, or is excused. *)
LEMMA TrackOrphans ==
  ASSUME IdInv, OrphanInv, Track PROVE OrphanInv'
<1> USE DEF market, book, broker
<1> DEFINE replaced == {d.side : d \in hot.todo}
           cancelled == {d.cancel : d \in hot.todo}
<1>1. /\ hot.pc = "track" /\ hot' = Idle
      /\ \A s \in Sides : s \notin replaced => our_orders'[s] = our_orders[s]
      /\ excused' = excused \cup ({our_orders[s].id : s \in replaced} \ cancelled)
      /\ UNCHANGED <<commands, events, live>>
  BY DEF Track
<1>2. CancelsAreSent'
  BY <1>1 DEF CancelsAreSent, Idle
<1>3. ASSUME NEW o \in live, our_orders[o.side].id = o.id
      PROVE  \/ our_orders'[o.side].id = o.id \/ o.id \in excused'
             \/ CancelOrder(o.id) \in ToSet(commands')
  <2>1. o.side \in Sides
    BY DEF IdInv, Types, Live
  <2>2. CASE o.side \notin replaced
    BY <1>1, <1>3, <2>1, <2>2
  <2>3. CASE o.side \in replaced /\ o.id \notin cancelled
    BY <1>1, <1>3, <2>3
  <2>4. CASE o.id \in cancelled
    BY <1>1, <2>4 DEF OrphanInv, CancelsAreSent
  <2> QED
    BY <2>2, <2>3, <2>4
<1> QED
  BY <1>1, <1>2, <1>3, StillSafe

(* What staleness_check removes it cancels, or is excused. *)
LEMMA CancelStaleOrphans ==
  ASSUME IdInv, OrphanInv, CancelStale PROVE OrphanInv'
<1> USE DEF market, book, broker
<1> DEFINE frames == SetToSeq({CancelOrder(c.id) : c \in stale.todo})
           ids == {c.id : c \in stale.todo}
           gone == {c.side : c \in stale.todo}
<1>1. /\ commands' = Written(commands, frames)
      /\ \A s \in Sides : s \notin gone => our_orders'[s] = our_orders[s]
      /\ excused' = excused \cup DroppedIds(commands, frames, "cancel")
                            \cup ({our_orders[s].id : s \in gone} \ ids)
      /\ UNCHANGED <<hot, events, live>>
  BY DEF CancelStale
<1>2. frames \in Seq(Command) /\ \A c \in stale.todo : CancelOrder(c.id) \in ToSet(frames)
  BY StaleFrames DEF IdInv
<1> HIDE DEF frames
<1>3. commands \in Seq(Command) /\ Len(commands) <= RingCap
  BY DEF IdInv, Types
<1>4. ToSet(commands) \subseteq ToSet(commands')
  BY <1>1, <1>2, <1>3, WriteFrames
<1>5. CancelsAreSent'
  BY <1>1, <1>4 DEF OrphanInv, CancelsAreSent
<1>6. ASSUME NEW o \in live, our_orders[o.side].id = o.id
      PROVE  \/ our_orders'[o.side].id = o.id \/ o.id \in excused'
             \/ CancelOrder(o.id) \in ToSet(commands')
  <2>1. o.side \in Sides
    BY DEF IdInv, Types, Live
  <2>2. CASE o.side \notin gone
    BY <1>1, <1>6, <2>1, <2>2
  <2>3. CASE o.side \in gone /\ o.id \notin ids
    BY <1>1, <1>6, <2>3
  <2>4. CASE o.id \in ids
    BY <1>1, <1>2, <1>3, <2>4, CancelWritten
  <2> QED
    BY <2>2, <2>3, <2>4
<1> QED
  BY <1>1, <1>4, <1>5, <1>6, StillSafe


(* An acknowledgement that is processed gives its order its entry; the     *)
(* entry's former order is excused.                                        *)
LEMMA PlaceAckOrphans ==
  ASSUME IdInv, OrphanInv, place_ack PROVE OrphanInv'
<1> USE DEF market, book, broker
<1> DEFINE m == Head(events)
           ex == our_orders[m.side]
           new == IF ex = None THEN [price |-> m.price, age |-> 0, id |-> m.id]
                  ELSE [ex EXCEPT !.id = m.id]
<1>1. /\ events # <<>> /\ events' = Tail(events) /\ m.kind = "place_ack" /\ hot.pc = "idle"
      /\ our_orders' = [our_orders EXCEPT ![m.side] = new]
      /\ excused' = excused \cup {ex.id}
      /\ UNCHANGED <<hot, commands, live>>
  BY DEF place_ack, EventAtHead
<1>2. /\ events \in Seq(Event) /\ our_orders \in [Sides -> Order]
      /\ \A o \in live : o.side \in Sides
  BY DEF IdInv, Types, Live
<1>3. /\ m \in Event /\ m \in ToSet(events) /\ ToSet(events') \subseteq ToSet(events)
      /\ ToSet(events) \subseteq ToSet(events') \cup {m}
  BY <1>1, <1>2, PopFront
<1>4. m.side \in Sides
  BY <1>1, <1>3 DEF Event
<1>5. new.id = m.id
  <2>1. ex \in Order
    BY <1>2, <1>4
  <2>2. CASE ex = None
    BY <2>2
  <2>3. CASE ex # None
    BY <2>1, <2>3, OrderShape
  <2> QED
    BY <2>2, <2>3
<1> HIDE DEF m, new
<1>6. /\ our_orders'[m.side].id = m.id
      /\ \A s \in Sides : s # m.side => our_orders'[s] = our_orders[s]
  BY <1>1, <1>2, <1>4, <1>5
<1>7. EventsAreTrue' /\ CancelsAreSent'
  BY <1>1, <1>3 DEF OrphanInv, EventsAreTrue, CancelsAreSent
<1>8. ASSUME NEW o \in live PROVE Safe(o)'
  <2>1. CASE o.id \in excused \/ CancelOrder(o.id) \in ToSet(commands)
    BY <1>1, <2>1 DEF Safe
  <2>2. CASE our_orders[o.side].id = o.id
    BY <1>1, <1>2, <1>6, <2>2 DEF Safe
  <2>3. ASSUME NEW e \in ToSet(events), IsAck(e), e.id = o.id PROVE Safe(o)'
    <3>1. e = m => o.side = m.side
      BY <2>3 DEF OrphanInv, EventsAreTrue
    <3>2. CASE e = m
      BY <1>6, <2>3, <3>1, <3>2 DEF Safe
    <3>3. CASE e # m
      BY <1>3, <2>3, <3>3 DEF Safe
    <3> QED
      BY <3>2, <3>3
  <2> QED
    BY <2>1, <2>2, <2>3 DEF OrphanInv, Safe
<1> QED
  BY <1>1, <1>7, <1>8 DEF OrphanInv

(* The end of an order: it rests no more, and the order whose entry goes   *)
(* in its name is excused.                                                 *)
LEMMA OrderAckOrphans ==
  ASSUME IdInv, OrphanInv, order_ack PROVE OrphanInv'
<1> USE DEF market, book, broker
<1> DEFINE m == Head(events)
           side == orderid_to_key[m.id]
<1>1. /\ events # <<>> /\ events' = Tail(events) /\ m.kind = "order_ack"
      /\ side = "none" => UNCHANGED <<our_orders, excused>>
      /\ side # "none" => /\ our_orders' = [our_orders EXCEPT ![side] = None]
                          /\ excused' = excused \cup ({our_orders[side].id} \ {m.id})
      /\ UNCHANGED <<hot, commands, live>>
  BY DEF order_ack, EventAtHead
<1>2. /\ events \in Seq(Event) /\ our_orders \in [Sides -> Order]
      /\ \A o \in live : o.side \in Sides
  BY DEF IdInv, Types, Live
<1>3. /\ m \in ToSet(events) /\ ToSet(events') \subseteq ToSet(events)
      /\ ToSet(events) \subseteq ToSet(events') \cup {m}
  BY <1>1, <1>2, PopFront
<1> HIDE DEF m, side
<1>4. ~IsAck(m) /\ excused \subseteq excused'
  BY <1>1 DEF IsAck
<1>5. \A o \in live : o.id # m.id
  BY <1>3, <1>4 DEF OrphanInv, EventsAreTrue
<1>6. EventsAreTrue'
  BY <1>1, <1>3 DEF OrphanInv, EventsAreTrue
<1>7. CancelsAreSent'
  BY <1>1, <1>4 DEF OrphanInv, CancelsAreSent
<1>8. ASSUME NEW o \in live PROVE Safe(o)'
  <2>1. CASE o.id \in excused \/ CancelOrder(o.id) \in ToSet(commands)
    BY <1>1, <1>4, <2>1 DEF Safe
  <2>2. CASE our_orders[o.side].id = o.id
    <3>1. CASE side = o.side /\ side # "none"
      BY <1>1, <1>5, <2>2, <3>1 DEF Safe
    <3>2. CASE ~(side = o.side /\ side # "none")
      <4>1. our_orders'[o.side] = our_orders[o.side]
        BY <1>1, <1>2, <3>2
      <4> QED
        BY <2>2, <4>1 DEF Safe
    <3> QED
      BY <3>1, <3>2
  <2>3. CASE \E e \in ToSet(events) : IsAck(e) /\ e.id = o.id
    BY <1>3, <1>4, <2>3 DEF Safe
  <2> QED
    BY <2>1, <2>2, <2>3 DEF OrphanInv, Safe
<1> QED
  BY <1>1, <1>6, <1>7, <1>8 DEF OrphanInv

(* A new order is acknowledged, or the acknowledgement was dropped. *)
LEMMA BrokerPlaceOrphans ==
  ASSUME IdInv, OrphanInv, BrokerPlace PROVE OrphanInv'
<1> USE DEF market, book, broker
<1> DEFINE m == Head(commands)
           id == placed + 1
           ack == PlaceAck(id, m.side, m.price)
           new == [id |-> id, side |-> m.side]
<1>1. /\ commands # <<>> /\ m.kind = "place" /\ placed < MaxOrders
      /\ live' = live \cup {new}
      /\ events' = Written(events, <<ack>>)
      /\ excused' = excused \cup DroppedIds(events, <<ack>>, "place_ack")
      /\ commands' = Tail(commands)
      /\ UNCHANGED <<our_orders, hot>>
  BY DEF BrokerPlace, CommandAtHead
<1>2. /\ m \in Command /\ ToSet(commands) \subseteq ToSet(commands') \cup {m}
  BY <1>1, CommandTaken DEF IdInv
<1>3. m.side \in Sides /\ m.price \in Nat
  BY <1>1, <1>2 DEF Command
<1>4. id \in Ids /\ placed \in Nat
  <2>1. placed \in 0 .. MaxOrders /\ MaxOrders \in Nat
    BY TraderAssumption DEF IdInv, Types
  <2> QED
    BY <1>1, <2>1 DEF Ids
<1>5. ack \in Event /\ ack.id = id /\ ack.side = m.side /\ IsAck(ack) /\ new.id = id /\ new.side = m.side
  BY <1>3, <1>4 DEF Event, PlaceAck, IsAck
<1> HIDE DEF ack, m, new
<1>6. /\ ToSet(events) \subseteq ToSet(events') /\ ToSet(events') \subseteq ToSet(events) \cup {ack}
      /\ ack \in ToSet(events') \cup Dropped(events, <<ack>>)
  BY <1>1, <1>5, WriteOne DEF IdInv, Types
<1>7. (\A e \in ToSet(events) : e.id # id) /\ (\A o \in live : o.id # id)
  BY <1>4 DEF IdInv, OldIds
<1>8. EventsAreTrue'
  <2>1. \A o, p \in live' : o.id = p.id => o = p
    BY <1>1, <1>5, <1>7 DEF OrphanInv, EventsAreTrue
  <2>2. \A o \in live' : \A e \in ToSet(events') : e.id = o.id => IsAck(e) /\ e.side = o.side
    BY <1>1, <1>5, <1>6, <1>7 DEF OrphanInv, EventsAreTrue
  <2> QED
    BY <2>1, <2>2 DEF EventsAreTrue
<1>9. \A i : CancelOrder(i) # m
  <2>1. m.kind = "place" /\ \A i : CancelOrder(i).kind = "cancel"
    BY <1>1 DEF CancelOrder
  <2> QED
    BY <2>1
<1>10. CancelsAreSent'
  <2>1. \A d \in hot.todo : d.cancel # id
    BY <1>4 DEF IdInv, OldIds, Holds
  <2> QED
    BY <1>1, <1>2, <1>5, <1>9, <2>1 DEF OrphanInv, CancelsAreSent
<1>11. ASSUME NEW o \in live PROVE Safe(o)'
  BY <1>1, <1>2, <1>6, <1>9 DEF OrphanInv, Safe
<1>12. ASSUME NEW o, o = new PROVE Safe(o)'
  <2>1. CASE ack \in ToSet(events')
    BY <1>5, <1>12, <2>1 DEF Safe
  <2>2. CASE ack \in Dropped(events, <<ack>>)
    <3>1. id \in DroppedIds(events, <<ack>>, "place_ack")
      BY <1>5, <2>2 DEF DroppedIds, IsAck
    <3> QED
      BY <1>1, <1>5, <1>12, <3>1 DEF Safe
  <2> QED
    BY <1>6, <2>1, <2>2
<1>13. ASSUME NEW o \in live' PROVE Safe(o)'
  BY <1>1, <1>11, <1>12
<1> QED
  BY <1>8, <1>10, <1>13 DEF OrphanInv

(* The command that is refused is no cancel; the order that is cancelled   *)
(* or ends rests no more.                                                  *)
LEMMA BrokerEndsOrphans ==
  ASSUME IdInv, OrphanInv, BrokerRefuses \/ BrokerCancel \/ \E o \in live : OrderEnds(o)
  PROVE  OrphanInv'
<1> USE DEF market, book, broker
<1>1. UNCHANGED <<our_orders, hot, excused>> /\ live' \subseteq live
  BY DEF BrokerRefuses, BrokerCancel, OrderEnds
<1>2. /\ ToSet(events) \subseteq ToSet(events')
      /\ \A e \in ToSet(events') : e \in ToSet(events) \/ \A o \in live' : o.id # e.id
  <2>1. CASE events' = events
    BY <2>1
  <2>2. ASSUME NEW o \in live, events' = Written(events, <<OrderAck(o.id)>>),
               \A p \in live' : p.id # o.id
        PROVE  /\ ToSet(events) \subseteq ToSet(events')
               /\ \A e \in ToSet(events') : e \in ToSet(events) \/ \A p \in live' : p.id # e.id
    <3> DEFINE a == OrderAck(o.id)
    <3>1. a \in Event /\ a.id = o.id
      BY DEF IdInv, Types, Live, Event, OrderAck
    <3>2. events' = Written(events, <<a>>) /\ events \in Seq(Event) /\ Len(events) <= RingCap
      BY <2>2 DEF IdInv, Types
    <3> HIDE DEF a
    <3>3. ToSet(events) \subseteq ToSet(events') /\ ToSet(events') \subseteq ToSet(events) \cup {a}
      BY <3>1, <3>2, WriteOne
    <3> QED
      BY <2>2, <3>1, <3>3
  <2>3. CASE BrokerRefuses
    BY <2>1, <2>3 DEF BrokerRefuses
  <2>4. CASE BrokerCancel
    <3> DEFINE id == Head(commands).id
               cancelled == {o \in live : o.id = id}
    <3>1. CASE cancelled = {}
      BY <2>1, <2>4, <3>1 DEF BrokerCancel
    <3>2. CASE cancelled # {}
      <4>1. PICK o \in live : o.id = id
        BY <3>2
      <4>2. events' = Written(events, <<OrderAck(o.id)>>) /\ live' = live \ cancelled
        BY <2>4, <3>2, <4>1 DEF BrokerCancel
      <4>3. \A p \in live' : p.id # o.id
        BY <4>1, <4>2
      <4> QED
        BY <2>2, <4>2, <4>3
    <3> QED
      BY <3>1, <3>2
  <2>5. ASSUME NEW o \in live, OrderEnds(o)
        PROVE  /\ ToSet(events) \subseteq ToSet(events')
               /\ \A e \in ToSet(events') : e \in ToSet(events) \/ \A p \in live' : p.id # e.id
    <3>1. \A p \in live' : p.id # o.id
      BY <2>5 DEF OrderEnds, OrphanInv, EventsAreTrue
    <3> QED
      BY <2>2, <2>5, <3>1 DEF OrderEnds
  <2> QED
    BY <2>3, <2>4, <2>5
<1>3. \A o \in live' : CancelOrder(o.id) \in ToSet(commands) => CancelOrder(o.id) \in ToSet(commands')
  <2>1. CASE BrokerRefuses
    <3>1. \A i : CancelOrder(i) # Head(commands)
      <4>1. Head(commands).kind = "place" /\ \A i : CancelOrder(i).kind = "cancel"
        BY <2>1 DEF BrokerRefuses, CommandAtHead, CancelOrder
      <4> QED
        BY <4>1
    <3>2. ToSet(commands) \subseteq ToSet(commands') \cup {Head(commands)}
      BY <2>1, CommandTaken DEF BrokerRefuses, CommandAtHead, IdInv
    <3> QED
      BY <3>1, <3>2
  <2>2. CASE BrokerCancel
    <3>1. \A o \in live' : o.id # Head(commands).id
      BY <2>2 DEF BrokerCancel
    <3>2. ToSet(commands) \subseteq ToSet(commands') \cup {Head(commands)}
      BY <2>2, CommandTaken DEF BrokerCancel, CommandAtHead, IdInv
    <3>3. \A i : CancelOrder(i).id = i
      BY DEF CancelOrder
    <3> QED
      BY <3>1, <3>2, <3>3
  <2>3. CASE \E o \in live : OrderEnds(o)
    BY <2>3 DEF OrderEnds
  <2> QED
    BY <2>1, <2>2, <2>3
<1>4. EventsAreTrue'
  BY <1>1, <1>2 DEF OrphanInv, EventsAreTrue
<1>5. CancelsAreSent'
  BY <1>1, <1>3 DEF OrphanInv, CancelsAreSent
<1>6. \A o \in live' : Safe(o)'
  BY <1>1, <1>2, <1>3 DEF OrphanInv, Safe
<1> QED
  BY <1>4, <1>5, <1>6 DEF OrphanInv

(* No step loses an order. *)
LEMMA OrphanNext == IdInv /\ OrphanInv /\ [Next]_vars => OrphanInv'
<1> SUFFICES ASSUME IdInv, OrphanInv, [Next]_vars PROVE OrphanInv'
  OBVIOUS
<1>1. CASE HotLoop
  BY <1>1, QuietOrphans, SendOrphans, TrackOrphans, PlaceAckOrphans, OrderAckOrphans DEF HotLoop
<1>2. CASE (\E older \in SUBSET Sides \ {{}} : TimePasses(older)) \/ FindStale \/ UNCHANGED vars
  BY <1>2, QuietOrphans
<1>3. CASE CancelStale
  BY <1>3, CancelStaleOrphans
<1>4. CASE BrokerPlace \/ BrokerRefuses \/ BrokerCancel \/ \E o \in live : OrderEnds(o)
  BY <1>4, BrokerPlaceOrphans, BrokerEndsOrphans
<1> QED
  BY <1>1, <1>2, <1>3, <1>4 DEF Next

(* The trader loses no order that rests at the broker, but for the causes  *)
(* that `excused` names: whatever the sizes of the rings, and however the  *)
(* hot loop, staleness_check and the broker take turns.                    *)
THEOREM NoOrderIsLost == Spec => []NoOrphans
<1>1. Init => OrphanInv
  BY DEF Init, OrphanInv, EventsAreTrue, CancelsAreSent, Idle
<1>2. IdInv /\ OrphanInv => NoOrphans
  <2> SUFFICES ASSUME IdInv, OrphanInv, NEW o \in live
               PROVE  \/ o.id \in excused
                      \/ our_orders[o.side].id = o.id
                      \/ \E i \in 1 .. Len(commands) : commands[i] = CancelOrder(o.id)
                      \/ \E i \in 1 .. Len(events) : events[i].kind = "place_ack" /\ events[i].id = o.id
    BY DEF NoOrphans
  <2>1. /\ \A f \in ToSet(commands) : \E i \in 1 .. Len(commands) : commands[i] = f
        /\ \A e \in ToSet(events) : \E i \in 1 .. Len(events) : events[i] = e
    BY DEF IdInv, Types, ToSet
  <2>2. Safe(o)
    BY DEF OrphanInv
  <2> QED
    BY <2>1, <2>2 DEF Safe, IsAck
<1> QED
  BY <1>1, <1>2, IdInvariant, OrphanNext, PTL DEF Spec
=============================================================================
