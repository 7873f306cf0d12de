---------------------------- MODULE TraderQuotes ----------------------------
(***************************************************************************)
(* The trader's quotes in one option: the decision on a tick, the order    *)
(* bookkeeping of process_event and on_tick (the hot loop, one thread) and *)
(* staleness_check (a task on another thread), which share TraderState and *)
(* write to the commands ring.                                             *)
(*                                                                         *)
(* The other end is external: the broker process whose messages            *)
(* messages.rs names acknowledges a placement with place_ack and reports   *)
(* the end of an order with order_ack.                                     *)
(*                                                                         *)
(* Order prices and quotes are in ticks; theo and targets in quarters of a *)
(* tick, so that rounding to the tick happens.  The age of an order is     *)
(* counted in the classes the code tells apart: 0 inside the cooldown, 1   *)
(* past it, 2 due for a GTD refresh, 3 with at most CANCEL_THRESHOLD_S     *)
(* left.                                                                   *)
(***************************************************************************)
EXTENDS Integers, Sequences, SequencesExt, FiniteSets

CONSTANTS Bids, Asks,      \* best prices of the option, 0 for none or no size
          Theos,           \* what compute_theo returns, in quarter ticks
          MinEdgeTicks, DeltaCeiling, DeltaKill,   \* limits, from hello
          Deltas,          \* magnitudes of the effective delta
          RingCap,         \* frames that a ring holds
          MaxOrders        \* bound: orders placed

ASSUME TraderAssumption ==
  /\ Bids \subseteq Nat /\ Asks \subseteq Nat /\ Theos \subseteq Nat \ {0}
  /\ MinEdgeTicks \in Nat /\ DeltaCeiling \in Nat /\ DeltaKill \in Nat
  /\ Deltas \subseteq Nat
  /\ RingCap \in Nat \ {0} /\ MaxOrders \in Nat

Sides == {"B", "S"}
Ids == 1 .. MaxOrders

VARIABLES tick,           \* options: the latest quote of the option
          theo,           \* from vol_surfaces; 0 without a surface
          our_orders,     \* per side; id 0 until place_ack
          orderid_to_key,
          hot,            \* where on_tick stands, with its decisions
          stale,          \* where staleness_check stands, with its cancels
          commands, events,   \* the rings
          live,           \* broker: orders that rest
          placed,         \* broker: orders accepted so far
          excused         \* history: orders lost track of for a known cause

market == <<tick, theo>>
book == <<our_orders, orderid_to_key>>
broker == <<live, placed>>
vars == <<market, book, hot, stale, commands, events, broker, excused>>

None == [price |-> -1, age |-> 0, id |-> 0]
Idle == [pc |-> "idle", todo |-> {}]
CancelOrder(id) == [kind |-> "cancel", id |-> id, side |-> "", price |-> 0]
PlaceOrder(side, price) == [kind |-> "place", id |-> 0, side |-> side, price |-> price]
PlaceAck(id, side, price) == [kind |-> "place_ack", id |-> id, side |-> side, price |-> price]
OrderAck(id) == [kind |-> "order_ack", id |-> id, side |-> "", price |-> 0]

Abs(x) == IF x < 0 THEN -x ELSE x

WrittenUnbounded(ring, frames) == ring \o frames

(* write_frame for each frame in turn: what finds no room is dropped, and  *)
(* neither the trader nor the broker looks at the result.                  *)
Written(ring, frames) == SubSeq(ring \o frames, 1,
                           IF Len(ring \o frames) > RingCap THEN RingCap ELSE Len(ring \o frames))
Dropped(ring, frames) == ToSet(SubSeq(ring \o frames, RingCap + 1, Len(ring \o frames)))
DroppedIds(ring, frames, kind) == {f.id : f \in {g \in Dropped(ring, frames) : g.kind = kind}}

-----------------------------------------------------------------------------
(* decide_on_tick *)

(* The sides that the last risk_state blocks.  The gate for all of them is *)
(* closed also when no risk_state came for RISK_STATE_STALE_S.             *)
compute_risk_gates(eff, margin_breached) ==
  IF Abs(eff) >= DeltaKill - 1 \/ margin_breached THEN Sides
  ELSE   (IF eff + 1 >= DeltaCeiling THEN {"B"} ELSE {})
    \cup (IF eff - 1 <= -DeltaCeiling THEN {"S"} ELSE {})

(* The early returns before the prices are looked at -- no forward, a      *)
(* kill, the weekend, a strike off ATM or in the money, a stale risk       *)
(* state, an expiry past, a forward that drifted from the surface's --     *)
(* block both sides.  The messages that open and close these gates come at *)
(* will and touch nothing else, so that their state is chosen when it is   *)
(* used.                                                                   *)
Halts == {Sides}

\* What the last risk_state makes of the effective delta and the margin.
RiskGates == {compute_risk_gates(eff, m) :
                eff \in Deltas \cup {-d : d \in Deltas}, m \in BOOLEAN}

Gates == Halts \cup RiskGates

(* One side has no price, or no size behind it: a size of 0 counts as no   *)
(* price, as both guards treat the two alike.                              *)
Dark(t) == t.bid = 0 \/ t.ask = 0

Naive(side) == IF side = "B" THEN theo - 4 * MinEdgeTicks ELSE theo + 4 * MinEdgeTicks

(* The jump ahead of the incumbent, if it keeps the edge. *)
Target(side, t) ==
  LET jumped == IF side = "B" THEN 4 * (t.bid + 1) ELSE 4 * (t.ask - 1)
  IN IF side = "B"
     THEN IF Naive(side) < jumped /\ theo - jumped >= 4 * MinEdgeTicks
          THEN jumped ELSE Naive(side)
     ELSE IF Naive(side) > jumped /\ jumped - theo >= 4 * MinEdgeTicks
          THEN jumped ELSE Naive(side)

WouldCross(side, t) == IF side = "B" THEN Target(side, t) >= 4 * t.ask
                                     ELSE Target(side, t) <= 4 * t.bid

QuantizedInwards(side, t) == IF side = "B" THEN Target(side, t) \div 4 + 1 ELSE Target(side, t) \div 4

(* Rounded to the nearest tick, after the test for crossing. *)
Quantized(side, t) == (Target(side, t) + 2) \div 4

(* Dead band, GTD refresh and cooldown. *)
KeepsExisting(side, price) ==
  LET ex == our_orders[side]
  IN ex # None /\ (ex.age = 0 \/ (ex.price = price /\ ex.age < 2))

(* cancel_old_oid, 0 for None: not when the order has no id yet, and not   *)
(* when it is about to expire.                                             *)
CancelOld(side) == IF our_orders[side].age < 3 THEN our_orders[side].id ELSE 0

Quoted(side, t, blocked) ==
  /\ Naive(side) > 0
  /\ ~WouldCross(side, t)
  /\ side \notin blocked
  /\ ~KeepsExisting(side, Quantized(side, t))

decide_on_tick(t, blocked) ==
  IF theo = 0 \/ Dark(t) THEN {}
  ELSE {[side |-> side, price |-> Quantized(side, t), cancel |-> CancelOld(side)] :
          side \in {s \in Sides : Quoted(s, t, blocked)}}

-----------------------------------------------------------------------------
(* on_tick: decide under the state lock, write the frames, then book the   *)
(* orders under the state lock again.                                      *)

(* The bound: no further quotes once MaxOrders are placed or on their way. *)
BoundReached == placed + Len(SelectSeq(commands, LAMBDA f : f.kind = "place")) >= MaxOrders

OnTick(t, blocked) ==
  /\ hot.pc = "idle"
  /\ tick' = t
  /\ hot' = IF decide_on_tick(t, blocked) = {} \/ BoundReached THEN Idle
            ELSE [pc |-> "send", todo |-> decide_on_tick(t, blocked)]
  /\ UNCHANGED <<theo, book, stale, commands, events, broker, excused>>

FramesWithoutCancel(side) ==
  LET mine == {d \in hot.todo : d.side = side}
  IN IF mine = {} THEN <<>> ELSE <<PlaceOrder(side, (CHOOSE d \in mine : TRUE).price)>>

FramesFor(side) ==
  LET mine == {d \in hot.todo : d.side = side}
      d == CHOOSE d \in mine : TRUE
  IN IF mine = {} THEN <<>>
     ELSE (IF d.cancel # 0 THEN <<CancelOrder(d.cancel)>> ELSE <<>>)
            \o <<PlaceOrder(side, d.price)>>

Send ==
  LET frames == FramesFor("B") \o FramesFor("S")
  IN /\ hot.pc = "send"
     /\ hot' = [hot EXCEPT !.pc = "track"]
     /\ commands' = Written(commands, frames)
     /\ excused' = excused \cup DroppedIds(commands, frames, "cancel")
     /\ UNCHANGED <<market, book, stale, events, broker>>

(* An order that is replaced without a cancel, because it is about to      *)
(* expire, is lost track of.                                               *)
Track ==
  LET replaced == {d.side : d \in hot.todo}
      cancelled == {d.cancel : d \in hot.todo}
  IN /\ hot.pc = "track"
     /\ our_orders' = [s \in Sides |->
          IF s \in replaced
          THEN [price |-> (CHOOSE d \in hot.todo : d.side = s).price, age |-> 0, id |-> 0]
          ELSE our_orders[s]]
     /\ orderid_to_key' = [i \in Ids |-> IF i \in cancelled THEN "none" ELSE orderid_to_key[i]]
     /\ excused' = excused \cup ({our_orders[s].id : s \in replaced} \ cancelled)
     /\ hot' = Idle
     /\ UNCHANGED <<market, stale, commands, events, broker>>

-----------------------------------------------------------------------------
(* process_event: acknowledgements *)

EventAtHead(kind) == hot.pc = "idle" /\ events # <<>> /\ Head(events).kind = kind

PlaceAckUnmapped ==
  /\ EventAtHead("place_ack")
  /\ LET m == Head(events) ex == our_orders[m.side]
     IN /\ our_orders' = [our_orders EXCEPT ![m.side] =
             IF ex = None THEN [price |-> m.price, age |-> 0, id |-> m.id]
             ELSE [ex EXCEPT !.id = m.id]]
        /\ excused' = excused \cup {ex.id}
  /\ events' = Tail(events)
  /\ UNCHANGED <<market, orderid_to_key, hot, stale, commands, broker>>

(* The acknowledgement of an order that was replaced before it came gives  *)
(* its id to the entry of the replacement, until that one's own comes.     *)
place_ack ==
  /\ EventAtHead("place_ack")
  /\ LET m == Head(events) ex == our_orders[m.side]
     IN /\ our_orders' = [our_orders EXCEPT ![m.side] =
             IF ex = None THEN [price |-> m.price, age |-> 0, id |-> m.id]
             ELSE [ex EXCEPT !.id = m.id]]
        /\ orderid_to_key' = [orderid_to_key EXCEPT ![m.id] = m.side]
        /\ excused' = excused \cup {ex.id}
  /\ events' = Tail(events)
  /\ UNCHANGED <<market, hot, stale, commands, broker>>

(* A terminal status; others change nothing.  The entry that goes may      *)
(* belong to the order that replaced this one.                             *)
order_ack ==
  /\ EventAtHead("order_ack")
  /\ LET id == Head(events).id side == orderid_to_key[id]
     IN IF side = "none" THEN UNCHANGED <<book, excused>>
        ELSE /\ orderid_to_key' = [orderid_to_key EXCEPT ![id] = "none"]
             /\ our_orders' = [our_orders EXCEPT ![side] = None]
             /\ excused' = excused \cup ({our_orders[side].id} \ {id})
  /\ events' = Tail(events)
  /\ UNCHANGED <<market, hot, stale, commands, broker>>

-----------------------------------------------------------------------------
(* process_event: a new surface, and time *)

vol_surface(t) ==
  /\ hot.pc = "idle" /\ theo' = t
  /\ UNCHANGED <<tick, book, hot, stale, commands, events, broker, excused>>

(* Orders grow older; the classes are of different lengths, so that one    *)
(* may come into the next while the other does not.                        *)
TimePasses(older) ==
  /\ \A s \in older : our_orders[s] # None /\ our_orders[s].age < 3
  /\ our_orders' = [s \in Sides |-> IF s \in older THEN [our_orders[s] EXCEPT !.age = @ + 1]
                                    ELSE our_orders[s]]
  /\ UNCHANGED <<market, orderid_to_key, hot, stale, commands, events, broker, excused>>

-----------------------------------------------------------------------------
(* staleness_check: orders with an id and a theo to compare with, more     *)
(* than a tick to the bad of it or in a dark book.                         *)

IsStale(s) ==
  /\ our_orders[s].id # 0 /\ theo # 0
  /\ \/ s = "B" /\ 4 * our_orders[s].price - theo > 4
     \/ s = "S" /\ theo - 4 * our_orders[s].price > 4
     \/ Dark(tick)

FindStale ==
  /\ stale.pc = "idle"
  /\ \E s \in Sides : IsStale(s)
  /\ stale' = [pc |-> "cancel",
               todo |-> {[side |-> s, id |-> our_orders[s].id] : s \in {x \in Sides : IsStale(x)}}]
  /\ UNCHANGED <<market, book, hot, commands, events, broker, excused>>

(* Under the state lock again, which the hot loop may have had in between. *)
CancelStale ==
  LET frames == SetToSeq({CancelOrder(c.id) : c \in stale.todo})
      ids == {c.id : c \in stale.todo}
      gone == {c.side : c \in stale.todo}
  IN /\ stale.pc = "cancel"
     /\ commands' = Written(commands, frames)
     /\ our_orders' = [s \in Sides |-> IF s \in gone THEN None ELSE our_orders[s]]
     /\ orderid_to_key' = [i \in Ids |-> IF i \in ids THEN "none" ELSE orderid_to_key[i]]
     /\ excused' = excused \cup DroppedIds(commands, frames, "cancel")
                            \cup ({our_orders[s].id : s \in gone} \ ids)
     /\ stale' = Idle
     /\ UNCHANGED <<market, hot, events, broker>>

-----------------------------------------------------------------------------
(* The broker process (external) *)

CommandAtHead(kind) == commands # <<>> /\ Head(commands).kind = kind

BrokerPlace ==
  /\ CommandAtHead("place")
  /\ placed < MaxOrders
  /\ LET m == Head(commands) ack == <<PlaceAck(placed + 1, m.side, m.price)>>
     IN /\ live' = live \cup {[id |-> placed + 1, side |-> m.side]}
        /\ events' = Written(events, ack)
        /\ excused' = excused \cup DroppedIds(events, ack, "place_ack")
  /\ placed' = placed + 1
  /\ commands' = Tail(commands)
  /\ UNCHANGED <<market, book, hot, stale>>

BrokerRefuses ==
  /\ CommandAtHead("place")
  /\ commands' = Tail(commands)
  /\ UNCHANGED <<market, book, hot, stale, events, broker, excused>>

BrokerCancel ==
  /\ CommandAtHead("cancel")
  /\ LET cancelled == {o \in live : o.id = Head(commands).id}
     IN IF cancelled = {} THEN UNCHANGED <<live, events>>
        ELSE /\ live' = live \ cancelled
             /\ events' = Written(events, <<OrderAck(Head(commands).id)>>)
  /\ commands' = Tail(commands)
  /\ UNCHANGED <<market, book, hot, stale, placed, excused>>

(* Filled, expired. *)
OrderEnds(o) ==
  /\ live' = live \ {o}
  /\ events' = Written(events, <<OrderAck(o.id)>>)
  /\ UNCHANGED <<market, book, hot, stale, commands, placed, excused>>

-----------------------------------------------------------------------------
NoTick == [bid |-> 0, ask |-> 0]

(* TraderState::new: no forward, no surface, no risk state. *)
Init ==
  /\ tick = NoTick /\ theo = 0
  /\ our_orders = [s \in Sides |-> None]
  /\ orderid_to_key = [i \in Ids |-> "none"]
  /\ hot = Idle /\ stale = Idle
  /\ commands = <<>> /\ events = <<>>
  /\ live = {} /\ placed = 0 /\ excused = {}

HotLoop ==
  \/ \E b \in Bids, a \in Asks : \E blocked \in Gates : OnTick([bid |-> b, ask |-> a], blocked)
  \/ Send \/ Track
  \/ place_ack \/ order_ack
  \/ \E t \in Theos : vol_surface(t)

Next ==
  \/ HotLoop
  \/ \E older \in SUBSET Sides \ {{}} : TimePasses(older)
  \/ FindStale \/ CancelStale
  \/ BrokerPlace \/ BrokerRefuses \/ BrokerCancel
  \/ \E o \in live : OrderEnds(o)

Spec == Init /\ [][Next]_vars

-----------------------------------------------------------------------------
(* Every variable has its type. *)
TypeOK ==
  /\ our_orders \in [Sides -> [price : Nat, age : 0 .. 3, id : 0 .. MaxOrders] \cup {None}]
  /\ orderid_to_key \in [Ids -> Sides \cup {"none"}]
  /\ hot.pc \in {"idle", "send", "track"} /\ stale.pc \in {"idle", "cancel"}
  /\ Len(commands) <= RingCap /\ Len(events) <= RingCap
  /\ placed \in 0 .. MaxOrders

(* What may be cancelled is also cleaned up: an order whose id is in       *)
(* our_orders is found from that id, so that its terminal order_ack        *)
(* removes it.                                                             *)
IdsAreMapped ==
  \A s \in Sides : our_orders[s].id # 0 => orderid_to_key[our_orders[s].id] = s

(* The trader loses no order that rests at the broker: it has the order    *)
(* under its id, its cancel is on its way, or its acknowledgement is.  The *)
(* exceptions are the ones noted in `excused` where they arise: a frame    *)
(* dropped by a full ring, an order replaced when about to expire or       *)
(* before its acknowledgement, and an entry removed in the name of the     *)
(* order it replaced, by a late order_ack or by staleness_check.           *)
NoOrphans ==
  \A o \in live :
    \/ o.id \in excused
    \/ our_orders[o.side].id = o.id
    \/ \E i \in 1 .. Len(commands) : commands[i] = CancelOrder(o.id)
    \/ \E i \in 1 .. Len(events) : events[i].kind = "place_ack" /\ events[i].id = o.id

(* "never place a quote with less than `edge` of edge to theo", up to the  *)
(* half tick that rounding to the tick gives away; and a quote does not go *)
(* through the other side's best, though rounding may bring it to it.      *)
QuoteKeepsEdge ==
  \A d \in hot.todo :
    IF d.side = "B"
    THEN 4 * d.price <= theo - 4 * MinEdgeTicks + 2 /\ d.price <= tick.ask
    ELSE 4 * d.price >= theo + 4 * MinEdgeTicks - 2 /\ d.price >= tick.bid
=============================================================================
