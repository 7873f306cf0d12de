-------------------------- MODULE OrderPathProofs --------------------------
(***************************************************************************)
(* The order path for every number of orders, every capacity of the        *)
(* dispatch channel and every set of requests and modifications: order ids *)
(* are fresh, place_order's verdict is true and leaves no waiter behind,   *)
(* what works at the gateway is what was asked for, and the open-order     *)
(* cache follows the gateway.                                              *)
(*                                                                         *)
(* The invariant comes in four layers, each resting on the ones before:    *)
(* Ids (who may be mentioned where), Verdicts (what a message under way    *)
(* says about the gateway), Terms (what an order says, wherever it is) and *)
(* Fresh (the last openOrder of an order says what the gateway says).      *)
(***************************************************************************)
EXTENDS OrderPath, DataTheorems, FiniteSetTheorems, TLAPS

-----------------------------------------------------------------------------
(* The types of what travels *)

Words == {"FUT", "FOP", "BUY", "SELL", "LMT", "GTC", "DAY", "GTD", "IOC", "constants"}
Fields == Seq(Nat \cup Words)
OrderOf == {GwTerms(fields) : fields \in Fields}

LimitRequest ==
  [contract : [instrument_id : Nat, kind : {"Future", "Option"}],
   side : {"Buy", "Sell"}, qty : Nat, order_type : {"Limit"}, price : Nat \ {0},
   tif : {"Gtc", "Day", "Gtd", "Ioc"}, gtd_until_utc : Nat]

Frame == [kind : {"cancelOrder"}, id : Orders]
           \cup [kind : {"placeOrder"}, id : Orders, fields : Fields]

Message == [kind : {"NextValidId"}, id : Nat]
             \cup [kind : StatusKinds \cup {"Error"}, id : Orders]
             \cup [kind : {"OpenOrder"}, id : Orders, order : OrderOf]

UnderWay == ToSet(socket) \cup ToSet(inbox)

(* Layer 1.  Whatever is mentioned anywhere was allocated and asked for,   *)
(* below the counter; the call under way has its request, and is the only  *)
(* one with a waiter.                                                      *)
Queues ==
  /\ wire \in Seq(Frame) /\ socket \in Seq(Message) /\ inbox \in Seq(Message)
  /\ \A f \in ToSet(wire) : f.id \in DOMAIN asked
  /\ \A m \in UnderWay : m.kind # "NextValidId" => m.id \in DOMAIN asked

Known ==
  /\ \A o \in DOMAIN asked : o \in Orders /\ o < next_order_id /\ asked[o] \in Requests
  /\ \A o \in DOMAIN open_orders : o \in DOMAIN asked
  /\ \A o \in Orders : gw[o] # "none" => o \in DOMAIN asked
  /\ DOMAIN terms = Orders

Calls ==
  /\ call.pc = "idle" => call = NoCall
  /\ call.pc # "idle" => /\ call = [pc |-> call.pc, id |-> call.id, req |-> call.req]
                         /\ call.id \in DOMAIN asked /\ call.req = asked[call.id]
  /\ ack # "none" => call.pc \in {"wait", "expired"} /\ pending = {}

Allocations ==
  /\ allocated \in Seq(Nat)
  /\ \A k \in DOMAIN allocated : allocated[k] < next_order_id

Ids == /\ TypeOK /\ Queues /\ Known /\ Calls /\ Allocations
       /\ NoIdReuse /\ WaitersHaveCallers

(* Layer 2.  A message that says an order was taken is true; an error for  *)
(* the order whose place_order runs is a rejection, since nobody cancels   *)
(* or modifies it before its place_order returns; so are the answer in the *)
(* waiter's channel and what was returned.                                 *)
Taken == {"live", "done"}
Positive == {"OpenOrder", "Submitted", "PreSubmitted", "Filled", "Cancelled"}

MessagesAreTrue ==
  \A m \in UnderWay :
    /\ m.kind \in Positive => gw[m.id] \in Taken
    /\ m.kind = "Error" /\ m.id = call.id => gw[m.id] = "rejected"

OnlyItsPlaceFrame ==
  call.pc # "idle" =>
    \A i \in 1 .. Len(wire) : wire[i].id = call.id =>
      /\ call.pc # "send" /\ wire[i].kind = "placeOrder" /\ gw[call.id] = "none"
      /\ \A j \in 1 .. Len(wire) : wire[j].id = call.id => i = j

AnswerIsTrue ==
  /\ call.pc = "send" => gw[call.id] = "none"
  /\ ack = "ok" => gw[call.id] \in Taken
  /\ ack = "rejected" => gw[call.id] = "rejected"

Verdicts == MessagesAreTrue /\ OnlyItsPlaceFrame /\ AnswerIsTrue /\ AcksAreTrue

(* Layer 3.  A limit order, on the wire, at the gateway, on its way back   *)
(* and in the cache, says what its caller asked for.                       *)
Native(order) == native_to_open_order(parse_open_order(order))

\* open has the fields of an OpenOrder.
IsOpenOrder(open) ==
  open = [contract |-> open.contract, side |-> open.side, qty |-> open.qty,
          order_type |-> open.order_type, price |-> open.price, tif |-> open.tif,
          gtd_until_utc |-> open.gtd_until_utc, status |-> open.status,
          remaining |-> open.remaining]

Matches(req, open) ==
  /\ IsOpenOrder(open)
  /\ open.contract = req.contract /\ open.side = req.side /\ open.tif = req.tif
  /\ open.order_type = "Limit" /\ open.price \in Nat \ {0} /\ open.qty \in Nat
  /\ open.gtd_until_utc = None
  /\ open.price \in {req.price} \cup {a.price : a \in Amendments}
  /\ open.qty \in {req.qty} \cup {a.qty : a \in Amendments}

Says(req, order) ==
  /\ Matches(req, Native(order))
  /\ req.tif = "Gtd" => order.good_till_date # None

TemplateOf(i, template) ==
  \E r \in Requests :
    /\ r.contract.instrument_id = i
    /\ template = from_contract(place_order_contract_request(r.contract))

TermsMatch ==
  /\ \A i \in DOMAIN place_templates : TemplateOf(i, place_templates[i])
  /\ \A f \in ToSet(wire) : f.kind = "placeOrder" => Says(asked[f.id], GwTerms(f.fields))
  /\ \A m \in UnderWay : m.kind = "OpenOrder" => Says(asked[m.id], m.order)
  /\ \A o \in DOMAIN open_orders : Matches(asked[o], open_orders[o])
  /\ \A o \in Orders : gw[o] = "live" => Says(asked[o], terms[o])

(* Layer 4.  While connected, the last openOrder for an order in the       *)
(* socket says what the gateway says; with none there and none dropped,    *)
(* the last one in the dispatch channel does; with none there either, the  *)
(* cache.                                                                  *)
Opens(m, o) == m.kind = "OpenOrder" /\ m.id = o

Silent(queue, o) == \A i \in 1 .. Len(queue) : ~Opens(queue[i], o)

LastSays(queue, o, order) ==
  \A i \in 1 .. Len(queue) :
    Opens(queue[i], o) /\ (\A j \in i + 1 .. Len(queue) : ~Opens(queue[j], o))
      => queue[i].order = order

Fresh(o) ==
  /\ LastSays(socket, o, terms[o])
  /\ Silent(socket, o) /\ o \notin lost => LastSays(inbox, o, terms[o])
  /\ Silent(socket, o) /\ o \notin lost /\ Silent(inbox, o) /\ o \in DOMAIN open_orders
       => [open_orders[o] EXCEPT !.status = "PendingSubmit"] = Native(terms[o])

AllFresh == connected => \A o \in Orders : Fresh(o)

IInv == Ids /\ Verdicts /\ TermsMatch /\ AllFresh

-----------------------------------------------------------------------------
(* Lemmas about queues *)

(* Two queues, one behind the other. *)
LEMMA Behind ==
  ASSUME NEW S, NEW s \in Seq(S), NEW t \in Seq(S)
  PROVE  /\ s \o t \in Seq(S) /\ Len(s \o t) = Len(s) + Len(t)
         /\ \A i \in 1 .. Len(s) : (s \o t)[i] = s[i]
         /\ \A i \in 1 .. Len(t) : (s \o t)[Len(s) + i] = t[i]
         /\ ToSet(s \o t) = ToSet(s) \cup ToSet(t)
<1>1. /\ s \o t \in Seq(S) /\ Len(s \o t) = Len(s) + Len(t)
      /\ \A i \in 1 .. Len(s) : (s \o t)[i] = s[i]
      /\ \A i \in 1 .. Len(t) : (s \o t)[Len(s) + i] = t[i]
  OBVIOUS
<1>2. /\ DOMAIN (s \o t) = 1 .. Len(s) + Len(t)
      /\ DOMAIN s = 1 .. Len(s) /\ DOMAIN t = 1 .. Len(t)
      /\ Len(s) \in Nat /\ Len(t) \in Nat
  BY <1>1
<1>3. ToSet(s \o t) \subseteq ToSet(s) \cup ToSet(t)
  <2> SUFFICES ASSUME NEW i \in 1 .. Len(s) + Len(t)
               PROVE  (s \o t)[i] \in ToSet(s) \cup ToSet(t)
    BY <1>2 DEF ToSet
  <2>1. CASE i <= Len(s)
    BY <2>1, <1>1, <1>2 DEF ToSet
  <2>2. CASE i > Len(s)
    <3>1. i - Len(s) \in 1 .. Len(t) /\ i = Len(s) + (i - Len(s))
      BY <2>2, <1>2
    <3> QED
      BY <3>1, <1>1, <1>2 DEF ToSet
  <2> QED
    BY <2>1, <2>2, <1>2
<1>4. ToSet(s) \subseteq ToSet(s \o t)
  BY <1>1, <1>2 DEF ToSet
<1>5. ToSet(t) \subseteq ToSet(s \o t)
  <2> SUFFICES ASSUME NEW i \in 1 .. Len(t)
               PROVE  t[i] \in ToSet(s \o t)
    BY <1>2 DEF ToSet
  <2>1. Len(s) + i \in 1 .. Len(s) + Len(t)
    BY <1>2
  <2> QED
    BY <2>1, <1>1, <1>2 DEF ToSet
<1> QED
  BY <1>1, <1>3, <1>4, <1>5

(* One message, as a queue. *)
LEMMA Single ==
  ASSUME NEW S, NEW a \in S
  PROVE  <<a>> \in Seq(S) /\ ToSet(<<a>>) = {a}
BY DEF ToSet

-----------------------------------------------------------------------------
(* Layer 1 *)

(* The adapter starts with no order anywhere. *)
LEMMA IdsInit == Init => Ids
<1> SUFFICES ASSUME Init PROVE Ids
  OBVIOUS
<1>1. ToSet(wire) = {} /\ UnderWay = {}
  BY DEF Init, UnderWay, ToSet
<1>2. TypeOK
  <2>1. DOMAIN open_orders = {} /\ DOMAIN place_templates = {} /\ Len(inbox) = 0
    BY DEF Init
  <2>2. call.pc = "idle" /\ call.id \in 0 .. MaxOrders
    BY MaxOrdersAssumption DEF Init, NoCall
  <2>3. connected \in BOOLEAN /\ killed \in BOOLEAN /\ sweep \in {"idle", "todo", "done"}
    BY DEF Init
  <2> QED
    BY <2>1, <2>2, <2>3, InboxCapAssumption DEF Init, TypeOK
<1>3. Queues /\ Known
  BY <1>1 DEF Init, Queues, Known
<1>4. Calls /\ Allocations /\ NoIdReuse /\ WaitersHaveCallers
  BY DEF Init, Calls, Allocations, NoIdReuse, IsInjective, WaitersHaveCallers, NoCall
<1> QED
  BY <1>2, <1>3, <1>4 DEF Ids

(* A request of a caller can be put into a frame. *)
LEMMA RequestTypes ==
  ASSUME NEW req \in Requests
  PROVE  /\ req \in LimitRequest
         /\ ~InvalidRequest(req)
<1>1. CASE req \in Hedges
  BY <1>1, HedgesAssumption DEF InvalidRequest, None, LimitRequest
<1>2. ASSUME NEW cmd \in Commands, req = OptionRequest(cmd)
      PROVE  /\ req \in LimitRequest
             /\ ~InvalidRequest(req)
  <2>1. cmd \in [instrument_id : Nat, side : {"BUY", "SELL"}, qty : Nat,
                 order_type : {"limit"}, price : Nat \ {0}, tif : STRING, gtd_seconds : Nat]
    BY CommandsAssumption
  <2>2. /\ req.contract = [instrument_id |-> cmd.instrument_id, kind |-> "Option"]
        /\ req.side \in {"Buy", "Sell"} /\ req.qty \in Nat /\ req.order_type = "Limit"
        /\ req.price \in Nat \ {0} /\ req.tif \in {"Gtc", "Day", "Gtd", "Ioc"}
        /\ req.gtd_until_utc \in Nat
        /\ req.tif = "Gtd" => req.gtd_until_utc # 0
    BY <2>1, <1>2 DEF OptionRequest, Amount, None
  <2>3. req = [contract |-> req.contract, side |-> req.side, qty |-> req.qty,
               order_type |-> req.order_type, price |-> req.price, tif |-> req.tif,
               gtd_until_utc |-> req.gtd_until_utc]
    BY <1>2 DEF OptionRequest
  <2> QED
    BY <2>1, <2>2, <2>3 DEF InvalidRequest, None, LimitRequest
<1> QED
  BY <1>1, <1>2 DEF Requests

(* alloc_order_id hands out an id that nothing mentions, and registers its *)
(* waiter.                                                                 *)
LEMMA IdsPlaceBegin ==
  ASSUME Ids, NEW req \in Requests, PlaceBegin(req)
  PROVE  Ids' /\ next_order_id \notin DOMAIN asked
<1> DEFINE n == next_order_id
<1> USE DEF Ids, adapter, gateway, kill
<1>1. n \in Orders /\ n \in Nat /\ n \notin DOMAIN asked /\ n' = n + 1 /\ call.pc = "idle"
  BY DEF PlaceBegin, Known, TypeOK
<1>2. /\ DOMAIN asked' = DOMAIN asked \cup {n} /\ asked'[n] = req
      /\ \A o \in DOMAIN asked : asked'[o] = asked[o]
  BY <1>1 DEF PlaceBegin, Insert
<1>3. TypeOK'
  BY <1>1 DEF PlaceBegin, TypeOK, Orders
<1>4. Queues'
  BY <1>2 DEF PlaceBegin, Queues, UnderWay, gateway
<1>5. Known'
  <2>1. UNCHANGED <<open_orders, gw, terms>>
    BY DEF PlaceBegin
  <2> QED
    BY <2>1, <1>1, <1>2 DEF Known, Orders
<1>6. Calls'
  BY <1>1, <1>2 DEF PlaceBegin, Calls
<1>7. /\ allocated' \in Seq(Nat) /\ DOMAIN allocated' = 1 .. Len(allocated) + 1
      /\ Len(allocated) \in Nat
      /\ \A k \in DOMAIN allocated : allocated'[k] = allocated[k]
      /\ DOMAIN allocated = 1 .. Len(allocated)
      /\ allocated'[Len(allocated) + 1] = n
  <2>1. allocated \in Seq(Nat) /\ allocated' = Append(allocated, n)
    BY <1>1 DEF PlaceBegin, Allocations
  <2> QED
    BY <2>1, <1>1, PushBack
<1>8. Allocations'
  BY <1>1, <1>7 DEF Allocations
<1>9. NoIdReuse'
  <2>1. \A k \in DOMAIN allocated : allocated[k] # n /\ allocated[k] \in Nat
    BY <1>1, <1>7 DEF Allocations
  <2> SUFFICES ASSUME NEW a \in DOMAIN allocated', NEW b \in DOMAIN allocated',
                      allocated'[a] = allocated'[b]
               PROVE  a = b
    BY DEF NoIdReuse, IsInjective
  <2>2. CASE a \in DOMAIN allocated /\ b \in DOMAIN allocated
    BY <2>2, <1>7 DEF NoIdReuse, IsInjective
  <2>3. CASE a = Len(allocated) + 1 \/ b = Len(allocated) + 1
    BY <2>1, <2>3, <1>7
  <2> QED
    BY <2>2, <2>3, <1>7
<1>10. WaitersHaveCallers'
  BY <1>1 DEF PlaceBegin, WaitersHaveCallers, Calls, NoCall, Orders
<1> QED
  BY <1>1, <1>3, <1>4, <1>5, <1>6, <1>8, <1>9, <1>10

-----------------------------------------------------------------------------
(* What a frame says *)

(* The gateway reads from the frame of place_order_fast what it reads from *)
(* that of place_order, and what the adapter caches when it is reported    *)
(* back is the request, without its good-till-date.                        *)
LEMMA RoundTrip ==
  ASSUME NEW req \in LimitRequest, NEW o
  PROVE  LET contract == place_order_contract_request(req.contract)
             params == build_place_params(req)
             slow == place_order(o, contract, params).fields
             fast == place_order_fast(o, from_contract(contract), params).fields
         IN /\ slow \in Fields /\ fast \in Fields
            /\ GwTerms(fast) = GwTerms(slow)
            /\ Native(GwTerms(slow)) =
                 [contract |-> req.contract, side |-> req.side, qty |-> req.qty,
                  order_type |-> "Limit", price |-> req.price, tif |-> req.tif,
                  gtd_until_utc |-> None, status |-> "PendingSubmit", remaining |-> 0]
            /\ GwTerms(slow).good_till_date =
                 (IF req.tif = "Gtd" THEN req.gtd_until_utc ELSE None)
<1> DEFINE contract == place_order_contract_request(req.contract)
           params == build_place_params(req)
           slow == place_order(o, contract, params).fields
           fast == place_order_fast(o, from_contract(contract), params).fields
           sec == IF req.contract.kind = "Future" THEN "FUT" ELSE "FOP"
           action == IF req.side = "Buy" THEN "BUY" ELSE "SELL"
           gtd == IF req.tif = "Gtd" THEN req.gtd_until_utc ELSE None
           order == [con_id |-> req.contract.instrument_id, sec_type |-> sec,
                     action |-> action, total_quantity |-> req.qty,
                     order_type |-> "LMT", lmt_price |-> req.price,
                     tif |-> TifName[req.tif], good_till_date |-> gtd]
<1>1. /\ contract = <<req.contract.instrument_id, sec>>
      /\ params = <<action, req.qty, "LMT", req.price, TifName[req.tif], gtd>>
  BY DEF place_order_contract_request, build_place_params, LimitRequest
<1>2. slow = <<req.contract.instrument_id, sec, action, req.qty, "LMT", req.price,
               TifName[req.tif], gtd, "constants">>
  BY <1>1 DEF place_order
<1>3. /\ fast = <<req.contract.instrument_id, sec>>
                  \o <<action, req.qty, "LMT", req.price, TifName[req.tif], gtd>>
                  \o <<"constants">>
  BY <1>1 DEF place_order_fast, from_contract, trailing_bytes
<1>4. /\ req.contract.instrument_id \in Nat /\ sec \in Words /\ action \in Words
      /\ req.qty \in Nat /\ req.price \in Nat /\ TifName[req.tif] \in Words /\ gtd \in Nat
  <2>1. req.tif \in {"Gtc", "Day", "Gtd", "Ioc"} /\ req.gtd_until_utc \in Nat /\ None \in Nat
    BY DEF LimitRequest, None
  <2>2. TifName[req.tif] \in {"GTC", "DAY", "GTD", "IOC"}
    BY <2>1 DEF TifName
  <2> QED
    BY <2>1, <2>2 DEF LimitRequest, Words
<1> HIDE DEF contract, params, slow, fast, sec, action, gtd
<1>5. slow \in Fields /\ fast \in Fields
  <2> DEFINE Field == Nat \cup Words
  <2>1. /\ req.contract.instrument_id \in Field /\ sec \in Field /\ action \in Field
        /\ req.qty \in Field /\ req.price \in Field /\ TifName[req.tif] \in Field
        /\ gtd \in Field /\ "LMT" \in Field /\ "constants" \in Field
    BY <1>4 DEF Words
  <2> HIDE DEF Field
  <2>2. slow \in Seq(Field)
    BY <2>1, <1>2
  <2>3. /\ <<req.contract.instrument_id, sec>> \in Seq(Field)
        /\ <<action, req.qty, "LMT", req.price, TifName[req.tif], gtd>> \in Seq(Field)
        /\ <<"constants">> \in Seq(Field)
    BY <2>1
  <2>4. fast \in Seq(Field)
    BY <2>3, <1>3
  <2> QED
    BY <2>2, <2>4 DEF Fields, Field
<1>6. GwTerms(slow) = order /\ GwTerms(fast) = order
  <2>1. GwTerms(slow) = order
    BY <1>2 DEF GwTerms
  <2>2. /\ fast[1] = req.contract.instrument_id /\ fast[2] = sec /\ fast[3] = action
        /\ fast[4] = req.qty /\ fast[5] = "LMT" /\ fast[6] = req.price
        /\ fast[7] = TifName[req.tif] /\ fast[8] = gtd
    BY <1>3
  <2> QED
    BY <2>1, <2>2 DEF GwTerms
<1>7. parse_tif(TifName[req.tif]) = req.tif
  <2>1. /\ DOMAIN TifName = {"Gtc", "Day", "Gtd", "Ioc"}
        /\ TifName["Gtc"] = "GTC" /\ TifName["Day"] = "DAY"
        /\ TifName["Gtd"] = "GTD" /\ TifName["Ioc"] = "IOC"
    BY DEF TifName
  <2>2. req.tif \in DOMAIN TifName
    BY <2>1 DEF LimitRequest
  <2>3. \A t \in DOMAIN TifName : TifName[t] = TifName[req.tif] => t = req.tif
    BY <2>1, <2>2
  <2> QED
    BY <2>2, <2>3 DEF parse_tif
<1>8. /\ parse_open_order(order).con_id = req.contract.instrument_id
      /\ parse_open_order(order).sec_type = sec
      /\ parse_open_order(order).action = action
      /\ parse_open_order(order).total_quantity = req.qty
      /\ parse_open_order(order).order_type = "LMT"
      /\ parse_open_order(order).lmt_price = req.price
      /\ parse_open_order(order).tif = TifName[req.tif]
      /\ parse_open_order(order).remaining = 0
  <2>1. DOMAIN order = {"con_id", "sec_type", "action", "total_quantity", "order_type",
                        "lmt_price", "tif", "good_till_date"}
    OBVIOUS
  <2> QED
    BY <2>1 DEF parse_open_order
<1>9. /\ parse_kind(sec) = req.contract.kind
      /\ (IF action = "BUY" THEN "Buy" ELSE "Sell") = req.side
      /\ (IF req.price > 0 THEN req.price ELSE None) = req.price
      /\ req.contract = [instrument_id |-> req.contract.instrument_id,
                         kind |-> req.contract.kind]
  BY DEF LimitRequest, parse_kind, sec, action
<1>10. Native(order) =
        [contract |-> req.contract, side |-> req.side, qty |-> req.qty,
         order_type |-> "Limit", price |-> req.price, tif |-> req.tif,
         gtd_until_utc |-> None, status |-> "PendingSubmit", remaining |-> 0]
  BY <1>7, <1>8, <1>9 DEF Native, native_to_open_order
<1>11. order.good_till_date = gtd
  OBVIOUS
<1> QED
  BY <1>5, <1>6, <1>10, <1>11 DEF contract, params, slow, fast, gtd

-----------------------------------------------------------------------------
(* What the last openOrder of a queue says *)

(* Messages behind a queue that open nothing for o leave it as it was. *)
LEMMA QuietBehind ==
  ASSUME NEW S, NEW s \in Seq(S), NEW t \in Seq(S), NEW o, NEW order, Silent(t, o)
  PROVE  /\ Silent(s \o t, o) <=> Silent(s, o)
         /\ LastSays(s, o, order) => LastSays(s \o t, o, order)
<1>1. /\ Len(s) \in Nat /\ Len(t) \in Nat /\ Len(s \o t) = Len(s) + Len(t)
      /\ \A i \in 1 .. Len(s) : (s \o t)[i] = s[i]
      /\ \A i \in 1 .. Len(t) : (s \o t)[Len(s) + i] = t[i]
  BY Behind
<1>2. \A i \in 1 .. Len(s \o t) : i > Len(s) => ~Opens((s \o t)[i], o)
  <2> SUFFICES ASSUME NEW i \in 1 .. Len(s \o t), i > Len(s)
               PROVE  ~Opens((s \o t)[i], o)
    OBVIOUS
  <2>1. i - Len(s) \in 1 .. Len(t) /\ i = Len(s) + (i - Len(s))
    BY <1>1
  <2> QED
    BY <2>1, <1>1 DEF Silent
<1>3. Silent(s \o t, o) <=> Silent(s, o)
  <2>1. ASSUME Silent(s \o t, o), NEW i \in 1 .. Len(s) PROVE ~Opens(s[i], o)
    BY <2>1, <1>1 DEF Silent
  <2>2. ASSUME Silent(s, o), NEW i \in 1 .. Len(s \o t) PROVE ~Opens((s \o t)[i], o)
    BY <2>2, <1>1, <1>2 DEF Silent
  <2> QED
    BY <2>1, <2>2 DEF Silent
<1>4. ASSUME LastSays(s, o, order), NEW i \in 1 .. Len(s \o t), Opens((s \o t)[i], o),
             \A j \in i + 1 .. Len(s \o t) : ~Opens((s \o t)[j], o)
      PROVE  (s \o t)[i].order = order
  <2>1. i \in 1 .. Len(s) /\ (s \o t)[i] = s[i]
    BY <1>1, <1>2, <1>4
  <2>2. \A j \in i + 1 .. Len(s) : ~Opens(s[j], o)
    <3> SUFFICES ASSUME NEW j \in i + 1 .. Len(s) PROVE ~Opens(s[j], o)
      OBVIOUS
    <3>1. j \in i + 1 .. Len(s \o t) /\ j \in 1 .. Len(s)
      BY <1>1, <2>1
    <3> QED
      BY <3>1, <1>1, <1>4
  <2> QED
    BY <2>1, <2>2, <1>4 DEF LastSays
<1> QED
  BY <1>3, <1>4 DEF LastSays

(* Messages behind a queue, one of which opens o, and all that do alike. *)
LEMMA OpenBehind ==
  ASSUME NEW S, NEW s \in Seq(S), NEW t \in Seq(S), NEW o, NEW order,
         \E i \in 1 .. Len(t) : Opens(t[i], o),
         \A i \in 1 .. Len(t) : Opens(t[i], o) => t[i].order = order
  PROVE  ~Silent(s \o t, o) /\ LastSays(s \o t, o, order)
<1>1. /\ Len(s) \in Nat /\ Len(t) \in Nat /\ Len(s \o t) = Len(s) + Len(t)
      /\ \A i \in 1 .. Len(t) : (s \o t)[Len(s) + i] = t[i]
  BY Behind
<1>2. PICK k \in 1 .. Len(t) : Opens(t[k], o)
  OBVIOUS
<1>3. Len(s) + k \in 1 .. Len(s \o t) /\ Opens((s \o t)[Len(s) + k], o)
  BY <1>1, <1>2
<1>4. ASSUME NEW i \in 1 .. Len(s \o t), Opens((s \o t)[i], o),
             \A j \in i + 1 .. Len(s \o t) : ~Opens((s \o t)[j], o)
      PROVE  (s \o t)[i].order = order
  <2>1. i >= Len(s) + k
    <3> SUFFICES ASSUME i < Len(s) + k PROVE FALSE
      BY <1>1
    <3>1. Len(s) + k \in i + 1 .. Len(s \o t)
      BY <1>1, <1>3
    <3> QED
      BY <3>1, <1>3, <1>4
  <2>2. i - Len(s) \in 1 .. Len(t) /\ i = Len(s) + (i - Len(s))
    BY <2>1, <1>1
  <2>3. (s \o t)[i] = t[i - Len(s)]
    BY <2>2, <1>1
  <2> QED
    BY <2>2, <2>3, <1>4
<1> QED
  BY <1>3, <1>4 DEF Silent, LastSays

(* One message more. *)
LEMMA OneBehind ==
  ASSUME NEW S, NEW s \in Seq(S), NEW e \in S, NEW o, NEW order
  PROVE  /\ ~Opens(e, o) => /\ Silent(Append(s, e), o) <=> Silent(s, o)
                            /\ LastSays(s, o, order) => LastSays(Append(s, e), o, order)
         /\ Opens(e, o) => /\ ~Silent(Append(s, e), o)
                           /\ e.order = order => LastSays(Append(s, e), o, order)
<1>1. Append(s, e) = s \o <<e>> /\ <<e>> \in Seq(S) /\ Len(<<e>>) = 1 /\ <<e>>[1] = e
  OBVIOUS
<1>2. CASE ~Opens(e, o)
  <2>1. Silent(<<e>>, o)
    BY <1>1, <1>2 DEF Silent
  <2> QED
    BY <1>1, <1>2, <2>1, QuietBehind
<1>3. ASSUME Opens(e, o), e.order = order
      PROVE  ~Silent(Append(s, e), o) /\ LastSays(Append(s, e), o, order)
  <2> DEFINE t == <<e>>
  <2>1. /\ t \in Seq(S) /\ \E i \in 1 .. Len(t) : Opens(t[i], o)
        /\ \A i \in 1 .. Len(t) : Opens(t[i], o) => t[i].order = order
    BY <1>1, <1>3
  <2> HIDE DEF t
  <2>2. ~Silent(s \o t, o) /\ LastSays(s \o t, o, order)
    BY <2>1, OpenBehind
  <2> QED
    BY <2>2, <1>1 DEF t
<1>4. ASSUME Opens(e, o) PROVE ~Silent(Append(s, e), o)
  BY <1>4, PushBack DEF Silent
<1> QED
  BY <1>2, <1>3, <1>4

(* The first message goes. *)
LEMMA OneLess ==
  ASSUME NEW S, NEW s \in Seq(S), s # <<>>, NEW o, NEW order, LastSays(s, o, order)
  PROVE  /\ LastSays(Tail(s), o, order)
         /\ ~Opens(Head(s), o) => (Silent(Tail(s), o) <=> Silent(s, o))
         /\ Opens(Head(s), o) => ~Silent(s, o)
         /\ Opens(Head(s), o) /\ Silent(Tail(s), o) => Head(s).order = order
<1>1. /\ Head(s) = s[1] /\ Len(s) \in Nat \ {0} /\ Len(Tail(s)) = Len(s) - 1
      /\ \A i \in 1 .. Len(Tail(s)) : Tail(s)[i] = s[i + 1]
  BY PopFront
<1>2. \A j \in 2 .. Len(s) : j - 1 \in 1 .. Len(Tail(s)) /\ s[j] = Tail(s)[j - 1]
  <2> SUFFICES ASSUME NEW j \in 2 .. Len(s)
               PROVE  j - 1 \in 1 .. Len(Tail(s)) /\ s[j] = Tail(s)[j - 1]
    OBVIOUS
  <2>1. j - 1 \in 1 .. Len(Tail(s)) /\ (j - 1) + 1 = j
    BY <1>1
  <2> QED
    BY <2>1, <1>1
<1>3. LastSays(Tail(s), o, order)
  <2> SUFFICES ASSUME NEW i \in 1 .. Len(Tail(s)), Opens(Tail(s)[i], o),
                      \A j \in i + 1 .. Len(Tail(s)) : ~Opens(Tail(s)[j], o)
               PROVE  Tail(s)[i].order = order
    BY DEF LastSays
  <2>1. i + 1 \in 1 .. Len(s) /\ Tail(s)[i] = s[i + 1]
    BY <1>1
  <2>2. ASSUME NEW j \in i + 2 .. Len(s) PROVE ~Opens(s[j], o)
    <3>1. j \in 2 .. Len(s) /\ j - 1 \in i + 1 .. Len(Tail(s))
      BY <1>1, <2>1
    <3> QED
      BY <3>1, <1>2
  <2> QED
    BY <2>1, <2>2 DEF LastSays
<1>4. Silent(Tail(s), o) => \A j \in 2 .. Len(s) : ~Opens(s[j], o)
  BY <1>2 DEF Silent
<1>5. Silent(s, o) => Silent(Tail(s), o)
  BY <1>1 DEF Silent
<1>6. ~Opens(s[1], o) /\ (\A j \in 2 .. Len(s) : ~Opens(s[j], o)) => Silent(s, o)
  BY <1>1 DEF Silent
<1>7. Opens(s[1], o) => ~Silent(s, o)
  BY <1>1 DEF Silent
<1>8. Opens(s[1], o) /\ (\A j \in 2 .. Len(s) : ~Opens(s[j], o)) => s[1].order = order
  BY <1>1 DEF LastSays
<1> QED
  BY <1>1, <1>3, <1>4, <1>5, <1>6, <1>7, <1>8

-----------------------------------------------------------------------------
(* Every step keeps the invariant: place_order *)

(* The invariant holds when the adapter has connected. *)
LEMMA InitInv == Init => IInv
<1> SUFFICES ASSUME Init PROVE IInv
  OBVIOUS
<1>1. /\ ToSet(wire) = {} /\ UnderWay = {} /\ Len(socket) = 0 /\ Len(inbox) = 0
      /\ Len(wire) = 0 /\ DOMAIN place_templates = {} /\ DOMAIN open_orders = {}
  BY DEF Init, UnderWay, ToSet
<1>2. Verdicts
  BY <1>1 DEF Init, Verdicts, MessagesAreTrue, OnlyItsPlaceFrame, AnswerIsTrue,
              AcksAreTrue, NoCall
<1>3. TermsMatch
  BY <1>1 DEF Init, TermsMatch
<1>4. AllFresh
  BY <1>1 DEF AllFresh, Fresh, LastSays, Silent
<1> QED
  BY <1>2, <1>3, <1>4, IdsInit DEF IInv

(* A new order is one that no frame and no message is about. *)
LEMMA PlaceBeginStep ==
  ASSUME IInv, NEW req \in Requests, PlaceBegin(req)
  PROVE  IInv'
<1> DEFINE n == next_order_id
<1> USE DEF IInv, adapter, gateway, kill
<1>1. Ids' /\ n \notin DOMAIN asked
  BY IdsPlaceBegin
<1>2. /\ n \in Orders /\ call.pc = "idle" /\ call'.id = n /\ call'.pc = "send"
      /\ UNCHANGED <<wire, socket, inbox, ack, open_orders, returned, gw, terms,
                     place_templates, connected, lost>>
  BY DEF PlaceBegin
<1>3. \A o \in DOMAIN asked : asked'[o] = asked[o]
  BY <1>1 DEF PlaceBegin, Insert
<1>4. gw[n] = "none" /\ ack = "none"
  BY <1>1, <1>2 DEF Ids, Known, Calls, TypeOK
<1>5. \A i \in 1 .. Len(wire) : wire[i].id # n
  <2>1. \A i \in 1 .. Len(wire) : wire[i] \in ToSet(wire)
    BY DEF ToSet, Ids, Queues
  <2> QED
    BY <2>1, <1>1 DEF Ids, Queues
<1>6. Verdicts'
  <2>1. UnderWay' = UnderWay
    BY <1>2 DEF UnderWay
  <2>2. MessagesAreTrue'
    BY <1>1, <1>2, <2>1 DEF Verdicts, MessagesAreTrue, Ids, Queues
  <2>3. OnlyItsPlaceFrame'
    BY <1>2, <1>5 DEF OnlyItsPlaceFrame
  <2>4. AnswerIsTrue' /\ AcksAreTrue'
    BY <1>2, <1>4 DEF Verdicts, AnswerIsTrue, AcksAreTrue
  <2> QED
    BY <2>2, <2>3, <2>4 DEF Verdicts
<1>7. TermsMatch'
  <2>1. UnderWay' = UnderWay
    BY <1>2 DEF UnderWay
  <2>2. /\ \A f \in ToSet(wire) : asked'[f.id] = asked[f.id]
        /\ \A m \in UnderWay : m.kind = "OpenOrder" => asked'[m.id] = asked[m.id]
        /\ \A o \in DOMAIN open_orders : asked'[o] = asked[o]
        /\ \A o \in Orders : gw[o] = "live" => asked'[o] = asked[o]
    BY <1>3 DEF Ids, Queues, Known
  <2> QED
    BY <1>2, <2>1, <2>2 DEF TermsMatch
<1>8. AllFresh'
  BY <1>2 DEF AllFresh, Fresh
<1> QED
  BY <1>1, <1>6, <1>7, <1>8

(* The frame of a new order: the first about it, made from its request,    *)
(* whichever order the template was cached for.                            *)
LEMMA SendStep ==
  ASSUME IInv, Send
  PROVE  IInv'
<1> USE DEF IInv, adapter, gateway, kill, history
<1> DEFINE o == call.id
           c == call.req.contract
           frame == place_order_fast(o, Template(c), build_place_params(call.req))
<1>1. /\ call.pc = "send" /\ call' = [call EXCEPT !.pc = "wait"]
      /\ place_templates' = Insert(place_templates, c.instrument_id, Template(c))
      /\ wire' = Append(wire, frame)
      /\ UNCHANGED <<next_order_id, socket, inbox, pending, ack, open_orders, returned,
                     connected, gw, terms, killed, sweep, allocated, asked, lost>>
  BY DEF Send
<1>2. /\ o \in DOMAIN asked /\ call.req = asked[o] /\ call.req \in Requests /\ o \in Orders
      /\ call = [pc |-> call.pc, id |-> o, req |-> call.req]
  BY <1>1 DEF Ids, Calls, Known
<1>3. call.req \in LimitRequest /\ ~InvalidRequest(call.req)
  BY <1>2, RequestTypes
<1>4. Template(c) = from_contract(place_order_contract_request(c))
  <2>1. CASE c.instrument_id \in DOMAIN place_templates
    <3>1. PICK r \in Requests :
            /\ r.contract.instrument_id = c.instrument_id
            /\ place_templates[c.instrument_id]
                 = from_contract(place_order_contract_request(r.contract))
      BY <2>1 DEF TermsMatch, TemplateOf
    <3>2. r.contract = c
      BY <3>1, <1>2, ContractIdsAssumption
    <3> QED
      BY <3>1, <3>2, <2>1 DEF Template
  <2> QED
    BY <2>1 DEF Template
<1>5. frame.kind = "placeOrder" /\ frame.id = o /\ frame \in Frame
  <2>1. place_order_fast(o, from_contract(place_order_contract_request(c)),
                         build_place_params(call.req)).fields \in Fields
    BY <1>3, RoundTrip
  <2> QED
    BY <2>1, <1>2, <1>4 DEF place_order_fast, Frame
<1>6. Says(call.req, GwTerms(frame.fields))
  <2> DEFINE slow == place_order(o, place_order_contract_request(c),
                                 build_place_params(call.req)).fields
  <2>1. GwTerms(frame.fields) = GwTerms(slow)
    BY <1>3, <1>4, RoundTrip
  <2>2. /\ Native(GwTerms(slow)) =
            [contract |-> c, side |-> call.req.side, qty |-> call.req.qty,
             order_type |-> "Limit", price |-> call.req.price, tif |-> call.req.tif,
             gtd_until_utc |-> None, status |-> "PendingSubmit", remaining |-> 0]
        /\ call.req.tif = "Gtd" => GwTerms(slow).good_till_date = call.req.gtd_until_utc
    BY <1>3, RoundTrip
  <2>3. Matches(call.req, Native(GwTerms(slow)))
    BY <2>2, <1>3 DEF Matches, IsOpenOrder, LimitRequest
  <2>4. call.req.tif = "Gtd" => GwTerms(slow).good_till_date # None
    BY <2>2, <1>3 DEF InvalidRequest
  <2> QED
    BY <2>1, <2>3, <2>4 DEF Says
<1> HIDE DEF frame
<1>7. /\ wire' \in Seq(Frame) /\ Len(wire') = Len(wire) + 1 /\ Len(wire) \in Nat
      /\ \A i \in 1 .. Len(wire) : wire'[i] = wire[i]
      /\ wire'[Len(wire) + 1] = frame
      /\ ToSet(wire') = ToSet(wire) \cup {frame}
  <2>1. wire \in Seq(Frame)
    BY DEF Ids, Queues
  <2> QED
    BY <2>1, <1>1, <1>5, PushBack
<1>8. call'.pc = "wait" /\ call'.id = o /\ call'.req = call.req
  BY <1>1, <1>2
<1>9. Ids'
  <2>1. c.instrument_id \in Nat
    BY <1>3 DEF LimitRequest
  <2>2. TypeOK'
    BY <1>1, <1>8, <2>1 DEF Ids, TypeOK, Insert
  <2>3. Queues'
    BY <1>1, <1>2, <1>5, <1>7 DEF Ids, Queues, UnderWay
  <2>4. Known' /\ Allocations' /\ NoIdReuse' /\ WaitersHaveCallers'
    BY <1>1, <1>8 DEF Ids, Known, Allocations, NoIdReuse, WaitersHaveCallers
  <2>5. Calls'
    BY <1>1, <1>2, <1>8 DEF Ids, Calls
  <2> QED
    BY <2>2, <2>3, <2>4, <2>5 DEF Ids
<1>10. Verdicts'
  <2>1. gw[o] = "none" /\ \A i \in 1 .. Len(wire) : wire[i].id # o
    BY <1>1 DEF Verdicts, AnswerIsTrue, OnlyItsPlaceFrame
  <2>2. OnlyItsPlaceFrame'
    BY <1>1, <1>5, <1>7, <1>8, <2>1 DEF OnlyItsPlaceFrame
  <2>3. MessagesAreTrue' /\ AnswerIsTrue' /\ AcksAreTrue'
    BY <1>1, <1>8 DEF Verdicts, MessagesAreTrue, AnswerIsTrue, AcksAreTrue, UnderWay
  <2> QED
    BY <2>2, <2>3 DEF Verdicts
<1>11. TermsMatch'
  <2>1. \A i \in DOMAIN place_templates' : TemplateOf(i, place_templates'[i])
    BY <1>1, <1>2, <1>4 DEF TermsMatch, TemplateOf, Insert
  <2>2. \A f \in ToSet(wire') : f.kind = "placeOrder" => Says(asked[f.id], GwTerms(f.fields))
    BY <1>2, <1>5, <1>6, <1>7 DEF TermsMatch
  <2> QED
    BY <2>1, <2>2, <1>1 DEF TermsMatch, UnderWay
<1>12. AllFresh'
  BY <1>1 DEF AllFresh, Fresh
<1> QED
  BY <1>9, <1>10, <1>11, <1>12

(* place_order returns: no waiter is left, and the verdict is true. *)
LEMMA ReturnStep ==
  ASSUME IInv, call.pc # "idle", NEW result, Return(result), pending' = {},
         result \in {"ok", "rejected", "timeout", "failed"},
         result = "ok" => gw[call.id] \in Taken,
         result = "rejected" => gw[call.id] = "rejected",
         UNCHANGED <<next_order_id, wire, socket, inbox, open_orders, adapter, gateway,
                     kill, history>>
  PROVE  IInv'
<1> USE DEF IInv, adapter, gateway, kill, history
<1>1. /\ call.id \in Orders /\ call' = NoCall /\ ack' = "none"
      /\ returned' = [returned EXCEPT ![call.id] = result]
  BY DEF Return, Ids, Calls, Known
<1>2. call'.pc = "idle" /\ call'.id = 0
  BY <1>1 DEF NoCall
<1>3. Ids'
  <2>1. TypeOK'
    BY <1>1, <1>2, MaxOrdersAssumption DEF Ids, TypeOK
  <2>2. Queues'
    BY DEF Ids, Queues, UnderWay
  <2>3. Known' /\ Allocations' /\ NoIdReuse' /\ WaitersHaveCallers'
    BY DEF Ids, Known, Allocations, NoIdReuse, WaitersHaveCallers
  <2>4. Calls'
    BY <1>1, <1>2 DEF Calls
  <2> QED
    BY <2>1, <2>2, <2>3, <2>4 DEF Ids
<1>4. Verdicts'
  <2>1. \A m \in UnderWay : m.kind = "Error" => m.id # 0
    BY DEF Ids, Queues, Known, Orders
  <2>2. MessagesAreTrue'
    BY <1>2, <2>1 DEF Verdicts, MessagesAreTrue, UnderWay
  <2>3. OnlyItsPlaceFrame' /\ AnswerIsTrue'
    BY <1>1, <1>2 DEF OnlyItsPlaceFrame, AnswerIsTrue
  <2>4. AcksAreTrue'
    BY <1>1 DEF Verdicts, AcksAreTrue, Ids, TypeOK, Taken
  <2> QED
    BY <2>2, <2>3, <2>4 DEF Verdicts
<1>5. TermsMatch' /\ AllFresh'
  BY DEF TermsMatch, AllFresh, Fresh, UnderWay
<1> QED
  BY <1>3, <1>4, <1>5

(* The steps of a place_order under way. *)
LEMMA PlaceOrderStep ==
  ASSUME IInv, PlaceOrder
  PROVE  IInv'
<1> USE DEF IInv
<1>1. WaitersHaveCallers /\ Calls
  BY DEF Ids
<1>2. CASE Send
  BY <1>2, SendStep
<1>3. CASE SendFails
  <2>1. pending' = {}
    BY <1>1, <1>3 DEF SendFails, WaitersHaveCallers
  <2> QED
    BY <1>3, <2>1, ReturnStep DEF SendFails
<1>4. CASE AckArrives
  <2>1. pending' = {} /\ ack \in {"ok", "rejected"}
    BY <1>1, <1>4 DEF AckArrives, Calls, Ids, TypeOK
  <2> QED
    BY <1>4, <2>1, ReturnStep DEF AckArrives, Verdicts, AnswerIsTrue
<1>5. CASE AckTimeout
  <2> USE DEF adapter, gateway, kill, history
  <2>1. /\ call.pc = "wait" /\ call' = [call EXCEPT !.pc = "expired"]
        /\ UNCHANGED <<next_order_id, wire, socket, inbox, pending, ack, open_orders,
                       returned, adapter, gateway, kill, history>>
    BY <1>5 DEF AckTimeout
  <2>2. call'.pc = "expired" /\ call'.id = call.id /\ call'.req = call.req
    BY <1>1, <2>1 DEF Calls
  <2>3. Ids'
    <3>1. TypeOK'
      BY <2>1, <2>2 DEF Ids, TypeOK
    <3>2. Queues' /\ Known' /\ Allocations'
      BY <2>1 DEF Ids, Queues, UnderWay, Known, Allocations
    <3>3. Calls' /\ NoIdReuse' /\ WaitersHaveCallers'
      BY <2>1, <2>2 DEF Ids, Calls, NoIdReuse, WaitersHaveCallers
    <3> QED
      BY <3>1, <3>2, <3>3 DEF Ids
  <2>4. Verdicts'
    BY <2>1, <2>2 DEF Verdicts, MessagesAreTrue, UnderWay, OnlyItsPlaceFrame,
                      AnswerIsTrue, AcksAreTrue
  <2>5. TermsMatch' /\ AllFresh'
    BY <2>1 DEF TermsMatch, AllFresh, Fresh, UnderWay
  <2> QED
    BY <2>3, <2>4, <2>5
<1>6. CASE DropWaiter
  <2>1. pending' = {}
    BY <1>1, <1>6 DEF DropWaiter, WaitersHaveCallers
  <2> QED
    BY <1>6, <2>1, ReturnStep DEF DropWaiter
<1> QED
  BY <1>2, <1>3, <1>4, <1>5, <1>6 DEF PlaceOrder

-----------------------------------------------------------------------------
(* Cancels, modifications and the sweep *)

(* Frames about known orders, sent while no place_order runs. *)
LEMMA FramesStep ==
  ASSUME IInv, NEW frames \in Seq(Frame), call.pc = "idle", wire' = wire \o frames,
         \A f \in ToSet(frames) :
           /\ f.id \in DOMAIN asked
           /\ f.kind = "placeOrder" => Says(asked[f.id], GwTerms(f.fields)),
         sweep' \in {"idle", "todo", "done"},
         UNCHANGED <<client, socket, inbox, gateway, killed, history>>
  PROVE  IInv'
<1> USE DEF IInv, client, adapter, gateway, history
<1>1. wire' \in Seq(Frame) /\ ToSet(wire') = ToSet(wire) \cup ToSet(frames)
  <2>1. wire \in Seq(Frame)
    BY DEF Ids, Queues
  <2> QED
    BY <2>1, Behind
<1>2. Ids'
  <2>1. TypeOK'
    BY DEF Ids, TypeOK
  <2>2. Queues'
    BY <1>1 DEF Ids, Queues, UnderWay
  <2>3. Known' /\ Calls' /\ Allocations' /\ NoIdReuse' /\ WaitersHaveCallers'
    BY DEF Ids, Known, Calls, Allocations, NoIdReuse, WaitersHaveCallers
  <2> QED
    BY <2>1, <2>2, <2>3 DEF Ids
<1>3. Verdicts'
  BY DEF Verdicts, MessagesAreTrue, UnderWay, OnlyItsPlaceFrame, AnswerIsTrue, AcksAreTrue
<1>4. TermsMatch'
  BY <1>1 DEF TermsMatch, UnderWay
<1>5. AllFresh'
  BY DEF AllFresh, Fresh
<1> QED
  BY <1>2, <1>3, <1>4, <1>5

(* handle_cancel: a cancel for an order of the trader. *)
LEMMA CancelStep ==
  ASSUME IInv, NEW o \in TraderOrders, handle_cancel(o)
  PROVE  IInv'
<1> DEFINE f == cancel_order(o)
<1>1. o \in DOMAIN asked /\ o \in Orders
  BY DEF TraderOrders, IInv, Ids, Known
<1>2. f \in Frame /\ f.id = o /\ f.kind = "cancelOrder"
  BY <1>1 DEF cancel_order, Frame
<1> HIDE DEF f
<1>3. <<f>> \in Seq(Frame) /\ ToSet(<<f>>) = {f}
  BY <1>2, Single
<1>4. wire' = wire \o <<f>>
  <2>1. wire \in Seq(Frame)
    BY DEF IInv, Ids, Queues
  <2> QED
    BY <2>1, <1>2 DEF handle_cancel, f
<1>5. /\ call.pc = "idle" /\ UNCHANGED <<client, socket, inbox, gateway, killed, history>>
      /\ sweep' \in {"idle", "todo", "done"}
  BY DEF handle_cancel, kill, IInv, Ids, TypeOK
<1> QED
  BY <1>1, <1>2, <1>3, <1>4, <1>5, FramesStep

(* handle_modify: the cached order, amended, says what was asked for: its  *)
(* contract, side and time in force are those of the cache, and without a  *)
(* good-till-date nothing is sent.                                         *)
LEMMA ModifyStep ==
  ASSUME IInv, NEW o \in TraderOrders, NEW amend \in Amendments, handle_modify(o, amend)
  PROVE  IInv'
<1> DEFINE req == Amended(open_orders[o], amend)
           f == place_order(o, place_order_contract_request(req.contract),
                            build_place_params(req))
<1>1. /\ o \in DOMAIN asked /\ o \in Orders /\ asked[o] \in LimitRequest
      /\ Matches(asked[o], open_orders[o])
  BY RequestTypes DEF TraderOrders, IInv, Ids, Known, TermsMatch, handle_modify
<1>2. amend.price \in Nat /\ amend.qty \in Nat /\ amend.gtd \in Nat
  BY AmendmentsAssumption
<1>3. /\ req \in LimitRequest
      /\ req.contract = asked[o].contract /\ req.side = asked[o].side
      /\ req.tif = asked[o].tif
      /\ req.price \in {asked[o].price} \cup {a.price : a \in Amendments}
      /\ req.qty \in {asked[o].qty} \cup {a.qty : a \in Amendments}
  <2>1. /\ req.contract = asked[o].contract /\ req.side = asked[o].side
        /\ req.tif = asked[o].tif /\ req.order_type = "Limit"
        /\ req.price \in Nat \ {0} /\ req.qty \in Nat /\ req.gtd_until_utc \in Nat
    BY <1>1, <1>2 DEF Amended, Amount, Matches, None
  <2>2. /\ req.price \in {asked[o].price} \cup {a.price : a \in Amendments}
        /\ req.qty \in {asked[o].qty} \cup {a.qty : a \in Amendments}
    BY <1>1 DEF Amended, Amount, Matches
  <2>3. req = [contract |-> req.contract, side |-> req.side, qty |-> req.qty,
               order_type |-> req.order_type, price |-> req.price, tif |-> req.tif,
               gtd_until_utc |-> req.gtd_until_utc]
    BY DEF Amended
  <2>4. req \in LimitRequest
    BY <1>1, <2>1, <2>3 DEF LimitRequest
  <2> QED
    BY <2>1, <2>2, <2>4
<1>4. ~InvalidRequest(req) /\ wire' = Append(wire, f)
  BY DEF handle_modify
<1> HIDE DEF req
<1>5. /\ f.fields \in Fields
      /\ Native(GwTerms(f.fields)) =
            [contract |-> req.contract, side |-> req.side, qty |-> req.qty,
             order_type |-> "Limit", price |-> req.price, tif |-> req.tif,
             gtd_until_utc |-> None, status |-> "PendingSubmit", remaining |-> 0]
      /\ req.tif = "Gtd" => GwTerms(f.fields).good_till_date = req.gtd_until_utc
  BY <1>3, RoundTrip
<1>6. Says(asked[o], GwTerms(f.fields))
  <2>1. Matches(asked[o], Native(GwTerms(f.fields)))
    BY <1>3, <1>5 DEF Matches, IsOpenOrder, LimitRequest
  <2>2. asked[o].tif = "Gtd" => GwTerms(f.fields).good_till_date # None
    BY <1>3, <1>4, <1>5 DEF InvalidRequest
  <2> QED
    BY <2>1, <2>2 DEF Says
<1>7. f \in Frame /\ f.id = o /\ f.kind = "placeOrder"
  BY <1>1, <1>5 DEF place_order, Frame
<1> HIDE DEF f
<1>8. <<f>> \in Seq(Frame) /\ ToSet(<<f>>) = {f}
  BY <1>7, Single
<1>9. wire' = wire \o <<f>>
  <2>1. wire \in Seq(Frame)
    BY DEF IInv, Ids, Queues
  <2> QED
    BY <2>1, <1>4, <1>7
<1>10. /\ call.pc = "idle" /\ UNCHANGED <<client, socket, inbox, gateway, killed, history>>
       /\ sweep' \in {"idle", "todo", "done"}
  BY DEF handle_modify, kill, IInv, Ids, TypeOK
<1> QED
  BY <1>1, <1>6, <1>7, <1>8, <1>9, <1>10, FramesStep

(* cancel_all_resting: cancels for some orders of the cache. *)
LEMMA SweepStep ==
  ASSUME IInv, cancel_all_resting
  PROVE  IInv'
<1> DEFINE actionable == {o \in DOMAIN open_orders : open_orders[o].remaining > 0}
           frames == {cancel_order(o) : o \in actionable}
           sent == SetToSeq(frames)
<1>1. wire' = wire \o sent /\ sweep' = "done" /\ call.pc = "idle"
      /\ UNCHANGED <<client, socket, inbox, gateway, killed, history>>
  BY DEF cancel_all_resting
<1>2. actionable \subseteq Orders /\ actionable \subseteq DOMAIN asked
  BY DEF IInv, Ids, Known
<1>3. IsFiniteSet(frames)
  <2>1. IsFiniteSet(Orders)
    BY FS_Interval, MaxOrdersAssumption DEF Orders
  <2>2. IsFiniteSet(actionable)
    BY <2>1, <1>2, FS_Subset
  <2> DEFINE f == [o \in actionable |-> cancel_order(o)]
  <2>3. f \in Surjection(actionable, frames)
    BY DEF Surjection
  <2> QED
    BY <2>2, <2>3, FS_Surjection
<1>4. \A f \in frames : f \in Frame /\ f.id \in DOMAIN asked /\ f.kind = "cancelOrder"
  BY <1>2 DEF cancel_order, Frame
<1> HIDE DEF frames
<1>5. sent \in Seq(frames)
  BY <1>3, InSomeOrder
<1>6. sent \in Seq(Frame) /\ \A f \in ToSet(sent) : f \in frames
  BY <1>4, <1>5 DEF ToSet
<1> HIDE DEF sent
<1> QED
  BY <1>1, <1>4, <1>6, FramesStep

-----------------------------------------------------------------------------
(* The end, and receiving *)

(* shutdown: nothing is under way to the process any more. *)
LEMMA ShutdownStep ==
  ASSUME IInv, shutdown
  PROVE  IInv'
<1> USE DEF IInv, gateway, kill, history
<1>1. /\ call.pc = "idle" /\ pending' = {} /\ connected' = FALSE
      /\ socket' = <<>> /\ inbox' = <<>>
      /\ UNCHANGED <<next_order_id, wire, ack, open_orders, call, returned,
                     place_templates, gw, terms, killed, sweep, allocated, asked, lost>>
  BY DEF shutdown, client_disconnect
<1>2. UnderWay' = {}
  BY <1>1 DEF UnderWay, ToSet
<1>3. TypeOK'
  <2>1. Len(inbox') <= InboxCap
    BY <1>1, InboxCapAssumption
  <2>2. connected' \in BOOLEAN
    BY <1>1
  <2> QED
    BY <1>1, <2>1, <2>2 DEF Ids, TypeOK
<1>4. Queues'
  BY <1>1, <1>2 DEF Ids, Queues
<1>5. Known' /\ Calls' /\ Allocations' /\ NoIdReuse' /\ WaitersHaveCallers'
  BY <1>1 DEF Ids, Known, Calls, Allocations, NoIdReuse, WaitersHaveCallers
<1>6. Verdicts'
  BY <1>1, <1>2 DEF Verdicts, MessagesAreTrue, OnlyItsPlaceFrame, AnswerIsTrue, AcksAreTrue
<1>7. TermsMatch'
  BY <1>1, <1>2 DEF TermsMatch
<1>8. AllFresh'
  BY <1>1 DEF AllFresh
<1> QED
  BY <1>3, <1>4, <1>5, <1>6, <1>7, <1>8 DEF Ids

(* The recv task: the counter never goes back, and a message moves to the  *)
(* dispatch channel or, if that is full, is dropped.                       *)
LEMMA RecvStep ==
  ASSUME IInv, Recv
  PROVE  IInv'
<1> USE DEF IInv, adapter, gateway, kill
<1> DEFINE m == Head(socket)
<1>1. /\ socket # <<>> /\ socket' = Tail(socket)
      /\ next_order_id' = IF m.kind = "NextValidId" /\ m.id > next_order_id
                          THEN m.id ELSE next_order_id
      /\ inbox' = IF Len(inbox) < InboxCap THEN Append(inbox, m) ELSE inbox
      /\ Lose(m)
      /\ UNCHANGED <<wire, pending, ack, open_orders, call, returned, place_templates,
                     connected, gw, terms, killed, sweep, allocated, asked>>
  BY DEF Recv
<1>2. socket \in Seq(Message) /\ inbox \in Seq(Message)
  BY DEF Ids, Queues
<1>3. /\ m \in Message /\ m \in ToSet(socket) /\ socket' \in Seq(Message)
      /\ ToSet(socket') \subseteq ToSet(socket)
  BY <1>1, <1>2, PopFront
<1>4. /\ inbox' \in Seq(Message) /\ ToSet(inbox') \subseteq ToSet(inbox) \cup {m}
      /\ Len(inbox') <= InboxCap
  BY <1>1, <1>2, <1>3, PushBack, InboxCapAssumption DEF Ids, TypeOK
<1>5. UnderWay' \subseteq UnderWay
  BY <1>3, <1>4 DEF UnderWay
<1>6. next_order_id' \in Nat /\ next_order_id' >= next_order_id
  <2>1. next_order_id \in Nat
    BY DEF Ids, TypeOK
  <2>2. m.kind = "NextValidId" => m.id \in Nat
    BY <1>3 DEF Message, StatusKinds
  <2> QED
    BY <1>1, <2>1, <2>2
<1> HIDE DEF m
<1>7. Ids'
  <2>1. TypeOK'
    BY <1>1, <1>4, <1>6 DEF Ids, TypeOK
  <2>2. Queues'
    BY <1>1, <1>3, <1>4, <1>5 DEF Ids, Queues
  <2>3. Known' /\ Allocations'
    <3>1. next_order_id \in Nat
      BY DEF Ids, TypeOK
    <3>2. \A o \in DOMAIN asked : o \in Nat
      BY DEF Ids, Known, Orders
    <3>3. \A k \in DOMAIN allocated : allocated[k] \in Nat
      BY DEF Ids, Allocations
    <3>4. Known'
      BY <1>1, <1>6, <3>1, <3>2 DEF Ids, Known
    <3>5. Allocations'
      BY <1>1, <1>6, <3>1, <3>3 DEF Ids, Allocations
    <3> QED
      BY <3>4, <3>5
  <2>4. Calls' /\ NoIdReuse' /\ WaitersHaveCallers'
    BY <1>1 DEF Ids, Calls, NoIdReuse, WaitersHaveCallers
  <2> QED
    BY <2>1, <2>2, <2>3, <2>4 DEF Ids
<1>8. Verdicts'
  BY <1>1, <1>5 DEF Verdicts, MessagesAreTrue, OnlyItsPlaceFrame, AnswerIsTrue, AcksAreTrue
<1>9. TermsMatch'
  BY <1>1, <1>5 DEF TermsMatch
<1>10. ASSUME NEW o \in Orders, connected, Fresh(o)
       PROVE  Fresh(o)'
  <2> DEFINE order == terms[o]
  <2>1. order' = order /\ LastSays(socket, o, order)
    BY <1>1, <1>10 DEF Fresh
  <2>2. /\ LastSays(socket', o, order)
        /\ ~Opens(m, o) => (Silent(socket', o) <=> Silent(socket, o))
        /\ Opens(m, o) /\ Silent(socket', o) => m.order = order
    BY <1>1, <1>2, <2>1, OneLess DEF m
  <2> HIDE DEF order
  <2>3. CASE ~Opens(m, o)
    <3>1. o \in lost' <=> o \in lost
      <4>1. CASE m.kind # "OpenOrder"
        BY <1>1, <4>1 DEF Lose
      <4>2. CASE m.kind = "OpenOrder" /\ Len(inbox) < InboxCap
        BY <1>1, <2>3, <4>2 DEF Lose, Opens
      <4>3. CASE m.kind = "OpenOrder" /\ ~(Len(inbox) < InboxCap)
        BY <1>1, <2>3, <4>3 DEF Lose, Opens
      <4> QED
        BY <4>1, <4>2, <4>3
    <3>2. /\ Silent(inbox', o) <=> Silent(inbox, o)
          /\ LastSays(inbox, o, order) => LastSays(inbox', o, order)
      BY <1>1, <1>2, <1>3, <2>3, OneBehind
    <3> QED
      BY <1>1, <1>10, <2>1, <2>2, <2>3, <3>1, <3>2 DEF Fresh, order
  <2>4. CASE Opens(m, o) /\ Len(inbox) < InboxCap
    <3>1. ~Silent(inbox', o) /\ (m.order = order => LastSays(inbox', o, order))
      BY <1>1, <1>2, <1>3, <2>4, OneBehind
    <3> QED
      BY <2>1, <2>2, <2>4, <3>1 DEF Fresh, order
  <2>5. CASE Opens(m, o) /\ ~(Len(inbox) < InboxCap)
    <3>1. o \in lost'
      BY <1>1, <2>5 DEF Lose, Opens
    <3> QED
      BY <2>1, <2>2, <3>1 DEF Fresh, order
  <2> QED
    BY <2>3, <2>4, <2>5
<1>11. AllFresh'
  BY <1>1, <1>10 DEF AllFresh
<1> QED
  BY <1>7, <1>8, <1>9, <1>11

(* What route may do with the waiters, for an answer that is true. *)
LEMMA ResolveKeeps ==
  ASSUME IInv, NEW id, NEW result \in {"ok", "rejected"}, Resolve(id, result),
         UNCHANGED <<call, gw>>,
         id = call.id => /\ result = "ok" => gw[id] \in Taken
                         /\ result = "rejected" => gw[id] = "rejected"
  PROVE  /\ ack' \in {"none", "ok", "rejected"} /\ pending' \subseteq pending
         /\ ack' # "none" => call.pc \in {"wait", "expired"} /\ pending' = {}
         /\ AnswerIsTrue'
<1>1. pending \subseteq {call.id} \ {0} /\ ack \in {"none", "ok", "rejected"}
      /\ (ack # "none" => call.pc \in {"wait", "expired"} /\ pending = {})
  BY DEF IInv, Ids, WaitersHaveCallers, TypeOK, Calls
<1>2. CASE id \in pending /\ id = call.id
  <2>1. ack' = result /\ pending' = {}
    BY <1>1, <1>2 DEF Resolve
  <2>2. gw[call.id] # "none"
    BY <1>2 DEF Taken
  <2>3. call.pc \in {"wait", "expired"}
    BY <1>1, <1>2, <2>2 DEF IInv, Verdicts, AnswerIsTrue, Ids, TypeOK, Calls, NoCall
  <2> QED
    BY <1>2, <2>1, <2>3 DEF AnswerIsTrue
<1>3. CASE ~(id \in pending /\ id = call.id)
  <2>1. ack' = ack /\ pending' \subseteq pending
    BY <1>3 DEF Resolve
  <2> QED
    BY <1>1, <2>1 DEF IInv, Verdicts, AnswerIsTrue
<1> QED
  BY <1>2, <1>3

(* A status leaves the terms of a cached order alone. *)
LEMMA StatusKeeps ==
  ASSUME NEW req, NEW open, Matches(req, open), NEW status
  PROVE  /\ Matches(req, [open EXCEPT !.status = status])
         /\ [[open EXCEPT !.status = status] EXCEPT !.status = "PendingSubmit"]
              = [open EXCEPT !.status = "PendingSubmit"]
<1>1. [open EXCEPT !.status = status]
        = [contract |-> open.contract, side |-> open.side, qty |-> open.qty,
           order_type |-> open.order_type, price |-> open.price, tif |-> open.tif,
           gtd_until_utc |-> open.gtd_until_utc, status |-> status,
           remaining |-> open.remaining]
  BY DEF Matches, IsOpenOrder
<1>2. Matches(req, [open EXCEPT !.status = status])
  BY <1>1 DEF Matches, IsOpenOrder
<1>3. [[open EXCEPT !.status = status] EXCEPT !.status = "PendingSubmit"]
        = [open EXCEPT !.status = "PendingSubmit"]
  BY <1>1 DEF Matches, IsOpenOrder
<1> QED
  BY <1>2, <1>3

(* The dispatcher: a message that is true resolves the waiter truly, and   *)
(* the cache takes over what an openOrder says.                            *)
LEMMA DispatchStep ==
  ASSUME IInv, Dispatch
  PROVE  IInv'
<1> USE DEF IInv, adapter, gateway, kill, history
<1> DEFINE m == Head(inbox)
<1>1. /\ inbox # <<>> /\ inbox' = Tail(inbox) /\ route(m)
      /\ UNCHANGED <<next_order_id, wire, socket, call, returned, place_templates,
                     connected, gw, terms, killed, sweep, allocated, asked, lost>>
  BY DEF Dispatch
<1>2. inbox \in Seq(Message)
  BY DEF Ids, Queues
<1>3. /\ m \in Message /\ m \in UnderWay /\ inbox' \in Seq(Message)
      /\ Len(inbox') <= Len(inbox) /\ UnderWay' \subseteq UnderWay
  BY <1>1, <1>2, PopFront DEF UnderWay
<1>4. /\ m.kind \in Positive => gw[m.id] \in Taken
      /\ m.kind = "Error" /\ m.id = call.id => gw[m.id] = "rejected"
      /\ m.kind = "OpenOrder" => /\ m.id \in DOMAIN asked
                                 /\ Matches(asked[m.id], Native(m.order))
  BY <1>3 DEF Verdicts, MessagesAreTrue, TermsMatch, Says, Ids, Queues
<1> HIDE DEF m
<1>5. /\ ack' \in {"none", "ok", "rejected"} /\ pending' \subseteq pending
      /\ ack' # "none" => call.pc \in {"wait", "expired"} /\ pending' = {}
      /\ AnswerIsTrue'
  <2>1. CASE RouteOpenOrder(m)
    BY <1>1, <1>4, <2>1, ResolveKeeps DEF RouteOpenOrder, Positive
  <2>2. CASE RouteOrderStatus(m) /\ parse_status(m.kind) \in Acknowledging
    BY <1>1, <1>4, <2>2, ResolveKeeps
       DEF RouteOrderStatus, StatusKinds, Acknowledging, parse_status, Positive
  <2>3. CASE RouteError(m)
    BY <1>1, <1>4, <2>3, ResolveKeeps DEF RouteError
  <2>4. CASE UNCHANGED <<ack, pending>>
    BY <1>1, <2>4 DEF Ids, TypeOK, Calls, Verdicts, AnswerIsTrue
  <2> QED
    BY <1>1, <2>1, <2>2, <2>3, <2>4 DEF route, RouteOrderStatus, RouteOther
<1>6. /\ \A o \in DOMAIN open_orders' :
           o \in DOMAIN asked /\ Matches(asked[o], open_orders'[o])
      /\ \A o \in Orders : ~Opens(m, o) /\ o \in DOMAIN open_orders' =>
           /\ o \in DOMAIN open_orders
           /\ [open_orders'[o] EXCEPT !.status = "PendingSubmit"]
                = [open_orders[o] EXCEPT !.status = "PendingSubmit"]
      /\ \A o \in Orders : Opens(m, o) =>
           [open_orders'[o] EXCEPT !.status = "PendingSubmit"] = Native(m.order)
  <2>1. \A o \in DOMAIN open_orders : o \in DOMAIN asked /\ Matches(asked[o], open_orders[o])
    BY DEF Ids, Known, TermsMatch
  <2>2. CASE RouteOpenOrder(m)
    <3>1. /\ m.kind = "OpenOrder" /\ DOMAIN open_orders' = DOMAIN open_orders \cup {m.id}
          /\ open_orders'[m.id] = Native(m.order)
          /\ \A o \in DOMAIN open_orders \ {m.id} : open_orders'[o] = open_orders[o]
      BY <2>2 DEF RouteOpenOrder, Insert, Native
    <3>2. [Native(m.order) EXCEPT !.status = "PendingSubmit"] = Native(m.order)
      BY DEF Native, native_to_open_order
    <3> QED
      BY <1>4, <2>1, <3>1, <3>2 DEF Opens
  <2>3. CASE RouteOrderStatus(m)
    <3>1. /\ DOMAIN open_orders' = DOMAIN open_orders /\ m.kind # "OpenOrder"
          /\ \A o \in DOMAIN open_orders : open_orders'[o] =
               IF o = m.id THEN [open_orders[o] EXCEPT !.status = parse_status(m.kind)]
               ELSE open_orders[o]
      BY <2>3 DEF RouteOrderStatus, UpdateStatus, StatusKinds
    <3>2. \A o \in DOMAIN open_orders :
            /\ Matches(asked[o], open_orders'[o])
            /\ [open_orders'[o] EXCEPT !.status = "PendingSubmit"]
                 = [open_orders[o] EXCEPT !.status = "PendingSubmit"]
      <4> SUFFICES ASSUME NEW o \in DOMAIN open_orders
                   PROVE  /\ Matches(asked[o], open_orders'[o])
                          /\ [open_orders'[o] EXCEPT !.status = "PendingSubmit"]
                               = [open_orders[o] EXCEPT !.status = "PendingSubmit"]
        OBVIOUS
      <4>1. CASE o = m.id
        <5> DEFINE open == open_orders[o]
                   status == parse_status(m.kind)
        <5>1. Matches(asked[o], open) /\ open_orders'[o] = [open EXCEPT !.status = status]
          BY <2>1, <3>1, <4>1
        <5> HIDE DEF open, status
        <5>2. /\ Matches(asked[o], [open EXCEPT !.status = status])
              /\ [[open EXCEPT !.status = status] EXCEPT !.status = "PendingSubmit"]
                   = [open EXCEPT !.status = "PendingSubmit"]
          BY <5>1, StatusKeeps
        <5> QED
          BY <5>1, <5>2 DEF open
      <4>2. CASE o # m.id
        BY <2>1, <3>1, <4>2
      <4> QED
        BY <4>1, <4>2
    <3> QED
      BY <2>1, <3>1, <3>2 DEF Opens
  <2>4. CASE RouteError(m) \/ RouteOther(m)
    BY <2>1, <2>4 DEF RouteError, RouteOther, Opens
  <2> QED
    BY <1>1, <2>2, <2>3, <2>4 DEF route
<1>7. Ids'
  <2>1. DOMAIN open_orders' \subseteq Orders
    BY <1>6 DEF Ids, Known
  <2>2. TypeOK'
    <3>1. Len(inbox') <= InboxCap
      BY <1>1, <1>2, <1>3, PopFront, InboxCapAssumption DEF Ids, TypeOK
    <3> QED
      BY <1>1, <1>5, <2>1, <3>1 DEF Ids, TypeOK
  <2>3. Queues'
    BY <1>1, <1>3 DEF Ids, Queues
  <2>4. Known' /\ Allocations' /\ NoIdReuse' /\ WaitersHaveCallers'
    BY <1>1, <1>5, <1>6 DEF Ids, Known, Allocations, NoIdReuse, WaitersHaveCallers
  <2>5. Calls'
    BY <1>1, <1>5 DEF Ids, Calls
  <2> QED
    BY <2>2, <2>3, <2>4, <2>5 DEF Ids
<1>8. Verdicts'
  BY <1>1, <1>3, <1>5 DEF Verdicts, MessagesAreTrue, OnlyItsPlaceFrame, AcksAreTrue
<1>9. TermsMatch'
  BY <1>1, <1>3, <1>6 DEF TermsMatch
<1>10. ASSUME NEW o \in Orders, connected, Fresh(o)
       PROVE  Fresh(o)'
  <2>1. UNCHANGED <<socket, lost, terms>> /\ LastSays(socket, o, terms[o])
    BY <1>1, <1>10 DEF Fresh
  <2>2. ASSUME Silent(socket, o), o \notin lost
        PROVE  /\ LastSays(inbox', o, terms[o])
               /\ ~Opens(m, o) => (Silent(inbox', o) <=> Silent(inbox, o))
               /\ Opens(m, o) /\ Silent(inbox', o) => m.order = terms[o]
    BY <1>1, <1>2, <1>10, <2>2, OneLess DEF Fresh, m
  <2> QED
    BY <1>6, <1>10, <2>1, <2>2 DEF Fresh
<1>11. AllFresh'
  BY <1>1, <1>10 DEF AllFresh
<1> QED
  BY <1>7, <1>8, <1>9, <1>11

-----------------------------------------------------------------------------
(* The gateway *)

(* A frame is read: if it was the place frame of the order whose           *)
(* place_order runs, there is no other frame about that order.             *)
LEMMA FrameRead ==
  ASSUME IInv, wire # <<>>, wire' = Tail(wire), call' = call,
         \A p \in Orders : p # Head(wire).id => gw'[p] = gw[p]
  PROVE  /\ OnlyItsPlaceFrame'
         /\ Head(wire) \in Frame /\ Head(wire) \in ToSet(wire)
         /\ wire' \in Seq(Frame) /\ ToSet(wire') \subseteq ToSet(wire)
         /\ call.pc # "idle" /\ Head(wire).id = call.id =>
              call.pc # "send" /\ Head(wire).kind = "placeOrder" /\ gw[call.id] = "none"
<1>1. wire \in Seq(Frame)
  BY DEF IInv, Ids, Queues
<1>2. /\ Head(wire) \in Frame /\ Head(wire) = wire[1] /\ Head(wire) \in ToSet(wire)
      /\ wire' \in Seq(Frame) /\ Len(wire') = Len(wire) - 1 /\ Len(wire) \in Nat \ {0}
      /\ \A i \in 1 .. Len(wire') : wire'[i] = wire[i + 1]
      /\ ToSet(wire') \subseteq ToSet(wire)
  BY <1>1, PopFront
<1>3. ASSUME call.pc # "idle", NEW i \in 1 .. Len(wire), wire[i].id = call.id
      PROVE  /\ call.pc # "send" /\ wire[i].kind = "placeOrder" /\ gw[call.id] = "none"
             /\ \A j \in 1 .. Len(wire) : wire[j].id = call.id => i = j
  BY <1>3 DEF IInv, Verdicts, OnlyItsPlaceFrame
<1>4. ASSUME call.pc # "idle", NEW i \in 1 .. Len(wire'), wire'[i].id = call.id
      PROVE  /\ call.pc # "send" /\ wire'[i].kind = "placeOrder" /\ gw'[call.id] = "none"
             /\ \A j \in 1 .. Len(wire') : wire'[j].id = call.id => i = j
  <2>1. i + 1 \in 1 .. Len(wire) /\ wire'[i] = wire[i + 1] /\ 1 \in 1 .. Len(wire) /\ 1 # i + 1
    BY <1>2
  <2>2. /\ call.pc # "send" /\ wire'[i].kind = "placeOrder" /\ gw[call.id] = "none"
        /\ \A j \in 1 .. Len(wire) : wire[j].id = call.id => i + 1 = j
    BY <1>3, <1>4, <2>1
  <2>3. wire[1].id # call.id
    BY <2>1, <2>2
  <2>4. call.id \in Orders
    BY <1>4 DEF IInv, Ids, Calls, Known
  <2>5. gw'[call.id] = "none"
    BY <1>2, <2>2, <2>3, <2>4
  <2>6. ASSUME NEW j \in 1 .. Len(wire'), wire'[j].id = call.id PROVE i = j
    <3>1. j + 1 \in 1 .. Len(wire) /\ wire[j + 1].id = call.id
      BY <1>2, <2>6
    <3>2. i + 1 = j + 1
      BY <2>2, <3>1
    <3> QED
      BY <3>2, <1>2
  <2> QED
    BY <2>2, <2>5, <2>6
<1>5. OnlyItsPlaceFrame'
  BY <1>4 DEF OnlyItsPlaceFrame
<1>6. 1 \in 1 .. Len(wire)
  BY <1>2
<1> QED
  BY <1>2, <1>3, <1>5, <1>6

(* The gateway changes an order and reports it truly. *)
LEMMA ReportStep ==
  ASSUME IInv, NEW o \in Orders, o \in DOMAIN asked, NEW ms \in Seq(Message), Report(ms),
         UNCHANGED <<client, inbox, kill, history>>,
         wire' \in Seq(Frame), ToSet(wire') \subseteq ToSet(wire), OnlyItsPlaceFrame',
         gw' \in [Orders -> {"none", "live", "done", "rejected"}],
         DOMAIN terms' = Orders,
         \A p \in Orders : p # o => gw'[p] = gw[p] /\ terms'[p] = terms[p],
         gw[o] \in Taken => gw'[o] \in Taken,
         gw[o] = "rejected" => gw'[o] = "rejected",
         call.pc = "send" /\ call.id = o => gw'[o] = "none",
         gw'[o] = "live" => Says(asked[o], terms'[o]),
         \A m \in ToSet(ms) :
           /\ m.kind # "NextValidId" => m.id = o
           /\ m.kind \in Positive => gw'[o] \in Taken
           /\ m.kind = "Error" /\ m.id = call.id => gw'[o] = "rejected"
           /\ m.kind = "OpenOrder" => m.order = terms'[o] /\ Says(asked[o], m.order),
         terms'[o] = terms[o] \/ \E m \in ToSet(ms) : Opens(m, o)
  PROVE  IInv'
<1> USE DEF IInv, client, adapter, kill, history
<1>1. socket \in Seq(Message) /\ (connected => socket' = socket \o ms)
      /\ socket' \in Seq(Message) /\ ToSet(socket') \subseteq ToSet(socket) \cup ToSet(ms)
  <2>1. socket \in Seq(Message)
    BY DEF Ids, Queues
  <2>2. CASE connected
    BY <2>1, <2>2, Behind DEF Report
  <2>3. CASE ~connected
    BY <2>1, <2>3 DEF Report
  <2> QED
    BY <2>1, <2>2, <2>3
<1>2. UnderWay' \subseteq UnderWay \cup ToSet(ms)
  BY <1>1 DEF UnderWay
<1>3. Ids'
  <2>1. TypeOK'
    BY DEF Ids, TypeOK
  <2>2. Queues'
    <3>1. \A m \in UnderWay' : m.kind # "NextValidId" => m.id \in DOMAIN asked
      BY <1>2 DEF Ids, Queues
    <3> QED
      BY <1>1, <3>1 DEF Ids, Queues
  <2>3. Known'
    BY DEF Ids, Known
  <2>4. Calls' /\ Allocations' /\ NoIdReuse' /\ WaitersHaveCallers'
    BY DEF Ids, Calls, Allocations, NoIdReuse, WaitersHaveCallers
  <2> QED
    BY <2>1, <2>2, <2>3, <2>4 DEF Ids
<1>4. \A p \in Orders : /\ gw[p] \in Taken => gw'[p] \in Taken
                        /\ gw[p] = "rejected" => gw'[p] = "rejected"
  OBVIOUS
<1>5. Verdicts'
  <2>1. MessagesAreTrue'
    <3> SUFFICES ASSUME NEW m \in UnderWay'
                 PROVE  /\ m.kind \in Positive => gw'[m.id] \in Taken
                        /\ m.kind = "Error" /\ m.id = call.id => gw'[m.id] = "rejected"
      BY DEF MessagesAreTrue
    <3>1. CASE m \in ToSet(ms)
      BY <3>1 DEF Positive
    <3>2. CASE m \in UnderWay
      <4>1. m.kind \in Positive \cup {"Error"} => m.id \in Orders
        BY <3>2 DEF Ids, Queues, Known, Positive
      <4> QED
        BY <3>2, <4>1, <1>4 DEF Verdicts, MessagesAreTrue
    <3> QED
      BY <1>2, <3>1, <3>2
  <2>2. AnswerIsTrue'
    <3>1. call.pc # "idle" => call.id \in Orders
      BY DEF Ids, Calls, Known
    <3> QED
      BY <3>1, <1>4 DEF Verdicts, AnswerIsTrue, Ids, Calls
  <2>3. AcksAreTrue'
    BY <1>4 DEF Verdicts, AcksAreTrue, Taken
  <2> QED
    BY <2>1, <2>2, <2>3 DEF Verdicts
<1>6. TermsMatch'
  <2>1. \A m \in UnderWay' : m.kind = "OpenOrder" => Says(asked[m.id], m.order)
    BY <1>2 DEF TermsMatch
  <2>2. \A p \in Orders : gw'[p] = "live" => Says(asked[p], terms'[p])
    BY DEF TermsMatch
  <2>3. \A f \in ToSet(wire') : f.kind = "placeOrder" => Says(asked[f.id], GwTerms(f.fields))
    BY DEF TermsMatch
  <2> QED
    BY <2>1, <2>2, <2>3 DEF TermsMatch
<1>7. ASSUME NEW p \in Orders, connected, Fresh(p)
      PROVE  Fresh(p)'
  <2>1. \A i \in 1 .. Len(ms) : ms[i] \in ToSet(ms)
    BY DEF ToSet
  <2>2. CASE Silent(ms, p) /\ terms'[p] = terms[p]
    <3>1. /\ Silent(socket', p) <=> Silent(socket, p)
          /\ LastSays(socket, p, terms[p]) => LastSays(socket', p, terms[p])
      <4>1. /\ Silent(socket \o ms, p) <=> Silent(socket, p)
            /\ LastSays(socket, p, terms[p]) => LastSays(socket \o ms, p, terms[p])
        BY <1>1, <2>2, QuietBehind
      <4> QED
        BY <4>1, <1>1, <1>7
    <3> QED
      BY <1>7, <2>2, <3>1 DEF Fresh
  <2>3. CASE ~Silent(ms, p) /\ p = o
    <3>1. \E i \in 1 .. Len(ms) : Opens(ms[i], o)
      BY <2>3 DEF Silent
    <3>2. \A i \in 1 .. Len(ms) : Opens(ms[i], o) => ms[i].order = terms'[o]
      BY <2>1 DEF Opens
    <3>3. ~Silent(socket', o) /\ LastSays(socket', o, terms'[o])
      <4> DEFINE order == terms'[o]
      <4>1. \A i \in 1 .. Len(ms) : Opens(ms[i], o) => ms[i].order = order
        BY <3>2
      <4> HIDE DEF order
      <4>2. ~Silent(socket \o ms, o) /\ LastSays(socket \o ms, o, order)
        BY <1>1, <3>1, <4>1, OpenBehind
      <4> QED
        BY <4>2, <1>1, <1>7 DEF order
    <3> QED
      BY <2>3, <3>3 DEF Fresh
  <2>4. p # o => Silent(ms, p)
    BY <2>1 DEF Silent, Opens
  <2>5. Silent(ms, o) => \A m \in ToSet(ms) : ~Opens(m, o)
    BY DEF Silent, ToSet
  <2> QED
    BY <2>2, <2>3, <2>4, <2>5
<1>8. AllFresh'
  BY <1>7 DEF AllFresh
<1> QED
  BY <1>3, <1>5, <1>6, <1>8

(* The messages of the gateway, and their types. *)
LEMMA MessageTypes ==
  ASSUME NEW o \in Orders, NEW kind \in StatusKinds \cup {"Error"}, NEW order \in OrderOf
  PROVE  /\ Msg(kind, o) \in Message /\ Msg(kind, o).kind = kind /\ Msg(kind, o).id = o
         /\ Msg("NextValidId", o + 1) \in Message /\ Msg("NextValidId", o + 1).kind = "NextValidId"
         /\ OpenOrder(o, order) \in Message /\ OpenOrder(o, order).kind = "OpenOrder"
         /\ OpenOrder(o, order).id = o /\ OpenOrder(o, order).order = order
BY DEF Msg, OpenOrder, Message, Orders

(* A new order, or its rejection: the frame was the only one about it. *)
LEMMA GwAcceptStep ==
  ASSUME IInv, GwAccept
  PROVE  IInv'
<1> USE DEF IInv
<1> DEFINE f == Head(wire)
           o == f.id
           order == GwTerms(f.fields)
<1>1. /\ wire # <<>> /\ wire' = Tail(wire) /\ f.kind = "placeOrder" /\ gw[o] = "none"
      /\ gw' = [gw EXCEPT ![o] = "live"] /\ terms' = [terms EXCEPT ![o] = order]
      /\ UNCHANGED <<client, inbox, kill, history>> /\ call' = call
  BY DEF GwAccept, client
<1>2. PICK status \in {Msg("Submitted", o), Msg("PreSubmitted", o)} :
        \/ Report(<<OpenOrder(o, order), status, Msg("NextValidId", o + 1)>>)
        \/ Report(<<status, OpenOrder(o, order), Msg("NextValidId", o + 1)>>)
  BY DEF GwAccept
<1>3. /\ gw \in [Orders -> {"none", "live", "done", "rejected"}] /\ DOMAIN terms = Orders
  BY DEF Ids, TypeOK, Known
<1>4. /\ OnlyItsPlaceFrame' /\ f \in Frame /\ f \in ToSet(wire)
      /\ wire' \in Seq(Frame) /\ ToSet(wire') \subseteq ToSet(wire)
      /\ call.pc # "idle" /\ o = call.id => call.pc # "send"
  BY <1>1, <1>3, FrameRead
<1>5. /\ o \in Orders /\ o \in DOMAIN asked /\ order \in OrderOf /\ Says(asked[o], order)
  <2>1. f \in [kind : {"placeOrder"}, id : Orders, fields : Fields]
    BY <1>1, <1>4 DEF Frame
  <2> QED
    BY <2>1, <1>4 DEF Ids, Queues, TermsMatch, OrderOf
<1> HIDE DEF f, o, order
<1> DEFINE open == OpenOrder(o, order)
           next == Msg("NextValidId", o + 1)
<1>6. /\ open \in Message /\ open.kind = "OpenOrder" /\ open.id = o /\ open.order = order
      /\ next \in Message /\ next.kind = "NextValidId"
      /\ status \in Message /\ status.kind \in {"Submitted", "PreSubmitted"} /\ status.id = o
  BY <1>2, <1>5, MessageTypes DEF StatusKinds
<1> HIDE DEF open, next
<1>7. \E ms \in Seq(Message) : Report(ms) /\ ToSet(ms) = {open, status, next}
  <2>1. /\ <<open, status, next>> \in Seq(Message)
        /\ ToSet(<<open, status, next>>) = {open, status, next}
    BY <1>6 DEF ToSet
  <2>2. /\ <<status, open, next>> \in Seq(Message)
        /\ ToSet(<<status, open, next>>) = {open, status, next}
    BY <1>6 DEF ToSet
  <2> QED
    BY <1>2, <2>1, <2>2 DEF open, next
<1>8. PICK ms \in Seq(Message) : Report(ms) /\ ToSet(ms) = {open, status, next}
  BY <1>7
<1>9. /\ gw' \in [Orders -> {"none", "live", "done", "rejected"}] /\ gw'[o] = "live"
      /\ DOMAIN terms' = Orders /\ terms'[o] = order
      /\ \A p \in Orders : p # o => gw'[p] = gw[p] /\ terms'[p] = terms[p]
  BY <1>1, <1>3, <1>5
<1>10. call.pc = "send" => call.id # o
  BY <1>4
<1>11. \A m \in ToSet(ms) :
         /\ m.kind # "NextValidId" => m.id = o
         /\ m.kind # "Error"
         /\ m.kind = "OpenOrder" => m.order = order
  BY <1>6, <1>8
<1>12. open \in ToSet(ms) /\ Opens(open, o)
  BY <1>6, <1>8 DEF Opens
<1> QED
  BY <1>1, <1>4, <1>5, <1>8, <1>9, <1>10, <1>11, <1>12, ReportStep, SMTT(30) DEF Taken

(* A rejection is reported by an error and a status that acknowledges      *)
(* nothing, in either order.                                               *)
LEMMA GwRejectStep ==
  ASSUME IInv, GwReject
  PROVE  IInv'
<1> USE DEF IInv
<1> DEFINE f == Head(wire)
           o == f.id
           error == Msg("Error", o)
           inactive == Msg("Inactive", o)
<1>1. /\ wire # <<>> /\ wire' = Tail(wire) /\ f.kind = "placeOrder" /\ gw[o] = "none"
      /\ gw' = [gw EXCEPT ![o] = "rejected"] /\ terms' = terms
      /\ Report(<<error, inactive>>) \/ Report(<<inactive, error>>)
      /\ UNCHANGED <<client, inbox, kill, history>> /\ call' = call
  BY DEF GwReject, client
<1>2. /\ gw \in [Orders -> {"none", "live", "done", "rejected"}] /\ DOMAIN terms = Orders
  BY DEF Ids, TypeOK, Known
<1>3. /\ OnlyItsPlaceFrame' /\ f \in Frame /\ f \in ToSet(wire)
      /\ wire' \in Seq(Frame) /\ ToSet(wire') \subseteq ToSet(wire)
      /\ call.pc # "idle" /\ o = call.id => call.pc # "send"
  BY <1>1, <1>2, FrameRead
<1>4. o \in Orders /\ o \in DOMAIN asked
  BY <1>3 DEF Frame, Ids, Queues
<1> HIDE DEF f, o
<1>5. /\ error \in Message /\ error.kind = "Error" /\ error.id = o
      /\ inactive \in Message /\ inactive.kind = "Inactive" /\ inactive.id = o
  BY <1>4 DEF Msg, Message, StatusKinds
<1> HIDE DEF error, inactive
<1>6. \E ms \in Seq(Message) : Report(ms) /\ ToSet(ms) = {error, inactive}
  <2>1. /\ <<error, inactive>> \in Seq(Message) /\ ToSet(<<error, inactive>>) = {error, inactive}
        /\ <<inactive, error>> \in Seq(Message) /\ ToSet(<<inactive, error>>) = {inactive, error}
    BY <1>5 DEF ToSet
  <2> QED
    BY <1>1, <2>1
<1>7. PICK ms \in Seq(Message) : Report(ms) /\ ToSet(ms) = {error, inactive}
  BY <1>6
<1>8. /\ gw' \in [Orders -> {"none", "live", "done", "rejected"}] /\ gw'[o] = "rejected"
      /\ \A p \in Orders : p # o => gw'[p] = gw[p]
  BY <1>1, <1>2, <1>4
<1>9. call.pc = "send" => call.id # o
  BY <1>3
<1>10. \A m \in ToSet(ms) :
         m.id = o /\ m.kind \in {"Error", "Inactive"} /\ m.kind \notin Positive
  BY <1>5, <1>7 DEF Positive
<1>11. gw[o] \notin Taken /\ gw[o] # "rejected" /\ gw'[o] # "live"
  BY <1>1, <1>8 DEF Taken
<1>12. /\ DOMAIN terms' = Orders /\ \A p \in Orders : terms'[p] = terms[p]
       /\ UNCHANGED <<client, inbox, kill, history>>
  BY <1>1, <1>2
<1>13. \A m \in ToSet(ms) :
         /\ m.kind # "NextValidId" => m.id = o
         /\ m.kind \in Positive => gw'[o] \in Taken
         /\ m.kind = "Error" /\ m.id = call.id => gw'[o] = "rejected"
         /\ m.kind = "OpenOrder" => m.order = terms'[o] /\ Says(asked[o], m.order)
  BY <1>8, <1>10
<1> QED
  BY <1>3, <1>4, <1>7, <1>8, <1>9, <1>11, <1>12, <1>13, ReportStep

(* A modification is about an order whose place_order has returned. *)
LEMMA GwModifyStep ==
  ASSUME IInv, GwModify
  PROVE  IInv'
<1> USE DEF IInv
<1> DEFINE f == Head(wire)
           o == f.id
           order == GwTerms(f.fields)
           error == Msg("Error", o)
           open == OpenOrder(o, order)
           status == Msg("Submitted", o)
<1>1. /\ wire # <<>> /\ wire' = Tail(wire) /\ f.kind = "placeOrder" /\ gw[o] # "none"
      /\ gw' = gw
      /\ \/ /\ gw[o] = "live" /\ terms' = [terms EXCEPT ![o] = order]
            /\ Report(<<open, status>>)
         \/ gw[o] # "live" /\ terms' = terms /\ Report(<<error>>)
      /\ UNCHANGED <<client, inbox, kill, history>> /\ call' = call
  BY DEF GwModify, client
<1>2. /\ gw \in [Orders -> {"none", "live", "done", "rejected"}] /\ DOMAIN terms = Orders
  BY DEF Ids, TypeOK, Known
<1>3. /\ OnlyItsPlaceFrame' /\ f \in Frame /\ f \in ToSet(wire)
      /\ wire' \in Seq(Frame) /\ ToSet(wire') \subseteq ToSet(wire)
      /\ ~(call.pc # "idle" /\ o = call.id)
  BY <1>1, <1>2, FrameRead
<1>4. /\ o \in Orders /\ o \in DOMAIN asked /\ order \in OrderOf /\ Says(asked[o], order)
  <2>1. f \in [kind : {"placeOrder"}, id : Orders, fields : Fields]
    BY <1>1, <1>3 DEF Frame
  <2> QED
    BY <2>1, <1>1, <1>3 DEF Ids, Queues, TermsMatch, OrderOf
<1>5. call.id # o
  BY <1>3, <1>4 DEF Ids, TypeOK, Calls, NoCall, Orders
<1> HIDE DEF f, o, order
<1>6. /\ error \in Message /\ error.kind = "Error" /\ error.id = o
      /\ status \in Message /\ status.kind = "Submitted" /\ status.id = o
      /\ open \in Message /\ open.kind = "OpenOrder" /\ open.id = o /\ open.order = order
  BY <1>4, MessageTypes DEF StatusKinds
<1> HIDE DEF error, open, status
<1>7. CASE gw[o] = "live" /\ terms' = [terms EXCEPT ![o] = order] /\ Report(<<open, status>>)
  <2>1. <<open, status>> \in Seq(Message) /\ ToSet(<<open, status>>) = {open, status}
    BY <1>6 DEF ToSet
  <2>2. PICK ms \in Seq(Message) : Report(ms) /\ ToSet(ms) = {open, status}
    BY <1>7, <2>1
  <2>3. /\ DOMAIN terms' = Orders /\ terms'[o] = order
        /\ \A p \in Orders : p # o => terms'[p] = terms[p]
    BY <1>2, <1>4, <1>7
  <2>4. /\ \A m \in ToSet(ms) : /\ m.id = o /\ m.kind # "Error"
                                /\ m.kind = "OpenOrder" => m.order = order
        /\ \E m \in ToSet(ms) : Opens(m, o)
    BY <1>6, <2>2 DEF Opens
  <2> QED
    BY <1>1, <1>2, <1>3, <1>4, <1>5, <1>7, <2>2, <2>3, <2>4, ReportStep DEF Taken
<1>8. CASE gw[o] # "live" /\ terms' = terms /\ Report(<<error>>)
  <2>1. <<error>> \in Seq(Message) /\ ToSet(<<error>>) = {error}
    BY <1>6, Single
  <2>2. PICK ms \in Seq(Message) : Report(ms) /\ ToSet(ms) = {error}
    BY <1>8, <2>1
  <2>3. \A m \in ToSet(ms) : m.id = o /\ m.kind = "Error"
    BY <1>6, <2>2
  <2> QED
    BY <1>1, <1>2, <1>3, <1>4, <1>5, <1>8, <2>2, <2>3, ReportStep DEF Taken, Positive
<1> QED
  BY <1>1, <1>7, <1>8

(* A cancel is about an order whose place_order has returned: its error is *)
(* nobody's rejection.                                                     *)
LEMMA GwCancelStep ==
  ASSUME IInv, GwCancel
  PROVE  IInv'
<1> USE DEF IInv
<1> DEFINE f == Head(wire)
           o == f.id
           msg == Msg(IF gw[o] = "live" THEN "Cancelled" ELSE "Error", o)
<1>1. /\ wire # <<>> /\ wire' = Tail(wire) /\ f.kind = "cancelOrder"
      /\ gw' = [gw EXCEPT ![o] = IF gw[o] = "live" THEN "done" ELSE gw[o]]
      /\ terms' = terms /\ Report(<<msg>>)
      /\ UNCHANGED <<client, inbox, kill, history>> /\ call' = call
  BY DEF GwCancel, client
<1>2. /\ gw \in [Orders -> {"none", "live", "done", "rejected"}] /\ DOMAIN terms = Orders
  BY DEF Ids, TypeOK, Known
<1>3. /\ OnlyItsPlaceFrame' /\ f \in Frame /\ f \in ToSet(wire)
      /\ wire' \in Seq(Frame) /\ ToSet(wire') \subseteq ToSet(wire)
      /\ ~(call.pc # "idle" /\ o = call.id)
  BY <1>1, <1>2, FrameRead
<1>4. o \in Orders /\ o \in DOMAIN asked
  BY <1>3 DEF Frame, Ids, Queues
<1>5. call.id # o
  BY <1>3, <1>4 DEF Ids, TypeOK, Calls, NoCall, Orders
<1> HIDE DEF f, o
<1>6. /\ msg \in Message /\ msg.id = o
      /\ msg.kind = IF gw[o] = "live" THEN "Cancelled" ELSE "Error"
  BY <1>4 DEF Msg, Message, StatusKinds
<1> HIDE DEF msg
<1>7. PICK ms \in Seq(Message) : Report(ms) /\ ToSet(ms) = {msg}
  <2>1. <<msg>> \in Seq(Message) /\ ToSet(<<msg>>) = {msg}
    BY <1>6, Single
  <2> QED
    BY <1>1, <2>1
<1>8. /\ gw' \in [Orders -> {"none", "live", "done", "rejected"}]
      /\ gw'[o] = IF gw[o] = "live" THEN "done" ELSE gw[o]
      /\ \A p \in Orders : p # o => gw'[p] = gw[p]
  BY <1>1, <1>2, <1>4
<1>9. \A m \in ToSet(ms) : /\ m.id = o /\ m.kind # "OpenOrder"
                           /\ m.kind \in Positive => gw'[o] = "done"
  BY <1>6, <1>7, <1>8 DEF Positive
<1> QED
  BY <1>1, <1>2, <1>3, <1>4, <1>5, <1>7, <1>8, <1>9, ReportStep DEF Taken

(* A fill or an expiry is about an order that the gateway took, so no      *)
(* frame of a place_order under way is about it.                           *)
LEMMA GwEndStep ==
  ASSUME IInv, NEW o \in Orders, GwEnd(o)
  PROVE  IInv'
<1> USE DEF IInv
<1>1. /\ gw[o] = "live" /\ gw' = [gw EXCEPT ![o] = "done"]
      /\ terms' = terms /\ wire' = wire
      /\ UNCHANGED <<client, inbox, kill, history>> /\ call' = call
  BY DEF GwEnd, client
<1>2. PICK end \in {"Filled", "Cancelled"} : Report(<<Msg(end, o)>>)
  BY DEF GwEnd
<1> DEFINE msg == Msg(end, o)
<1>3. /\ gw \in [Orders -> {"none", "live", "done", "rejected"}] /\ DOMAIN terms = Orders
      /\ wire \in Seq(Frame)
  BY DEF Ids, TypeOK, Known, Queues
<1>4. o \in DOMAIN asked
  BY <1>1 DEF Ids, Known
<1>5. OnlyItsPlaceFrame'
  <2>1. call.pc # "idle" => call.id \in Orders
    BY DEF Ids, Calls, Known
  <2> QED
    BY <1>1, <1>3, <2>1 DEF Verdicts, OnlyItsPlaceFrame
<1>6. msg \in Message /\ msg.id = o /\ msg.kind = end
  BY DEF Msg, Message, StatusKinds
<1> HIDE DEF msg
<1>7. PICK ms \in Seq(Message) : Report(ms) /\ ToSet(ms) = {msg}
  <2>1. <<msg>> \in Seq(Message) /\ ToSet(<<msg>>) = {msg}
    BY <1>6, Single
  <2> QED
    BY <1>2, <2>1 DEF msg
<1>8. /\ gw' \in [Orders -> {"none", "live", "done", "rejected"}] /\ gw'[o] = "done"
      /\ \A p \in Orders : p # o => gw'[p] = gw[p]
  BY <1>1, <1>3
<1>9. call.pc = "send" => call.id # o
  BY <1>1 DEF Verdicts, AnswerIsTrue
<1>10. \A m \in ToSet(ms) : m.id = o /\ m.kind \in {"Filled", "Cancelled"}
  BY <1>6, <1>7
<1> QED
  BY <1>1, <1>3, <1>4, <1>5, <1>7, <1>8, <1>9, <1>10, ReportStep DEF Taken

-----------------------------------------------------------------------------
(* Theorems *)

(* Every step of the adapter, its callers and the gateway keeps the        *)
(* invariant.                                                              *)
LEMMA NextInv == IInv /\ [Next]_vars => IInv'
<1> SUFFICES ASSUME IInv, [Next]_vars PROVE IInv'
  OBVIOUS
<1>1. ASSUME NEW cmd \in Commands, handle_place(cmd) PROVE IInv'
  BY <1>1, PlaceBeginStep DEF handle_place, Requests
<1>2. ASSUME NEW hedge \in Hedges, place_hedge_order(hedge) PROVE IInv'
  BY <1>2, PlaceBeginStep DEF place_hedge_order, Requests
<1>3. CASE PlaceOrder
  BY <1>3, PlaceOrderStep
<1>4. ASSUME NEW o \in TraderOrders, handle_cancel(o) PROVE IInv'
  BY <1>4, CancelStep
<1>5. ASSUME NEW o \in TraderOrders, NEW amend \in Amendments, handle_modify(o, amend)
      PROVE  IInv'
  BY <1>5, ModifyStep
<1>6. CASE shutdown
  BY <1>6, ShutdownStep
<1>7. CASE Recv
  BY <1>7, RecvStep
<1>8. CASE Dispatch
  BY <1>8, DispatchStep
<1>9. ASSUME UNCHANGED <<client, wire, socket, inbox, gateway, history>>,
             killed' \in BOOLEAN, sweep' \in {"idle", "todo", "done"}
      PROVE  IInv'
  <2> USE <1>9 DEF IInv, client, adapter, gateway, history
  <2>1. TypeOK'
    BY DEF Ids, TypeOK
  <2>2. Queues' /\ Known' /\ Calls' /\ Allocations' /\ NoIdReuse' /\ WaitersHaveCallers'
    BY DEF Ids, Queues, UnderWay, Known, Calls, Allocations, NoIdReuse, WaitersHaveCallers
  <2>3. Verdicts'
    BY DEF Verdicts, MessagesAreTrue, UnderWay, OnlyItsPlaceFrame, AnswerIsTrue, AcksAreTrue
  <2>4. TermsMatch' /\ AllFresh'
    BY DEF TermsMatch, UnderWay, AllFresh, Fresh
  <2> QED
    BY <2>1, <2>2, <2>3, <2>4 DEF Ids
<1>10. CASE Fire
  <2>1. killed' \in BOOLEAN /\ sweep' \in {"idle", "todo", "done"}
    BY <1>10 DEF Fire
  <2> QED
    BY <1>9, <1>10, <2>1 DEF Fire
<1>11. CASE cancel_all_resting
  BY <1>11, SweepStep
<1>12. CASE Gateway
  BY <1>12, GwAcceptStep, GwRejectStep, GwModifyStep, GwCancelStep, GwEndStep DEF Gateway
<1>13. CASE UNCHANGED vars
  BY <1>9, <1>13 DEF vars, client, adapter, gateway, history, IInv, Ids, TypeOK
<1> QED
  BY <1>1, <1>2, <1>3, <1>4, <1>5, <1>6, <1>7, <1>8, <1>10, <1>11, <1>12, <1>13 DEF Next

(* Every reachable state of the order path has the invariant. *)
LEMMA Invariant == Spec => []IInv
BY InitInv, NextInv, PTL DEF Spec

(* Every variable of the order path keeps its type; the dispatch channel   *)
(* stays within its capacity.                                              *)
THEOREM TypeCorrect == Spec => []TypeOK
<1>1. IInv => TypeOK
  BY DEF IInv, Ids
<1> QED
  BY <1>1, Invariant, PTL

(* alloc_order_id never hands out an id twice, whatever nextValidId        *)
(* messages arrive and when.                                               *)
THEOREM IdsAreFresh == Spec => []NoIdReuse
<1>1. IInv => NoIdReuse
  BY DEF IInv, Ids
<1> QED
  BY <1>1, Invariant, PTL

(* No path out of place_order leaves a waiter behind. *)
THEOREM NoStaleWaiter == Spec => []WaitersHaveCallers
<1>1. IInv => WaitersHaveCallers
  BY DEF IInv, Ids
<1> QED
  BY <1>1, Invariant, PTL

(* What place_order returns is true, with answers in any order, lost on    *)
(* the full dispatch channel or later than the timeout.                    *)
THEOREM VerdictsAreTrue == Spec => []AcksAreTrue
<1>1. IInv => AcksAreTrue
  BY DEF IInv, Verdicts
<1> QED
  BY <1>1, Invariant, PTL

(* What works at the gateway is what its caller asked for, through both    *)
(* encoders, the cached templates and any number of modifications.         *)
THEOREM TermsWereAsked == Spec => []WorkingTermsWereAsked
<1>1. IInv => WorkingTermsWereAsked
  BY DEF IInv, TermsMatch, Says, Matches, Native, WorkingTermsWereAsked
<1> QED
  BY <1>1, Invariant, PTL

(* The open-order cache says what the gateway says once the last openOrder *)
(* of the order is through and was not dropped.                            *)
THEOREM CacheIsCurrent == Spec => []CacheFollowsGateway
<1>1. IInv => CacheFollowsGateway
  <2> SUFFICES ASSUME IInv, NEW o \in DOMAIN open_orders \ lost, connected,
                      {m \in ToSet(socket) \cup ToSet(inbox) :
                         m.kind = "OpenOrder" /\ m.id = o} = {}
               PROVE  [open_orders[o] EXCEPT !.status = "PendingSubmit"] = Native(terms[o])
    BY DEF CacheFollowsGateway, Native
  <2>1. socket \in Seq(Message) /\ inbox \in Seq(Message) /\ o \in Orders
    BY DEF IInv, Ids, Queues, Known
  <2>2. Silent(socket, o) /\ Silent(inbox, o)
    BY <2>1 DEF Silent, Opens, ToSet
  <2> QED
    BY <2>1, <2>2 DEF IInv, AllFresh, Fresh
<1> QED
  BY <1>1, Invariant, PTL
=============================================================================
