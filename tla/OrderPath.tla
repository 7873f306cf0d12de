----------------------------- MODULE OrderPath -----------------------------
(***************************************************************************)
(* The way of an order through the native IBKR adapter, and the kill that  *)
(* cancels what rests: NativeClient (order ids, the recv task and its      *)
(* bounded channel), NativeBroker (waiters for place acknowledgements,     *)
(* contract templates, dispatcher, open-order cache), the daemon's callers *)
(* handle_place, place_hedge_order, handle_cancel, handle_modify,          *)
(* cancel_all_resting and shutdown, which take turns by the broker lock,   *)
(* and the gateway at the other end of the socket.  What an order says is  *)
(* OrderTerms.                                                             *)
(*                                                                         *)
(* The gateway is external: it accepts or rejects an order, fills, expires *)
(* or cancels it, and reports in the messages the adapter decodes, in the  *)
(* orders its comments tell of.                                            *)
(***************************************************************************)
EXTENDS OrderTerms, SequencesExt

CONSTANTS MaxOrders,     \* bound: orders placed
          MaxInFlight,   \* bound: no new cancel, modify or gateway event on
                         \* a connection with this many frames under way
          InboxCap,      \* DISPATCH_CHANNEL_CAP (16384 in production)
          Commands,      \* the trader's place_order commands
          Hedges,        \* the requests of place_hedge_order
          Amendments     \* the modify_order commands: price, qty, gtd or None

ASSUME MaxOrdersAssumption == MaxOrders \in Nat \ {0}
ASSUME MaxInFlightAssumption == MaxInFlight \in Nat \ {0}
ASSUME InboxCapAssumption == InboxCap \in Nat \ {0}

(* The trader names no order type in its commands, so that PlaceOrderCmd's *)
(* default, "limit", holds, and a price that it quotes is positive.        *)
ASSUME CommandsAssumption ==
  Commands \subseteq [instrument_id : Nat, side : {"BUY", "SELL"}, qty : Nat,
                      order_type : {"limit"}, price : Nat \ {0}, tif : STRING,
                      gtd_seconds : Nat]
ASSUME HedgesAssumption ==
  Hedges \subseteq [contract : [instrument_id : Nat, kind : {"Future"}],
                    side : {"Buy", "Sell"}, qty : Nat, order_type : {"Limit"},
                    price : Nat \ {0}, tif : {"Ioc"}, gtd_until_utc : {None}]
ASSUME AmendmentsAssumption ==
  Amendments \subseteq [price : Nat, qty : Nat, gtd : Nat]

\* What the callers of place_order ask for.
Requests == {OptionRequest(cmd) : cmd \in Commands} \cup Hedges

(* An instrument id is the gateway's con_id, which names one contract. *)
ASSUME ContractIdsAssumption ==
  \A r, s \in Requests :
    r.contract.instrument_id = s.contract.instrument_id => r.contract = s.contract

Orders == 1 .. MaxOrders

VARIABLES next_order_id,   \* NativeClient: the next id to allocate
          wire,            \* frames on their way to the gateway
          socket,          \* messages on their way to the recv task
          inbox,           \* the dispatch channel
          pending,         \* pending_place_acks
          ack,             \* what was sent into the waiter's oneshot channel
          open_orders,     \* the cache
          call,            \* the place_order under the broker lock
          returned,        \* what place_order returned for each order
          place_templates, \* contract section of the frame, by instrument
          connected,       \* the client has a writer
          gw,              \* gateway: the state of each order
          terms,           \* gateway: what each order says
          killed, sweep,   \* the kill, and its cancel_all_resting
          allocated,       \* history: ids handed out
          asked,           \* history: the request behind each id
          lost             \* history: orders whose last openOrder was dropped

adapter == <<place_templates, connected>>
gateway == <<gw, terms>>
history == <<allocated, asked, lost>>
client == <<next_order_id, pending, ack, open_orders, call, returned, adapter>>
kill == <<killed, sweep>>
vars == <<next_order_id, wire, socket, inbox, pending, ack, open_orders, call,
          returned, adapter, gateway, killed, sweep, history>>

Msg(kind, id) == [kind |-> kind, id |-> id]
NoCall == [pc |-> "idle", id |-> 0, req |-> None]

-----------------------------------------------------------------------------
(* place_order.  Not gated by the kill: handle_place and place_hedge_order *)
(* do not look at the risk monitor.  Both give a limit price and, where    *)
(* the order is good till a date, the date, so that build_place_params     *)
(* does not fail.                                                          *)

Return(result) ==
  /\ returned' = [returned EXCEPT ![call.id] = result]
  /\ call' = NoCall
  /\ ack' = "none"

(* alloc_order_id and the waiter, before the frame is sent. *)
PlaceBegin(req) ==
  /\ call.pc = "idle" /\ connected /\ req.qty > 0
  /\ next_order_id > 0 /\ next_order_id \in Orders
  /\ next_order_id' = next_order_id + 1
  /\ allocated' = Append(allocated, next_order_id)
  /\ pending' = pending \cup {next_order_id}
  /\ asked' = Insert(asked, next_order_id, req)
  /\ call' = [pc |-> "send", id |-> next_order_id, req |-> req]
  /\ UNCHANGED <<wire, socket, inbox, ack, open_orders, returned, adapter, gateway,
                 kill, lost>>

(* A command for an option that the market data does not know is ignored;  *)
(* those of Commands are known.  Bound: each of them is given once.        *)
handle_place(cmd) ==
  /\ OptionRequest(cmd) \notin Range(asked)
  /\ PlaceBegin(OptionRequest(cmd))

place_hedge_order(hedge) == PlaceBegin(hedge)

TemplateOfFirst(contract) ==
  IF DOMAIN place_templates # {}
  THEN place_templates[CHOOSE i \in DOMAIN place_templates : TRUE]
  ELSE from_contract(place_order_contract_request(contract))

(* place_templates.entry(instrument_id).or_insert_with(...) *)
Template(contract) ==
  IF contract.instrument_id \in DOMAIN place_templates
  THEN place_templates[contract.instrument_id]
  ELSE from_contract(place_order_contract_request(contract))

Send ==
  /\ call.pc = "send"
  /\ LET c == call.req.contract
         template == Template(c)
     IN /\ place_templates' = Insert(place_templates, c.instrument_id, template)
        /\ wire' = Append(wire,
              place_order_fast(call.id, template, build_place_params(call.req)))
  /\ call' = [call EXCEPT !.pc = "wait"]
  /\ UNCHANGED <<next_order_id, socket, inbox, pending, ack, open_orders,
                 returned, connected, gateway, kill, history>>

SendFailsLeaks ==
  /\ call.pc = "send"
  /\ Return("failed")
  /\ UNCHANGED <<pending, next_order_id, wire, socket, inbox, open_orders, adapter, gateway, kill, history>>

(* send_raw fails: the waiter goes, the error is returned. *)
SendFails ==
  /\ call.pc = "send"
  /\ pending' = pending \ {call.id}
  /\ Return("failed")
  /\ UNCHANGED <<next_order_id, wire, socket, inbox, open_orders, adapter, gateway, kill, history>>

(* The oneshot channel of the waiter has the answer. *)
AckArrives ==
  /\ call.pc = "wait" /\ ack # "none"
  /\ Return(ack)
  /\ UNCHANGED <<next_order_id, wire, socket, inbox, pending, open_orders,
                 adapter, gateway, kill, history>>

AckTimeoutNever == FALSE /\ UNCHANGED vars

(* Two seconds without an answer. *)
AckTimeout ==
  /\ call.pc = "wait" /\ ack = "none"
  /\ call' = [call EXCEPT !.pc = "expired"]
  /\ UNCHANGED <<next_order_id, wire, socket, inbox, pending, ack, open_orders,
                 returned, adapter, gateway, kill, history>>

(* The waiter is dropped -- an answer may have come in since -- and the    *)
(* order may live.                                                         *)
DropWaiter ==
  /\ call.pc = "expired"
  /\ pending' = pending \ {call.id}
  /\ Return("timeout")
  /\ UNCHANGED <<next_order_id, wire, socket, inbox, open_orders, adapter, gateway, kill, history>>

\* The trader knows the orders of its own commands.
TraderOrders == {o \in DOMAIN asked : asked[o] \in {OptionRequest(cmd) : cmd \in Commands}}

(* handle_cancel: the trader cancels an order.  cancel_order sends the     *)
(* frame whatever the cache says of the order.                             *)
handle_cancel(o) ==
  /\ call.pc = "idle" /\ connected /\ returned[o] = "ok"
  /\ Len(wire) < MaxInFlight
  /\ wire' = Append(wire, cancel_order(o))
  /\ UNCHANGED <<client, socket, inbox, gateway, kill, history>>

(* handle_modify, modify_order: the place frame again, for an order of the *)
(* cache, with what the cache says where the command is silent; no waiter. *)
(* The cache has no good-till-date: without a new one the modification of  *)
(* a good-till-date order is an invalid request, and nothing is sent.      *)
handle_modify(o, amend) ==
  /\ call.pc = "idle" /\ connected /\ o \in DOMAIN open_orders
  /\ Len(wire) < MaxInFlight
  /\ LET req == Amended(open_orders[o], amend)
     IN /\ ~InvalidRequest(req)
        /\ wire' = Append(wire, place_order(o, place_order_contract_request(req.contract),
                                           build_place_params(req)))
  /\ UNCHANGED <<client, socket, inbox, gateway, kill, history>>

\* NativeClient::disconnect: the writer is dropped, the gateway sees EOF.
client_disconnect == connected' = FALSE /\ socket' = <<>>

(* Runtime::shutdown, NativeBroker::disconnect: the waiters are failed --  *)
(* there is none, since a place_order would hold the broker lock --, the   *)
(* client disconnects and the process ends.  Frames that were sent arrive, *)
(* and what rests at the gateway goes on resting.                          *)
shutdown ==
  /\ call.pc = "idle" /\ connected
  /\ pending' = {}
  /\ client_disconnect
  /\ inbox' = <<>>
  /\ UNCHANGED <<next_order_id, wire, ack, open_orders, call, returned,
                 place_templates, gateway, kill, history>>

-----------------------------------------------------------------------------
(* Receiving *)

\* The history of dropped openOrder messages.
Lose(m) ==
  lost' = IF m.kind # "OpenOrder" THEN lost
          ELSE IF Len(inbox) < InboxCap THEN lost \ {m.id}
          ELSE lost \cup {m.id}

(* nextValidId stomps the counter. *)
RecvOverwrites ==
  /\ socket # <<>>
  /\ next_order_id' = IF Head(socket).kind = "NextValidId"
                      THEN Head(socket).id ELSE next_order_id
  /\ inbox' = IF Len(inbox) < InboxCap THEN Append(inbox, Head(socket)) ELSE inbox
  /\ socket' = Tail(socket)
  /\ Lose(Head(socket))
  /\ UNCHANGED <<wire, pending, ack, open_orders, call, returned, adapter, gateway, kill,
                 allocated, asked>>

RecvUnbounded ==
  /\ socket # <<>>
  /\ next_order_id' = IF Head(socket).kind = "NextValidId" /\ Head(socket).id > next_order_id
                      THEN Head(socket).id ELSE next_order_id
  /\ inbox' = Append(inbox, Head(socket))
  /\ socket' = Tail(socket)
  /\ Lose(Head(socket))
  /\ UNCHANGED <<wire, pending, ack, open_orders, call, returned, adapter, gateway, kill,
                 allocated, asked>>

(* The recv task merges nextValidId by maximum and forwards the frame; a   *)
(* full channel drops the frame that arrives.                              *)
Recv ==
  /\ socket # <<>>
  /\ next_order_id' = IF Head(socket).kind = "NextValidId" /\ Head(socket).id > next_order_id
                      THEN Head(socket).id ELSE next_order_id
  /\ inbox' = IF Len(inbox) < InboxCap THEN Append(inbox, Head(socket)) ELSE inbox
  /\ socket' = Tail(socket)
  /\ Lose(Head(socket))
  /\ UNCHANGED <<wire, pending, ack, open_orders, call, returned, adapter, gateway, kill,
                 allocated, asked>>

(* parse_status; what it does not list is Inactive. *)
parse_status(kind) ==
  IF kind \in {"PendingSubmit", "PreSubmitted"} THEN "PendingSubmit" ELSE kind

Acknowledging == {"Submitted", "Filled", "Cancelled", "PendingCancel"}

Resolve(id, result) ==
  /\ ack' = IF id \in pending /\ id = call.id THEN result ELSE ack
  /\ pending' = pending \ {id}

RouteFirstOpenOrder(m) ==
  /\ m.kind = "OpenOrder"
  /\ open_orders' = open_orders @@ (m.id :> native_to_open_order(parse_open_order(m.order)))
  /\ Resolve(m.id, "ok")

RouteOpenOrder(m) ==
  /\ m.kind = "OpenOrder"
  /\ open_orders' = Insert(open_orders, m.id, native_to_open_order(parse_open_order(m.order)))
  /\ Resolve(m.id, "ok")

UpdateStatus(m) ==
  open_orders' = [o \in DOMAIN open_orders |->
    IF o = m.id THEN [open_orders[o] EXCEPT !.status = parse_status(m.kind)]
    ELSE open_orders[o]]

StatusKinds == {"Submitted", "PreSubmitted", "Filled", "Cancelled", "Inactive"}

RouteAnyStatusAcks(m) ==
  /\ m.kind \in StatusKinds
  /\ UpdateStatus(m)
  /\ Resolve(m.id, "ok")

RouteOrderStatus(m) ==
  /\ m.kind \in StatusKinds
  /\ UpdateStatus(m)
  /\ IF parse_status(m.kind) \in Acknowledging
     THEN Resolve(m.id, "ok") ELSE UNCHANGED <<ack, pending>>

(* An error for which is_order_error holds, with the order's id. *)
RouteError(m) ==
  /\ m.kind = "Error"
  /\ Resolve(m.id, "rejected")
  /\ UNCHANGED open_orders

RouteOther(m) ==
  /\ m.kind = "NextValidId"
  /\ UNCHANGED <<open_orders, ack, pending>>

route(m) == RouteOpenOrder(m) \/ RouteOrderStatus(m) \/ RouteError(m) \/ RouteOther(m)

Dispatch ==
  /\ inbox # <<>>
  /\ inbox' = Tail(inbox)
  /\ route(Head(inbox))
  /\ UNCHANGED <<next_order_id, wire, socket, call, returned, adapter, gateway, kill, history>>

-----------------------------------------------------------------------------
(* Kill *)

(* periodic_risk_check or handle_fill got RiskCheckOutcome::Killed. *)
Fire ==
  /\ connected /\ ~killed
  /\ killed' = TRUE /\ sweep' = "todo"
  /\ UNCHANGED <<client, wire, socket, inbox, gateway, history>>

(* Under the broker lock: one cancel frame per cached order with a         *)
(* remaining quantity.                                                     *)
cancel_all_resting ==
  /\ sweep = "todo" /\ call.pc = "idle" /\ connected
  /\ LET actionable == {o \in DOMAIN open_orders : open_orders[o].remaining > 0}
         frames == {cancel_order(o) : o \in actionable}
     IN wire' = wire \o SetToSeq(frames)
  /\ sweep' = "done"
  /\ UNCHANGED <<client, socket, inbox, gateway, killed, history>>

-----------------------------------------------------------------------------
(* Gateway (external) *)

Report(messages) ==
  /\ Len(socket) < MaxInFlight
  /\ socket' = IF connected THEN socket \o messages ELSE socket

OpenOrder(o, order) == [kind |-> "OpenOrder", id |-> o, order |-> order]

(* A placeOrder frame is a new order or, if its id is known, a change. *)
GwAccept ==
  /\ wire # <<>> /\ Head(wire).kind = "placeOrder" /\ gw[Head(wire).id] = "none"
  /\ wire' = Tail(wire)
  /\ LET o == Head(wire).id
         order == GwTerms(Head(wire).fields)
         open == OpenOrder(o, order)
         next == Msg("NextValidId", o + 1)
     IN /\ gw' = [gw EXCEPT ![o] = "live"]
        /\ terms' = [terms EXCEPT ![o] = order]
        /\ \E status \in {Msg("Submitted", o), Msg("PreSubmitted", o)} :
             Report(<<open, status, next>>) \/ Report(<<status, open, next>>)
  /\ UNCHANGED <<client, inbox, kill, history>>

GwReject ==
  /\ wire # <<>> /\ Head(wire).kind = "placeOrder" /\ gw[Head(wire).id] = "none"
  /\ wire' = Tail(wire)
  /\ LET o == Head(wire).id
     IN /\ gw' = [gw EXCEPT ![o] = "rejected"]
        /\ \/ Report(<<Msg("Error", o), Msg("Inactive", o)>>)
           \/ Report(<<Msg("Inactive", o), Msg("Error", o)>>)
  /\ UNCHANGED <<client, inbox, terms, kill, history>>

GwModify ==
  /\ wire # <<>> /\ Head(wire).kind = "placeOrder" /\ gw[Head(wire).id] # "none"
  /\ wire' = Tail(wire)
  /\ LET o == Head(wire).id
         order == GwTerms(Head(wire).fields)
     IN IF gw[o] = "live"
        THEN /\ terms' = [terms EXCEPT ![o] = order]
             /\ Report(<<OpenOrder(o, order), Msg("Submitted", o)>>)
        ELSE /\ Report(<<Msg("Error", o)>>)
             /\ UNCHANGED terms
  /\ UNCHANGED <<client, inbox, gw, kill, history>>

GwCancel ==
  /\ wire # <<>> /\ Head(wire).kind = "cancelOrder"
  /\ wire' = Tail(wire)
  /\ LET o == Head(wire).id
     IN /\ gw' = [gw EXCEPT ![o] = IF @ = "live" THEN "done" ELSE @]
        /\ Report(<<Msg(IF gw[o] = "live" THEN "Cancelled" ELSE "Error", o)>>)
  /\ UNCHANGED <<client, inbox, terms, kill, history>>

(* A fill, or the good-till-date. *)
GwEnd(o) ==
  /\ connected /\ gw[o] = "live"
  /\ gw' = [gw EXCEPT ![o] = "done"]
  /\ \E end \in {"Filled", "Cancelled"} : Report(<<Msg(end, o)>>)
  /\ UNCHANGED <<client, wire, inbox, terms, kill, history>>

-----------------------------------------------------------------------------
(* connect: nextValidId = 1 arrived during the bootstrap. *)
Init ==
  /\ next_order_id = 1
  /\ wire = <<>> /\ socket = <<>> /\ inbox = <<>>
  /\ pending = {} /\ ack = "none"
  /\ open_orders = <<>>
  /\ call = NoCall /\ returned = [o \in Orders |-> "none"]
  /\ place_templates = <<>> /\ connected = TRUE
  /\ gw = [o \in Orders |-> "none"] /\ terms = [o \in Orders |-> None]
  /\ killed = FALSE /\ sweep = "idle"
  /\ allocated = <<>> /\ asked = <<>> /\ lost = {}

PlaceOrder == Send \/ SendFails \/ AckArrives \/ AckTimeout \/ DropWaiter

Gateway == GwAccept \/ GwReject \/ GwCancel \/ GwModify \/ \E o \in Orders : GwEnd(o)

Next ==
  \/ \E cmd \in Commands : handle_place(cmd)
  \/ \E hedge \in Hedges : place_hedge_order(hedge)
  \/ PlaceOrder
  \/ \E o \in TraderOrders : handle_cancel(o)
  \/ \E o \in TraderOrders, amend \in Amendments : handle_modify(o, amend)
  \/ shutdown
  \/ Recv \/ Dispatch
  \/ Fire \/ cancel_all_resting
  \/ Gateway

Spec == Init /\ [][Next]_vars

(* A place_order under way goes on (the timer of its timeout fires), the   *)
(* recv and dispatcher tasks run, and tokio's mutex is handed out in       *)
(* order, so that the sweep gets its turn.  The gateway owes nothing.      *)
FairSpec ==
  /\ Spec
  /\ WF_vars(Send \/ SendFails) /\ WF_vars(AckArrives \/ AckTimeout)
  /\ WF_vars(DropWaiter)
  /\ WF_vars(Recv) /\ WF_vars(Dispatch)
  /\ SF_vars(cancel_all_resting)

-----------------------------------------------------------------------------
(* Every variable has its type. *)
TypeOK ==
  /\ next_order_id \in Nat
  /\ Len(inbox) <= InboxCap
  /\ pending \subseteq Orders
  /\ ack \in {"none", "ok", "rejected"}
  /\ DOMAIN open_orders \subseteq Orders
  /\ call.pc \in {"idle", "send", "wait", "expired"} /\ call.id \in 0 .. MaxOrders
  /\ DOMAIN place_templates \subseteq Nat /\ connected \in BOOLEAN
  /\ returned \in [Orders -> {"none", "ok", "rejected", "timeout", "failed"}]
  /\ gw \in [Orders -> {"none", "live", "done", "rejected"}]
  /\ killed \in BOOLEAN /\ sweep \in {"idle", "todo", "done"}

(* No order id is handed out twice, although the gateway re-broadcasts     *)
(* nextValidId after every order and the message may arrive after further  *)
(* local allocations.                                                      *)
NoIdReuse == IsInjective(allocated)

(* place_order's verdict is true: Ok means that the gateway took the       *)
(* order, "instead of returning a phantom OrderId that the trader treats   *)
(* as live", and a rejection means that it did not -- with status and      *)
(* error messages in either order, timeouts and dropped messages.          *)
AcksAreTrue ==
  \A o \in Orders :
    /\ returned[o] = "ok" => gw[o] \in {"live", "done"}
    /\ returned[o] = "rejected" => gw[o] = "rejected"

(* A waiter is registered only while its place_order runs: no path out of  *)
(* place_order leaves one behind, so a late message meets no stale waiter. *)
WaitersHaveCallers == pending \subseteq {call.id} \ {0}

(* An order that works at the gateway is the one its caller asked for:     *)
(* contract, side and time in force are those of the request, whichever    *)
(* encoder made the frame, whatever template was cached, and however many  *)
(* modifications rebuilt the order from the cache; its price and quantity  *)
(* were asked for, and a good-till-date order has its date.                *)
WorkingTermsWereAsked ==
  \A o \in Orders : gw[o] = "live" =>
    LET req == asked[o]
        now == native_to_open_order(parse_open_order(terms[o]))
    IN /\ now.contract = req.contract /\ now.side = req.side /\ now.tif = req.tif
       /\ now.price \in {req.price} \cup {a.price : a \in Amendments}
       /\ now.qty \in {req.qty} \cup {a.qty : a \in Amendments}
       /\ now.tif = "Gtd" => terms[o].good_till_date # None

(* The open-order cache, which modify_order and the kill rely on, says     *)
(* what the gateway's order says once the last openOrder for it is through *)
(* and was not dropped.                                                    *)
CacheFollowsGateway ==
  \A o \in DOMAIN open_orders \ lost :
    LET underway == {m \in ToSet(socket) \cup ToSet(inbox) :
                       m.kind = "OpenOrder" /\ m.id = o}
    IN connected /\ underway = {} =>
         [open_orders[o] EXCEPT !.status = "PendingSubmit"]
           = native_to_open_order(parse_open_order(terms[o]))

(* Every place_order returns and frees the broker lock, even when the      *)
(* answer is lost on the full dispatch channel.                            *)
PlaceReturns == call.pc # "idle" ~> call.pc = "idle"

(* The kill's cancel_all_resting runs, whoever holds the broker lock,      *)
(* unless the process ends first.                                          *)
SweepRuns == killed ~> sweep = "done" \/ ~connected

(* "every kill must cancel all resting orders": the sweep sends a cancel   *)
(* for every order that rests and that the adapter knows to rest.          *)
KillCancelsResting ==
  [][sweep = "todo" /\ sweep' = "done" =>
       \A o \in DOMAIN open_orders :
         gw[o] = "live" /\ open_orders[o].status = "Submitted"
           => Contains(wire', cancel_order(o))]_vars
=============================================================================
