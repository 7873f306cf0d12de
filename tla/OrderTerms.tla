----------------------------- MODULE OrderTerms -----------------------------
(***************************************************************************)
(* What an order says, on its way from a caller's request to the wire and  *)
(* from the gateway's openOrder back into the adapter's cache.  The frame  *)
(* is a sequence of fields read by position; the seventy trailing fields   *)
(* that are the same in every frame are one field of the model, and those  *)
(* of a contract that follow from its con_id are left out.                 *)
(***************************************************************************)
EXTENDS Naturals, Sequences

\* None of an Option<_>, and an empty field of a frame.
None == 0

Amount(value, default) == IF value = None THEN default ELSE value

\* HashMap::insert.
Insert(map, key, value) ==
  [k \in DOMAIN map \cup {key} |-> IF k = key THEN value ELSE map[k]]

-----------------------------------------------------------------------------
(* Requests of the daemon *)

(* handle_place: an option; good for 30 seconds where the command has a    *)
(* good-till-date and no number of seconds.  A deadline is named by the    *)
(* seconds it was asked for.                                               *)
OptionRequest(cmd) ==
  [contract |-> [instrument_id |-> cmd.instrument_id, kind |-> "Option"],
   side |-> IF cmd.side = "BUY" THEN "Buy" ELSE "Sell",
   qty |-> cmd.qty,
   order_type |-> IF cmd.order_type = "market" THEN "Market" ELSE "Limit",
   price |-> cmd.price,
   tif |-> CASE cmd.tif = "IOC" -> "Ioc" [] cmd.tif = "DAY" -> "Day"
             [] cmd.tif = "GTC" -> "Gtc" [] OTHER -> "Gtd",
   gtd_until_utc |-> IF cmd.tif \in {"IOC", "DAY", "GTC"} THEN None
                     ELSE Amount(cmd.gtd_seconds, 30)]

(* place_hedge_order: an immediate-or-cancel limit order for the future. *)
HedgeRequest(future, side, qty, lmt) ==
  [contract |-> [instrument_id |-> future, kind |-> "Future"], side |-> side,
   qty |-> qty, order_type |-> "Limit", price |-> lmt, tif |-> "Ioc",
   gtd_until_utc |-> None]

(* modify_order: the cached order with the fields that the command gives. *)
Amended(existing, amend) ==
  [contract |-> existing.contract, side |-> existing.side,
   qty |-> Amount(amend.qty, existing.qty),
   order_type |-> existing.order_type,
   price |-> Amount(amend.price, existing.price),
   tif |-> existing.tif,
   gtd_until_utc |-> Amount(amend.gtd, existing.gtd_until_utc)]

-----------------------------------------------------------------------------
(* To the wire *)

\* place_order_contract_request: con_id, sec_type.
place_order_contract_request(c) ==
  <<c.instrument_id, IF c.kind = "Future" THEN "FUT" ELSE "FOP">>

TifName == [Gtc |-> "GTC", Day |-> "DAY", Gtd |-> "GTD", Ioc |-> "IOC"]

(* InvalidRequest: a limit order without a price, a good-till-date order   *)
(* without the date.                                                       *)
InvalidRequest(req) ==
  \/ req.order_type = "Limit" /\ req.price = None
  \/ req.tif = "Gtd" /\ req.gtd_until_utc = None

\* Action, quantity, type, limit price, time in force, good-till-date.
build_place_params(req) ==
  <<IF req.side = "Buy" THEN "BUY" ELSE "SELL", req.qty,
    IF req.order_type = "Market" THEN "MKT" ELSE "LMT",
    IF req.order_type = "Market" THEN 0 ELSE req.price,
    TifName[req.tif],
    IF req.tif = "Gtd" THEN req.gtd_until_utc ELSE None>>

(* requests::place_order, field by field (modify_order). *)
place_order(order_id, contract, params) ==
  [kind |-> "placeOrder", id |-> order_id,
   fields |-> <<contract[1], contract[2], params[1], params[2], params[3],
                params[4], params[5], params[6], "constants">>]

(* The contract's section of the frame, encoded once per instrument. *)
from_contract(contract) == <<contract[1], contract[2]>>

(* The fields that never change, encoded once. *)
trailing_bytes == <<"constants">>

(* The frame with the sections spliced in (NativeBroker::place_order). *)
place_order_fast(order_id, template, params) ==
  [kind |-> "placeOrder", id |-> order_id, fields |-> template \o params \o trailing_bytes]

cancel_order(order_id) == [kind |-> "cancelOrder", id |-> order_id]

(* External: how the gateway reads the fields, and reports an order. *)
GwTerms(fields) ==
  [con_id |-> fields[1], sec_type |-> fields[2], action |-> fields[3],
   total_quantity |-> fields[4], order_type |-> fields[5],
   lmt_price |-> fields[6], tif |-> fields[7], good_till_date |-> fields[8]]

-----------------------------------------------------------------------------
(* From the wire *)

parse_kind(sec_type) == IF sec_type = "FUT" THEN "Future" ELSE "Option"

parse_tif(name) ==
  IF \E t \in DOMAIN TifName : TifName[t] = name
  THEN CHOOSE t \in DOMAIN TifName : TifName[t] = name ELSE "Day"

(* The decoder does not read the good-till-date, and has no source for     *)
(* `remaining`: it says 0.                                                 *)
parse_open_order(order) ==
  [f \in (DOMAIN order \ {"good_till_date"}) \cup {"remaining"} |->
     IF f = "remaining" THEN 0 ELSE order[f]]

(* Order status messages change neither `remaining_qty` nor the terms. *)
native_to_open_order(o) ==
  [contract |-> [instrument_id |-> o.con_id, kind |-> parse_kind(o.sec_type)],
   side |-> IF o.action = "BUY" THEN "Buy" ELSE "Sell",
   qty |-> o.total_quantity,
   order_type |-> IF o.order_type = "MKT" THEN "Market" ELSE "Limit",
   price |-> IF o.lmt_price > 0 THEN o.lmt_price ELSE None,
   tif |-> parse_tif(o.tif), gtd_until_utc |-> None,
   status |-> "PendingSubmit", remaining |-> o.remaining]
=============================================================================
