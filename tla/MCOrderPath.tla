----------------------------- MODULE MCOrderPath ----------------------------
(* One option order of the trader, good till a date, and one hedge order;  *)
(* a modification of the price and of the date.                            *)
EXTENDS OrderPath

MCCommands == {[instrument_id |-> 11, side |-> "BUY", qty |-> 1, order_type |-> "limit",
                price |-> 1, tif |-> "GTD", gtd_seconds |-> None]}

MCHedges == {HedgeRequest(2, "Sell", 1, 3)}

MCAmendments == {[price |-> 2, qty |-> None, gtd |-> 5]}
=============================================================================
