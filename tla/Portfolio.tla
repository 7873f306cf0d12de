----------------------------- MODULE Portfolio ------------------------------
(***************************************************************************)
(* Portfolio: PortfolioState, the book of option positions, a vector with  *)
(* an index from keys to its places.  There is one product, as configured. *)
(* Prices are integers and the contract multiplier, a common factor, is 1. *)
(* Gamma and vega are refreshed and summed with delta and theta and are    *)
(* left out; so are the daily counters of fills and captured spread, which *)
(* only the dashboard reads.                                               *)
(* realized_pnl_persisted is read by the daily halt and by the snapshot,   *)
(* and no code of the daemon ever writes it: it is the constant 0.         *)
(***************************************************************************)
EXTENDS Integers, SequencesExt

CONSTANTS Keys,          \* position keys: strike, expiry and right
          DeltaOf,       \* [Keys -> [forward -> delta of one contract]]
          ThetaOf,       \* [Keys -> theta of one contract]
          Expired        \* keys past 20:00 UTC of their expiry day

ASSUME PortfolioAssumption ==
  /\ IsFiniteSet(Keys) /\ Expired \subseteq Keys
  /\ ThetaOf \in [Keys -> Int]
  /\ DOMAIN DeltaOf = Keys

VARIABLES positions,     \* Vec<Position>
          index,         \* HashMap<PositionKey, usize>
          quotes         \* what MarketView::current_price answers; 0 for None

portfolioVars == <<positions, index, quotes>>

Position(k, qty, price) ==
  [key |-> k, quantity |-> qty, avg_fill_price |-> price,
   delta |-> 0, theta |-> 0, current_price |-> 0]

(* Fills and the broker's cache leave no empty position. *)
BookEntry == [key : Keys, quantity : Int \ {0}, avg_fill_price : Int,
              delta : Int, theta : Int, current_price : Int]

realized_pnl_persisted == 0

-----------------------------------------------------------------------------
(* The index *)

(* The index of a vector: the last of several equal keys stays. *)
rebuild_index(ps) ==
  [k \in {ps[i].key : i \in DOMAIN ps} |->
     CHOOSE i \in DOMAIN ps :
        ps[i].key = k /\ \A j \in DOMAIN ps : ps[j].key = k => j <= i]

replace_positions(ps) ==
  /\ positions' = ps
  /\ index' = rebuild_index(ps)

-----------------------------------------------------------------------------
(* add_fill *)

Held(k) == k \in DOMAIN index
At(k) == positions[index[k]]

(* A new position starts with zero Greeks until the next refresh. *)
Open(k, qty, price) ==
  /\ ~Held(k)
  /\ positions' = Append(positions, Position(k, qty, price))
  /\ index' = [x \in DOMAIN index \cup {k} |-> IF x = k THEN Len(positions) + 1 ELSE index[x]]

CloseKeepsIndex(k, qty) ==
  /\ Held(k) /\ At(k).quantity + qty = 0
  /\ positions' = RemoveAt(positions, index[k])
  /\ index' = [x \in DOMAIN index \ {k} |-> index[x]]

Close(k, qty) ==
  /\ Held(k) /\ At(k).quantity + qty = 0
  /\ positions' = RemoveAt(positions, index[k])
  /\ index' = rebuild_index(positions')

MergeKeepsAverage(k, qty, price) ==
  /\ Held(k) /\ At(k).quantity + qty # 0
  /\ positions' = [positions EXCEPT ![index[k]].quantity = @ + qty]
  /\ UNCHANGED index

(* Increased, partly closed or flipped: avg_fill_price is the price of the *)
(* last fill.                                                              *)
Merge(k, qty, price) ==
  /\ Held(k) /\ At(k).quantity + qty # 0
  /\ positions' = [positions EXCEPT ![index[k]].quantity = @ + qty,
                                    ![index[k]].avg_fill_price = price]
  /\ UNCHANGED index

add_fill(k, qty, price) ==
  /\ qty # 0
  /\ Open(k, qty, price) \/ Close(k, qty) \/ Merge(k, qty, price)

-----------------------------------------------------------------------------
(* Refresh, aggregate, mark to market *)

Refreshed(p, f) ==
  IF f <= 0 \/ p.key \in Expired THEN p
  ELSE [p EXCEPT !.delta = DeltaOf[p.key][f], !.theta = ThetaOf[p.key],
                 !.current_price = IF quotes[p.key] > 0 THEN quotes[p.key] ELSE @]

refresh_greeks(f) ==
  /\ positions' = [i \in DOMAIN positions |-> Refreshed(positions[i], f)]
  /\ UNCHANGED <<index, quotes>>

SumPositions(value(_)) == SumFunction([i \in DOMAIN positions |-> value(positions[i])])

delta_for_product == SumPositions(LAMBDA p : p.delta * p.quantity)
theta_for_product == SumPositions(LAMBDA p : p.theta * p.quantity)

Live(p) == IF quotes[p.key] > 0 THEN quotes[p.key] ELSE p.current_price

compute_mtm_pnl ==
  SumPositions(LAMBDA p : IF Live(p) <= 0 THEN 0 ELSE p.quantity * (Live(p) - p.avg_fill_price))

daily_pnl == realized_pnl_persisted + compute_mtm_pnl

=============================================================================
