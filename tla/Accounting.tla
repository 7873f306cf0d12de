----------------------------- MODULE Accounting -----------------------------
(***************************************************************************)
(* Accounting: what the daemon owns and what it is worth.  handle_fill     *)
(* gives a fill to the hedge state when it is on the hedge contract and to *)
(* the option book otherwise; the five-minute tasks refresh the Greeks and *)
(* calibrate the margin scale; the constraint checker gates fills that are *)
(* proposed to it.  Quotes and the forward move in between.                *)
(***************************************************************************)
EXTENDS Constraint, HedgeState

CONSTANTS
  Seeds,                 \* what seed_positions_from_broker may find: sequences of positions
  HedgeContract,         \* instrument of the hedge future
  Prices,                \* prices of futures fills, and forwards
  OptionPrices,          \* prices of option fills and quotes
  Effects,               \* signed quantities of fills
  BrokerMargins,         \* MaintMarginReq values of the account poll
  MaxSteps               \* bound: fills, reconciles, calibrations, moves

ASSUME AccountingAssumption ==
  /\ HedgeContract \notin Keys
  /\ Seeds \subseteq Seq(BookEntry)
  /\ DeltaOf \in [Keys -> [Prices -> Int]]
  /\ Prices \subseteq Nat \ {0} /\ OptionPrices \subseteq Nat \ {0} /\ Effects \subseteq Int \ {0}
  /\ BrokerMargins \subseteq Int /\ MaxSteps \in Nat

VARIABLES
  forward,               \* underlying price, 0 before the first tick
  net,                   \* history: seeded quantity plus fills of each key
  flow,                  \* history: cash paid and received for options
  missed,                \* history: P&L realised by option fills
  inside,                \* history: only fresh, gated fills since a book inside the limits
  steps

vars == <<positions, index, quotes, ibkr_scale, hedge_qty, avg_entry_f,
          realized_pnl_usd, cash, paid, forward, net, flow, missed, inside, steps>>

Step == steps < MaxSteps /\ steps' = steps + 1

-----------------------------------------------------------------------------
(* Fills *)

(* The histories of an option fill. *)
RecordOption(k, qty, price) ==
  /\ net' = [net EXCEPT ![k] = @ + qty]
  /\ flow' = flow - qty * price
  /\ missed' = IF Held(k) THEN missed + At(k).quantity * (price - At(k).avg_fill_price)
               ELSE missed

OptionFill(k, qty, price) ==
  /\ add_fill(k, qty, price)
  /\ RecordOption(k, qty, price)
  /\ UNCHANGED <<quotes, ibkr_scale, forward, hedgeStateVars>>

HedgeFill(effect, price) ==
  /\ BrokerFill(effect, price)
  /\ inside' = FALSE
  /\ UNCHANGED <<portfolioVars, ibkr_scale, forward, net, flow, missed>>

(* handle_fill: the hedge manager first; what it does not take is looked   *)
(* up among the registered options.                                        *)
handle_fill(instrument, effect, price) ==
  \/ instrument = HedgeContract /\ HedgeFill(effect, price)
  \/ instrument # HedgeContract /\ OptionFill(instrument, effect, price) /\ inside' = FALSE

(* A position's Greeks are fresh when a refresh would not change them. *)
Fresh == \A i \in DOMAIN positions :
           /\ forward > 0 /\ positions[i].key \notin Expired
           /\ positions[i].delta = DeltaOf[positions[i].key][forward]
           /\ positions[i].theta = ThetaOf[positions[i].key]

Accepts(k, qty) ==
  check(Figures(k, qty, forward, hedge_qty)) \in {"Accepted", "AcceptedMarginEscape"}

(* A fill that the checker accepted. *)
GatedFill(k, qty, price) ==
  /\ forward > 0 /\ k \notin Expired
  /\ Accepts(k, qty)
  /\ OptionFill(k, qty, price)
  /\ inside' = (inside /\ Fresh)

-----------------------------------------------------------------------------
(* The periodic tasks and the market *)

ReconcileHedge(qty, avg) ==
  /\ replace(qty, avg)
  /\ inside' = FALSE
  /\ UNCHANGED <<portfolioVars, ibkr_scale, forward, net, flow, missed>>

periodic_greek_refresh ==
  /\ refresh_greeks(forward)
  /\ UNCHANGED <<ibkr_scale, hedgeStateVars, forward, net, flow, missed, inside, steps>>

(* Without an underlying price the raw margin is 0 and nothing changes. *)
periodic_account_poll(ibkr_actual) ==
  /\ forward > 0
  /\ update_cached_margin(ibkr_actual)
  /\ inside' = (inside /\ ibkr_scale' = ibkr_scale)
  /\ UNCHANGED <<portfolioVars, hedgeStateVars, forward, net, flow, missed>>

QuoteMoves(k, price) ==
  /\ quotes' = [quotes EXCEPT ![k] = price] /\ quotes' # quotes
  /\ UNCHANGED <<positions, index, ibkr_scale, hedgeStateVars, forward, net, flow, missed, inside>>

ForwardMoves(price) ==
  /\ forward' = price /\ forward' # forward
  /\ inside' = (inside /\ positions = <<>>)
  /\ UNCHANGED <<portfolioVars, ibkr_scale, hedgeStateVars, net, flow, missed>>

-----------------------------------------------------------------------------
Init ==
  /\ positions \in Seeds /\ index = rebuild_index(positions)
  /\ quotes = [k \in Keys |-> 0] /\ forward = 0
  /\ ibkr_scale = One
  /\ HedgeStateInit
  /\ net = Holding
  /\ flow = -SumPositions(LAMBDA p : p.quantity * p.avg_fill_price)
  /\ missed = 0
  /\ inside = (positions = <<>>)
  /\ steps = 0

Next ==
  \/ /\ Step
     /\ \/ \E e \in Effects, p \in Prices : handle_fill(HedgeContract, e, p)
        \/ \E k \in Keys, e \in Effects, p \in OptionPrices : handle_fill(k, e, p)
        \/ \E k \in Keys, e \in Effects, p \in OptionPrices : GatedFill(k, e, p)
        \/ \E e \in Effects, p \in Prices : ReconcileHedge(e, p)
        \/ \E m \in BrokerMargins : periodic_account_poll(m)
        \/ \E k \in Keys, p \in OptionPrices \cup {0} : QuoteMoves(k, p)
        \/ \E p \in Prices : ForwardMoves(p)
  \/ periodic_greek_refresh

Spec == Init /\ [][Next]_vars

-----------------------------------------------------------------------------
(* Whatever was opened, merged, closed, flipped or removed from the middle *)
(* of the vector, the index finds a position of each key that is held and  *)
(* of no other, no empty position stays, and the book holds the seed plus  *)
(* the fills.                                                              *)
BookIsSeedPlusFills ==
  /\ DOMAIN index = {positions[i].key : i \in DOMAIN positions}
  /\ \A k \in DOMAIN index : index[k] \in DOMAIN positions /\ At(k).key = k
  /\ \A i \in DOMAIN positions : positions[i].quantity # 0
  /\ Holding = net

Priced == \A i \in DOMAIN positions : Live(positions[i]) > 0

(* The P&L of the account: cash of the options and of the futures, and     *)
(* both positions at the market.                                           *)
AccountPnl ==
  Plus(Frac(flow + SumPositions(LAMBDA p : p.quantity * Live(p)), 1),
       Plus(cash, Frac(hedge_qty * forward, 1)))

HedgePnl == Plus(realized_pnl_usd, mtm_usd(forward))

(* The daily P&L that the halt compares with its threshold falls short of  *)
(* the account's by exactly two things: what fills on held option          *)
(* positions realised, since closing or adding to a position resets its    *)
(* basis to the last price and records the gain or loss nowhere; and all   *)
(* of the hedge's P&L, realised or not, which the monitor never asks for.  *)
(* (A reconcile makes the broker's average the futures' new cash basis.)   *)
DailyPnlOmitsHedgeAndRealised ==
  Priced /\ forward > 0 =>
    AccountPnl = Plus(Frac(daily_pnl + missed, 1), HedgePnl)

(* The hedge's P&L at the forward is what the account would show. *)
HedgePnlIsAccountPnl == PnlIsCashPlusPosition(forward)

Improves(c) ==
  /\ Less(c.post_margin, c.cur_margin)
  /\ Abs(c.post_delta) < Abs(c.cur_delta)
  /\ c.post_theta > c.cur_theta
  /\ c.post_premium <= c.cur_premium

(* However far over its limits the book is, a fill that improves every     *)
(* figure and ends within the kill limits is accepted: the gates never     *)
(* lock a breached book in.                                                *)
WayBackIsOpen ==
  forward > 0 =>
    \A k \in Keys \ Expired, qty \in Effects :
      LET c == Figures(k, qty, forward, hedge_qty)
      IN Improves(c) /\ ~KillLimit(c) => Accepts(k, qty)

(* A book that was inside its soft limits stays inside them through any    *)
(* accepted fills, as long as each was judged on fresh Greeks: what check  *)
(* predicts of delta, margin and premium is what add_fill and the next     *)
(* refresh make of them, and a change of theta is predicted too large, in  *)
(* the right direction.                                                    *)
GatedBookStaysInside ==
  inside /\ Fresh =>
    /\ Abs(delta_for_product + hedge_qty) <= DeltaCeiling
    /\ theta_for_product >= ThetaFloor
    /\ ~Over(Margin(Holding), MarginCeiling)
    /\ LongPremium(Holding) <= Capital
=============================================================================
