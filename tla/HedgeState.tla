----------------------------- MODULE HedgeState -----------------------------
(***************************************************************************)
(* HedgeState: the hedge position with its average entry price and its     *)
(* realised P&L.  Averages are quotients, so prices and money are          *)
(* fractions here (f64 in the code, without its rounding); the contract    *)
(* multiplier, a common factor of every amount, is 1.                      *)
(***************************************************************************)
EXTENDS Integers, FiniteSetsExt, Fractions

VARIABLES hedge_qty, avg_entry_f, realized_pnl_usd,
          cash,          \* history: paid and received for futures
          paid           \* history: prices of the fills since the last flat

hedgeStateVars == <<hedge_qty, avg_entry_f, realized_pnl_usd, cash, paid>>

-----------------------------------------------------------------------------
(* apply_fill *)

Sign == IF hedge_qty > 0 THEN 1 ELSE -1

(* Close n contracts of the prior position at the price. *)
Realize(price, n) ==
  realized_pnl_usd' = Plus(realized_pnl_usd,
                           Times(Minus(Frac(price, 1), avg_entry_f), Sign * n))

(* Opening, adding in the same direction: the size-weighted average. *)
Extend(effect, price) ==
  /\ (hedge_qty >= 0 /\ effect >= 0) \/ (hedge_qty <= 0 /\ effect <= 0)
  /\ hedge_qty' = hedge_qty + effect
  /\ LET notional == Plus(Times(avg_entry_f, hedge_qty), Frac(price * effect, 1))
     IN avg_entry_f' = Frac(notional.num, notional.den * hedge_qty')
  /\ UNCHANGED realized_pnl_usd

Opposite(effect) == hedge_qty * effect < 0

Flat(effect, price) ==
  /\ hedge_qty + effect = 0
  /\ Realize(price, Abs(hedge_qty))
  /\ hedge_qty' = 0 /\ avg_entry_f' = Zero

Reduce(effect, price) ==
  /\ Opposite(effect) /\ Abs(effect) < Abs(hedge_qty)
  /\ Realize(price, Abs(effect))
  /\ hedge_qty' = hedge_qty + effect
  /\ UNCHANGED avg_entry_f

FlipKeepsAverage(effect, price) ==
  /\ Opposite(effect) /\ Abs(effect) > Abs(hedge_qty)
  /\ Realize(price, Abs(hedge_qty))
  /\ hedge_qty' = hedge_qty + effect
  /\ UNCHANGED avg_entry_f

FlipRealizesFill(effect, price) ==
  /\ Opposite(effect) /\ Abs(effect) > Abs(hedge_qty)
  /\ Realize(price, Abs(effect))
  /\ hedge_qty' = hedge_qty + effect
  /\ avg_entry_f' = Frac(price, 1)

Flip(effect, price) ==
  /\ Opposite(effect) /\ Abs(effect) > Abs(hedge_qty)
  /\ Realize(price, Abs(hedge_qty))
  /\ hedge_qty' = hedge_qty + effect
  /\ avg_entry_f' = Frac(price, 1)

apply_fill(effect, price) ==
  Flat(effect, price) \/ Extend(effect, price) \/ Reduce(effect, price) \/ Flip(effect, price)

mtm_usd(f) ==
  IF hedge_qty = 0 \/ f <= 0 THEN Zero ELSE Times(Minus(Frac(f, 1), avg_entry_f), hedge_qty)

-----------------------------------------------------------------------------
(* The histories of a fill: its cash, and the prices that the open         *)
(* position was entered at.                                                *)
Record(effect, price) ==
  /\ cash' = Plus(cash, Frac(-(effect * price), 1))
  /\ paid' = IF hedge_qty + effect = 0 THEN {}
             ELSE IF Opposite(effect) /\ Abs(effect) > Abs(hedge_qty) THEN {price}
             ELSE IF Opposite(effect) THEN paid
             ELSE paid \cup {price}

BrokerFill(effect, price) ==
  /\ apply_fill(effect, price)
  /\ Record(effect, price)

(* replace, from reconcile_with_position: the broker's position and        *)
(* average are the new basis; realised P&L stays.                          *)
replace(qty, avg) ==
  /\ qty # hedge_qty
  /\ hedge_qty' = qty /\ avg_entry_f' = Frac(avg, 1)
  /\ cash' = Minus(realized_pnl_usd, Times(Frac(avg, 1), qty))
  /\ paid' = {avg}
  /\ UNCHANGED realized_pnl_usd

HedgeStateInit ==
  /\ hedge_qty = 0 /\ avg_entry_f = Zero /\ realized_pnl_usd = Zero
  /\ cash = Zero /\ paid = {}

-----------------------------------------------------------------------------
(* Realised P&L and mark-to-market together are what the account would     *)
(* show: cash flows plus the position at the market, through adding,       *)
(* reducing, closing and flipping in any order.                            *)
PnlIsCashPlusPosition(f) ==
  f > 0 => Plus(realized_pnl_usd, mtm_usd(f)) = Plus(cash, Frac(hedge_qty * f, 1))

(* The average entry price lies between the prices that the open position  *)
(* was really entered at; a flat position has none.                        *)
AverageIsBetweenEntries ==
  IF hedge_qty = 0 THEN avg_entry_f = Zero
  ELSE /\ AtMost(Frac(Min(paid), 1), avg_entry_f)
       /\ AtMost(avg_entry_f, Frac(Max(paid), 1))
=============================================================================
