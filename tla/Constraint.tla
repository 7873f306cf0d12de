----------------------------- MODULE Constraint -----------------------------
(***************************************************************************)
(* Constraint: ConstraintChecker, the gate that a proposed fill passes,    *)
(* with the margin it is given: the synthetic SPAN scan of the book times  *)
(* the scale calibrated against the broker's margin.  Option prices and    *)
(* scenario losses (Black-76) are tables.  Money is a fraction where the   *)
(* scale enters (f64 in the code, without its rounding).                   *)
(***************************************************************************)
EXTENDS Portfolio, Fractions

CONSTANTS
  Capital, MarginCeiling, MarginKill,
  DeltaCeiling, DeltaKill,
  ThetaFloor, ThetaKill,
  MarginEscape,          \* margin_escape_enabled
  Multiplier,            \* by which check multiplies theta, which has it already
  Unscanned,             \* keys past 16:00 UTC of their expiry day
  RiskArray,             \* [Keys -> [Scenarios -> loss of one long contract]]
  BasePrice,             \* [Keys -> price of one contract]
  ShortOptionMinimum

Scenarios == DOMAIN RiskArray[CHOOSE k \in Keys : TRUE]

ASSUME ConstraintAssumption ==
  /\ Capital \in Nat /\ MarginCeiling \in Nat /\ MarginKill \in Nat
  /\ MarginCeiling <= MarginKill
  /\ DeltaCeiling \in Nat /\ DeltaKill \in Nat /\ DeltaCeiling <= DeltaKill
  /\ ThetaKill \in Int /\ ThetaFloor \in Int /\ ThetaKill <= ThetaFloor /\ ThetaFloor <= 0
  /\ MarginEscape \in BOOLEAN /\ Multiplier \in Nat \ {0}
  /\ Expired \subseteq Unscanned /\ Unscanned \subseteq Keys
  /\ IsFiniteSet(Scenarios) /\ RiskArray \in [Keys -> [Scenarios -> Int]]
  /\ BasePrice \in [Keys -> Nat] /\ ShortOptionMinimum \in Nat

VARIABLE ibkr_scale      \* synthetic-to-broker factor, 1 until calibrated

-----------------------------------------------------------------------------
(* SPAN: portfolio_margin of a holding, a function from keys to quantities *)

Holding ==
  [k \in Keys |-> SumPositions(LAMBDA p : IF p.key = k THEN p.quantity ELSE 0)]

SumKeys(value(_)) == SumFunction([k \in Keys |-> value(k)])

LongPremium(h) == SumKeys(LAMBDA k : IF h[k] > 0 THEN BasePrice[k] * h[k] ELSE 0)
ShortCount(h) == SumKeys(LAMBDA k : IF h[k] < 0 THEN -h[k] ELSE 0)

portfolio_margin(h) ==
  LET scan_risk == Max({0} \cup {SumKeys(LAMBDA k : RiskArray[k][s] * h[k]) : s \in Scenarios})
      nov == SumKeys(LAMBDA k : BasePrice[k] * h[k])
  IN Max({0, scan_risk - nov, ShortCount(h) * ShortOptionMinimum, LongPremium(h)})

(* compute_raw_synthetic_margin: expired positions do not count; here they *)
(* expire four hours before refresh_greeks thinks so.                      *)
Scanned(h) == [k \in Keys |-> IF k \in Unscanned THEN 0 ELSE h[k]]
Margin(h) == Times(ibkr_scale, portfolio_margin(Scanned(h)))

-----------------------------------------------------------------------------
(* update_cached_margin: outside [0.5, 1.25] the scale falls back to 1. *)

One == Frac(1, 1)
IBKR_SCALE_LOWER == Frac(1, 2)
IBKR_SCALE_UPPER == Frac(5, 4)

Bounded(proposed) ==
  IF AtMost(IBKR_SCALE_LOWER, proposed) /\ AtMost(proposed, IBKR_SCALE_UPPER)
  THEN proposed ELSE One

update_cached_margin(ibkr_actual) ==
  LET raw == portfolio_margin(Scanned(Holding))
  IN ibkr_scale' = IF ibkr_actual <= 0 \/ raw <= 0 THEN ibkr_scale
                   ELSE Bounded(Frac(ibkr_actual, raw))

-----------------------------------------------------------------------------
(* check: the figures before and after a fill of qty contracts of k, and   *)
(* the gates in their order.  effective_delta_gating is on.  theta_for_    *)
(* product sums what compute_greeks has multiplied; the theta of the fill, *)
(* from there too, is multiplied once more.                                *)

After(h, k, qty) == [h EXCEPT ![k] = @ + qty]

Figures(k, qty, f, hedge_qty) ==
  LET h == Holding
      cur_delta == delta_for_product + hedge_qty
      cur_theta == theta_for_product
  IN [cur_margin |-> Margin(h), post_margin |-> Margin(After(h, k, qty)),
      cur_delta |-> cur_delta, post_delta |-> cur_delta + DeltaOf[k][f] * qty,
      cur_theta |-> cur_theta, post_theta |-> cur_theta + (ThetaOf[k] * Multiplier) * qty,
      cur_premium |-> LongPremium(h), post_premium |-> LongPremium(After(h, k, qty))]

Over(x, limit) == ~AtMost(x, Frac(limit, 1))
Less(x, y) == ~AtMost(y, x)

KillLimit(c) ==
  \/ Over(c.post_margin, MarginKill)
  \/ Abs(c.post_delta) > DeltaKill
  \/ ThetaKill < 0 /\ c.post_theta < ThetaKill

EscapeApplies(c) ==
  MarginEscape /\ Over(c.cur_margin, MarginCeiling) /\ Less(c.post_margin, c.cur_margin)

MarginRejects(c) ==
  /\ Over(c.post_margin, MarginCeiling)
  /\ ~(Over(c.cur_margin, MarginCeiling) /\ Less(c.post_margin, c.cur_margin))

DeltaRejectsAlways(c) == Abs(c.post_delta) > DeltaCeiling
DeltaRejectsLong(c) == c.post_delta > DeltaCeiling /\ c.post_delta >= c.cur_delta
DeltaRejects(c) == Abs(c.post_delta) > DeltaCeiling /\ Abs(c.post_delta) >= Abs(c.cur_delta)
ThetaRejects(c) == c.post_theta < ThetaFloor /\ c.post_theta <= c.cur_theta
PremiumRejects(c) == c.post_premium > Capital /\ c.post_premium > c.cur_premium

check(c) ==
  IF KillLimit(c) \/ PremiumRejects(c) THEN "Rejected"
  ELSE IF EscapeApplies(c) THEN "AcceptedMarginEscape"
  ELSE IF MarginRejects(c) \/ DeltaRejects(c) \/ ThetaRejects(c) THEN "Rejected"
  ELSE "Accepted"
=============================================================================
