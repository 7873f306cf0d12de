----------------------------- MODULE MarketData -----------------------------
(***************************************************************************)
(* MarketDataState for one product: an OptionTick for every registered     *)
(* option, the underlying's price, and the updates that pump_ticks makes.  *)
(* Instruments stand for their ids; a price of 0 was never set.            *)
(***************************************************************************)
EXTENDS Integers, FiniteSets

CONSTANT Underlying      \* the underlying's instrument

VARIABLES options,       \* [registered option -> [bid, ask, last]]
          underlying     \* the underlying's price

mdVars == <<options, underlying>>

MarketDataInit ==
  /\ options = [o \in {} |-> 0]
  /\ underlying = 0

(* OptionTick::new; an option that is registered again keeps its tick. *)
register_option(o) ==
  /\ options' = [p \in DOMAIN options \cup {o} |->
                   IF p \in DOMAIN options THEN options[p]
                   ELSE [bid |-> 0, ask |-> 0, last |-> 0]]
  /\ UNCHANGED underlying

option_meta(i) == i \in DOMAIN options

(* A price that is not positive (no bid, no ask) keeps the last one. *)
SetWithdrawn(old, price) == price
Set(old, price) == IF price > 0 THEN price ELSE old

(* update_bid, update_ask, update_last: an option's field, or the price of *)
(* the underlying, which its ask does not touch.                           *)
Update(i, field, price) ==
  IF i \in DOMAIN options
  THEN /\ options' = [options EXCEPT ![i][field] = Set(@, price)]
       /\ UNCHANGED underlying
  ELSE /\ underlying' = IF i = Underlying /\ field # "ask" THEN Set(underlying, price)
                        ELSE underlying
       /\ UNCHANGED options

(* mid: a market with two sides that do not cross. *)
EitherSide(t) == t.bid > 0 \/ t.ask > 0
TwoSided(t) == t.bid > 0 /\ t.ask > 0 /\ t.bid < t.ask

(* snapshot_chain: one option without a mid leaves the product without a   *)
(* chain.  Of the others those that have expired or whose implied vol is   *)
(* not found are skipped: `solved` remain.                                 *)
HasChain(solved) ==
  /\ underlying > 0
  /\ \A o \in DOMAIN options : TwoSided(options[o])
  /\ solved # {}
=============================================================================
