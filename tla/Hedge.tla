------------------------------- MODULE Hedge -------------------------------
(***************************************************************************)
(* The hedge of one product in execute mode: HedgeManager's hedge_qty, its *)
(* two callers -- pump_fills (handle_fill) and periodic_hedge, two tasks   *)
(* that run concurrently -- the native broker's position cache and fills   *)
(* channel that feed them, and the gateway, where the position really is.  *)
(*                                                                         *)
(* The option book is one option, of which a contract has a delta of       *)
(* OptionDelta halves; deltas are counted in halves so that rounding to    *)
(* whole futures happens.  hedge_qty and position are in futures.          *)
(***************************************************************************)
EXTENDS Integers, Sequences, SequencesExt, FiniteSetsExt, Functions

CONSTANTS OptionQtys,       \* quantities of option fills, bought or sold
          OptionDelta,      \* delta of one option contract, in halves
          Tolerance,        \* tolerance_deltas, in halves
          ReconcileEvery,   \* periodic ticks between reconciles (4)
          ProcessedMax,     \* PROCESSED_EXEC_IDS_MAX (10000)
          FillCap,          \* FILL_CHANNEL_CAP (1024)
          MaxFills,         \* bound: option fills
          MaxOrders,        \* bound: hedge orders
          MaxRepeats        \* bound: repeated execDetails

ASSUME HedgeAssumption ==
  /\ OptionQtys \subseteq Nat \ {0} /\ OptionDelta \in Int
  /\ Tolerance \in Nat /\ ReconcileEvery \in Nat \ {0}
  /\ ProcessedMax \in Nat \ {0} /\ FillCap \in Nat \ {0}
  /\ MaxFills \in Nat /\ MaxOrders \in Nat /\ MaxRepeats \in Nat

VARIABLES opt_qty,      \* the option position
          opt_delta,    \* its stored delta: 0 until Greeks are refreshed
          hedge_qty, processed_exec_ids_order,
          pump, periodic,   \* where the two tasks stand
          tick_count,   \* modulo ReconcileEvery
          positions,    \* broker cache: the hedge position, 0 when absent
          socket, fills,    \* messages to the dispatcher, fills channel
          orders,       \* gateway: IOC orders that work
          position,     \* gateway: the hedge position
          executed,     \* gateway: executions of hedge orders so far
          option_fills, \* gateway: executions of options so far
          placed, repeats,  \* counters of the bounds
          disturbed     \* history: a fill was lost or an id evicted, or a
                        \* reconcile came while messages were under way

book == <<opt_qty, opt_delta>>
manager == <<hedge_qty, processed_exec_ids_order>>
gateway == <<orders, position, executed>>
counts == <<option_fills, placed, repeats>>
hedgeVars == <<book, manager, pump, periodic, tick_count, positions, socket, fills,
          gateway, counts, disturbed>>

Idle == [pc |-> "idle", qty |-> 0]

HedgeExec(id, qty) == [kind |-> "hedge", id |-> id, qty |-> qty]
OptionExec(id, qty) == [kind |-> "option", id |-> id, qty |-> qty]
PositionMsg(qty) == [kind |-> "position", id |-> 0, qty |-> qty]

-----------------------------------------------------------------------------
(* HedgeManager *)

Abs(x) == IF x < 0 THEN -x ELSE x

(* f64::round of halves: half away from zero. *)
Round(halves) == IF halves >= 0 THEN (halves + 1) \div 2 ELSE -((1 - halves) \div 2)

delta_for_product == opt_qty * opt_delta

effective == delta_for_product + 2 * hedge_qty

(* maybe_rebalance and rebalance: the signed quantity to trade, 0 for Idle. *)
maybe_rebalance ==
  IF Abs(effective) <= Tolerance THEN 0
  ELSE -Round(effective - 2 * hedge_qty) - hedge_qty

apply_broker_fill_undeduped(m) ==
  /\ hedge_qty' = hedge_qty + m.qty
  /\ UNCHANGED <<processed_exec_ids_order, disturbed>>

(* A repeated exec id changes nothing; the oldest id is evicted when the   *)
(* set is full.                                                            *)
apply_broker_fill(m) ==
  IF Contains(processed_exec_ids_order, m.id) THEN UNCHANGED <<manager, disturbed>>
  ELSE /\ processed_exec_ids_order' =
            Append(IF Len(processed_exec_ids_order) >= ProcessedMax
                   THEN Tail(processed_exec_ids_order)
                   ELSE processed_exec_ids_order, m.id)
       /\ hedge_qty' = hedge_qty + m.qty
       /\ disturbed' = (disturbed \/ Len(processed_exec_ids_order) >= ProcessedMax)

-----------------------------------------------------------------------------
(* pump_fills: handle_fill *)

FillAtHead(kind) == pump.pc = "idle" /\ fills # <<>> /\ Head(fills).kind = kind

HandleHedgeFill ==
  /\ FillAtHead("hedge")
  /\ apply_broker_fill(Head(fills))
  /\ fills' = Tail(fills)
  /\ UNCHANGED <<book, pump, periodic, tick_count, positions, socket, gateway, counts>>

(* No exec id is looked at.  add_fill: a position that is closed is        *)
(* removed with its Greeks, a new one has a delta of 0.  The daily P&L     *)
(* check and the release of the locks follow before the rebalance.         *)
HandleOptionFill ==
  /\ FillAtHead("option")
  /\ opt_qty' = opt_qty + Head(fills).qty
  /\ opt_delta' = IF opt_qty' = 0 THEN 0 ELSE opt_delta
  /\ fills' = Tail(fills)
  /\ pump' = [pc |-> "rebalance", qty |-> 0]
  /\ UNCHANGED <<manager, periodic, tick_count, positions, socket, gateway, counts, disturbed>>

Decision == IF maybe_rebalance = 0 THEN Idle ELSE [pc |-> "place", qty |-> maybe_rebalance]

rebalance_on_fill ==
  /\ pump.pc = "rebalance"
  /\ pump' = Decision
  /\ UNCHANGED <<book, manager, periodic, tick_count, positions, socket, fills, gateway, counts, disturbed>>

-----------------------------------------------------------------------------
(* periodic_hedge *)

(* Every ReconcileEvery ticks positions() is read, under the broker lock,  *)
(* which is released before the hedge lock is taken.                       *)
PeriodicTick ==
  /\ periodic.pc = "idle"
  /\ tick_count' = (tick_count + 1) % ReconcileEvery
  /\ periodic' = IF tick_count' = 0 THEN [pc |-> "reconcile", qty |-> positions]
                 ELSE [pc |-> "rebalance", qty |-> 0]
  /\ UNCHANGED <<book, manager, pump, positions, socket, fills, gateway, counts, disturbed>>

Quiet == socket = <<>> /\ fills = <<>> /\ positions = periodic.qty

ReconcileNever ==
  /\ periodic.pc = "reconcile"
  /\ periodic' = [pc |-> "rebalance", qty |-> 0]
  /\ UNCHANGED <<book, manager, pump, tick_count, positions, socket, fills, gateway, counts, disturbed>>

(* reconcile_with_position for every future of the snapshot: none when the *)
(* cache holds no position.                                                *)
Reconcile ==
  /\ periodic.pc = "reconcile"
  /\ hedge_qty' = IF periodic.qty # 0 THEN periodic.qty ELSE hedge_qty
  /\ periodic' = [pc |-> "rebalance", qty |-> 0]
  /\ disturbed' = (disturbed \/ (hedge_qty' # hedge_qty /\ ~Quiet))
  /\ UNCHANGED <<processed_exec_ids_order, book, pump, tick_count, positions,
                 socket, fills, gateway, counts>>

(* rebalance_periodic; the cadence gate may say Idle. *)
rebalance_periodic ==
  /\ periodic.pc = "rebalance"
  /\ periodic' \in {Decision, Idle}
  /\ UNCHANGED <<book, manager, pump, tick_count, positions, socket, fills, gateway, counts, disturbed>>

-----------------------------------------------------------------------------
(* place_hedge_order, for either task: the gateway gets the IOC order, or  *)
(* the placement fails.  No state of the manager changes.                  *)
Place(task) ==
  \/ /\ placed < MaxOrders
     /\ orders' = orders \cup {[id |-> placed + 1, qty |-> task.qty]}
     /\ placed' = placed + 1
     /\ UNCHANGED <<position, executed, option_fills, repeats>>
  \/ UNCHANGED <<gateway, counts>>

PlaceOnFill ==
  /\ pump.pc = "place" /\ Place(pump)
  /\ pump' = Idle
  /\ UNCHANGED <<book, manager, periodic, tick_count, positions, socket, fills, disturbed>>

PlacePeriodic ==
  /\ periodic.pc = "place" /\ Place(periodic)
  /\ periodic' = Idle
  /\ UNCHANGED <<book, manager, pump, tick_count, positions, socket, fills, disturbed>>

-----------------------------------------------------------------------------
(* route: positions into the cache, where a closed one leaves no entry;    *)
(* executions into the fills channel, whose oldest entry is overwritten    *)
(* when the receiver lags.                                                 *)
Dispatch ==
  /\ socket # <<>>
  /\ socket' = Tail(socket)
  /\ IF Head(socket).kind = "position"
     THEN positions' = Head(socket).qty /\ UNCHANGED fills
     ELSE /\ fills' = Append(IF Len(fills) >= FillCap THEN Tail(fills) ELSE fills, Head(socket))
          /\ UNCHANGED positions
  /\ disturbed' = (disturbed \/ (Head(socket).kind # "position" /\ Len(fills) >= FillCap))
  /\ UNCHANGED <<book, manager, pump, periodic, tick_count, gateway, counts>>

refresh_greeks ==
  /\ opt_qty # 0 /\ opt_delta # OptionDelta
  /\ opt_delta' = OptionDelta
  /\ UNCHANGED <<opt_qty, manager, pump, periodic, tick_count, positions, socket,
                 fills, gateway, counts, disturbed>>

-----------------------------------------------------------------------------
(* Gateway (external) *)

(* An IOC order executes in part or in full, or not at all, and is gone;   *)
(* execution and position are reported in either order.                    *)
GwExecute(o, qty) ==
  /\ o \in orders
  /\ orders' = orders \ {o}
  /\ position' = position + qty
  /\ executed' = IF qty = 0 THEN executed ELSE executed \cup {HedgeExec(o.id, qty)}
  /\ LET report == <<HedgeExec(o.id, qty), PositionMsg(position')>>
     IN socket' \in IF qty = 0 THEN {socket} ELSE {socket \o report, socket \o Reverse(report)}
  /\ UNCHANGED <<book, manager, pump, periodic, tick_count, positions, fills, counts, disturbed>>

GwOptionFill(qty) ==
  /\ Cardinality(option_fills) < MaxFills
  /\ LET exec == OptionExec(Cardinality(option_fills) + 1, qty)
     IN option_fills' = option_fills \cup {exec} /\ socket' = Append(socket, exec)
  /\ UNCHANGED <<book, manager, pump, periodic, tick_count, positions, fills,
                 gateway, placed, repeats, disturbed>>

(* The gateway sends an execDetails again. *)
GwRepeat(exec) ==
  /\ repeats < MaxRepeats
  /\ repeats' = repeats + 1
  /\ socket' = Append(socket, exec)
  /\ UNCHANGED <<book, manager, pump, periodic, tick_count, positions, fills,
                 gateway, option_fills, placed, disturbed>>

Between(qty) == IF qty < 0 THEN qty .. 0 ELSE 0 .. qty

-----------------------------------------------------------------------------
HedgeInit ==
  /\ opt_qty = 0 /\ opt_delta = 0
  /\ hedge_qty = 0 /\ processed_exec_ids_order = <<>>
  /\ pump = Idle /\ periodic = Idle /\ tick_count = 0
  /\ positions = 0 /\ socket = <<>> /\ fills = <<>>
  /\ orders = {} /\ position = 0 /\ executed = {}
  /\ option_fills = {} /\ placed = 0 /\ repeats = 0
  /\ disturbed = FALSE

Pump == HandleHedgeFill \/ HandleOptionFill \/ rebalance_on_fill \/ PlaceOnFill

Periodic == PeriodicTick \/ Reconcile \/ rebalance_periodic \/ PlacePeriodic

Gateway ==
  \/ \E o \in orders : \E qty \in Between(o.qty) : GwExecute(o, qty)
  \/ \E qty \in OptionQtys : GwOptionFill(qty) \/ GwOptionFill(-qty)
  \/ \E exec \in executed \cup option_fills : GwRepeat(exec)

HedgeNext == Pump \/ Periodic \/ Dispatch \/ refresh_greeks \/ Gateway

HedgeSpec == HedgeInit /\ [][HedgeNext]_hedgeVars

(* The two tasks and the dispatcher run for ever. *)
HedgeFairSpec == HedgeSpec /\ WF_hedgeVars(Pump) /\ WF_hedgeVars(Periodic) /\ WF_hedgeVars(Dispatch)

-----------------------------------------------------------------------------
(* Executions on their way that HedgeManager has not counted. *)
Uncounted == {m \in ToSet(socket) \cup ToSet(fills) :
                m.kind = "hedge" /\ ~Contains(processed_exec_ids_order, m.id)}

(* Every execution is counted once: hedge_qty and what is on its way make  *)
(* the position at the gateway, with repeated execDetails, partial fills,  *)
(* two tasks placing orders and reconciles between messages -- unless a    *)
(* fill was lost to a lagging receiver, an exec id evicted, or hedge_qty   *)
(* reconciled while messages about it were under way.                      *)
EachExecutionOnce ==
  disturbed \/ hedge_qty + SumFunctionOnSet([m \in Uncounted |-> m.qty], Uncounted) = position

(* When the orders are done, hedge_qty settles on the position at the      *)
(* gateway if that is not flat, whatever fills were lost to a lagging      *)
(* receiver, counted twice or reconciled against a stale snapshot.  A      *)
(* flat position has no entry in the cache, and is not repaired.           *)
OpenHedgeIsRepaired == <>[](position # 0 => hedge_qty = position)
=============================================================================
