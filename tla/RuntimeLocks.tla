---------------------------- MODULE RuntimeLocks ----------------------------
(***************************************************************************)
(* The mutexes of the broker daemon's Runtime and the tasks that take      *)
(* them.  Every component of Runtime is behind a std::sync::Mutex, the     *)
(* gateway adapter behind a tokio one ("broker"); tasks.rs, ipc.rs and     *)
(* vol_surface.rs run about fifteen tasks on four worker threads that      *)
(* nest these locks in scopes.                                             *)
(*                                                                         *)
(* A task is the set of its critical sections.  Between two sections it    *)
(* holds nothing, so their order and the conditions on data that decide    *)
(* which of them a round runs do not matter to the locks.  A section is    *)
(* the sequence of the lock sets held as the code goes through it: each    *)
(* step takes one more lock or drops some, the end drops the rest.         *)
(***************************************************************************)
EXTENDS Naturals, Sequences

CONSTANTS Tasks,     \* the tasks that run
          Live       \* RuntimeMode::Live (TRUE) or Shadow

ASSUME LiveAssumption == Live \in BOOLEAN

VARIABLE at          \* where each task stands: section and step

-----------------------------------------------------------------------------
(* Critical sections of the functions called by the tasks *)

Holding(lock) == <<{lock}>>

cancel_all_resting == {Holding("broker")}

place_hedge_order ==
  {Holding("hedge"), Holding("market_data"), Holding("broker")}

compute_raw_synthetic_margin == {<<{"portfolio"}, {"portfolio", "market_data"}>>}

(* SHMServer::publish *)
publish == {Holding("events_ring")}

-----------------------------------------------------------------------------
(* Critical sections of the tasks *)

(* The fill's instrument looked up with market_data locked first. *)
pump_fills_inverted ==
  {<<{"market_data"}, {"market_data", "portfolio"}>>,
   <<{"portfolio"}, {"portfolio", "market_data"}, {"portfolio", "market_data", "risk"}>>}

pump_fills ==
  {Holding("broker"), Holding("hedge"), Holding("portfolio"), Holding("market_data"),
   <<{"portfolio"}, {"portfolio", "market_data"}, {"portfolio", "market_data", "risk"}>>,
   <<{"portfolio"}, {"portfolio", "hedge"}>>}
  \cup cancel_all_resting
  \cup (IF Live THEN place_hedge_order ELSE {})

pump_status == {Holding("broker"), Holding("oms")}

pump_ticks == {Holding("broker"), Holding("market_data")}

pump_connection == {Holding("broker"), Holding("risk")}

periodic_greek_refresh == {<<{"portfolio"}, {"portfolio", "market_data"}>>}

(* worst_per_product and the margin read take and drop a lock under three. *)
periodic_risk_check ==
  {<<{"portfolio"},
     {"portfolio", "market_data"},
     {"portfolio", "market_data", "risk"},
     {"portfolio", "market_data", "risk", "hedge"},
     {"portfolio", "market_data", "risk"},
     {"portfolio", "market_data", "risk", "account"},
     {"portfolio", "market_data", "risk"}>>}
  \cup cancel_all_resting

periodic_hedge ==
  {Holding("broker"), Holding("hedge"),
   <<{"portfolio"}, {"portfolio", "market_data"}>>,
   <<{"portfolio"}, {"portfolio", "hedge"}>>}
  \cup (IF Live THEN place_hedge_order ELSE {})

(* A snapshot that reads risk, hedge and prices without the portfolio.     *)
periodic_snapshot_ungated ==
  {<<{"risk"}, {"risk", "hedge"}, {"risk", "hedge", "market_data"}>>}

(* The snapshot takes market_data after risk and hedge, the risk check     *)
(* before them: only the portfolio lock both take first keeps them apart.  *)
periodic_snapshot ==
  {<<{"account"}, {"account", "constraint"}>>,
   <<{"portfolio"},
     {"portfolio", "risk"},
     {"portfolio", "risk", "hedge"},
     {"portfolio", "risk", "hedge", "market_data"},
     {"portfolio", "risk", "hedge", "market_data", "snapshot"}>>}

daily_halt_rollover == {Holding("risk")}

periodic_account_poll ==
  {Holding("broker"), Holding("account"), Holding("constraint")}
  \cup compute_raw_synthetic_margin

(* handle_place reads the product list with market_data already locked.    *)
handle_place == {<<{"market_data"}, {"market_data", "portfolio"}, {"market_data"}>>,
                 Holding("broker")}

(* handle_cancel and handle_modify take the broker only; in Shadow mode    *)
(* all three return before they lock anything.                             *)
dispatch_commands == IF Live THEN handle_place \cup {Holding("broker")} ELSE {}

(* The closure that install_tick_fastpath hands to the adapter. *)
tick_publisher ==
  {Holding("market_data"), <<{"tick_cache"}, {"tick_cache", "events_ring"}>>}

forward_events == {Holding("broker")} \cup publish

periodic_risk_state == {Holding("portfolio"), Holding("hedge"), Holding("broker")} \cup publish

periodic_vol_surface == {Holding("portfolio"), Holding("market_data")} \cup publish

Sections ==
  [pump_fills |-> pump_fills, pump_status |-> pump_status, pump_ticks |-> pump_ticks,
   pump_connection |-> pump_connection,
   periodic_greek_refresh |-> periodic_greek_refresh,
   periodic_risk_check |-> periodic_risk_check,
   periodic_hedge |-> periodic_hedge, periodic_snapshot |-> periodic_snapshot,
   periodic_account_poll |-> periodic_account_poll,
   daily_halt_rollover |-> daily_halt_rollover,
   dispatch_commands |-> dispatch_commands, tick_publisher |-> tick_publisher,
   forward_events |-> forward_events, periodic_risk_state |-> periodic_risk_state,
   periodic_vol_surface |-> periodic_vol_surface]

ASSUME TasksAssumption == Tasks \subseteq DOMAIN Sections

-----------------------------------------------------------------------------
(* Running the sections *)

Outside == [section |-> <<>>, step |-> 0]

Inside(t) == at[t].step > 0

Held(t) == IF Inside(t) THEN at[t].section[at[t].step] ELSE {}

Free(locks) == \A t \in Tasks : Held(t) \cap locks = {}

LocksInit == at = [t \in Tasks |-> Outside]

Enter(t, s) ==
  /\ ~Inside(t)
  /\ Free(s[1])
  /\ at' = [at EXCEPT ![t] = [section |-> s, step |-> 1]]

(* The locks the next step of a task inside a section takes. *)
Wanted(t) ==
  IF Inside(t) /\ at[t].step < Len(at[t].section)
  THEN at[t].section[at[t].step + 1] \ Held(t) ELSE {}

(* A section that goes on past its end. *)
Advance(t) ==
  /\ Inside(t) /\ at[t].step < Len(at[t].section)
  /\ Free(Wanted(t))
  /\ at' = [at EXCEPT ![t] = [section |-> at[t].section, step |-> at[t].step + 1]]

Leave(t) ==
  /\ Inside(t) /\ at[t].step = Len(at[t].section)
  /\ at' = [at EXCEPT ![t] = Outside]

LocksNext == \E t \in Tasks :
  \/ \E s \in Sections[t] : Enter(t, s)
  \/ Advance(t)
  \/ Leave(t)

LocksSpec == LocksInit /\ [][LocksNext]_at

-----------------------------------------------------------------------------
(* Every task is outside its sections or at a step of one of them. *)
AtSections ==
  \A t \in Tasks :
    at[t] = Outside \/ (at[t].section \in Sections[t] /\ at[t].step \in 1 .. Len(at[t].section))

(* No set of tasks waits in a circle: "Inverting causes deadlock when      *)
(* periodic_risk_check grabs portfolio->md while we hold md->portfolio".   *)
NoDeadlock ==
  ~ \E S \in SUBSET Tasks :
      S # {} /\ \A t \in S : \E u \in S : Wanted(t) \cap Held(u) # {}
=============================================================================
