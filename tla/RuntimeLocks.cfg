\* Live, with no place_order command from the trader: the tasks that nest locks
\* and some that contend for single ones.
CONSTANTS
  Tasks = {"pump_fills", "periodic_risk_check", "periodic_hedge", "periodic_snapshot", "periodic_account_poll", "tick_publisher", "forward_events"}
  Live = TRUE
SPECIFICATION LocksSpec
INVARIANTS NoDeadlock
