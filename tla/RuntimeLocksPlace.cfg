\* Live with the IPC server: the trader's place_order commands arrive.
CONSTANTS
  Tasks = {"dispatch_commands", "periodic_risk_check"}
  Live = TRUE
SPECIFICATION LocksSpec
INVARIANT NoDeadlock
CHECK_DEADLOCK FALSE
