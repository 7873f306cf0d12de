---------------------------- MODULE RiskMonitor ----------------------------
(***************************************************************************)
(* The kill switch: RiskMonitor of corsair_risk, with the tasks of the     *)
(* broker daemon that drive it -- periodic_risk_check, the per-fill halt   *)
(* check, pump_connection and daily_halt_rollover -- each a step under the *)
(* risk lock.                                                              *)
(*                                                                         *)
(* The numbers that the checks compare are abstracted to the set of limits *)
(* they are past at the moment (`breached`), which moves freely.  Time is  *)
(* a day in US/Central and whether it is past 17:00, where the CME session *)
(* rolls.                                                                  *)
(***************************************************************************)
EXTENDS Naturals

CONSTANTS Armed,        \* limits whose check is enabled by the configuration
          MaxDay,       \* bound: last day of the clock
          MaxMoves,     \* bound: moves of the market across a limit
          Keys,         \* bound: sentinels the operators use
          MaxInduced,   \* bound: how often they write each
          MaxRestarts   \* bound: restarts of the daemon

Limits == {"margin", "delta", "vega", "theta", "daily_pnl"}

(* vega_kill = 0, theta_kill = 0 and daily_halt_threshold = None disable   *)
(* their checks; margin and delta have no such value.                      *)
ASSUME ArmedAssumption ==
  Armed \subseteq Limits /\ {"margin", "delta"} \subseteq Armed
ASSUME BoundsAssumption ==
  /\ Keys \subseteq Limits
  /\ MaxDay \in Nat /\ MaxMoves \in Nat /\ MaxInduced \in Nat /\ MaxRestarts \in Nat

VARIABLES killed,          \* Option<KillEvent>
          last_fired_day,  \* daily_halt_rollover's local, Never at boot
          breached,        \* limits the account is past
          sentinels,       \* sentinel files present
          stuck,           \* sentinel files that cannot be removed
          day, evening,    \* the clock
          moves, restarts, \* bounds used up
          written, induced \* history: sentinels written, induced kills fired

riskVars == <<killed, last_fired_day, breached, sentinels, stuck, day, evening,
          moves, restarts, written, induced>>

-----------------------------------------------------------------------------
(* Kills *)

NoKill == [source |-> "none", kind |-> "none", session |-> 0]

Never == MaxDay + 1

(* The CME session the clock is in; a session begins at 17:00. *)
Session == IF evening THEN day + 1 ELSE day

(* A KillEvent; Induced(inner) is "induced_" and the inner source. *)
KillEvent(source, kind) == [source |-> source, kind |-> kind, session |-> Session]

(* The limits in the order in which check() looks at them.  The first      *)
(* armed one that is breached fires.                                       *)
CheckOrder == <<"margin", "delta", "vega", "theta", "daily_pnl">>

KillOfMislabelled(limit) == KillEvent("disconnect", "Halt")

KillOf(limit) ==
  KillEvent(IF limit = "daily_pnl" THEN "daily_halt" ELSE "risk",
            IF limit = "delta" THEN "HedgeFlat" ELSE "Halt")

(* INDUCED_SENTINELS, in the table's order, and the kill each induces. *)
InducedSentinels == <<"daily_pnl", "margin", "delta", "theta", "vega">>

InducedKillOf(key) ==
  KillEvent(IF key = "daily_pnl" THEN "induced_daily_halt" ELSE "induced_risk",
            IF key = "delta" THEN "HedgeFlat" ELSE "Halt")

First(order, S) == order[CHOOSE i \in DOMAIN order :
  order[i] \in S /\ \A j \in DOMAIN order : order[j] \in S => i <= j]

is_daily_clearable(k) == k.source \in {"daily_halt", "induced_daily_halt"}
is_disconnect(k) == k.source = "disconnect"

-----------------------------------------------------------------------------
(* RiskMonitor::check, called by periodic_risk_check *)

AlreadyKilled == killed # NoKill

(* A check that gives up when the sentinel cannot be removed. *)
CheckBreachesUnlessStuck ==
  /\ ~AlreadyKilled /\ sentinels = {}
  /\ breached \cap Armed # {}
  /\ killed' = KillOf(First(CheckOrder, breached \cap Armed))
  /\ UNCHANGED <<last_fired_day, breached, sentinels, stuck, day, evening,
                 moves, restarts, written, induced>>

(* check_induced_sentinels took nothing: there is no sentinel, or the      *)
(* first one cannot be removed and the rest is not looked at.              *)
CheckBreaches ==
  /\ ~AlreadyKilled
  /\ sentinels # {} => First(InducedSentinels, sentinels) \in stuck
  /\ breached \cap Armed # {}
  /\ killed' = KillOf(First(CheckOrder, breached \cap Armed))
  /\ UNCHANGED <<last_fired_day, breached, sentinels, stuck, day, evening,
                 moves, restarts, written, induced>>

CheckInducedEvenIfStuck ==
  /\ ~AlreadyKilled /\ sentinels # {}
  /\ LET key == First(InducedSentinels, sentinels)
     IN /\ sentinels' = IF key \in stuck THEN sentinels ELSE sentinels \ {key}
        /\ killed' = InducedKillOf(key)
        /\ induced' = [induced EXCEPT ![key] = @ + 1]
  /\ UNCHANGED <<last_fired_day, breached, stuck, day, evening, moves, restarts, written>>

(* The file goes before the kill fires. *)
CheckInduced ==
  /\ ~AlreadyKilled /\ sentinels # {}
  /\ LET key == First(InducedSentinels, sentinels)
     IN /\ key \notin stuck
        /\ sentinels' = sentinels \ {key}
        /\ killed' = InducedKillOf(key)
        /\ induced' = [induced EXCEPT ![key] = @ + 1]
  /\ UNCHANGED <<last_fired_day, breached, stuck, day, evening, moves, restarts, written>>

CheckDailyPnlWithoutGuard ==
  /\ "daily_pnl" \in breached \cap Armed
  /\ killed' = KillOf("daily_pnl")
  /\ UNCHANGED <<last_fired_day, breached, sentinels, stuck, day, evening,
                 moves, restarts, written, induced>>

(* handle_fill, after every option fill. *)
check_daily_pnl_only ==
  /\ ~AlreadyKilled
  /\ "daily_pnl" \in breached \cap Armed
  /\ killed' = KillOf("daily_pnl")
  /\ UNCHANGED <<last_fired_day, breached, sentinels, stuck, day, evening,
                 moves, restarts, written, induced>>

(* pump_connection, on ConnectionState::Connected.  Nothing in the        *)
(* daemon fires a kill with the Disconnect source, so it never finds one.  *)
clear_disconnect_kill ==
  /\ killed' = IF is_disconnect(killed) THEN NoKill ELSE killed
  /\ UNCHANGED <<last_fired_day, breached, sentinels, stuck, day, evening,
                 moves, restarts, written, induced>>

(* A rollover that clears whatever kill it finds, and one that fires only  *)
(* in the minute after 17:00 it happens to sample.                         *)
RolloverClearsAll ==
  /\ evening /\ last_fired_day # day
  /\ killed' = NoKill
  /\ last_fired_day' = day
  /\ UNCHANGED <<breached, sentinels, stuck, day, evening, moves, restarts, written, induced>>

RolloverNeverRearms ==
  /\ evening /\ last_fired_day = Never
  /\ killed' = IF is_daily_clearable(killed) THEN NoKill ELSE killed
  /\ last_fired_day' = day
  /\ UNCHANGED <<breached, sentinels, stuck, day, evening, moves, restarts, written, induced>>

(* A tick of daily_halt_rollover at or past 17:00, once a day. *)
clear_daily_halt ==
  /\ evening /\ last_fired_day # day
  /\ killed' = IF is_daily_clearable(killed) THEN NoKill ELSE killed
  /\ last_fired_day' = day
  /\ UNCHANGED <<breached, sentinels, stuck, day, evening, moves, restarts, written, induced>>

(* RiskMonitor::new and a fresh daily_halt_rollover: neither state is      *)
(* written anywhere.                                                       *)
Restart ==
  /\ restarts < MaxRestarts
  /\ restarts' = restarts + 1
  /\ killed' = NoKill /\ last_fired_day' = Never
  /\ UNCHANGED <<breached, sentinels, stuck, day, evening, moves, written, induced>>

-----------------------------------------------------------------------------
(* Environment *)

MarketMoves ==
  /\ moves < MaxMoves
  /\ \E l \in Limits :
       breached' = IF l \in breached THEN breached \ {l} ELSE breached \cup {l}
  /\ moves' = moves + 1
  /\ UNCHANGED <<killed, last_fired_day, sentinels, stuck, day, evening,
                 restarts, written, induced>>

(* scripts/induce_kill_switch.py writes a sentinel; `bad` is one the       *)
(* daemon has no right to remove.                                          *)
WriteSentinel(key, bad) ==
  /\ key \notin sentinels
  /\ written[key] < MaxInduced
  /\ sentinels' = sentinels \cup {key}
  /\ stuck' = IF bad THEN stuck \cup {key} ELSE stuck \ {key}
  /\ written' = [written EXCEPT ![key] = @ + 1]
  /\ UNCHANGED <<killed, last_fired_day, breached, day, evening, moves, restarts, induced>>

Clock ==
  /\ \/ ~evening /\ evening' = TRUE /\ day' = day
     \/ evening /\ day < MaxDay /\ evening' = FALSE /\ day' = day + 1
  /\ UNCHANGED <<killed, last_fired_day, breached, sentinels, stuck, moves,
                 restarts, written, induced>>

-----------------------------------------------------------------------------
RiskInit ==
  /\ killed = NoKill /\ last_fired_day = Never
  /\ breached = {} /\ sentinels = {} /\ stuck = {}
  /\ day = 0 /\ evening \in BOOLEAN
  /\ moves = 0 /\ restarts = 0
  /\ written = [k \in Keys |-> 0] /\ induced = [k \in Keys |-> 0]

check == CheckInduced \/ CheckBreaches

Environment ==
  \/ MarketMoves
  \/ \E key \in Keys, bad \in BOOLEAN : WriteSentinel(key, bad)
  \/ Clock

RiskNext ==
  \/ check \/ check_daily_pnl_only \/ clear_disconnect_kill
  \/ clear_daily_halt \/ Restart \/ Environment

RiskSpec == RiskInit /\ [][RiskNext]_riskVars

(* The two periodic tasks tick for ever and the clock runs; fills, market  *)
(* moves, sentinels and restarts owe nothing.                              *)
RiskFairSpec == RiskSpec /\ WF_riskVars(check) /\ WF_riskVars(clear_daily_halt) /\ WF_riskVars(Clock)

-----------------------------------------------------------------------------
(* Every variable has its type. *)
TypeOK ==
  /\ killed \in [source : {"none", "risk", "daily_halt", "induced_risk", "induced_daily_halt"},
                 kind : {"none", "Halt", "HedgeFlat"}, session : 0 .. MaxDay + 1]
  /\ last_fired_day \in 0 .. Never
  /\ breached \subseteq Limits /\ sentinels \subseteq Keys /\ stuck \subseteq Keys
  /\ day \in 0 .. MaxDay /\ evening \in BOOLEAN
  /\ moves \in 0 .. MaxMoves /\ restarts \in 0 .. MaxRestarts
  /\ written \in [Keys -> 0 .. MaxInduced] /\ induced \in [Keys -> Nat]

(* While the daemon runs, a kill stays what it is: no later breach, fill,  *)
(* sentinel or reconnect replaces or clears it, and only the rollover      *)
(* lifts a (real or induced) daily halt.                                   *)
KillsAreSticky ==
  [][killed # NoKill /\ restarts' = restarts /\ killed' # killed =>
       is_daily_clearable(killed) /\ killed' = NoKill /\ evening]_riskVars

(* A sentinel file induces at most one kill, whatever clears that kill and *)
(* whether or not the file could be removed: "Removes the sentinel BEFORE  *)
(* firing so the kill can't re-trigger on the next cycle".                 *)
InducedAtMostOnce ==
  \A k \in Keys : induced[k] + (IF k \in sentinels THEN 1 ELSE 0) <= written[k]

(* An armed limit that stays breached leads to a kill that stays, however  *)
(* often rollovers and restarts clear it and even with a sentinel stuck    *)
(* in the directory.                                                       *)
BreachIsActedOn ==
  \A l \in Armed : <>[](l \in breached) => <>[](killed # NoKill)

(* A daily halt does not outlive the next rollover for ever. *)
HaltIsLifted ==
  \A s \in 0 .. MaxDay :
    is_daily_clearable(killed) /\ killed.session = s ~>
      ~(is_daily_clearable(killed) /\ killed.session = s)
=============================================================================
