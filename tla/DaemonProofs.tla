---------------------------- MODULE DaemonProofs ----------------------------
(***************************************************************************)
(* The tasks of the broker daemon, for every value of the constants:       *)
(* RuntimeLocks, whose tasks do not deadlock as long as handle_place stays *)
(* out; RiskMonitor, whose kills stay what they are and whose sentinels    *)
(* fire at most once; and Hedge, whose two tasks count every execution     *)
(* once.  The three modules share no state; they are proved side by side.  *)
(***************************************************************************)
EXTENDS RuntimeLocks, RiskMonitor, Hedge, DataTheorems, TLAPS, FiniteSetTheorems, SequenceTheorems

-----------------------------------------------------------------------------
(* RuntimeLocks *)

(* What may be taken under `held`: anything under nothing; under the       *)
(* portfolio lock only five others, and never the portfolio lock itself;   *)
(* besides, the constraint lock under account and the ring under the tick  *)
(* cache.                                                                  *)
UnderPortfolio == {"market_data", "risk", "hedge", "account", "snapshot"}

Ordered(held, next) ==
  \/ next \subseteq held
  \/ /\ "portfolio" \in held
     /\ held \subseteq UnderPortfolio \cup {"portfolio"}
     /\ next \ held \subseteq UnderPortfolio
  \/ /\ held = {"account"}
     /\ next \ held \subseteq {"constraint"}
  \/ /\ held = {"tick_cache"}
     /\ next \ held \subseteq {"events_ring"}

Disciplined(s) ==
  /\ Len(s) \in Nat /\ Len(s) >= 1
  /\ \A k \in 1 .. Len(s) - 1 : Ordered(s[k], s[k + 1])

NoPlace == ~Live \/ "dispatch_commands" \notin Tasks

(* Two tasks never hold the same lock. *)
Exclusive == \A t, u \in Tasks : t # u => Held(t) \cap Held(u) = {}

LocksInv ==
  /\ DOMAIN at = Tasks /\ at = [t \in Tasks |-> at[t]]
  /\ AtSections
  /\ Exclusive

(* A section with one lock has no step to order. *)
LEMMA OneIsDisciplined ==
  ASSUME NEW a PROVE Disciplined(<<a>>)
BY DEF Disciplined

(* A section of two steps is disciplined when its steps are ordered. *)
LEMMA TwoAreDisciplined ==
  ASSUME NEW a, NEW b, Ordered(a, b) PROVE Disciplined(<<a, b>>)
<1> DEFINE s == <<a, b>>
<1>1. Len(s) = 2 /\ s[1] = a /\ s[2] = b
  OBVIOUS
<1> HIDE DEF s
<1>2. \A k \in 1 .. Len(s) - 1 : k = 1
  BY <1>1
<1>3. Disciplined(s)
  BY <1>1, <1>2 DEF Disciplined
<1> QED BY <1>3 DEF s

(* The same for three steps. *)
LEMMA ThreeAreDisciplined ==
  ASSUME NEW a, NEW b, NEW c, Ordered(a, b), Ordered(b, c)
  PROVE  Disciplined(<<a, b, c>>)
<1> DEFINE s == <<a, b, c>>
<1>1. Len(s) = 3 /\ s[1] = a /\ s[2] = b /\ s[3] = c
  OBVIOUS
<1> HIDE DEF s
<1>2. \A k \in 1 .. Len(s) - 1 : k = 1 \/ k = 2
  BY <1>1
<1>3. Disciplined(s)
  BY <1>1, <1>2 DEF Disciplined
<1> QED BY <1>3 DEF s

(* The same for five steps. *)
LEMMA FiveAreDisciplined ==
  ASSUME NEW a, NEW b, NEW c, NEW d, NEW e,
         Ordered(a, b), Ordered(b, c), Ordered(c, d), Ordered(d, e)
  PROVE  Disciplined(<<a, b, c, d, e>>)
<1> DEFINE s == <<a, b, c, d, e>>
<1>1. Len(s) = 5 /\ s[1] = a /\ s[2] = b /\ s[3] = c /\ s[4] = d /\ s[5] = e
  OBVIOUS
<1> HIDE DEF s
<1>2. \A k \in 1 .. Len(s) - 1 : k = 1 \/ k = 2 \/ k = 3 \/ k = 4
  BY <1>1
<1>3. Disciplined(s)
  BY <1>1, <1>2 DEF Disciplined
<1> QED BY <1>3 DEF s

(* The same for seven steps. *)
LEMMA SevenAreDisciplined ==
  ASSUME NEW a, NEW b, NEW c, NEW d, NEW e, NEW f, NEW g,
         Ordered(a, b), Ordered(b, c), Ordered(c, d), Ordered(d, e),
         Ordered(e, f), Ordered(f, g)
  PROVE  Disciplined(<<a, b, c, d, e, f, g>>)
<1> DEFINE s == <<a, b, c, d, e, f, g>>
<1>1. Len(s) = 7 /\ s[1] = a /\ s[2] = b /\ s[3] = c /\ s[4] = d
      /\ s[5] = e /\ s[6] = f /\ s[7] = g
  OBVIOUS
<1> HIDE DEF s
<1>2. \A k \in 1 .. Len(s) - 1 : k = 1 \/ k = 2 \/ k = 3 \/ k = 4 \/ k = 5 \/ k = 6
  BY <1>1
<1>3. Disciplined(s)
  BY <1>1, <1>2 DEF Disciplined
<1> QED BY <1>3 DEF s

(* Every section of the other tasks keeps to the order. *)
LEMMA SectionsDisciplined ==
  ASSUME NoPlace, NEW t \in Tasks, NEW s \in Sections[t]
  PROVE  Disciplined(s)
<1> DEFINE P   == {"portfolio"}
           PM  == {"portfolio", "market_data"}
           PMR == {"portfolio", "market_data", "risk"}
           PH  == {"portfolio", "hedge"}
<1>1. \A lock : Disciplined(Holding(lock))
  BY OneIsDisciplined DEF Holding
<1>2. Disciplined(<<P, PM>>)
  <2>1. Ordered(P, PM) BY DEF Ordered, UnderPortfolio
  <2> QED BY <2>1, TwoAreDisciplined
<1>3. Disciplined(<<P, PH>>)
  <2>1. Ordered(P, PH) BY DEF Ordered, UnderPortfolio
  <2> QED BY <2>1, TwoAreDisciplined
<1>4. Ordered(P, PM) /\ Ordered(PM, PMR)
  BY DEF Ordered, UnderPortfolio
<1>5. Disciplined(<<P, PM, PMR>>)
  BY <1>4, ThreeAreDisciplined
<1>6. Disciplined(<<P, PM, PMR, {"portfolio", "market_data", "risk", "hedge"}, PMR,
                    {"portfolio", "market_data", "risk", "account"}, PMR>>)
  <2>1. Ordered(PMR, {"portfolio", "market_data", "risk", "hedge"})
    BY DEF Ordered, UnderPortfolio
  <2>2. Ordered({"portfolio", "market_data", "risk", "hedge"}, PMR)
    BY DEF Ordered
  <2>3. Ordered(PMR, {"portfolio", "market_data", "risk", "account"})
    BY DEF Ordered, UnderPortfolio
  <2>4. Ordered({"portfolio", "market_data", "risk", "account"}, PMR)
    BY DEF Ordered
  <2> HIDE DEF P, PM, PMR
  <2> QED BY <1>4, <2>1, <2>2, <2>3, <2>4, SevenAreDisciplined
<1>7. Disciplined(<<P, {"portfolio", "risk"}, {"portfolio", "risk", "hedge"},
                    {"portfolio", "risk", "hedge", "market_data"},
                    {"portfolio", "risk", "hedge", "market_data", "snapshot"}>>)
  <2>1. Ordered(P, {"portfolio", "risk"})
    BY DEF Ordered, UnderPortfolio
  <2>2. Ordered({"portfolio", "risk"}, {"portfolio", "risk", "hedge"})
    BY DEF Ordered, UnderPortfolio
  <2>3. Ordered({"portfolio", "risk", "hedge"}, {"portfolio", "risk", "hedge", "market_data"})
    BY DEF Ordered, UnderPortfolio
  <2>4. Ordered({"portfolio", "risk", "hedge", "market_data"},
                {"portfolio", "risk", "hedge", "market_data", "snapshot"})
    BY DEF Ordered, UnderPortfolio
  <2> HIDE DEF P
  <2> QED BY <2>1, <2>2, <2>3, <2>4, FiveAreDisciplined
<1>8. Disciplined(<<{"account"}, {"account", "constraint"}>>)
  <2>1. Ordered({"account"}, {"account", "constraint"}) BY DEF Ordered
  <2> QED BY <2>1, TwoAreDisciplined
<1>9. Disciplined(<<{"tick_cache"}, {"tick_cache", "events_ring"}>>)
  <2>1. Ordered({"tick_cache"}, {"tick_cache", "events_ring"}) BY DEF Ordered
  <2> QED BY <2>1, TwoAreDisciplined
<1>10. t \in DOMAIN Sections
  BY TasksAssumption
<1> HIDE DEF Disciplined
<1>11. CASE t = "pump_fills"
  BY <1>11, <1>1, <1>3, <1>5 DEF Sections, pump_fills, cancel_all_resting, place_hedge_order
<1>12. CASE t \in {"pump_status", "pump_ticks", "pump_connection", "daily_halt_rollover"}
  BY <1>12, <1>1 DEF Sections, pump_status, pump_ticks, pump_connection, daily_halt_rollover
<1>13. CASE t = "periodic_greek_refresh"
  BY <1>13, <1>2 DEF Sections, periodic_greek_refresh
<1>14. CASE t = "periodic_risk_check"
  BY <1>14, <1>1, <1>6 DEF Sections, periodic_risk_check, cancel_all_resting
<1>15. CASE t = "periodic_hedge"
  BY <1>15, <1>1, <1>2, <1>3 DEF Sections, periodic_hedge, place_hedge_order
<1>16. CASE t = "periodic_snapshot"
  BY <1>16, <1>7, <1>8 DEF Sections, periodic_snapshot
<1>17. CASE t = "periodic_account_poll"
  BY <1>17, <1>1, <1>2 DEF Sections, periodic_account_poll, compute_raw_synthetic_margin
<1>18. CASE t = "dispatch_commands"
  BY <1>18 DEF Sections, dispatch_commands, NoPlace
<1>19. CASE t = "tick_publisher"
  BY <1>19, <1>1, <1>9 DEF Sections, tick_publisher
<1>20. CASE t \in {"forward_events", "periodic_risk_state", "periodic_vol_surface"}
  BY <1>20, <1>1 DEF Sections, forward_events, periodic_risk_state, periodic_vol_surface, publish
<1> QED
  BY <1>10, <1>11, <1>12, <1>13, <1>14, <1>15, <1>16, <1>17, <1>18, <1>19, <1>20 DEF Sections

-----------------------------------------------------------------------------
(* A task inside a section holds that section's locks of the step. *)
LEMMA HeldInside ==
  ASSUME NoPlace, AtSections, NEW t \in Tasks
  PROVE  /\ Inside(t) => /\ at[t].section \in Sections[t]
                         /\ at[t].step \in 1 .. Len(at[t].section)
                         /\ Held(t) = at[t].section[at[t].step]
         /\ ~Inside(t) => Held(t) = {}
BY DEF AtSections, Inside, Held, Outside

(* The locks a waiting task holds and the ones it waits for are ordered. *)
LEMMA WaitingIsOrdered ==
  ASSUME NoPlace, AtSections, NEW t \in Tasks, Wanted(t) # {}
  PROVE  \/ /\ "portfolio" \in Held(t)
            /\ Held(t) \subseteq UnderPortfolio \cup {"portfolio"}
            /\ Wanted(t) \subseteq UnderPortfolio
         \/ /\ Held(t) = {"account"}
            /\ Wanted(t) \subseteq {"constraint"}
         \/ /\ Held(t) = {"tick_cache"}
            /\ Wanted(t) \subseteq {"events_ring"}
<1> DEFINE s == at[t].section
           k == at[t].step
<1>1. /\ Inside(t) /\ k < Len(s)
      /\ Wanted(t) = s[k + 1] \ Held(t)
  BY DEF Wanted
<1>2. s \in Sections[t] /\ k \in 1 .. Len(s) /\ Held(t) = s[k]
  BY <1>1, HeldInside
<1>3. Disciplined(s)
  BY <1>2, SectionsDisciplined
<1>4. k \in 1 .. Len(s) - 1
  BY <1>1, <1>2, <1>3 DEF Disciplined
<1>5. Ordered(s[k], s[k + 1])
  BY <1>3, <1>4 DEF Disciplined
<1> QED
  BY <1>1, <1>2, <1>5 DEF Ordered

(* Under the invariant no set of tasks waits in a circle.  A task that     *)
(* waits under the portfolio lock waits for one that does not have it, so  *)
(* for one that waits under `account` or the tick cache alone; and nobody  *)
(* who holds what these wait for, constraint or the ring, waits at all.    *)
LEMMA InvariantExcludesDeadlock ==
  ASSUME NoPlace, LocksInv
  PROVE  NoDeadlock
<1> SUFFICES ASSUME NEW S \in SUBSET Tasks, S # {},
                    \A t \in S : \E u \in S : Wanted(t) \cap Held(u) # {}
             PROVE  FALSE
  BY DEF NoDeadlock
<1> DEFINE Waits(t) == Wanted(t) # {}
<1>1. \A t \in S : t \in Tasks /\ Waits(t)
  OBVIOUS
<1>2. ASSUME NEW t \in S PROVE "portfolio" \in Held(t)
  <2>1. PICK u \in S : Wanted(t) \cap Held(u) # {}
    OBVIOUS
  <2>2. SUFFICES ASSUME "portfolio" \notin Held(t) PROVE FALSE
    OBVIOUS
  <2>3. Wanted(t) \subseteq {"constraint", "events_ring"}
    BY <1>1, <2>2, WaitingIsOrdered DEF LocksInv
  <2>4. "constraint" \in Held(u) \/ "events_ring" \in Held(u)
    BY <2>1, <2>3
  <2> QED
    BY <1>1, <2>4, WaitingIsOrdered DEF LocksInv, UnderPortfolio
<1>3. PICK t \in S : TRUE
  OBVIOUS
<1>4. PICK u \in S : Wanted(t) \cap Held(u) # {}
  BY <1>3
<1>5. "portfolio" \in Held(t) /\ "portfolio" \in Held(u)
  BY <1>2
<1>6. t = u
  BY <1>1, <1>5 DEF LocksInv, Exclusive
<1>7. Wanted(t) \cap Held(t) = {}
  BY DEF Wanted
<1> QED
  BY <1>4, <1>6, <1>7

(* Initially no task is inside a section. *)
LEMMA LocksInitInv == LocksInit => LocksInv
BY DEF LocksInit, LocksInv, AtSections, Exclusive, Held, Inside, Outside

(* A step of one task that takes only free locks keeps the invariant.      *)
LEMMA MoveKeepsInv ==
  ASSUME LocksInv, NEW t \in Tasks, NEW to,
         at' = [at EXCEPT ![t] = to],
         \/ to = Outside
         \/ /\ to.section \in Sections[t] /\ to.step \in 1 .. Len(to.section)
            /\ \A u \in Tasks \ {t} : Held(u) \cap to.section[to.step] = {}
  PROVE  LocksInv'
<1>1. at'[t] = to /\ \A u \in Tasks \ {t} : at'[u] = at[u]
  BY DEF LocksInv
<1>2. DOMAIN at' = Tasks /\ at' = [u \in Tasks |-> at'[u]]
  BY DEF LocksInv
<1>3. AtSections'
  BY <1>1 DEF LocksInv, AtSections
<1>4. \A u \in Tasks \ {t} : Held(u)' = Held(u)
  BY <1>1 DEF Held, Inside
<1>5. Held(t)' = {} \/ Held(t)' = to.section[to.step]
  BY <1>1 DEF Held, Inside
<1>6. \A u \in Tasks \ {t} : Held(t)' \cap Held(u)' = {}
  <2>1. CASE to = Outside
    BY <1>1, <2>1 DEF Held, Inside, Outside
  <2>2. CASE to # Outside
    BY <2>2, <1>4, <1>5
  <2> QED BY <2>1, <2>2
<1>7. Exclusive'
  BY <1>4, <1>6 DEF LocksInv, Exclusive
<1> QED
  BY <1>2, <1>3, <1>7 DEF LocksInv

(* Every step of every task keeps the invariant. *)
LEMMA LocksNextInv ==
  ASSUME NoPlace, LocksInv, [LocksNext]_at
  PROVE  LocksInv'
<1>1. CASE UNCHANGED at
  BY <1>1 DEF LocksInv, AtSections, Exclusive, Held, Inside
<1>2. ASSUME NEW t \in Tasks, NEW s \in Sections[t], Enter(t, s)
      PROVE  LocksInv'
  <2> DEFINE to == [section |-> s, step |-> 1]
  <2>1. Len(s) \in Nat /\ Len(s) >= 1
    BY SectionsDisciplined DEF Disciplined
  <2>2. to.section \in Sections[t] /\ to.step \in 1 .. Len(to.section)
    BY <2>1
  <2>3. \A u \in Tasks \ {t} : Held(u) \cap to.section[to.step] = {}
    BY <1>2 DEF Enter, Free
  <2>4. at' = [at EXCEPT ![t] = to]
    BY <1>2 DEF Enter
  <2> HIDE DEF to
  <2> QED BY <2>2, <2>3, <2>4, MoveKeepsInv
<1>3. ASSUME NEW t \in Tasks, Advance(t)
      PROVE  LocksInv'
  <2> DEFINE s  == at[t].section
             k  == at[t].step
             to == [section |-> s, step |-> k + 1]
  <2>1. /\ s \in Sections[t] /\ k \in 1 .. Len(s) /\ k < Len(s)
        /\ Held(t) = s[k]
    BY <1>3, HeldInside DEF Advance, LocksInv
  <2>2. Len(s) \in Nat
    BY <2>1, SectionsDisciplined DEF Disciplined
  <2>3. to.section = s /\ to.step = k + 1
    OBVIOUS
  <2>4. k + 1 \in 1 .. Len(s)
    BY <2>1, <2>2
  <2>5. at' = [at EXCEPT ![t] = to]
    BY <1>3 DEF Advance
  <2>6. \A u \in Tasks \ {t} : Held(u) \cap s[k + 1] = {}
    <3>1. Wanted(t) = s[k + 1] \ Held(t)
      BY <1>3 DEF Advance, Wanted
    <3> QED BY <1>3, <3>1 DEF Advance, Free, LocksInv, Exclusive
  <2> HIDE DEF to
  <2> QED BY <2>1, <2>3, <2>4, <2>5, <2>6, MoveKeepsInv
<1>4. ASSUME NEW t \in Tasks, Leave(t)
      PROVE  LocksInv'
  BY <1>4, MoveKeepsInv DEF Leave
<1> QED
  BY <1>1, <1>2, <1>3, <1>4 DEF LocksNext

(* Any set of the broker daemon's tasks without handle_place -- every task *)
(* in Shadow mode, all but dispatch_commands in Live mode -- is free of    *)
(* deadlocks on the Runtime's mutexes, although the snapshot and the risk  *)
(* check take market_data, risk and hedge in opposite orders.              *)
THEOREM NoDeadlockWithoutPlace == NoPlace => (LocksSpec => []NoDeadlock)
<1> SUFFICES ASSUME NoPlace PROVE LocksSpec => []NoDeadlock
  OBVIOUS
<1>1. LocksInit => LocksInv
  BY LocksInitInv
<1>2. LocksInv /\ [LocksNext]_at => LocksInv'
  BY LocksNextInv
<1>3. LocksInv => NoDeadlock
  BY InvariantExcludesDeadlock
<1> QED
  BY <1>1, <1>2, <1>3, PTL DEF LocksSpec

-----------------------------------------------------------------------------
(* RiskMonitor *)

(* The first sentinel of the table that is present is one of them. *)
LEMMA FirstSentinel ==
  ASSUME NEW S, S \subseteq Limits, S # {}
  PROVE  First(InducedSentinels, S) \in S
<1> DEFINE I == InducedSentinels
           Least(i) == /\ I[i] \in S
                       /\ \A j \in DOMAIN I : I[j] \in S => i <= j
<1>1. /\ DOMAIN I = 1 .. 5
      /\ I[1] = "daily_pnl" /\ I[2] = "margin" /\ I[3] = "delta"
      /\ I[4] = "theta" /\ I[5] = "vega"
  BY DEF InducedSentinels
<1> HIDE DEF I
<1>2. I[1] \in S \/ I[2] \in S \/ I[3] \in S \/ I[4] \in S \/ I[5] \in S
  BY <1>1 DEF Limits
<1>3. \E i \in DOMAIN I : Least(i)
  <2>1. CASE I[1] \in S
    BY <2>1, <1>1
  <2>2. CASE I[1] \notin S /\ I[2] \in S
    BY <2>2, <1>1
  <2>3. CASE I[1] \notin S /\ I[2] \notin S /\ I[3] \in S
    BY <2>3, <1>1
  <2>4. CASE I[1] \notin S /\ I[2] \notin S /\ I[3] \notin S /\ I[4] \in S
    BY <2>4, <1>1
  <2>5. CASE I[1] \notin S /\ I[2] \notin S /\ I[3] \notin S /\ I[4] \notin S /\ I[5] \in S
    BY <2>5, <1>1
  <2> QED BY <1>2, <2>1, <2>2, <2>3, <2>4, <2>5
<1>4. Least(CHOOSE i \in DOMAIN I : Least(i))
  BY <1>3
<1> QED
  BY <1>4 DEF First, I

(* The kills that fire have the type of a kill. *)
LEMMA KillTypes ==
  ASSUME TypeOK, NEW l
  PROVE  /\ KillOf(l) \in [source : {"risk", "daily_halt"},
                           kind : {"Halt", "HedgeFlat"}, session : 0 .. MaxDay + 1]
         /\ InducedKillOf(l) \in [source : {"induced_risk", "induced_daily_halt"},
                                  kind : {"Halt", "HedgeFlat"}, session : 0 .. MaxDay + 1]
<1>1. Session \in 0 .. MaxDay + 1
  BY BoundsAssumption DEF TypeOK, Session
<1> QED
  BY <1>1 DEF KillOf, InducedKillOf, KillEvent

RiskInv == TypeOK /\ InducedAtMostOnce

(* The invariant holds when the daemon boots. *)
LEMMA RiskInitInv == RiskInit => RiskInv
BY BoundsAssumption DEF RiskInit, RiskInv, TypeOK, InducedAtMostOnce, NoKill, Never

(* Every step keeps the type invariant and the count of induced kills. *)
LEMMA RiskNextInv == RiskInv /\ [RiskNext]_riskVars => RiskInv'
<1> SUFFICES ASSUME RiskInv, [RiskNext]_riskVars PROVE RiskInv'
  OBVIOUS
<1> USE BoundsAssumption DEF RiskInv
<1>1. CASE CheckInduced
  <2> DEFINE key == First(InducedSentinels, sentinels)
  <2>1. key \in sentinels /\ key \in Keys
    BY <1>1, FirstSentinel DEF CheckInduced, TypeOK
  <2>2. /\ sentinels' = sentinels \ {key}
        /\ killed' = InducedKillOf(key)
        /\ induced' = [induced EXCEPT ![key] = @ + 1]
        /\ UNCHANGED <<last_fired_day, breached, stuck, day, evening, moves, restarts, written>>
    BY <1>1 DEF CheckInduced
  <2> HIDE DEF key
  <2>3. TypeOK'
    BY <2>1, <2>2, KillTypes DEF TypeOK
  <2>4. InducedAtMostOnce'
    BY <2>1, <2>2 DEF TypeOK, InducedAtMostOnce
  <2> QED BY <2>3, <2>4
<1>2. CASE CheckBreaches
  BY <1>2, KillTypes DEF CheckBreaches, TypeOK, InducedAtMostOnce
<1>3. CASE check_daily_pnl_only
  BY <1>3, KillTypes DEF check_daily_pnl_only, TypeOK, InducedAtMostOnce
<1>4. CASE clear_disconnect_kill
  BY <1>4 DEF clear_disconnect_kill, TypeOK, InducedAtMostOnce, is_disconnect
<1>5. CASE clear_daily_halt
  BY <1>5 DEF clear_daily_halt, TypeOK, InducedAtMostOnce, NoKill, Never
<1>6. CASE Restart
  BY <1>6 DEF Restart, TypeOK, InducedAtMostOnce, NoKill, Never
<1>7. CASE MarketMoves
  BY <1>7 DEF MarketMoves, TypeOK, InducedAtMostOnce
<1>8. ASSUME NEW key \in Keys, NEW bad \in BOOLEAN, WriteSentinel(key, bad)
      PROVE  RiskInv'
  BY <1>8 DEF WriteSentinel, TypeOK, InducedAtMostOnce
<1>9. CASE Clock
  <2>1. day' \in 0 .. MaxDay
    BY <1>9 DEF Clock, TypeOK
  <2>2. evening' \in BOOLEAN
    BY <1>9 DEF Clock
  <2>3. UNCHANGED <<killed, last_fired_day, breached, sentinels, stuck, moves,
                    restarts, written, induced>>
    BY <1>9 DEF Clock
  <2> QED
    BY <2>1, <2>2, <2>3 DEF TypeOK, InducedAtMostOnce
<1>10. CASE UNCHANGED riskVars
  BY <1>10 DEF riskVars, TypeOK, InducedAtMostOnce
<1> QED
  BY <1>1, <1>2, <1>3, <1>4, <1>5, <1>6, <1>7, <1>8, <1>9, <1>10 DEF RiskNext, check, Environment

(* Every variable of the kill switch keeps its type. *)
THEOREM TypeCorrect == RiskSpec => []TypeOK
<1>1. RiskInv => TypeOK
  BY DEF RiskInv
<1> QED
  BY <1>1, RiskInitInv, RiskNextInv, PTL DEF RiskSpec

(* A sentinel file induces at most one kill, for every table of sentinels  *)
(* in use and however often they are written.                              *)
THEOREM InducedOnce == RiskSpec => []InducedAtMostOnce
<1>1. RiskInv => InducedAtMostOnce
  BY DEF RiskInv
<1> QED
  BY <1>1, RiskInitInv, RiskNextInv, PTL DEF RiskSpec

(* While the daemon runs, nothing but the rollover changes a kill, and     *)
(* that only lifts a daily halt.                                           *)
THEOREM Sticky == RiskSpec => KillsAreSticky
<1> DEFINE Stays == killed # NoKill /\ restarts' = restarts /\ killed' # killed =>
                      is_daily_clearable(killed) /\ killed' = NoKill /\ evening
<1>1. TypeOK /\ [RiskNext]_riskVars => [Stays]_riskVars
  <2> SUFFICES ASSUME TypeOK, RiskNext, killed # NoKill, restarts' = restarts, killed' # killed
               PROVE  is_daily_clearable(killed) /\ killed' = NoKill /\ evening
    OBVIOUS
  <2>1. ~CheckInduced /\ ~CheckBreaches /\ ~check_daily_pnl_only
    BY DEF CheckInduced, CheckBreaches, check_daily_pnl_only, AlreadyKilled
  <2>2. ~clear_disconnect_kill
    BY DEF clear_disconnect_kill, is_disconnect, TypeOK
  <2>3. ~Restart
    BY DEF Restart, TypeOK
  <2>4. ~Environment
    BY DEF Environment, MarketMoves, WriteSentinel, Clock
  <2>5. clear_daily_halt
    BY <2>1, <2>2, <2>3, <2>4 DEF RiskNext, check
  <2> QED
    BY <2>5 DEF clear_daily_halt
<1> QED
  BY <1>1, TypeCorrect, PTL DEF RiskSpec, KillsAreSticky


-----------------------------------------------------------------------------
(* Hedge *)

Message == [kind : {"hedge", "option", "position"}, id : Nat, qty : Int]

Task == [pc : {"idle", "rebalance", "reconcile", "place"}, qty : Int]

HedgeTypes ==
  /\ opt_qty \in Int /\ opt_delta \in Int
  /\ hedge_qty \in Int /\ processed_exec_ids_order \in Seq(Nat)
  /\ pump \in Task /\ periodic \in Task
  /\ positions \in Int /\ position \in Int
  /\ socket \in Seq(Message) /\ fills \in Seq(Message)
  /\ orders \subseteq [id : Nat, qty : Int] /\ placed \in Nat
  /\ executed \subseteq Message /\ IsFiniteSet(executed)
  /\ disturbed \in BOOLEAN

(* An order executes at most once, under its own id. *)
ExecutionIds ==
  /\ \A o \in orders : o.id <= placed
  /\ \A e \in executed : e.kind = "hedge" /\ e.id <= placed
  /\ \A o, p \in orders : o.id = p.id => o = p
  /\ \A e, f \in executed : e.id = f.id => e = f
  /\ \A o \in orders : \A e \in executed : o.id # e.id

In(m, s) == \E i \in 1 .. Len(s) : s[i] = m

(* What is on its way, and what is counted, was executed. *)
Genuine(s, E) == \A i \in 1 .. Len(s) : s[i].kind = "hedge" => s[i] \in E

CountedGenuine == \A i \in 1 .. Len(processed_exec_ids_order) :
                    \E e \in executed : e.id = processed_exec_ids_order[i]

(* The executions that are not counted yet. *)
Pending == {e \in executed : ~In(e.id, processed_exec_ids_order)}

(* None of them is lost. *)
OnTheirWay == \A e \in Pending : In(e, socket) \/ In(e, fills)

Owed(S) == SumFunctionOnSet([m \in S |-> m.qty], S)

(* The cache shows the position, or the last position message does. *)
LastSays(s, i, q) ==
  /\ s[i].kind = "position" /\ s[i].qty = q
  /\ \A j \in i + 1 .. Len(s) : s[j].kind # "position"

CacheFollows(s, cached, q) ==
  \/ \E i \in 1 .. Len(s) : LastSays(s, i, q)
  \/ cached = q /\ \A j \in 1 .. Len(s) : s[j].kind # "position"

HedgeInv ==
  /\ HedgeTypes
  /\ ExecutionIds
  /\ Genuine(socket, executed) /\ Genuine(fills, executed) /\ CountedGenuine
  /\ CacheFollows(socket, positions, position)
  /\ ~disturbed => OnTheirWay /\ hedge_qty + Owed(Pending) = position

(* What one more message does to a queue. *)
LEMMA Queued ==
  ASSUME NEW s \in Seq(Message), NEW e \in Message
  PROVE  /\ Append(s, e) \in Seq(Message)
         /\ \A m : In(m, Append(s, e)) <=> In(m, s) \/ m = e
         /\ \A E : Genuine(s, E) /\ (e.kind = "hedge" => e \in E) => Genuine(Append(s, e), E)
         /\ \A c, q : e.kind # "position" /\ CacheFollows(s, c, q) => CacheFollows(Append(s, e), c, q)
         /\ \A c, q : e.kind = "position" /\ e.qty = q => CacheFollows(Append(s, e), c, q)
<1> DEFINE t == Append(s, e)
<1>1. /\ t \in Seq(Message) /\ Len(s) \in Nat /\ Len(t) = Len(s) + 1
      /\ \A i \in 1 .. Len(s) : t[i] = s[i]
      /\ t[Len(s) + 1] = e
  BY PushBack
<1>2. \A i \in 1 .. Len(t) : i \in 1 .. Len(s) \/ i = Len(s) + 1
  BY <1>1
<1>3. 1 .. Len(s) \subseteq 1 .. Len(t) /\ Len(s) + 1 \in 1 .. Len(t)
  BY <1>1
<1> HIDE DEF t
<1>4. \A m : In(m, t) <=> In(m, s) \/ m = e
  BY <1>1, <1>2, <1>3 DEF In
<1>5. \A E : Genuine(s, E) /\ (e.kind = "hedge" => e \in E) => Genuine(t, E)
  BY <1>1, <1>2 DEF Genuine
<1>6. ASSUME NEW c, NEW q, e.kind # "position", CacheFollows(s, c, q) PROVE CacheFollows(t, c, q)
  <2>1. CASE \E i \in 1 .. Len(s) : LastSays(s, i, q)
    <3>1. PICK i \in 1 .. Len(s) : LastSays(s, i, q)
      BY <2>1
    <3>2. t[i].kind = "position" /\ t[i].qty = q
      BY <1>1, <3>1 DEF LastSays
    <3>3. ASSUME NEW j \in i + 1 .. Len(t) PROVE t[j].kind # "position"
      <4>1. j \in i + 1 .. Len(s) \/ j = Len(s) + 1
        BY <1>1
      <4>2. j \in i + 1 .. Len(s) => j \in 1 .. Len(s)
        BY <1>1
      <4> QED
        BY <1>1, <1>6, <3>1, <4>1, <4>2 DEF LastSays
    <3> QED
      BY <1>3, <3>2, <3>3 DEF CacheFollows, LastSays
  <2>2. CASE c = q /\ \A j \in 1 .. Len(s) : s[j].kind # "position"
    BY <1>1, <1>2, <1>6, <2>2 DEF CacheFollows
  <2> QED
    BY <1>6, <2>1, <2>2 DEF CacheFollows
<1>7. ASSUME NEW c, NEW q, e.kind = "position", e.qty = q PROVE CacheFollows(t, c, q)
  <2>1. \A j \in (Len(s) + 1) + 1 .. Len(t) : FALSE
    BY <1>1
  <2> QED
    BY <1>1, <1>3, <1>7, <2>1 DEF CacheFollows, LastSays
<1> QED
  BY <1>1, <1>4, <1>5, <1>6, <1>7 DEF t

(* What taking the front of a queue does. *)
LEMMA Taken ==
  ASSUME NEW s \in Seq(Message), s # <<>>
  PROVE  /\ Tail(s) \in Seq(Message) /\ Head(s) \in Message
         /\ \A m : In(m, s) => m = Head(s) \/ In(m, Tail(s))
         /\ \A E : Genuine(s, E) => Genuine(Tail(s), E) /\ (Head(s).kind = "hedge" => Head(s) \in E)
         /\ \A c, q : CacheFollows(s, c, q) =>
              CacheFollows(Tail(s), IF Head(s).kind = "position" THEN Head(s).qty ELSE c, q)
<1> DEFINE t == Tail(s)
           h == Head(s)
<1>1. /\ t \in Seq(Message) /\ h \in Message /\ h = s[1] /\ Len(s) \in Nat \ {0} /\ Len(t) = Len(s) - 1
      /\ \A i \in 1 .. Len(t) : i + 1 \in 1 .. Len(s) /\ t[i] = s[i + 1]
  BY PopFront
<1>2. \A i \in 1 .. Len(s) : i = 1 \/ (i - 1 \in 1 .. Len(t) /\ (i - 1) + 1 = i)
  BY <1>1
<1> HIDE DEF t, h
<1>3. \A i \in 1 .. Len(s) : i = 1 \/ (i - 1 \in 1 .. Len(t) /\ t[i - 1] = s[i])
  BY <1>1, <1>2
<1>4. \A m : In(m, s) => m = h \/ In(m, t)
  BY <1>1, <1>3 DEF In
<1>5. \A E : Genuine(s, E) => Genuine(t, E) /\ (h.kind = "hedge" => h \in E)
  BY <1>1 DEF Genuine
<1>6. ASSUME NEW c, NEW q, CacheFollows(s, c, q)
      PROVE  CacheFollows(t, IF h.kind = "position" THEN h.qty ELSE c, q)
  <2>1. CASE \E i \in 1 .. Len(s) : LastSays(s, i, q)
    <3>1. PICK i \in 1 .. Len(s) : LastSays(s, i, q)
      BY <2>1
    <3>2. CASE i = 1
      <4>1. h.kind = "position" /\ h.qty = q
        BY <1>1, <3>1, <3>2 DEF LastSays
      <4>2. ASSUME NEW j \in 1 .. Len(t) PROVE t[j].kind # "position"
        <5>1. j + 1 \in i + 1 .. Len(s)
          BY <1>1, <3>2
        <5> QED
          BY <1>1, <3>1, <5>1 DEF LastSays
      <4> QED
        BY <4>1, <4>2 DEF CacheFollows
    <3>3. CASE i # 1
      <4>1. i - 1 \in 1 .. Len(t) /\ t[i - 1] = s[i]
        BY <1>3, <3>3
      <4>2. ASSUME NEW j \in (i - 1) + 1 .. Len(t) PROVE t[j].kind # "position"
        <5>1. j \in 1 .. Len(t) /\ j + 1 \in i + 1 .. Len(s)
          BY <1>1, <4>1
        <5> QED
          BY <1>1, <3>1, <5>1 DEF LastSays
      <4>3. LastSays(t, i - 1, q)
        BY <3>1, <4>1, <4>2 DEF LastSays
      <4> QED
        BY <4>1, <4>3 DEF CacheFollows
    <3> QED
      BY <3>2, <3>3
  <2>2. CASE c = q /\ \A j \in 1 .. Len(s) : s[j].kind # "position"
    <3>1. h.kind # "position"
      BY <1>1, <2>2
    <3>2. \A j \in 1 .. Len(t) : t[j].kind # "position"
      BY <1>1, <2>2
    <3> QED
      BY <2>2, <3>1, <3>2 DEF CacheFollows
  <2> QED
    BY <1>6, <2>1, <2>2 DEF CacheFollows
<1> QED
  BY <1>1, <1>4, <1>5, <1>6 DEF t, h

(* What is owed grows and shrinks with the executions it is owed for. *)
LEMMA OwedNone == Owed({}) = 0
BY SumOfNone DEF Owed

LEMMA OwedWith ==
  ASSUME NEW S, IsFiniteSet(S), S \subseteq Message, NEW e \in Message, e \notin S
  PROVE  /\ Owed(S) \in Int
         /\ Owed(S \cup {e}) = Owed(S) + e.qty
<1> DEFINE T == S \cup {e}
           f == [m \in S |-> m.qty]
           g == [m \in T |-> m.qty]
<1>1. IsFiniteSet(T) /\ e \in T /\ T \ {e} = S
  BY FS_AddElement
<1>2. \A m \in Message : m.qty \in Int
  BY DEF Message
<1>3. Ints(f, S) /\ Ints(g, T) /\ Ints(g, S) /\ g[e] = e.qty /\ e.qty \in Int
  BY <1>2 DEF Ints
<1>4. \A m \in S : g[m] = f[m]
  OBVIOUS
<1> HIDE DEF T, f, g
<1>5. SumFunctionOnSet(g, T) = g[e] + SumFunctionOnSet(g, T \ {e})
  BY <1>1, <1>3, SumWithout
<1>6. SumFunctionOnSet(g, S) = SumFunctionOnSet(f, S)
  BY <1>3, <1>4, SumSame
<1>7. SumFunctionOnSet(f, S) \in Int
  BY <1>3, SumInt
<1>8. SumFunctionOnSet(g, T) = e.qty + SumFunctionOnSet(f, S)
  <2>1. SumFunctionOnSet(g, T \ {e}) = SumFunctionOnSet(g, S)
    BY <1>1, Zenon
  <2> QED
    BY <1>3, <1>5, <1>6, <2>1
<1>9. \A a, b \in Int : a + b = b + a
  OBVIOUS
<1>10. SumFunctionOnSet(g, T) = SumFunctionOnSet(f, S) + e.qty
  BY <1>3, <1>7, <1>8, <1>9
<1> QED
  BY <1>7, <1>10 DEF Owed, T, f, g

(* A decision is a whole number of futures. *)
LEMMA DecisionIsATask == HedgeTypes => Decision \in Task /\ Idle \in Task
<1> SUFFICES ASSUME HedgeTypes PROVE Decision \in Task /\ Idle \in Task
  OBVIOUS
<1>1. delta_for_product \in Int
  BY DEF HedgeTypes, delta_for_product
<1>2. \A x \in Int : Round(x) \in Int
  BY DEF Round
<1>3. effective \in Int /\ hedge_qty \in Int
  BY <1>1 DEF HedgeTypes, effective
<1>4. maybe_rebalance \in Int
  BY <1>2, <1>3 DEF maybe_rebalance
<1> QED
  BY <1>4 DEF Decision, Idle, Task


(* The invariant says nothing of the tasks and the book but their types. *)
LEMMA TasksAside ==
  ASSUME HedgeInv, HedgeTypes',
         UNCHANGED <<manager, positions, socket, fills, gateway, placed, disturbed>>
  PROVE  HedgeInv'
<1>1. ExecutionIds' /\ CountedGenuine'
  BY DEF HedgeInv, ExecutionIds, CountedGenuine, manager, gateway
<1>2. Genuine(socket, executed)' /\ Genuine(fills, executed)'
  BY DEF HedgeInv, Genuine, gateway
<1>3. CacheFollows(socket, positions, position)'
  BY DEF HedgeInv, CacheFollows, LastSays, gateway
<1>4. Pending' = Pending
  BY DEF Pending, In, gateway, manager
<1>5. ~disturbed' => OnTheirWay' /\ hedge_qty' + Owed(Pending') = position'
  <2>1. OnTheirWay => OnTheirWay'
    BY <1>4 DEF OnTheirWay, In
  <2> QED
    BY <1>4, <2>1 DEF HedgeInv, manager, gateway
<1>6. Owed(Pending)' = Owed(Pending')
  BY DEF Owed
<1> QED
  BY <1>1, <1>2, <1>3, <1>5, <1>6 DEF HedgeInv

(* What is pending is a finite set of messages. *)
LEMMA PendingIsFinite ==
  ASSUME HedgeTypes
  PROVE  IsFiniteSet(Pending) /\ Pending \subseteq executed /\ Pending \subseteq Message
<1>1. Pending \subseteq executed
  BY DEF Pending
<1> QED
  BY <1>1, FS_Subset DEF HedgeTypes

(* A hedge fill is counted when its id is new, and then only once. *)
LEMMA HedgeFillIsCounted ==
  ASSUME HedgeInv, HandleHedgeFill
  PROVE  HedgeInv'
<1> DEFINE m == Head(fills)
           P == processed_exec_ids_order
<1>0. /\ fills # <<>> /\ m.kind = "hedge" /\ fills' = Tail(fills)
      /\ apply_broker_fill(m)
      /\ UNCHANGED <<book, pump, periodic, tick_count, positions, socket, gateway, counts>>
  BY DEF HandleHedgeFill, FillAtHead
<1>1. HedgeTypes /\ fills \in Seq(Message) /\ P \in Seq(Nat)
  BY DEF HedgeInv, HedgeTypes
<1>2. /\ fills' \in Seq(Message) /\ m \in Message
      /\ \A x : In(x, fills) => x = m \/ In(x, fills')
      /\ Genuine(fills', executed) /\ m \in executed
  BY <1>0, <1>1, Taken DEF HedgeInv
<1>3. m.id \in Nat /\ m.qty \in Int
  BY <1>2 DEF Message
<1> HIDE DEF m
<1>4. UNCHANGED <<opt_qty, opt_delta, pump, periodic, positions, socket, orders, position, executed, placed>>
  BY <1>0 DEF book, gateway, counts
<1>5. ExecutionIds'
  BY <1>4 DEF HedgeInv, ExecutionIds
<1>6. Genuine(socket, executed)' /\ Genuine(fills, executed)'
  BY <1>2, <1>4 DEF HedgeInv, Genuine
<1>7. CacheFollows(socket, positions, position)'
  BY <1>4 DEF HedgeInv, CacheFollows, LastSays
<1>8. Owed(Pending)' = Owed(Pending')
  BY DEF Owed
<1>9. CASE Contains(P, m.id)
  <2>1. UNCHANGED <<hedge_qty, processed_exec_ids_order, disturbed>>
    BY <1>0, <1>9 DEF apply_broker_fill, manager
  <2>2. HedgeTypes'
    BY <1>1, <1>2, <1>4, <2>1 DEF HedgeTypes
  <2>3. CountedGenuine'
    BY <1>4, <2>1 DEF HedgeInv, CountedGenuine
  <2>4. Pending' = Pending
    BY <1>4, <2>1 DEF Pending, In
  <2>5. m \notin Pending
    BY <1>9 DEF Pending, In, Contains
  <2>6. OnTheirWay => OnTheirWay'
    <3> SUFFICES ASSUME OnTheirWay, NEW e \in Pending PROVE In(e, socket') \/ In(e, fills')
      BY <2>4 DEF OnTheirWay, In
    <3>1. In(e, socket) \/ In(e, fills)
      BY DEF OnTheirWay
    <3> QED
      BY <1>2, <1>4, <2>5, <3>1
  <2> QED
    BY <1>4, <1>5, <1>6, <1>7, <1>8, <2>1, <2>2, <2>3, <2>4, <2>6 DEF HedgeInv
<1>10. CASE ~Contains(P, m.id)
  <2> DEFINE Q == IF Len(P) >= ProcessedMax THEN Tail(P) ELSE P
  <2>1. /\ processed_exec_ids_order' = Append(Q, m.id)
        /\ hedge_qty' = hedge_qty + m.qty
        /\ disturbed' = (disturbed \/ Len(P) >= ProcessedMax)
    BY <1>0, <1>10 DEF apply_broker_fill
  <2>2. /\ Q \in Seq(Nat)
        /\ \A i \in 1 .. Len(Q) : \E j \in 1 .. Len(P) : Q[i] = P[j]
    <3>1. CASE Len(P) >= ProcessedMax
      <4>1. P # <<>>
        BY <1>1, <3>1, HedgeAssumption
      <4>2. /\ Tail(P) \in Seq(Nat)
            /\ \A i \in 1 .. Len(Tail(P)) : i + 1 \in 1 .. Len(P) /\ Tail(P)[i] = P[i + 1]
        BY <1>1, <4>1, PopFront
      <4> QED
        BY <3>1, <4>2
    <3>2. CASE ~(Len(P) >= ProcessedMax)
      BY <1>1, <3>2
    <3> QED
      BY <3>1, <3>2
  <2> HIDE DEF Q
  <2>3. /\ processed_exec_ids_order' \in Seq(Nat)
        /\ Len(Q) \in Nat /\ Len(processed_exec_ids_order') = Len(Q) + 1
        /\ \A i \in 1 .. Len(Q) : processed_exec_ids_order'[i] = Q[i]
        /\ processed_exec_ids_order'[Len(Q) + 1] = m.id
    BY <1>3, <2>1, <2>2, PushBack
  <2>4. \A i \in 1 .. Len(processed_exec_ids_order') : i \in 1 .. Len(Q) \/ i = Len(Q) + 1
    BY <2>3
  <2>5. HedgeTypes'
    BY <1>1, <1>2, <1>3, <1>4, <2>1, <2>3 DEF HedgeTypes
  <2>6. CountedGenuine'
    BY <1>2, <1>4, <2>2, <2>3, <2>4 DEF HedgeInv, CountedGenuine
  <2>7. ASSUME ~disturbed' PROVE OnTheirWay' /\ hedge_qty' + Owed(Pending') = position'
    <3>1. ~disturbed /\ Q = P
      BY <2>1, <2>7 DEF Q
    <3>2. 1 .. Len(Q) \subseteq 1 .. Len(processed_exec_ids_order')
          /\ Len(Q) + 1 \in 1 .. Len(processed_exec_ids_order')
      BY <2>3
    <3>3. \A i : In(i, processed_exec_ids_order') <=> In(i, P) \/ i = m.id
      BY <2>3, <2>4, <3>1, <3>2 DEF In
    <3>4. m \in Pending
      BY <1>2, <1>10 DEF Pending, In, Contains
    <3>5. \A e \in executed : e.id = m.id => e = m
      BY <1>2 DEF HedgeInv, ExecutionIds
    <3>6. Pending' = Pending \ {m}
      <4>1. Pending' = {e \in executed : ~(In(e.id, P) \/ e.id = m.id)}
        BY <1>4, <3>3 DEF Pending
      <4> QED
        BY <3>5, <4>1 DEF Pending
    <3>7. OnTheirWay'
      <4> SUFFICES ASSUME NEW e \in Pending' PROVE In(e, socket') \/ In(e, fills')
        BY DEF OnTheirWay, In
      <4>1. In(e, socket) \/ In(e, fills)
        BY <3>1, <3>6 DEF HedgeInv, OnTheirWay
      <4> QED
        BY <1>2, <1>4, <3>6, <4>1
    <3>8. /\ IsFiniteSet(Pending') /\ Pending' \subseteq Message /\ m \notin Pending'
          /\ Pending' \cup {m} = Pending
      BY <1>1, <3>4, <3>6, PendingIsFinite, FS_Subset
    <3>9. Owed(Pending') \in Int /\ Owed(Pending) = Owed(Pending') + m.qty
      <4> DEFINE S == Pending'
      <4>1. IsFiniteSet(S) /\ S \subseteq Message /\ m \notin S /\ S \cup {m} = Pending
        BY <3>8
      <4> HIDE DEF S
      <4>2. Owed(S) \in Int /\ Owed(S \cup {m}) = Owed(S) + m.qty
        BY <1>2, <4>1, OwedWith
      <4> QED
        BY <4>1, <4>2 DEF S
    <3>10. hedge_qty + Owed(Pending) = position /\ hedge_qty \in Int
      BY <1>1, <3>1 DEF HedgeInv, HedgeTypes
    <3> QED
      BY <1>3, <1>4, <2>1, <3>7, <3>9, <3>10
  <2> QED
    BY <1>5, <1>6, <1>7, <1>8, <2>5, <2>6, <2>7 DEF HedgeInv
<1> QED
  BY <1>9, <1>10


(* An option fill leaves the hedge as it is. *)
LEMMA OptionFillAside ==
  ASSUME HedgeInv, HandleOptionFill
  PROVE  HedgeInv'
<1> DEFINE m == Head(fills)
<1>0. /\ fills # <<>> /\ m.kind = "option" /\ fills' = Tail(fills)
      /\ opt_qty' = opt_qty + m.qty
      /\ opt_delta' = IF opt_qty' = 0 THEN 0 ELSE opt_delta
      /\ pump' = [pc |-> "rebalance", qty |-> 0]
      /\ UNCHANGED <<manager, periodic, tick_count, positions, socket, gateway, counts, disturbed>>
  BY DEF HandleOptionFill, FillAtHead
<1>1. HedgeTypes /\ fills \in Seq(Message)
  BY DEF HedgeInv, HedgeTypes
<1>2. /\ fills' \in Seq(Message) /\ m \in Message
      /\ \A x : In(x, fills) => x = m \/ In(x, fills')
      /\ Genuine(fills', executed)
  BY <1>0, <1>1, Taken DEF HedgeInv
<1>3. m.qty \in Int
  BY <1>2 DEF Message
<1> HIDE DEF m
<1>4. UNCHANGED <<hedge_qty, processed_exec_ids_order, periodic, positions, socket,
                  orders, position, executed, placed, disturbed>>
  BY <1>0 DEF manager, gateway, counts
<1>5. HedgeTypes'
  BY <1>0, <1>1, <1>2, <1>3, <1>4 DEF HedgeTypes, Task
<1>6. ExecutionIds' /\ CountedGenuine'
  BY <1>4 DEF HedgeInv, ExecutionIds, CountedGenuine
<1>7. Genuine(socket, executed)' /\ Genuine(fills, executed)'
  BY <1>2, <1>4 DEF HedgeInv, Genuine
<1>8. CacheFollows(socket, positions, position)'
  BY <1>4 DEF HedgeInv, CacheFollows, LastSays
<1>9. Pending' = Pending /\ Owed(Pending)' = Owed(Pending')
  BY <1>4 DEF Pending, In, Owed
<1>10. m \notin Pending
  BY <1>0 DEF HedgeInv, ExecutionIds, Pending
<1>11. OnTheirWay => OnTheirWay'
  <2> SUFFICES ASSUME OnTheirWay, NEW e \in Pending PROVE In(e, socket') \/ In(e, fills')
    BY <1>9 DEF OnTheirWay, In
  <2>1. In(e, socket) \/ In(e, fills)
    BY DEF OnTheirWay
  <2> QED
    BY <1>2, <1>4, <1>10, <2>1
<1> QED
  BY <1>4, <1>5, <1>6, <1>7, <1>8, <1>9, <1>11 DEF HedgeInv

(* A reconcile that finds no message under way sets hedge_qty to the       *)
(* position at the gateway, and nothing is pending then.                   *)
LEMMA ReconcileSettles ==
  ASSUME HedgeInv, Reconcile
  PROVE  HedgeInv'
<1>0. /\ hedge_qty' = IF periodic.qty # 0 THEN periodic.qty ELSE hedge_qty
      /\ periodic' = [pc |-> "rebalance", qty |-> 0]
      /\ disturbed' = (disturbed \/ (hedge_qty' # hedge_qty /\ ~Quiet))
      /\ UNCHANGED <<processed_exec_ids_order, opt_qty, opt_delta, pump, positions, socket,
                     fills, orders, position, executed, placed>>
  BY DEF Reconcile, book, gateway, counts
<1>1. HedgeTypes
  BY DEF HedgeInv
<1>2. HedgeTypes'
  BY <1>0, <1>1 DEF HedgeTypes, Task
<1>3. ExecutionIds' /\ CountedGenuine'
  BY <1>0 DEF HedgeInv, ExecutionIds, CountedGenuine
<1>4. Genuine(socket, executed)' /\ Genuine(fills, executed)'
  BY <1>0 DEF HedgeInv, Genuine
<1>5. CacheFollows(socket, positions, position)'
  BY <1>0 DEF HedgeInv, CacheFollows, LastSays
<1>6. Pending' = Pending /\ Owed(Pending)' = Owed(Pending') /\ (OnTheirWay => OnTheirWay')
  BY <1>0 DEF Pending, In, Owed, OnTheirWay
<1>7. ASSUME ~disturbed' PROVE OnTheirWay' /\ hedge_qty' + Owed(Pending') = position'
  <2>1. ~disturbed
    BY <1>0, <1>7
  <2>2. CASE hedge_qty' = hedge_qty
    BY <1>0, <1>6, <2>1, <2>2 DEF HedgeInv
  <2>3. CASE hedge_qty' # hedge_qty
    <3>1. socket = <<>> /\ fills = <<>> /\ positions = periodic.qty /\ hedge_qty' = periodic.qty
      BY <1>0, <1>7, <2>3 DEF Quiet
    <3>2. \A m : ~In(m, <<>>)
      BY DEF In
    <3>3. Pending = {}
      BY <2>1, <3>1, <3>2 DEF HedgeInv, OnTheirWay
    <3>4. positions = position
      BY <3>1 DEF HedgeInv, CacheFollows
    <3>5. Owed(Pending') = 0
      BY <1>6, <3>3, OwedNone
    <3>6. position \in Int
      BY <1>1 DEF HedgeTypes
    <3> QED
      BY <1>0, <1>6, <2>1, <3>1, <3>4, <3>5, <3>6 DEF HedgeInv
  <2> QED
    BY <2>2, <2>3
<1> QED
  BY <1>2, <1>3, <1>4, <1>5, <1>6, <1>7 DEF HedgeInv

(* The dispatcher loses no execution unless the fills channel lags. *)
LEMMA DispatchKeeps ==
  ASSUME HedgeInv, Dispatch
  PROVE  HedgeInv'
<1> DEFINE m == Head(socket)
           kept == IF Len(fills) >= FillCap THEN Tail(fills) ELSE fills
<1>0. /\ socket # <<>> /\ socket' = Tail(socket)
      /\ m.kind = "position" => positions' = m.qty /\ fills' = fills
      /\ m.kind # "position" => positions' = positions /\ fills' = Append(kept, m)
      /\ disturbed' = (disturbed \/ (m.kind # "position" /\ Len(fills) >= FillCap))
      /\ UNCHANGED <<opt_qty, opt_delta, hedge_qty, processed_exec_ids_order, pump, periodic,
                     orders, position, executed, placed>>
  BY DEF Dispatch, book, manager, gateway, counts
<1>1. HedgeTypes /\ fills \in Seq(Message) /\ socket \in Seq(Message)
  BY DEF HedgeInv, HedgeTypes
<1>2. /\ socket' \in Seq(Message) /\ m \in Message
      /\ \A x : In(x, socket) => x = m \/ In(x, socket')
      /\ Genuine(socket', executed) /\ (m.kind = "hedge" => m \in executed)
  BY <1>0, <1>1, Taken DEF HedgeInv
<1>3. CacheFollows(socket', IF m.kind = "position" THEN m.qty ELSE positions, position)
  BY <1>0, <1>1, Taken DEF HedgeInv
<1>4. kept \in Seq(Message) /\ Genuine(kept, executed)
  <2>1. CASE Len(fills) >= FillCap
    <3>1. fills # <<>>
      BY <1>1, <2>1, HedgeAssumption
    <3>2. Tail(fills) \in Seq(Message) /\ Genuine(Tail(fills), executed)
      BY <1>1, <3>1, Taken DEF HedgeInv
    <3> QED
      BY <2>1, <3>2
  <2>2. CASE ~(Len(fills) >= FillCap)
    BY <1>1, <2>2 DEF HedgeInv
  <2> QED
    BY <2>1, <2>2
<1>5. Len(fills) >= FillCap \/ kept = fills
  OBVIOUS
<1>6. m.qty \in Int
  BY <1>2 DEF Message
<1> HIDE DEF m, kept
<1>7. /\ Append(kept, m) \in Seq(Message) /\ Genuine(Append(kept, m), executed)
      /\ \A x : In(x, Append(kept, m)) <=> In(x, kept) \/ x = m
  BY <1>2, <1>4, Queued
<1>8. fills' \in Seq(Message) /\ Genuine(fills', executed) /\ positions' \in Int
  BY <1>0, <1>1, <1>6, <1>7 DEF HedgeInv, HedgeTypes
<1>9. HedgeTypes'
  BY <1>0, <1>1, <1>2, <1>8 DEF HedgeTypes
<1>10. ExecutionIds' /\ CountedGenuine'
  BY <1>0 DEF HedgeInv, ExecutionIds, CountedGenuine
<1>11. Genuine(socket, executed)' /\ Genuine(fills, executed)'
  BY <1>0, <1>2, <1>8 DEF Genuine
<1>12. CacheFollows(socket, positions, position)'
  <2>1. CacheFollows(socket', positions', position')
    BY <1>0, <1>3
  <2> QED
    BY <2>1 DEF CacheFollows, LastSays
<1>13. Pending' = Pending /\ Owed(Pending)' = Owed(Pending')
  BY <1>0 DEF Pending, In, Owed
<1>14. ASSUME ~disturbed' PROVE OnTheirWay' /\ hedge_qty' + Owed(Pending') = position'
  <2>1. ~disturbed /\ (m.kind # "position" => kept = fills)
    BY <1>0, <1>5, <1>14
  <2>2. ASSUME NEW e \in Pending PROVE In(e, socket') \/ In(e, fills')
    <3>1. In(e, socket) \/ In(e, fills)
      BY <2>1 DEF HedgeInv, OnTheirWay
    <3>2. e.kind = "hedge"
      BY DEF HedgeInv, ExecutionIds, Pending
    <3>3. CASE m.kind = "position"
      BY <1>0, <1>2, <3>1, <3>2, <3>3
    <3>4. CASE m.kind # "position"
      BY <1>0, <1>2, <1>7, <2>1, <3>1, <3>4
    <3> QED
      BY <3>3, <3>4
  <2>3. OnTheirWay'
    BY <1>13, <2>2 DEF OnTheirWay, In
  <2> QED
    BY <1>0, <1>13, <2>1, <2>3 DEF HedgeInv
<1> QED
  BY <1>9, <1>10, <1>11, <1>12, <1>13, <1>14 DEF HedgeInv


(* A new order has an id of its own. *)
LEMMA PlaceIsNew ==
  ASSUME HedgeInv, NEW task \in Task, Place(task), pump' \in Task, periodic' \in Task,
         UNCHANGED <<book, manager, positions, socket, fills, disturbed>>
  PROVE  HedgeInv'
<1>1. UNCHANGED <<opt_qty, opt_delta, hedge_qty, processed_exec_ids_order, positions, socket,
                  fills, position, executed, disturbed>>
  BY DEF Place, book, manager, gateway
<1>2. HedgeTypes /\ task.qty \in Int
  BY DEF HedgeInv, Task
<1>3. /\ orders' \subseteq [id : Nat, qty : Int] /\ placed' \in Nat
      /\ ExecutionIds'
  <2>1. CASE UNCHANGED <<gateway, counts>>
    BY <1>2, <2>1 DEF HedgeInv, HedgeTypes, ExecutionIds, gateway, counts
  <2>2. CASE orders' = orders \cup {[id |-> placed + 1, qty |-> task.qty]} /\ placed' = placed + 1
    <3>1. placed \in Nat /\ orders \subseteq [id : Nat, qty : Int] /\ executed \subseteq Message
      BY <1>2 DEF HedgeTypes
    <3>2. /\ \A o \in orders : o.id \in Nat /\ o.id <= placed
          /\ \A e \in executed : e.id \in Nat /\ e.kind = "hedge" /\ e.id <= placed
      BY <3>1 DEF HedgeInv, ExecutionIds, Message
    <3>3. orders' \subseteq [id : Nat, qty : Int] /\ placed' \in Nat
      BY <1>2, <2>2, <3>1
    <3>4. \A o \in orders' : o.id <= placed'
      BY <2>2, <3>1, <3>2
    <3>5. \A e \in executed' : e.kind = "hedge" /\ e.id <= placed'
      BY <1>1, <2>2, <3>1, <3>2
    <3>6. \A o, p \in orders' : o.id = p.id => o = p
      BY <2>2, <3>1, <3>2 DEF HedgeInv, ExecutionIds
    <3>7. \A o \in orders' : \A e \in executed' : o.id # e.id
      BY <1>1, <2>2, <3>1, <3>2 DEF HedgeInv, ExecutionIds
    <3> QED
      BY <1>1, <3>3, <3>4, <3>5, <3>6, <3>7 DEF HedgeInv, ExecutionIds
  <2> QED
    BY <2>1, <2>2 DEF Place
<1>4. HedgeTypes'
  BY <1>1, <1>2, <1>3 DEF HedgeTypes
<1>5. CountedGenuine' /\ Genuine(socket, executed)' /\ Genuine(fills, executed)'
  BY <1>1 DEF HedgeInv, CountedGenuine, Genuine
<1>6. CacheFollows(socket, positions, position)'
  BY <1>1 DEF HedgeInv, CacheFollows, LastSays
<1>7. Pending' = Pending /\ Owed(Pending)' = Owed(Pending') /\ (OnTheirWay => OnTheirWay')
  BY <1>1 DEF Pending, In, Owed, OnTheirWay
<1> QED
  BY <1>1, <1>3, <1>4, <1>5, <1>6, <1>7 DEF HedgeInv

(* A message that is no news of the position, and no new execution, may    *)
(* always be sent.                                                         *)
LEMMA SendAside ==
  ASSUME HedgeInv, NEW m \in Message, m.kind # "position", m.kind = "hedge" => m \in executed,
         socket' = Append(socket, m),
         UNCHANGED <<book, manager, pump, periodic, positions, fills, gateway, placed, disturbed>>
  PROVE  HedgeInv'
<1>1. UNCHANGED <<opt_qty, opt_delta, hedge_qty, processed_exec_ids_order, pump, periodic,
                  positions, fills, orders, position, executed, placed, disturbed>>
  BY DEF book, manager, gateway
<1>2. HedgeTypes /\ socket \in Seq(Message)
  BY DEF HedgeInv, HedgeTypes
<1>3. /\ socket' \in Seq(Message)
      /\ \A x : In(x, socket') <=> In(x, socket) \/ x = m
      /\ Genuine(socket', executed)
      /\ CacheFollows(socket', positions, position)
  BY <1>2, Queued DEF HedgeInv
<1>4. HedgeTypes'
  BY <1>1, <1>2, <1>3 DEF HedgeTypes
<1>5. CountedGenuine' /\ Genuine(socket, executed)' /\ Genuine(fills, executed)' /\ ExecutionIds'
  BY <1>1, <1>3 DEF HedgeInv, CountedGenuine, Genuine, ExecutionIds
<1>6. CacheFollows(socket, positions, position)'
  BY <1>1, <1>3 DEF CacheFollows, LastSays
<1>7. Pending' = Pending /\ Owed(Pending)' = Owed(Pending')
  BY <1>1 DEF Pending, In, Owed
<1>8. OnTheirWay => OnTheirWay'
  <2> SUFFICES ASSUME OnTheirWay, NEW e \in Pending PROVE In(e, socket') \/ In(e, fills')
    BY <1>7 DEF OnTheirWay, In
  <2> QED
    BY <1>1, <1>3 DEF OnTheirWay
<1> QED
  BY <1>1, <1>4, <1>5, <1>6, <1>7, <1>8 DEF HedgeInv

(* An execution moves the position by what it adds to the pending ones. *)
LEMMA ExecutionIsOwed ==
  ASSUME HedgeInv, NEW o \in orders, NEW qty \in Between(o.qty), GwExecute(o, qty)
  PROVE  HedgeInv'
<1> DEFINE x == HedgeExec(o.id, qty)
           p == PositionMsg(position')
<1>0. /\ orders' = orders \ {o} /\ position' = position + qty
      /\ executed' = IF qty = 0 THEN executed ELSE executed \cup {x}
      /\ UNCHANGED <<opt_qty, opt_delta, hedge_qty, processed_exec_ids_order, pump, periodic,
                     positions, fills, placed, disturbed>>
  BY DEF GwExecute, book, manager, counts
<1>1. HedgeTypes /\ socket \in Seq(Message)
  BY DEF HedgeInv, HedgeTypes
<1>2. /\ o.id \in Nat /\ o.qty \in Int /\ qty \in Int /\ position \in Int /\ position' \in Int
      /\ executed \subseteq Message /\ IsFiniteSet(executed)
  <2>1. o.id \in Nat /\ o.qty \in Int /\ position \in Int /\ executed \subseteq Message /\ IsFiniteSet(executed)
    BY <1>1 DEF HedgeTypes
  <2>2. qty \in Int
    BY <2>1 DEF Between
  <2> QED
    BY <1>0, <2>1, <2>2
<1>3. /\ x \in Message /\ x.kind = "hedge" /\ x.qty = qty /\ x.id = o.id
      /\ p \in Message /\ p.kind = "position" /\ p.qty = position'
  BY <1>2 DEF HedgeExec, PositionMsg, Message
<1>4. \/ qty = 0 /\ socket' = socket
      \/ qty # 0 /\ socket' = Append(Append(socket, x), p)
      \/ qty # 0 /\ socket' = Append(Append(socket, p), x)
  <2>1. socket' \in IF qty = 0 THEN {socket} ELSE {socket \o <<x, p>>, socket \o Reverse(<<x, p>>)}
    BY DEF GwExecute
  <2> HIDE DEF x, p
  <2>2. Reverse(<<x, p>>) = <<p, x>>
    BY DEF Reverse
  <2>3. \A a, b \in Message : socket \o <<a, b>> = Append(Append(socket, a), b)
    BY <1>1
  <2> QED
    BY <1>3, <2>1, <2>2, <2>3
<1> HIDE DEF x, p
<1>5. /\ \A a \in orders' : a \in orders /\ a.id # o.id
      /\ orders' \subseteq orders
  BY <1>0 DEF HedgeInv, ExecutionIds
<1>6. /\ \A e \in executed : e.id # o.id
      /\ o.id <= placed
  BY DEF HedgeInv, ExecutionIds
<1>7. ExecutionIds'
  <2>1. CASE qty = 0
    BY <1>0, <1>5, <2>1 DEF HedgeInv, ExecutionIds
  <2>2. CASE qty # 0
    <3>1. \A e \in executed' : e \in executed \/ e = x
      BY <1>0, <2>2
    <3>2. \A a \in orders' : a.id <= placed'
      BY <1>0, <1>5 DEF HedgeInv, ExecutionIds
    <3>3. \A e \in executed' : e.kind = "hedge" /\ e.id <= placed'
      BY <1>0, <1>3, <1>6, <3>1 DEF HedgeInv, ExecutionIds
    <3>4. \A a, b \in orders' : a.id = b.id => a = b
      BY <1>5 DEF HedgeInv, ExecutionIds
    <3>5. \A e, f \in executed' : e.id = f.id => e = f
      BY <1>3, <1>6, <3>1 DEF HedgeInv, ExecutionIds
    <3>6. \A a \in orders' : \A e \in executed' : a.id # e.id
      BY <1>3, <1>5, <3>1 DEF HedgeInv, ExecutionIds
    <3> QED
      BY <3>2, <3>3, <3>4, <3>5, <3>6 DEF ExecutionIds
  <2> QED
    BY <2>1, <2>2
<1>8. CASE qty = 0
  <2>1. UNCHANGED <<executed, position, socket>>
    BY <1>0, <1>2, <1>4, <1>8
  <2>2. HedgeTypes'
    BY <1>0, <1>1, <1>5, <2>1 DEF HedgeTypes
  <2>3. CountedGenuine' /\ Genuine(socket, executed)' /\ Genuine(fills, executed)'
    BY <1>0, <2>1 DEF HedgeInv, CountedGenuine, Genuine
  <2>4. CacheFollows(socket, positions, position)'
    BY <1>0, <2>1 DEF HedgeInv, CacheFollows, LastSays
  <2>5. Pending' = Pending /\ Owed(Pending)' = Owed(Pending') /\ (OnTheirWay => OnTheirWay')
    BY <1>0, <2>1 DEF Pending, In, Owed, OnTheirWay
  <2> QED
    BY <1>0, <1>7, <2>1, <2>2, <2>3, <2>4, <2>5 DEF HedgeInv
<1>9. CASE qty # 0
  <2>1. executed' = executed \cup {x} /\ x \notin executed
    BY <1>0, <1>3, <1>6, <1>9
  <2>2. /\ Genuine(socket, executed') /\ Genuine(fills, executed')
    BY <2>1 DEF HedgeInv, Genuine
  <2>3. /\ socket' \in Seq(Message)
        /\ \A m : In(m, socket') <=> In(m, socket) \/ m = x \/ m = p
        /\ Genuine(socket', executed')
        /\ CacheFollows(socket', positions, position')
    <3>1. CASE socket' = Append(Append(socket, x), p)
      <4> DEFINE s == Append(socket, x)
      <4>1. /\ s \in Seq(Message) /\ Genuine(s, executed')
            /\ \A m : In(m, s) <=> In(m, socket) \/ m = x
        BY <1>1, <1>3, <2>1, <2>2, Queued
      <4> HIDE DEF s
      <4>2. /\ Append(s, p) \in Seq(Message) /\ Genuine(Append(s, p), executed')
            /\ \A m : In(m, Append(s, p)) <=> In(m, s) \/ m = p
            /\ CacheFollows(Append(s, p), positions, position')
        BY <1>3, <4>1, Queued
      <4> QED
        BY <3>1, <4>1, <4>2 DEF s
    <3>2. CASE socket' = Append(Append(socket, p), x)
      <4> DEFINE s == Append(socket, p)
      <4>1. /\ s \in Seq(Message) /\ Genuine(s, executed')
            /\ \A m : In(m, s) <=> In(m, socket) \/ m = p
            /\ CacheFollows(s, positions, position')
        BY <1>1, <1>3, <2>2, Queued
      <4> HIDE DEF s
      <4>2. /\ Append(s, x) \in Seq(Message) /\ Genuine(Append(s, x), executed')
            /\ \A m : In(m, Append(s, x)) <=> In(m, s) \/ m = x
            /\ CacheFollows(Append(s, x), positions, position')
        BY <1>3, <2>1, <4>1, Queued
      <4> QED
        BY <3>2, <4>1, <4>2 DEF s
    <3> QED
      BY <1>4, <1>9, <3>1, <3>2
  <2>4. HedgeTypes'
    <3>1. executed' \subseteq Message /\ IsFiniteSet(executed')
      BY <1>2, <1>3, <2>1, FS_AddElement
    <3> QED
      BY <1>0, <1>1, <1>2, <1>5, <2>3, <3>1 DEF HedgeTypes
  <2>5. CountedGenuine'
    BY <1>0, <2>1 DEF HedgeInv, CountedGenuine
  <2>6. Genuine(socket, executed)' /\ Genuine(fills, executed)'
    BY <1>0, <2>2, <2>3 DEF Genuine
  <2>7. CacheFollows(socket, positions, position)'
    <3>1. CacheFollows(socket', positions', position')
      BY <1>0, <2>3
    <3> QED
      BY <3>1 DEF CacheFollows, LastSays
  <2>8. ~In(x.id, processed_exec_ids_order)
    BY <1>3, <1>6 DEF HedgeInv, CountedGenuine, In
  <2>9. Pending' = Pending \cup {x} /\ x \notin Pending
    BY <1>0, <2>1, <2>8 DEF Pending, In
  <2>10. Owed(Pending)' = Owed(Pending')
    BY DEF Owed
  <2>11. ASSUME ~disturbed' PROVE OnTheirWay' /\ hedge_qty' + Owed(Pending') = position'
    <3>1. ~disturbed
      BY <1>0, <2>11
    <3>2. OnTheirWay'
      <4> SUFFICES ASSUME NEW e \in Pending' PROVE In(e, socket') \/ In(e, fills')
        BY DEF OnTheirWay, In
      <4> QED
        BY <1>0, <2>3, <2>9, <3>1 DEF HedgeInv, OnTheirWay
    <3>3. Owed(Pending) \in Int /\ Owed(Pending') = Owed(Pending) + qty
      <4>1. IsFiniteSet(Pending) /\ Pending \subseteq Message
        BY <1>1, PendingIsFinite
      <4>2. Owed(Pending) \in Int /\ Owed(Pending \cup {x}) = Owed(Pending) + x.qty
        BY <1>3, <2>9, <4>1, OwedWith
      <4> QED
        BY <1>3, <2>9, <4>2
    <3>4. hedge_qty + Owed(Pending) = position /\ hedge_qty \in Int
      BY <1>1, <3>1 DEF HedgeInv, HedgeTypes
    <3> QED
      BY <1>0, <1>2, <3>2, <3>3, <3>4
  <2> QED
    BY <1>7, <2>4, <2>5, <2>6, <2>7, <2>10, <2>11 DEF HedgeInv
<1> QED
  BY <1>8, <1>9


(* The invariant holds when the daemon boots flat. *)
LEMMA HedgeInitInv == HedgeInit => HedgeInv
<1> SUFFICES ASSUME HedgeInit PROVE HedgeInv
  OBVIOUS
<1>0. IsFiniteSet({})
  BY FS_EmptySet
<1>1. HedgeTypes
  <2>1. \A T : <<>> \in Seq(T)
    OBVIOUS
  <2>2. processed_exec_ids_order \in Seq(Nat) /\ socket \in Seq(Message) /\ fills \in Seq(Message)
    BY <2>1, Zenon DEF HedgeInit
  <2>3. pump \in Task /\ periodic \in Task
    BY DEF HedgeInit, Idle, Task
  <2>4. /\ orders \subseteq [id : Nat, qty : Int] /\ executed \subseteq Message
        /\ IsFiniteSet(executed) /\ disturbed \in BOOLEAN
    BY <1>0, Zenon DEF HedgeInit
  <2> QED
    BY <2>2, <2>3, <2>4 DEF HedgeInit, HedgeTypes
<1>2. ExecutionIds /\ CountedGenuine /\ Genuine(socket, executed) /\ Genuine(fills, executed)
  BY DEF HedgeInit, ExecutionIds, CountedGenuine, Genuine
<1>3. CacheFollows(socket, positions, position)
  BY DEF HedgeInit, CacheFollows
<1>4. Pending = {} /\ OnTheirWay
  BY DEF HedgeInit, Pending, OnTheirWay
<1>5. hedge_qty + Owed(Pending) = position
  BY <1>4, OwedNone DEF HedgeInit
<1> QED
  BY <1>1, <1>2, <1>3, <1>4, <1>5 DEF HedgeInv

(* Executions of options are no executions of the hedge.                   *)
OptionFillsOK ==
  IsFiniteSet(option_fills) /\ \A e \in option_fills : e \in Message /\ e.kind = "option"

LEMMA NewOptionFill ==
  ASSUME OptionFillsOK, NEW qty \in Int
  PROVE  LET m == OptionExec(Cardinality(option_fills) + 1, qty)
         IN m \in Message /\ m.kind = "option"
<1>1. Cardinality(option_fills) \in Nat
  BY FS_CardinalityType DEF OptionFillsOK
<1> QED
  BY <1>1 DEF OptionExec, Message

LEMMA OptionFillsInvariant == HedgeSpec => []OptionFillsOK
<1>1. HedgeInit => OptionFillsOK
  BY FS_EmptySet DEF HedgeInit, OptionFillsOK
<1>2. OptionFillsOK /\ [HedgeNext]_hedgeVars => OptionFillsOK'
  <2> SUFFICES ASSUME OptionFillsOK, [HedgeNext]_hedgeVars PROVE OptionFillsOK'
    OBVIOUS
  <2>1. CASE UNCHANGED option_fills
    BY <2>1 DEF OptionFillsOK
  <2>2. ASSUME NEW qty \in Int, GwOptionFill(qty) PROVE OptionFillsOK'
    <3> DEFINE m == OptionExec(Cardinality(option_fills) + 1, qty)
    <3>1. m \in Message /\ m.kind = "option" /\ option_fills' = option_fills \cup {m}
      BY <2>2, NewOptionFill DEF GwOptionFill
    <3> HIDE DEF m
    <3> QED
      BY <3>1, FS_AddElement DEF OptionFillsOK
  <2>3. \A qty \in OptionQtys : qty \in Int /\ -qty \in Int
    BY HedgeAssumption
  <2>4. UNCHANGED option_fills \/ \E qty \in Int : GwOptionFill(qty)
    BY <2>3 DEF HedgeNext, Pump, Periodic, Gateway, HandleHedgeFill, HandleOptionFill,
                rebalance_on_fill, PlaceOnFill, PlacePeriodic, Place, PeriodicTick, Reconcile,
                rebalance_periodic, Dispatch, refresh_greeks, GwExecute, GwRepeat, counts, hedgeVars
  <2> QED
    BY <2>1, <2>2, <2>4
<1> QED
  BY <1>1, <1>2, PTL DEF HedgeSpec

(* Every step of the two tasks, the dispatcher and the gateway keeps it. *)
LEMMA HedgeNextInv == OptionFillsOK /\ HedgeInv /\ [HedgeNext]_hedgeVars => HedgeInv'
<1> SUFFICES ASSUME OptionFillsOK, HedgeInv, [HedgeNext]_hedgeVars PROVE HedgeInv'
  OBVIOUS
<1>0. HedgeTypes /\ Decision \in Task /\ Idle \in Task /\ pump \in Task /\ periodic \in Task
  BY DecisionIsATask DEF HedgeInv, HedgeTypes
<1>1. CASE HandleHedgeFill
  BY <1>1, HedgeFillIsCounted
<1>2. CASE HandleOptionFill
  BY <1>2, OptionFillAside
<1>3. CASE rebalance_on_fill
  <2>1. HedgeTypes'
    BY <1>0, <1>3 DEF rebalance_on_fill, HedgeTypes, book, manager, gateway, counts
  <2> QED
    BY <1>3, <2>1, TasksAside DEF rebalance_on_fill, counts
<1>4. CASE PlaceOnFill
  BY <1>0, <1>4, PlaceIsNew DEF PlaceOnFill
<1>5. CASE PeriodicTick
  <2>1. periodic' \in Task
    BY <1>0, <1>5 DEF PeriodicTick, HedgeTypes, Task
  <2>2. HedgeTypes'
    BY <1>0, <1>5, <2>1 DEF PeriodicTick, HedgeTypes, book, manager, gateway, counts
  <2> QED
    BY <1>5, <2>2, TasksAside DEF PeriodicTick, counts
<1>6. CASE Reconcile
  BY <1>6, ReconcileSettles
<1>7. CASE rebalance_periodic
  <2>1. HedgeTypes'
    BY <1>0, <1>7 DEF rebalance_periodic, HedgeTypes, book, manager, gateway, counts
  <2> QED
    BY <1>7, <2>1, TasksAside DEF rebalance_periodic, counts
<1>8. CASE PlacePeriodic
  BY <1>0, <1>8, PlaceIsNew DEF PlacePeriodic
<1>9. CASE Dispatch
  BY <1>9, DispatchKeeps
<1>10. CASE refresh_greeks
  <2>1. HedgeTypes'
    BY <1>0, <1>10, HedgeAssumption DEF refresh_greeks, HedgeTypes, manager, gateway, counts
  <2> QED
    BY <1>10, <2>1, TasksAside DEF refresh_greeks, counts
<1>11. ASSUME NEW o \in orders, NEW qty \in Between(o.qty), GwExecute(o, qty) PROVE HedgeInv'
  BY <1>11, ExecutionIsOwed
<1>12. ASSUME NEW qty \in Int, GwOptionFill(qty) PROVE HedgeInv'
  <2> DEFINE m == OptionExec(Cardinality(option_fills) + 1, qty)
  <2>1. m \in Message /\ m.kind = "option"
    BY NewOptionFill
  <2>2. socket' = Append(socket, m)
    BY <1>12 DEF GwOptionFill
  <2> HIDE DEF m
  <2> QED
    BY <1>0, <1>12, <2>1, <2>2, SendAside DEF GwOptionFill
<1>13. ASSUME NEW exec \in executed \cup option_fills, GwRepeat(exec) PROVE HedgeInv'
  <2>1. exec \in Message /\ exec.kind # "position" /\ (exec.kind = "hedge" => exec \in executed)
    BY DEF OptionFillsOK, HedgeInv, HedgeTypes, ExecutionIds
  <2> QED
    BY <1>13, <2>1, SendAside DEF GwRepeat
<1>14. CASE UNCHANGED hedgeVars
  <2>1. HedgeTypes'
    BY <1>0, <1>14 DEF hedgeVars, HedgeTypes, book, manager, gateway, counts
  <2> QED
    BY <1>14, <2>1, TasksAside DEF hedgeVars, counts
<1>15. \A qty \in OptionQtys : qty \in Int /\ -qty \in Int
  BY HedgeAssumption
<1> QED
  BY <1>1, <1>2, <1>3, <1>4, <1>5, <1>6, <1>7, <1>8, <1>9, <1>10, <1>11, <1>12, <1>13, <1>14, <1>15
  DEF HedgeNext, Pump, Periodic, Gateway

(* Every execution is counted once, for every book of option fills, every  *)
(* number of orders, repeats and ticks and every size of the channel and   *)
(* of the set of remembered ids: as long as no fill was lost, no id        *)
(* evicted and no reconcile came between messages, hedge_qty and what is   *)
(* on its way make the position at the gateway.                            *)
THEOREM ExecutionsCountOnce == HedgeSpec => []EachExecutionOnce
<1>1. HedgeInv => EachExecutionOnce
  <2> SUFFICES ASSUME HedgeInv, ~disturbed PROVE EachExecutionOnce
    BY DEF EachExecutionOnce
  <2>1. /\ socket \in Seq(Message) /\ fills \in Seq(Message)
        /\ Genuine(socket, executed) /\ Genuine(fills, executed)
        /\ OnTheirWay /\ hedge_qty + Owed(Pending) = position
    BY DEF HedgeInv, HedgeTypes
  <2>2. \A s \in Seq(Message) : \A m : m \in ToSet(s) <=> In(m, s)
    BY DEF ToSet, In
  <2>3. \A m : (In(m, socket) \/ In(m, fills)) /\ m.kind = "hedge" => m \in executed
    BY <2>1 DEF In, Genuine
  <2>4. \A e \in Pending : e \in executed /\ e.kind = "hedge" /\ (In(e, socket) \/ In(e, fills))
    BY <2>1 DEF OnTheirWay, Pending, HedgeInv, ExecutionIds
  <2>5. \A i : In(i, processed_exec_ids_order) <=> Contains(processed_exec_ids_order, i)
    BY DEF In, Contains
  <2>6. Uncounted = {m \in ToSet(socket) \cup ToSet(fills) :
                       m.kind = "hedge" /\ ~In(m.id, processed_exec_ids_order)}
    BY <2>5 DEF Uncounted
  <2>7. Uncounted \subseteq Pending
    BY <2>1, <2>2, <2>3, <2>6 DEF Pending
  <2>8. Pending \subseteq Uncounted
    BY <2>1, <2>2, <2>4, <2>6 DEF Pending
  <2>9. Uncounted = Pending
    BY <2>7, <2>8
  <2> QED
    BY <2>1, <2>9 DEF EachExecutionOnce, Owed
<1> QED
  BY <1>1, HedgeInitInv, HedgeNextInv, OptionFillsInvariant, PTL DEF HedgeSpec
=============================================================================
