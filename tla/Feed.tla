-------------------------------- MODULE Feed --------------------------------
(***************************************************************************)
(* From the gateway's ticks to the trader.  The dispatcher sends each tick *)
(* two ways: into the events ring, by the tick publisher that the IPC      *)
(* server installs once the subscriptions are made, and to pump_ticks by a *)
(* broadcast channel.  The publisher consolidates an option's bid, ask and *)
(* sizes, since the trader overwrites its entry with each event.  The vol  *)
(* surface is fitted to what pump_ticks has stored and goes into the same  *)
(* ring.  Publishing and reading are the steps of EventLoop.               *)
(***************************************************************************)
EXTENDS MarketData, Sequences, SequencesExt

CONSTANTS Chain,         \* options of the product
          Ticks,         \* <<instrument, kind, value>> that the gateway may send;
                         \* a price that is not positive withdraws the quote
          MinStrikes,    \* points that calibrate_sabr needs (3 in production)
          RingFrames,    \* events that fit into the ring
          ChannelCap,    \* capacity of the broadcast channel of ticks
          MaxTicks,      \* bound: ticks of the gateway
          MaxPublished   \* bound: events published

Sides == {"bid", "ask", "bid_size", "ask_size"}
Kinds == Sides \cup {"last"}

ASSUME FeedAssumption ==
  /\ Underlying \notin Chain /\ \A t \in Ticks : t[1] \in Chain \cup {Underlying} /\ t[2] \in Kinds /\ t[3] \in Int
  /\ {MinStrikes, RingFrames, ChannelCap} \subseteq Nat \ {0}
  /\ {MaxTicks, MaxPublished} \subseteq Nat

VARIABLES published, consumed, publisher, fifo, edge, ready, loop,  \* EventLoop
          ring,          \* the events that are published and not yet read
          installed,     \* the tick publisher is installed
          cache,         \* its ConsolidatedTick of each option
          channel,       \* ticks that pump_ticks has not handled
          options_seen,  \* the trader's options
          surfaces,      \* the trader's vol_surfaces by side
          ticks,         \* ticks so far
          sent, shown,   \* histories: the last tick of an instrument and kind,
                         \* the last positive one
          refused,       \* history: options whose last event met a full ring
          lagged         \* history: the channel overwrote a tick

Loop == INSTANCE EventLoop

loopVars == <<published, consumed, publisher, fifo, edge, ready, loop>>
feedVars == <<installed, cache, channel, ticks, sent, shown, refused, lagged>>
traderVars == <<options_seen, surfaces>>
vars == <<loopVars, mdVars, ring, feedVars, traderVars>>

Unset == 0                                   \* Option::None of a side
Blank == [k \in Sides |-> Unset]
Put(f, key, value) == [x \in DOMAIN f \cup {key} |-> IF x = key THEN value ELSE f[x]]

-----------------------------------------------------------------------------
(* SHMServer::publish.  The ring's lock is held until the notification is  *)
(* written.  A frame that does not fit is dropped.                         *)

RingFull == published - consumed >= RingFrames

Publish(event) ==
  /\ publisher = "idle"
  /\ IF RingFull THEN UNCHANGED <<loopVars, ring>>
     ELSE Loop!StoreOffset /\ ring' = Append(ring, event)

-----------------------------------------------------------------------------
(* Daemon *)

(* subscribe_product: registered first, then subscribed. *)
RegisterOption(o) ==
  /\ ~installed /\ o \notin DOMAIN options
  /\ register_option(o)
  /\ UNCHANGED <<loopVars, ring, feedVars, traderVars>>

(* spawn_ipc follows subscribe_market_data. *)
install_tick_fastpath ==
  /\ ~installed
  /\ installed' = TRUE
  /\ UNCHANGED <<loopVars, mdVars, ring, cache, channel, ticks, sent, shown, refused,
                 lagged, traderVars>>

(* The tick publisher: last prices and instruments that are no options are *)
(* skipped.                                                                *)
Consumable(i, kind) == installed /\ kind \in Sides /\ option_meta(i)

ForgetsOtherSide(i, kind, v) == [Blank EXCEPT ![kind] = v]
Consolidated(i, kind, v) ==
  [(IF i \in DOMAIN cache THEN cache[i] ELSE Blank) EXCEPT ![kind] = v]

tick_publisher(i, kind, v) ==
  IF ~Consumable(i, kind) THEN UNCHANGED <<loopVars, ring, cache, refused>>
  ELSE /\ cache' = Put(cache, i, Consolidated(i, kind, v))
       /\ Publish([ty |-> "tick", key |-> i, body |-> cache'[i]])
       /\ refused' = IF RingFull THEN refused \cup {i} ELSE refused \ {i}

(* A full broadcast channel overwrites its oldest tick (RecvError::Lagged). *)
Broadcast(tick) ==
  /\ channel' = Append(IF Len(channel) < ChannelCap THEN channel ELSE Tail(channel), tick)
  /\ lagged' = (lagged \/ Len(channel) >= ChannelCap)

(* route of TickPrice and TickSize: the publisher, then the broadcast. *)
RouteTick(i, kind, v) ==
  /\ ticks < MaxTicks /\ ticks' = ticks + 1
  /\ published < MaxPublished
  /\ i \in DOMAIN options \cup {Underlying}
  /\ tick_publisher(i, kind, v)
  /\ Broadcast(<<i, kind, v>>)
  /\ sent' = IF installed THEN Put(sent, <<i, kind>>, v) ELSE sent
  /\ shown' = IF v > 0 THEN Put(shown, <<i, kind>>, v) ELSE shown
  /\ UNCHANGED <<mdVars, installed, traderVars>>

(* Sizes are ignored. *)
pump_ticks ==
  /\ channel # <<>>
  /\ channel' = Tail(channel)
  /\ LET tick == Head(channel) IN
       IF tick[2] \in {"bid", "ask", "last"} THEN Update(tick[1], tick[2], tick[3])
       ELSE UNCHANGED mdVars
  /\ UNCHANGED <<loopVars, ring, installed, cache, ticks, sent, shown, refused, lagged,
                 traderVars>>

(* fit_and_publish: too few points, or a fit that is rejected, are told to *)
(* the trader; without a chain nothing is published.                       *)
fit_and_publish(solved) ==
  /\ installed /\ published < MaxPublished
  /\ HasChain(solved)
  /\ \/ /\ Cardinality(solved) >= MinStrikes
        /\ Publish([ty |-> "vol_surface", key |-> "BOTH",
                    body |-> [forward |-> underlying, points |-> solved]])
     \/ Publish([ty |-> "vol_surface_failed", key |-> "BOTH", body |-> Blank])
  /\ UNCHANGED <<mdVars, feedVars, traderVars>>

-----------------------------------------------------------------------------
(* Trader: the hot loop processes every event that it reads, in order.     *)

LastTick(o) == SelectLastInSeq(ring, LAMBDA e : e.ty = "tick" /\ e.key = o)
LastSurface == SelectLastInSeq(ring, LAMBDA e : e.ty = "vol_surface")
Keys == {e.key : e \in {e \in ToSet(ring) : e.ty = "tick"}}

(* process_event: a tick overwrites the entry of its option; a surface is  *)
(* kept under the first letter of its side.                                *)
process_events ==
  /\ options_seen' = [o \in DOMAIN options_seen \cup Keys |->
                        IF o \in Keys THEN ring[LastTick(o)].body ELSE options_seen[o]]
  /\ surfaces' = IF LastSurface = 0 THEN surfaces
                 ELSE Put(surfaces, "B", ring[LastSurface].body)
  /\ ring' = <<>>

TraderStep ==
  \/ Loop!ReadSome /\ process_events /\ UNCHANGED <<mdVars, feedVars>>
  \/ /\ Loop!ReadNothing \/ Loop!DrainNotify \/ Loop!Readable \/ Loop!Timeout
     /\ UNCHANGED <<mdVars, ring, feedVars, traderVars>>

Notify == Loop!Notify /\ UNCHANGED <<mdVars, ring, feedVars, traderVars>>
ReactorPoll == Loop!ReactorPoll /\ UNCHANGED <<mdVars, ring, feedVars, traderVars>>

-----------------------------------------------------------------------------
Empty == [x \in {} |-> 0]

Init ==
  /\ Loop!Init /\ MarketDataInit
  /\ ring = <<>> /\ installed = FALSE /\ cache = Empty /\ channel = <<>>
  /\ options_seen = Empty /\ surfaces = Empty
  /\ ticks = 0 /\ sent = Empty /\ shown = Empty /\ refused = {} /\ lagged = FALSE

Next ==
  \/ \E o \in Chain : RegisterOption(o)
  \/ install_tick_fastpath
  \/ \E t \in Ticks : RouteTick(t[1], t[2], t[3])
  \/ pump_ticks
  \/ \E solved \in SUBSET DOMAIN options : fit_and_publish(solved)
  \/ Notify \/ TraderStep \/ ReactorPoll

(* As in EventLoop; the gateway may stop sending and the fitter runs once  *)
(* a minute.                                                               *)
Spec == Init /\ [][Next]_vars /\ WF_vars(TraderStep) /\ WF_vars(ReactorPoll)
             /\ WF_vars(Notify) /\ WF_vars(pump_ticks)

-----------------------------------------------------------------------------
(* Every event that was published is read by the trader.                   *)
EveryEventIsRead == Loop!EveryEventIsRead

(* What the trader has read of an option is what the gateway last sent of  *)
(* each side since the publisher was installed, withdrawn quotes included, *)
(* unless the last event met a full ring: no side is lost or older.        *)
TraderSeesLastQuote ==
  ring = <<>> =>
    \A o \in DOMAIN cache \ refused :
      /\ o \in DOMAIN options_seen
      /\ \A k \in Sides : options_seen[o][k] =
                            IF <<o, k>> \in DOMAIN sent THEN sent[<<o, k>>] ELSE Unset

LastShown(i, k) == IF <<i, k>> \in DOMAIN shown THEN shown[<<i, k>>] ELSE 0

(* Once pump_ticks has caught up and has not lagged, the daemon marks and  *)
(* fits with the last positive price of each side.                         *)
DaemonMarksLastPositive ==
  channel = <<>> /\ ~lagged =>
    /\ \A o \in DOMAIN options, k \in {"bid", "ask", "last"} : options[o][k] = LastShown(o, k)
    /\ underlying \in {LastShown(Underlying, "bid"), LastShown(Underlying, "last")}

(* A surface that reached the trader rests on enough points, each of an    *)
(* option of which the gateway has shown both sides.                       *)
SurfaceRestsOnQuotes ==
  \A s \in DOMAIN surfaces :
    /\ Cardinality(surfaces[s].points) >= MinStrikes
    /\ \A o \in surfaces[s].points : LastShown(o, "bid") > 0 /\ LastShown(o, "ask") > 0
=============================================================================
