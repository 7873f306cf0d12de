# Verification of the corsair2 runtime

corsair2 quotes COMEX copper options through Interactive Brokers.  The running
system is two Rust processes -- the broker daemon and the trader -- that talk
through two shared-memory rings, and the IBKR gateway at the other end of a TCP
socket.  The modules here are translated from `src/rust/`; paths below are
relative to it unless they start with `docs/`.

## 1. The system

| part | state it keeps | operations | talks to |
|---|---|---|---|
| **broker daemon** (`corsair_broker`) | one `Runtime`: broker, portfolio, market data, risk, hedge, constraint, OMS, account, each behind its own mutex | about fifteen tokio tasks on four threads: fill, status, tick, error and connection pumps; periodic Greeks, risk, hedge, snapshot, account poll; rollover; IPC publisher and command dispatcher | everything below |
| **native adapter** (`corsair_broker_ibkr_native`) | socket, order-id counter, waiters for place acks, caches of positions, open orders, account values | place, cancel, modify; a recv task and a dispatcher that routes every incoming message | the gateway over TCP; the tasks over broadcast channels |
| **shared-memory IPC** (`corsair_ipc`) | two rings (events, commands) with two offsets each, and a notify FIFO | write_frame, read_available, notify, drain_notify | daemon and trader: two processes, no lock between them |
| **trader** (`corsair_trader`) | latest quote per option, vol surfaces, our orders per (option, side), order ids, risk snapshot, kills | decode an event, decide on a tick, book acknowledgements; a staleness task on another thread | the daemon, through the rings |
| **risk monitor** (`corsair_risk`) | the active kill | check, check_daily_pnl_only, check_induced_sentinels, clear_disconnect_kill, clear_daily_halt | periodic_risk_check, pump_fills, pump_connection, daily_halt_rollover; operators, through sentinel files |
| **hedge manager** (`corsair_hedge`) | hedge_qty, average entry price, realized P&L, bounded set of processed exec ids | rebalance on fill and periodically, apply_broker_fill, reconcile | pump_fills, periodic_hedge |
| **portfolio** (`corsair_position`) | option positions with Greeks, today's fills, index | add_fill, replace_positions, refresh_greeks, aggregate | pump_fills, Greeks refresh, risk check |
| **constraint checker** (`corsair_constraint`) | synthetic-margin cache and its calibration | update_cached_margin, check | account poll |
| **market data** (`corsair_market_data`) | underlying and option quotes | ticks, registration, ATM window | pump_ticks, subscriptions |
| **boot** (`runtime.rs`, `subscriptions.rs`) | seeding progress, pending contract queries | connect, bootstrap, resolve the hedge, seed, spawn, subscribe | adapter, all of the above |
| **order book** (`corsair_oms`) | orders by id and key | insert, status, GC | status pump (nothing inserts) |
| pricing, snapshot, scripts | floating-point numerics; write-only dashboards; operator tools | | |

What is hard here: two processes that copy bytes past each other without a lock;
a dozen tasks that nest mutexes; answers of the gateway that come late, twice, in
another order or not at all; bounded channels that drop; fills, position messages
and reconciles that cross; a kill that must survive everything but the rollover;
state looked up under one lock and used under the next.  `PROJECT.json` lists
these as hazards, each at its line.

What makes each part correct, in a sentence: the ring delivers every accepted
frame, unharmed and in order; no event is left unread; the daemon never stops on
its own locks; a kill, once fired, stays and a breach is never overlooked;
`place_order` tells the truth and returns; `hedge_qty` counts every execution
once and finds back to the position; what works at the gateway is what someone
asked for; index, book and fills agree; the gates neither trap a breached book
nor let a sound one out; a boot ends, with the account's book if the account was
told; the trader quotes on the gateway's last word and knows what it has
resting.

## 2. Modules and their correspondence to the code

`PROJECT.json` maps every definition to its lines.  A module `XProofs` has the
theorems about `X`, but for the three parts of the daemon that are proved about in
one module, `DaemonProofs` (`RuntimeLocks`, `RiskMonitor` and `Hedge`); these
therefore name their specifications `LocksSpec`, `RiskSpec` and `HedgeSpec`.
`DataTheorems` has the lemmas about sequences, finite sets and sums that several of
them cite.

* **`LossyStream`** -- what the ring promises: a stream of which the reader has
  taken a prefix.  **`Ring`** -- `write_frame` and `read_available` one byte per
  step, the offsets stored at the end of each, `pack_frame` and
  `unpack_all_frames`, and `command_pump`, which throws the tail of its buffer
  away.  `Ring` implements `LossyStream` with `sent <- stream, taken <- got`
  (histories of bytes published and read).  Offsets are naturals: the code's are
  `u64` and do not wrap within the life of a process.
* **`EventLoop`** -- one publisher that stores the offset and then writes to the
  FIFO, tokio's edge-triggered readiness (external), and the hot loop: read,
  drain, wait with a timeout.
* **`RuntimeLocks`** -- each task as the set of its critical sections, each
  section as the sequence of lock sets held.  Data is left out: between two
  sections a task holds nothing.
* **`RiskMonitor`** -- the kill, the rollover task's memory, sentinel files (which
  may be impossible to remove), the clock as day and "past 17:00", and restarts.
  The account's figures are reduced to the set of limits they are past, which
  moves freely.  The actions have the names of the monitor's methods;
  `pump_connection` and `daily_halt_rollover` are the tasks that call
  `clear_disconnect_kill` and `clear_daily_halt`.
* **`OrderTerms`** -- what an order says on its way: the requests that
  `handle_place`, `place_hedge_order` and `modify_order` build, the placeOrder
  frame of both encoders (field by field, and spliced from a cached contract
  section, the parameters and constant trailing bytes), and back from openOrder
  through `parse_open_order` into the cache.  Frames are short sequences read by
  position; the fields that never vary are one field.
* **`OrderPath`** -- `place_order` from id allocation to return, cancels,
  modifies and the shutdown, the wire, the socket, the bounded dispatch channel,
  `route` for the messages about orders, and the kill with its
  `cancel_all_resting`.  The gateway is external: it accepts, rejects, ends,
  changes and cancels orders and reports in the orders that the adapter's
  comments tell of.
* **`Connection`** -- the recv task, the dispatcher and the senders of the channel
  between them, from EOF to the `LostConnection` event.
* **`Boot`** -- the main task from the handshake to the subscriptions, with every
  wait and its timeout; recv task and dispatcher (one step per message, since a
  message may wait between them as it may wait at the gateway); the pending
  contract queries; pumps that subscribe only when they get the broker lock.  The
  gateway sends each stream in order and interleaves streams at will.  When the link
  is lost the dispatcher still routes the frames that it was handed.
* **`MarketData`** -- registration and updates of one product, the two-sided mid
  and the chain for the fit.  **`Feed`** -- composes it with `EventLoop`
  (INSTANCE): the dispatcher's ticks go into the ring by the tick publisher and
  to `pump_ticks` by a broadcast channel that overwrites; surfaces go into the
  same ring; the trader overwrites its entries with what it reads.
* **`Hedge`** -- `hedge_qty` and its two concurrent users, `pump_fills` and
  `periodic_hedge`; the position cache; the fills channel that overwrites when
  its receiver lags; the gateway with partial executions and repeats.  Deltas are
  in halves, so that rounding to whole futures happens.
* **`HedgeState`** (`apply_fill`, `mtm_usd`, `replace`), **`Portfolio`** (vector
  and index of positions, `add_fill`, `refresh_greeks`, mark to market, the daily
  P&L) and **`Constraint`** (SPAN scan over a table of scenario losses, margin
  calibration, the gates of `check` in their order), composed by **`Accounting`**:
  `handle_fill` gives a fill to one or the other, the five-minute tasks refresh
  and calibrate, quotes and forward move in between.  `f64` is exact here:
  **`Fractions`** has the quotients.  Greeks and option prices are tables, since
  Black-76 is not what these properties are about.
* **`TraderQuotes`** -- for one option: `decide_on_tick` (risk gates, edge,
  tick jump, cross protection, rounding, dead band, cooldown, GTD refresh, cancel
  before replace), the two lock sections of `on_tick` with the ring write between
  them, `place_ack` and `order_ack`, and the two lock sections of
  `staleness_check`.  The broker is external, modelled from the messages that
  `messages.rs` names.  Gates that other messages open and close at will are
  chosen at the tick.

History variables (`stream`, `got`, `accepted`, `delivered`, `allocated`,
`lost`, `written`, `induced`, `disturbed`, `excused`, `net`, `flow`, `missed`,
`inside`, `whole`, `quiet`, `sent`, `shown`, `refused`, `lagged`) are never read
by the code's side of an action; `OrderPath!asked` also bounds how often a command
is given.  Those that record an exception (`excused`, `disturbed`, `lost`,
`quiet`, `refused`, `lagged`) name causes that the code itself provides; the
properties say which.

## 3. Runs

| run | instance | shows |
|---|---|---|
| `ring` | FairSpec, capacity 5, lengths 1-3, four frames | bytes and frames arrive unharmed, in order and in the end; nothing unread is overwritten; `LossyStream` is implemented |
| `feed` | one option, five kinds of tick of which four arrive, three events, a ring of two, a channel of one | every event is read, whatever wakeups are lost; trader and daemon end with the last quotes; surfaces rest on two-sided quotes |
| `runtime_locks` | seven tasks that nest or contend | no circular wait without `place_order` commands |
| `runtime_locks_place` (violation) | `dispatch_commands` and `periodic_risk_check` | `handle_place` inverts portfolio and market_data |
| `risk_monitor` | two days, two moves, two sentinels, one restart | kills are sticky, sentinels fire once, breaches are acted on, halts are lifted |
| `order_path` | one good-till-date option order and one hedge order, one modification, dispatch channel of one | ids fresh, verdicts true, no waiter left, working terms asked for, cache true, `place_order` returns, the sweep runs |
| `order_path_kill` (violation) | the same orders | the sweep cancels nothing |
| `connection` (violation) | dispatch channel of two | a lost connection is never reported |
| `hedge` | two option fills, two hedge orders, one repeat of either kind, channel of two, one id remembered | executions counted once; an open hedge is repaired |
| `trader_quotes` | two orders, rings of two frames, a book that goes dark, two theos | no resting order unknown but for the listed causes; ids lead back; quotes keep their edge |
| `accounting` | a call, a put, an expired call and a put between the two times of expiry, three seeds, two prices, four steps | index and book agree with the fills; the hedge's P&L is right; the halt's P&L falls short of the account's by exactly the hedge's and what option fills realised; the gates let a breached book back and keep a sound one in |
| `boot` | two futures, one option, an order resting on it, one mishap | requests wait for the bootstrap; answers reach their query; a whole snapshot gives the account's book; the boot ends |

**Bounds.**  They are the smallest with which the interesting cases happen.
Ring: with capacity 5, two frames of length 2 leave one slot, so exact fits,
refusals, frames over half of the ring and wraps inside a frame all occur.
OrderPath: a channel of one message overflows on the three messages of one
acceptance; two orders of different kind are the least with which a template,
a side or a time in force can be mixed up.  Feed: four ticks are two sides, a
withdrawal and a price of the underlying, and the third event meets a full ring.
Boot: two futures are one inside the lockout and one past it, the later queries
run while the earlier answers are late, and the mishap is a dropped frame or a
lost link at any point; the order that may fill rests on the option, whose fills
nothing mends.  Accounting: four steps are open, add, close and flip,
the seed with a duplicate key closes in the middle of the vector, and margins,
deltas and thetas get past every limit.  Two prices, 1 and 3, are enough for a gain,
a loss and averages between them, thirds among them; the limits on theta are such that
a multiplier of 2, applied once more than due, decides.  Four fills also reach every branch of
`apply_fill` and `add_fill`.  Hedge: two fills overflow the channel, two executions evict an exec
id.  TraderQuotes: two frames are one cancel-and-replace, so the second side's
does not fit; theo 11/4 rounds to the other side's best, theo 23/4 makes the
quotes stale.  RiskMonitor: two days are one rollover that lifts and one that
re-arms.  Deadlock checking is off where a bound or the model's end stops the
system (all but `runtime_locks`).

**Fairness.**  Weak fairness for loops that the runtime schedules for ever: the
consumer's poll, the trader's loop and the reactor, periodic tasks, dispatcher and
recv task, the timers of `place_order` and of the boot's waits, and the clock.  A producer inside
`write_frame` goes on.  Strong fairness for one action only, `cancel_all_resting`,
which waits for tokio's mutex: that mutex is handed out first come, first served.
The gateway, operators, market, fills and restarts owe nothing.

**What the properties with an exception mean.**  `EachExecutionOnce` excepts lost
fills, evicted ids and a reconcile with messages under way -- `OpenHedgeIsRepaired`
says that these heal, for positions that are not flat.  `CacheFollowsGateway` excepts an openOrder that the
full channel dropped, `TraderSeesLastQuote` an event that met a full ring and
ticks before the publisher was installed, `DaemonMarksLastPositive` a lagging
channel.  `BookMatchesAccount` needs a complete snapshot, no fill between
snapshot and subscription, and an account that held no other future than the one
the hedge trades (`OnlyTheHedge`): seeding takes whatever future it meets last for
the hedge, so that without any of the three the code promises nothing.  `SweepRuns`
ends with the process.  `NoOrphans` excepts dropped frames, an order replaced when
about to expire, an order replaced before its acknowledgement, and an entry
removed in the name of an order it replaced; in all of them the order's GTD is
what ends it.  `GatedBookStaysInside` is about a book that, since it was empty,
had only accepted fills, each judged on fresh Greeks: a fill judged on stale ones --
they are up to five minutes old, and a new position has none -- can take the book
outside, as can a hedge fill, a reconcile, a recalibration or a move of the forward
under a position.
`BookIsSeedPlusFills` counts the fills that `handle_fill` is given, a repeated one
twice (section 5).  In
`DailyPnlOmitsHedgeAndRealised` the account's cash is rebased by a reconcile: the
broker's average becomes what the futures were bought at.

## 4. Proofs

TLC checks every property below on the bounds of its run.  The inductive invariants
are in the proof modules.  Those of the accounting hold on its run's bounds too, but
for `HedgePnlOK`, which quantifies over the integers and is beyond TLC.

| theorem | property | for every |
|---|---|---|
| `RingProofs!TypeCorrect`, `StreamIsIntact`, `NeverOverwrites`, `RingRefinesLossyStream`, `FramesAreInOrder` | `TypeOK`, `StreamIntact`, `NoOverwrite`, `ImplementsLossyStream`, `FramesInOrder` | capacity, set of frame lengths, number of frames |
| `DaemonProofs!NoDeadlockWithoutPlace` | `NoDeadlock` | set of tasks in either mode, without `dispatch_commands` in Live mode |
| `DaemonProofs!TypeCorrect`, `InducedOnce`, `Sticky` | `TypeOK`, `InducedAtMostOnce`, `KillsAreSticky` of the risk monitor | set of armed limits and sentinels; number of days, moves and restarts |
| `DaemonProofs!ExecutionsCountOnce` | `EachExecutionOnce` | fill sizes, delta, tolerance, reconcile interval, channel and window of ids; number of fills, orders and repeats |
| `OrderPathProofs!TypeCorrect`, `IdsAreFresh`, `NoStaleWaiter`, `VerdictsAreTrue`, `TermsWereAsked`, `CacheIsCurrent` | `TypeOK`, `NoIdReuse`, `WaitersHaveCallers`, `AcksAreTrue`, `WorkingTermsWereAsked`, `CacheFollowsGateway` | commands, hedges and amendments; number of orders; capacity of the inbox |
| `BootProofs!NoEarlyRequest`, `AnswersAreMatched`, `TheBookIsTheAccounts` | `BootstrapBeforeRequests`, `AnswersMatchQueries`, `BookMatchesAccount` | finite set of futures, list of options, account, resting orders, number of mishaps |
| `TraderQuotesProofs!TypeCorrect`, `OrdersAreFound`, `QuotesKeepTheEdge`, `NoOrderIsLost` | `TypeOK`, `IdsAreMapped`, `QuoteKeepsEdge`, `NoOrphans` | set of quotes and theoretical values, number of orders, size of the rings |
| `FeedProofs!TraderIsUpToDate`, `MarksAreLastPositive`, `SurfacesRestOnQuotes` | `TraderSeesLastQuote`, `DaemonMarksLastPositive`, `SurfaceRestsOnQuotes` | chain, set and number of ticks, ring, channel, `MinStrikes` |
| `AccountingProofs!TheBookIsSeedPlusFills`, `HaltPnlFallsShort`, `TheWayBackIsOpen`, `GatedBooksStayInside`, `HedgePnlIsTheAccounts`, `TheAverageIsBetweenEntries` | `BookIsSeedPlusFills`, `DailyPnlOmitsHedgeAndRealised`, `WayBackIsOpen`, `GatedBookStaysInside`, `HedgePnlIsAccountPnl`, `AverageIsBetweenEntries` | finite chain, seed (repeated keys too), prices, sizes, limits, scenario and Greek tables, number of steps |

* **Ring, bytes.**  `StreamIntact` is not inductive: while a frame or a read is half
  copied its truth rests on what the copier knows.  The invariant is `TypeOK` with
  *OffsetsInv* (`r <= w <= r + Capacity`), `StreamIntact`, *WriterInv* (the frame
  under way fits the free space as seen from an `r` that can only grow, and its
  first `k` bytes are in their slots) and *ReaderInv* (the bytes copied out are
  the stream's from `r` on, and the `w` read is still a lower bound).  The crux is
  that offsets less than `Capacity` apart have different slots; the rest is
  bookkeeping on sequences.  `NeverOverwrites` and the refinement are step
  properties under the same invariant.  Assumptions: `Capacity > 0` and positive
  frame lengths.
* **Ring, frames.**  *DecoderInv* says that the stream is cut into the accepted
  frames (*Framed*, with a witness for where each ends) and that the reader's
  offset, and the offset that it is reading up to, are such ends.
  `unpack_all_frames` is a recursive function; what it returns for bytes between
  two ends (*WholeFramesDecode*) is shown by induction over the bytes.  The
  induction theorems of the library are not usable with the installed provers, so
  it is made by hand: the set of bytes at which the claim fails would have a least
  element (*LeastOf*, from the well-foundedness of the naturals).  That the
  recursive function exists is shown the same way.
* **RuntimeLocks.**  The locks are not totally ordered in the code -- the snapshot
  and the risk check take market_data, risk and hedge in opposite orders -- so the
  usual argument fails.  What holds is that everyone who nests does so under
  portfolio, or only in a short tail (account, tick cache, then constraint, ring).
  The invariant is mutual exclusion together with that discipline of sections,
  checked section by section; a circle of waiters would then hold the portfolio
  lock twice.
* **RiskMonitor.**  `InducedAtMostOnce` is inductive with the types; `Sticky` is
  a step property under them.
* **Hedge.**  `EachExecutionOnce` counts what is on its way; the invariant
  *HedgeInv* counts what was executed and is not among the processed ids
  (*Pending*).  The two sums agree because, until something disturbs the count,
  every such execution is on the socket or in the channel (*OnTheirWay*), and what is
  there was executed (*Genuine*).  An execution then adds its term to the sum and to
  the position, a fill that is processed moves its term into `hedge_qty`, and a
  repeat changes nothing, since ids name executions (*ExecutionIds*).  A reconcile
  sets `hedge_qty` to the cache; *CacheFollows* says that the cache, or else the last
  position message under way, is the gateway's position, so with nothing under way
  the reconcile is right.
* **OrderPath.**  The invariant has three layers.  *Ids*: an id on the wire, in a
  message, a waiter or a cache is below `next_order_id`, which only grows although
  nextValidId is broadcast again and again.  *Verdicts*: a message that would
  resolve a waiter tells the truth about its order, wherever it is -- on the socket,
  in the inbox, or already handed to the caller -- because the gateway's state of an
  order never goes back to one that the message denies.  *TermsMatch* and
  *AllFresh*: a frame on the wire, the gateway's terms and the cache are encodings
  of a request or of an amendment of one, and the newest openOrder under way has the
  gateway's terms.  The encoders are expanded; nothing is assumed of them.
  Assumptions about the callers: the trader names no order type, so that the
  default "limit" holds, and quotes positive prices; a hedge is a limit IOC order
  for a future; an instrument id is a con_id and names one contract.
* **Boot.**  `BootstrapBeforeRequests` needs that a request is only made after
  the main task has passed the wait for both bootstrap messages.
  `AnswersMatchQueries` needs *QueryInv*: at most one query waits; what is collected
  for it and what the gateway has still to send of it are, together, its answer;
  every reply on the way carries the id of the query that it answers, and ids are
  not used again after a timeout.  `BookMatchesAccount` is a claim about the end of
  a long walk, and *BookInv* follows the positions along it, as long as there was no
  mishap.  *Phases*: which variables the main task has not touched yet at each point
  -- the hedge's query is the first and no other, the pumps subscribe after the seed,
  the hedge contract does not change after it.  *Mail*: the end of the positions is
  the last of its stream, and an execution the first of its.  *Positions*: until the
  order fills, every position is in the cache or announced in that stream; with the
  end received, all are in the cache, and the seed copies them.  *Books*: from then
  on the book is the account before the fill, and the one fill is at the gateway,
  under way, in the channel or booked (*FillFollows*), never two of these.  The
  messages that are not about positions and fills leave all of it alone
  (*BookAside*).  Assumptions: a finite set of futures that is not
  empty, futures that are no options, and a resting order is for an instrument that
  the gateway knows.
* **TraderQuotes.**  *IdInv*: an acknowledgement comes once for each id and is
  newer than the ids that are mapped, and an id with a cancel under way is mapped;
  then a terminal order_ack finds its entry.  *OrphanInv* follows one order from the place command
  to its end: it is safe as long as `our_orders`, a cancel on its way or an
  acknowledgement on its way accounts for it, and every step that takes one of the
  three away provides another, ends the order or is one of the noted exceptions.
* **Feed.**  Both ways of a tick are queues, and the claim about each is that the
  newest element of a kind in the queue is the current value, or there is none and
  the receiver already has it (*CacheIsOnItsWay* for ring and trader,
  *OptionsFollow* and *UnderlyingFollows* for channel and daemon).  Lemmas about
  Append, Tail and the last index of a kind carry the steps.  For the surfaces,
  *PositiveWasShown*: a positive price in the channel or in the daemon was shown
  by the gateway, and what was shown stays shown.
* **Accounting, the book.**  *AccountInv*: the index finds what the vector holds
  (*BookOK*), and what the histories recorded -- net quantity of each key, cash,
  P&L that a merge realised -- are sums over the vector (*LedgerOK*).  Sums are
  folds over finite sets; that one changes by a term when a term is replaced,
  appended or taken out of the middle, where the later ones move up, is shown by a
  smallest counterexample (*SmallestOf*, *LeastOf*), in place of the induction
  theorems.  An identity of four sums then accounts for the options (*OptionsPnl*);
  with the hedge's P&L, which is exact (below), it gives
  `DailyPnlOmitsHedgeAndRealised`.
* **Accounting, the gates.**  `TheWayBackIsOpen` goes through `check` gate by gate.
  For `GatedBooksStayInside` the invariant *InsideOK* speaks of the book with the
  Greeks that a refresh would give it (*WithinLimits*): the figures that `check`
  predicts for a fill are those of the book after `add_fill` and refresh, because
  each is a sum over the vector to which the fill adds its own term; a merge into a
  held position and the removal of a closed one included.  Theta alone is not
  predicted: `check` multiplies it once too often, and what the gate needs is that
  it then only errs on the safe side (*WorseByMore*).
* **Accounting, the hedge.**  Fractions are in lowest terms, so equal amounts are
  equal records only if lowest terms are unique: *LowestTerms* derives that from
  the definition of `Gcd` as a maximum.  *HedgePnlOK* says that realised P&L,
  cash and average have a common denominator over which "realised = cash +
  average * position" holds of integers; `PlusIs`, `TimesIs` and `QuotientIs` carry
  it through `apply_fill` and `replace`.  *AverageOK*: an open position has entry
  prices and its average lies between two of them; extending a long or a short
  position makes a weighted average with weights of one sign (*Weighted*).
  Assumptions: finitely many keys and scenarios; Greeks and losses are integers (a
  table in units fine enough; the code's `f64` is not modelled); prices are positive;
  no fill and no seeded position has quantity 0, since the adapter's cache drops an
  empty position (`broker.rs:326-332`).

**Only model-checked**, and why:

* everything live (`PublishedIsRead`, `EveryEventIsRead`, `BreachIsActedOn`,
  `HaltIsLifted`, `PlaceReturns`, `SweepRuns`, `OpenHedgeIsRepaired`, `BootEnds`):
  fairness is out of the proof system's reach;
* `Connection`, which has only a liveness property.

Every invariant and every other action property of a passing run is proved.

## 5. Divergences between the code and what is said of it

With a run (see `findings`): the inverted locks of `handle_place`; the kill that
cancels nothing; the lost connection nobody is told of.

Met while modelling, without a run of their own:

* A broker restart during the trader's `read_available` leaves `read_offset` ahead
  of the new `write_offset` (`corsair_ipc/src/ring.rs:226`), where
  `ring.rs:33-38` and `server.rs:62-64` speak of an empty ring and idempotence.
* A byte of the FIFO can be drained together with the event it announces unread
  (`corsair_trader/src/main.rs:245`; the comment at 223-225 reasons otherwise); the
  100 ms timeout makes up for it.
* A halt that fires after 17:00 and before the minute's tick is lifted in its own
  session (`corsair_broker/src/tasks.rs:672`; `corsair_risk/src/kill.rs:23`).
* A kill does not survive a restart (`corsair_risk/src/monitor.rs:79`;
  `docs/rust_runtime_v3.md:640`), though a breach that lasts fires again.
* `handle_place` does not ask for the kill (`corsair_broker/src/ipc.rs:285`;
  `docs/hg_spec_v1.4.md:485`).
* `PreSubmitted` does not acknowledge a placement (`broker.rs:382`, comment at
  375-377); `OpenOrder` does.
* A reconcile between a position message and its fill counts the execution twice
  until the next reconcile (`corsair_hedge/src/manager.rs:345`, comment at 95).
* A closed position leaves the cache (`broker.rs:326-332`), and the periodic
  reconcile visits only positions that exist (`tasks.rs:466`): a `hedge_qty` that
  differs from a flat position stays, where `tasks.rs:454-456` says that the
  reconcile "catches divergences from non-filling IOCs".
* A position opened by a fill has delta 0 until the Greeks are refreshed
  (`corsair_position/src/portfolio.rs:190`; `tasks.rs:150-153` rebalances on it).
* The daily halt's P&L (`corsair_risk/src/monitor.rs:204-205`, `249-250`) is the
  option book's mark to market and `realized_pnl_persisted`.  The latter is never
  written, and `add_fill` sets the average to the last price, where `position.rs`
  speaks of a volume-weighted one: what fills on held positions realised is lost.
  The hedge is left out altogether, its mark to market and what it realised, where
  `docs/hg_spec_v1.4.md:482` and `corsair_hedge/src/manager.rs:7` have it counted and
  `include_in_daily_pnl` (`corsair_broker/src/config.rs:146`, by default true) is
  asked by nobody.  `DailyPnlOmitsHedgeAndRealised` says that these two are exactly
  what is missing; it holds, and is how the halt fails its specification.
* `check` multiplies the theta of the fill by the multiplier (`checker.rs:183`),
  which `compute_greeks` has already done (`corsair_pricing/src/greeks.rs:91`;
  `position.rs:42` calls it dollar-denominated).  The gate therefore sees a change of
  theta that is larger than the one that comes.
* An option expires at 16:00 UTC for the margin (`tasks.rs:751`) and at 20:00 UTC for
  the Greeks (`portfolio.rs:381`): `Unscanned` and `Expired` in the modules.
* `update_cached_margin` falls back to a scale of 1 outside its band, where its
  comment (`checker.rs:114-118`) says that the update is skipped.
  `ConstraintChecker::check` has no caller in the daemon; `Accounting` has one
  that asks it before the fill, as its comment describes.
* Option fills are not deduplicated by exec id (`tasks.rs:126`), and the adapter
  broadcasts every execDetails (`broker.rs:427`), where
  `corsair_broker_api/src/events.rs:14` says that adapters deduplicate
  (`Hedge!GwRepeat` repeats executions of both kinds; only those of the hedge are
  recognised).
* Seeding goes on after its timeout (`runtime.rs:302`), where `broker.rs:242-244`
  says not to read a partial snapshot; the promised retry of the hedge contract
  (`runtime.rs:284`) and of the option subscriptions (`subscriptions.rs:93`) does
  not exist; a fill during the boot is lost or counted twice; with positions in
  several futures the last one seeds the hedge, whichever contract it is.
* A modification is built from the cache: two in a row, the second before the
  first one's openOrder, take the first one's price back (`broker.rs:1078`); a
  good-till-date order cannot be modified without a new date, since the decoder
  does not read the old one (`broker.rs:700`).
* A shutdown cancels no resting order.  In shadow mode `place_hedge_order` and
  `cancel_all_resting` still send (`runtime.rs:36`: "In shadow we don't place
  orders").  No code of the daemon calls `force_flat` or `flatten_on_halt`, so
  a kill of type HedgeFlat leaves the hedge.
* The tick publisher is installed after the subscriptions: a side that ticked
  before does not reach the trader until it ticks again.  A withdrawn quote
  stays in the daemon's market data and is withdrawn at the trader.
* One option without a two-sided market leaves the product without a surface
  (`vol_surface.rs:195`).  Surfaces are published with side BOTH, stored under 'B'
  and looked up under 'C' and 'P' (`decision.rs:120-126`): the daemon's surfaces
  are never found, where `ipc.rs:546-547` says that the lookup hits.
* Observe mode books hedge fills at a fixed price of 6.0 (`manager.rs:154`).
* The trader rounds to the tick after testing edge and crossing
  (`corsair_trader/src/decision.rs:231`), so a quote can be at the other side's
  best or half a tick short of its edge (comment at 201-203); and the tick-jump
  branch cannot be taken, since `target < jumped` contradicts
  `theo - jumped >= edge`.
* The trader's messages and the daemon's are not the same protocol:
  `ipc.rs:172` says of the wire types that they "must match what the trader expects", but the daemon
  decodes placements with `instrument_id` and cancels with `order_id` where the
  trader writes strike, expiry and right, and `orderId`, and it sends
  `order_status` where the trader handles `place_ack` and `order_ack`.
  `TraderQuotes` therefore has the broker that `messages.rs` names.

## 6. Not modelled

Pricing and calibration (floating point) beyond the combination of the SPAN scan;
the byte codec and the requests that carry no order; `recent_fills` and
`unsubscribe_ticks`, which the daemon never calls; the OMS order book, into which
nothing is inserted; observe and shadow mode; the restart of either process under
the other's feet (section 5); the parsing of configuration and of event JSON; the
snapshot publisher and the dashboards, the Python reference trader, the operators'
scripts (they appear as the environment that writes sentinels), logging, telemetry
and JSONL.

## 7. Plan

Done: the ring, the hot loop and what it carries, the locks, the kill switch, the
order path with its encodings, the connection, the boot, the hedge, the trader's
quotes, and book, hedge accounting and gates in one composition.

The proofs cover every safety property of the passing runs: the ring down to its
frames, the locks, the kill switch, the hedge, the order path, the boot, the
trader's quotes, the feed and the accounting (section 4).

What could come next: the restart of the daemon under a reading trader, observe
mode of the hedge, and a kill that races a `place_order` waiting for the broker
lock; none of them has a property here.
