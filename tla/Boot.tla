-------------------------------- MODULE Boot --------------------------------
(***************************************************************************)
(* Boot: the daemon's start, from the gateway's handshake to a book that   *)
(* is seeded, pumps that listen and options that are registered.  The main *)
(* task walks through Runtime::new, spawn_all and subscribe_market_data;   *)
(* the recv task and the dispatcher feed it; the gateway answers late,     *)
(* with an error or never; the link may break; a resting order may fill.   *)
(* The broker lock is held by the main task while it awaits an answer.     *)
(***************************************************************************)
EXTENDS Integers, SequencesExt, FiniteSetsExt

CONSTANTS
  Futures,               \* the chain: futures by expiry
  Lockout,               \* first expiry past the hedge lockout
  Options,               \* options to qualify, a sequence
  Account,               \* [instrument -> quantity] when the daemon starts
  Resting,               \* <<instrument, quantity>>: one such order rests
  MaxMishaps             \* bound: frames dropped and links lost

Opts == ToSet(Options)
Instruments == Futures \cup Opts

ASSUME BootAssumption ==
  /\ Futures \subseteq Nat /\ IsFiniteSet(Futures) /\ Futures # {} /\ Lockout \in Nat
  /\ Options \in Seq(Opts)
  /\ Futures \cap Opts = {}
  /\ Account \in [Instruments -> Int] /\ Resting \subseteq Instruments \X Int
  /\ MaxMishaps \in Nat

VARIABLES
  pc,                    \* where the main task is
  jobs,                  \* the contract queries it still has to make
  link,                  \* "down", "up" or "lost"
  bootstrap,             \* received of "managedAccounts", "nextValidId"
  account,               \* the gateway's positions
  resting,               \* orders that rest at the gateway
  todo,                  \* streams that the gateway has yet to send
  mishaps,               \* frames dropped and links lost so far
  cache, done,           \* BrokerState.positions, SeedingProgress
  next_req_id, pending,  \* pending_contract_details: [id -> contracts so far]
  reply,                 \* what the oneshot of the current query holds
  subscribed, fillq,     \* pumps that listen; fills broadcast to pump_fills
  underlying,            \* market data: future registered, and priced?
  registered,            \* market data: [option -> contract]
  hedge_contract, hedge_qty,
  book,                  \* PortfolioState
  asked,                 \* history: user requests were sent
  whole,                 \* history: positions_done when the book was seeded
  quiet                  \* history: no fill while the daemon was starting

vars == <<pc, jobs, link, bootstrap, account, resting, todo, mishaps, cache,
          done, next_req_id, pending, reply, subscribed, fillq, underlying,
          registered, hedge_contract, hedge_qty, book, asked, whole, quiet>>

None == 0                      \* no contract
Unanswered == [answered |-> FALSE, contracts |-> <<>>]
Reply(contracts) == [answered |-> TRUE, contracts |-> contracts]
Pumps == {"fills", "ticks"}
BootstrapMsgs == {"managedAccounts", "nextValidId"}
Ends == {"positions", "open_orders", "account"}

(* What the main task asks for, in this order. *)
HedgeChain == <<"chain", "hedge">>
UnderlyingChain == <<"chain", "underlying">>
AllJobs == <<HedgeChain, UnderlyingChain>> \o [i \in DOMAIN Options |-> <<"option", Options[i]>>]

(* Messages of the gateway *)
Msg(type, id, body) == [type |-> type, id |-> id, body |-> body]

mainVars == <<pc, jobs>>
gatewayVars == <<link, account, resting, todo>>
recvVars == <<bootstrap, mishaps>>
adapterVars == <<cache, done, next_req_id, pending, reply>>
pumpVars == <<subscribed, fillq>>
daemonVars == <<underlying, registered, hedge_contract, hedge_qty, book>>
histories == <<asked, whole, quiet>>

-----------------------------------------------------------------------------
(* The gateway (external).  A stream is a sequence; streams interleave.    *)

Stream(name) == <<"stream", name>>
Owes(stream, msgs) == [s \in DOMAIN todo \cup {stream} |-> IF s = stream THEN msgs ELSE todo[s]]

(* A position is sent with the value it has when it is sent. *)
Current(msg) ==
  IF msg.type = "position" THEN [msg EXCEPT !.body = account[msg.id]] ELSE msg

Sent(s) ==
  [t \in {t \in DOMAIN todo : t # s \/ Len(todo[s]) > 1} |->
     IF t = s THEN Tail(todo[s]) ELSE todo[t]]

(* A resting order fills: the execution is sent and, if positions were     *)
(* requested, the new position.                                            *)
Execute(i, qty) ==
  /\ link = "up" /\ asked
  /\ <<i, qty>> \in resting /\ resting' = resting \ {<<i, qty>>}
  /\ account' = [account EXCEPT ![i] = @ + qty]
  /\ todo' = Owes(Stream("fill"), <<Msg("execution", i, qty), Msg("position", i, 0)>>)
  /\ quiet' = (quiet /\ pc = "running" /\ subscribed = Pumps)
  /\ UNCHANGED <<mainVars, link, recvVars, adapterVars, pumpVars, daemonVars, asked, whole>>

(* EOF or a read error: the recv task exits.  The dispatcher still routes  *)
(* the frames that it was handed; whatever else the gateway owed never     *)
(* comes, as it may not come on a link that is up.                         *)
LinkLost ==
  /\ link = "up" /\ mishaps < MaxMishaps
  /\ link' = "lost" /\ mishaps' = mishaps + 1
  /\ UNCHANGED <<mainVars, account, resting, todo, bootstrap, adapterVars, pumpVars,
                 daemonVars, histories>>

-----------------------------------------------------------------------------
(* The recv task and the dispatcher.  A frame may wait in the channel      *)
(* between them as it may wait at the gateway, so both are one step.       *)

Deliver(id, result) ==
  /\ reply' = IF id \in DOMAIN pending THEN result ELSE reply
  /\ pending' = [r \in DOMAIN pending \ {id} |-> pending[r]]

RoutePosition(msg) ==
  /\ msg.type = "position"
  /\ cache' = [cache EXCEPT ![msg.id] = msg.body]
  /\ UNCHANGED <<done, pending, reply, fillq, underlying>>

RouteEnd(msg) ==
  /\ msg.type = "end"
  /\ done' = done \cup {msg.id}
  /\ UNCHANGED <<cache, pending, reply, fillq, underlying>>

DetailsToAnyWaiter(msg) ==
  /\ msg.type = "details"
  /\ pending' = [r \in DOMAIN pending |-> Append(pending[r], msg.body)]
  /\ UNCHANGED <<cache, done, reply, fillq, underlying>>

RouteContractDetails(msg) ==
  /\ msg.type = "details"
  /\ pending' = [r \in DOMAIN pending |->
                   IF r = msg.id THEN Append(pending[r], msg.body) ELSE pending[r]]
  /\ UNCHANGED <<cache, done, reply, fillq, underlying>>

RouteContractDetailsEnd(msg) ==
  /\ msg.type = "detailsEnd"
  /\ Deliver(msg.id, Reply(IF msg.id \in DOMAIN pending THEN pending[msg.id] ELSE <<>>))
  /\ UNCHANGED <<cache, done, fillq, underlying>>

RouteError(msg) ==
  /\ msg.type = "error"
  /\ Deliver(msg.id, Reply(<<>>))
  /\ UNCHANGED <<cache, done, fillq, underlying>>

(* A broadcast reaches the receivers that have subscribed. *)
RouteExecution(msg) ==
  /\ msg.type = "execution"
  /\ fillq' = IF "fills" \in subscribed THEN Append(fillq, <<msg.id, msg.body>>) ELSE fillq
  /\ UNCHANGED <<cache, done, pending, reply, underlying>>

RouteTick(msg) ==
  /\ msg.type = "tick"
  /\ underlying' = IF "ticks" \in subscribed THEN [underlying EXCEPT !.priced = TRUE]
                   ELSE underlying
  /\ UNCHANGED <<cache, done, pending, reply, fillq>>

(* nextValidId and managedAccounts: noted by the recv task, not routed. *)
RouteBootstrap(msg) ==
  /\ link = "up" /\ msg.type \in BootstrapMsgs
  /\ bootstrap' = bootstrap \cup {msg.type}
  /\ UNCHANGED <<cache, done, pending, reply, fillq, underlying>>

Receive(s) ==
  /\ LET msg == Current(Head(todo[s])) IN
       \/ RouteBootstrap(msg)
       \/ /\ \/ RoutePosition(msg) \/ RouteEnd(msg)
             \/ RouteContractDetails(msg) \/ RouteContractDetailsEnd(msg)
             \/ RouteError(msg) \/ RouteExecution(msg) \/ RouteTick(msg)
          /\ UNCHANGED bootstrap
  /\ todo' = Sent(s)
  /\ UNCHANGED <<mainVars, link, account, resting, mishaps, next_req_id, subscribed,
                 registered, hedge_contract, hedge_qty, book, histories>>

(* The channel is full: try_send drops the frame. *)
DropFrame(s) ==
  /\ link = "up" /\ asked /\ mishaps < MaxMishaps
  /\ todo' = Sent(s) /\ mishaps' = mishaps + 1
  /\ UNCHANGED <<mainVars, link, account, resting, bootstrap, adapterVars, pumpVars,
                 daemonVars, histories>>

-----------------------------------------------------------------------------
(* connect *)

(* TCP connect, version handshake and startApi. *)
client_connect ==
  /\ pc = "connect"
  /\ pc' = "bootstrap" /\ link' = "up"
  /\ todo' = [s \in {Stream(t) : t \in BootstrapMsgs} |-> <<Msg(s[2], 0, 0)>>]
  /\ UNCHANGED <<jobs, account, resting, recvVars, adapterVars, pumpVars, daemonVars, histories>>

(* Refused, timed out, or the server's version is too low. *)
ConnectFails ==
  /\ pc = "connect"
  /\ pc' = "failed"
  /\ UNCHANGED <<jobs, gatewayVars, recvVars, adapterVars, pumpVars, daemonVars, histories>>

EitherBootstrapped == bootstrap # {}
Bootstrapped == bootstrap = BootstrapMsgs

wait_for_bootstrap ==
  /\ pc = "bootstrap" /\ Bootstrapped
  /\ pc' = "requests"
  /\ UNCHANGED <<jobs, gatewayVars, recvVars, adapterVars, pumpVars, daemonVars, histories>>

BootstrapTimeout ==
  /\ pc = "bootstrap" /\ ~Bootstrapped
  /\ pc' = "failed"
  /\ UNCHANGED <<jobs, gatewayVars, recvVars, adapterVars, pumpVars, daemonVars, histories>>

(* reqAccountUpdates, reqPositions, reqOpenOrders.  On a lost link a write *)
(* may fail, which fails the boot, or go nowhere.                          *)
PositionStream ==
  LET held == {i \in Instruments : account[i] # 0}
  IN SetToSeq({Msg("position", i, 0) : i \in held}) \o <<Msg("end", "positions", 0)>>

OtherEnds == <<Msg("end", "account", 0), Msg("end", "open_orders", 0)>>

SendRequests ==
  /\ pc = "requests"
  /\ pc' = "seeding" /\ asked' = TRUE
  /\ todo' = IF link = "up"
             THEN [s \in DOMAIN todo \cup {Stream("positions"), Stream("others")} |->
                     IF s = Stream("positions") THEN PositionStream
                     ELSE IF s = Stream("others") THEN OtherEnds ELSE todo[s]]
             ELSE todo
  /\ UNCHANGED <<jobs, link, account, resting, recvVars, adapterVars, pumpVars, daemonVars, whole, quiet>>

SendRequestsFails ==
  /\ pc = "requests" /\ link = "lost"
  /\ pc' = "failed"
  /\ UNCHANGED <<jobs, gatewayVars, recvVars, adapterVars, pumpVars, daemonVars, histories>>

-----------------------------------------------------------------------------
(* Seeding *)

wait_for_seeding ==
  /\ pc = "seeding" /\ done = Ends
  /\ pc' = "query"
  /\ UNCHANGED <<jobs, gatewayVars, recvVars, adapterVars, pumpVars, daemonVars, histories>>

SeedingWaitsForever == FALSE /\ UNCHANGED vars

(* After 15 s the boot goes on with what has arrived. *)
SeedingTimeout ==
  /\ pc = "seeding" /\ done # Ends
  /\ pc' = "query"
  /\ UNCHANGED <<jobs, gatewayVars, recvVars, adapterVars, pumpVars, daemonVars, histories>>

SeedOptionsOnly ==
  /\ pc = "seed"
  /\ pc' = "spawn"
  /\ book' = [o \in Opts |-> cache[o]]
  /\ whole' = ("positions" \in done)
  /\ UNCHANGED <<jobs, gatewayVars, recvVars, adapterVars, pumpVars, underlying, registered,
                 hedge_contract, hedge_qty, asked, quiet>>

(* Options replace the book; a future, whatever its expiry, becomes the    *)
(* hedge position (the last of several).                                   *)
seed_positions_from_broker ==
  /\ pc = "seed"
  /\ pc' = "spawn"
  /\ book' = [o \in Opts |-> cache[o]]
  /\ LET held == {f \in Futures : cache[f] # 0}
     IN hedge_qty' \in (IF held = {} THEN {hedge_qty} ELSE {cache[f] : f \in held})
  /\ whole' = ("positions" \in done)
  /\ UNCHANGED <<jobs, gatewayVars, recvVars, adapterVars, pumpVars, underlying, registered,
                 hedge_contract, asked, quiet>>

spawn_all ==
  /\ pc = "spawn"
  /\ pc' = "query"
  /\ UNCHANGED <<jobs, gatewayVars, recvVars, adapterVars, pumpVars, daemonVars, histories>>

-----------------------------------------------------------------------------
(* Contract queries: list_chain for the hedge and for the underlying,      *)
(* qualify_option for each option.                                         *)

Job == Head(jobs)
Answer(job) == IF job[1] = "chain" THEN SetToSeq(Futures) ELSE <<job[2]>>

Details(id, contracts) ==
  [i \in DOMAIN contracts |-> Msg("details", id, contracts[i])]

(* What the gateway may answer: the contracts, or that there are none. *)
Answers(id, job) ==
  {Details(id, Answer(job)) \o <<Msg("detailsEnd", id, 0)>>,
   <<Msg("error", id, 0)>>}

alloc_req_id == next_req_id' = next_req_id + 1

Query ==
  /\ pc = "query" /\ jobs # <<>>
  /\ alloc_req_id
  /\ pending' = [r \in DOMAIN pending \cup {next_req_id} |->
                   IF r = next_req_id THEN <<>> ELSE pending[r]]
  /\ reply' = Unanswered
  /\ pc' = "await"
  /\ todo' \in IF link = "up" THEN {Owes(<<"request", next_req_id>>, a) : a \in Answers(next_req_id, Job)}
               ELSE {todo}
  /\ UNCHANGED <<jobs, link, account, resting, recvVars, cache, done, pumpVars,
                 daemonVars, histories>>

(* Where the main task goes when a query is over; a failed one is logged.  *)
AfterQuery(ok) ==
  CASE Job = HedgeChain -> "seed"
    [] Job = UnderlyingChain -> IF ok THEN "first_tick" ELSE "running"
    [] OTHER -> "query"

(* send_raw fails and returns early: the pending entry stays. *)
QueryFails ==
  /\ pc = "query" /\ jobs # <<>> /\ link = "lost"
  /\ alloc_req_id
  /\ pending' = [r \in DOMAIN pending \cup {next_req_id} |->
                   IF r = next_req_id THEN <<>> ELSE pending[r]]
  /\ pc' = AfterQuery(FALSE) /\ jobs' = Tail(jobs)
  /\ UNCHANGED <<gatewayVars, recvVars, cache, done, reply, pumpVars,
                 daemonVars, histories>>

Earliest(contracts, min_expiry) == Min({c \in ToSet(contracts) : c >= min_expiry})

resolve_hedge_contracts(contracts) ==
  /\ Job = HedgeChain
  /\ hedge_contract' = IF \E c \in ToSet(contracts) : c >= Lockout
                       THEN Earliest(contracts, Lockout) ELSE hedge_contract
  /\ UNCHANGED <<underlying, registered, todo>>

(* The underlying's ticks.  A subscription that fails on a lost link ends  *)
(* like one whose ticks never come.  The options' ticks are in Feed.       *)
subscribe_ticks ==
  todo' = IF link = "up" THEN Owes(Stream("ticks"), <<Msg("tick", 0, 0)>>) ELSE todo

(* resolve_underlying, register_underlying, and ticks subscribed. *)
resolve_underlying(contracts) ==
  /\ Job = UnderlyingChain
  /\ IF contracts = <<>> THEN UNCHANGED <<underlying, todo>>
     ELSE /\ underlying' = [underlying EXCEPT !.contract = Earliest(contracts, 0)]
          /\ subscribe_ticks
  /\ UNCHANGED <<hedge_contract, registered>>

qualify_and_subscribe(contracts) ==
  /\ Job[1] = "option"
  /\ registered' = IF contracts = <<>> THEN registered
                   ELSE [o \in DOMAIN registered \cup {Job[2]} |->
                           IF o = Job[2] THEN contracts[1] ELSE registered[o]]
  /\ UNCHANGED <<hedge_contract, underlying, todo>>

Answered ==
  /\ pc = "await" /\ reply.answered
  /\ \/ resolve_hedge_contracts(reply.contracts)
     \/ resolve_underlying(reply.contracts)
     \/ qualify_and_subscribe(reply.contracts)
  /\ pc' = AfterQuery(reply.contracts # <<>>) /\ jobs' = Tail(jobs)
  /\ reply' = Unanswered
  /\ UNCHANGED <<link, account, resting, recvVars, cache, done, next_req_id, pending,
                 pumpVars, hedge_qty, book, histories>>

(* The caller gives up and removes its entry. *)
QueryTimeout ==
  /\ pc = "await" /\ ~reply.answered
  /\ pending' = [r \in DOMAIN pending \ {next_req_id - 1} |-> pending[r]]
  /\ pc' = AfterQuery(FALSE) /\ jobs' = Tail(jobs)
  /\ UNCHANGED <<gatewayVars, recvVars, cache, done, next_req_id, reply,
                 pumpVars, daemonVars, histories>>

(* wait_for_underlying: without a tick in 10 s the options are skipped.    *)
wait_for_underlying ==
  /\ pc = "first_tick" /\ underlying.priced
  /\ pc' = "query"
  /\ UNCHANGED <<jobs, gatewayVars, recvVars, adapterVars, pumpVars, daemonVars, histories>>

FirstTickTimeout ==
  /\ pc = "first_tick" /\ ~underlying.priced
  /\ pc' = "running"
  /\ UNCHANGED <<jobs, gatewayVars, recvVars, adapterVars, pumpVars, daemonVars, histories>>

SubscriptionDone ==
  /\ pc = "query" /\ jobs = <<>>
  /\ pc' = "running"
  /\ UNCHANGED <<jobs, gatewayVars, recvVars, adapterVars, pumpVars, daemonVars, histories>>

-----------------------------------------------------------------------------
(* The pumps.  They were spawned when the hedge is behind; a pump needs    *)
(* the broker lock to subscribe.                                           *)

Spawned == HedgeChain \notin ToSet(jobs) /\ pc \notin {"seed", "spawn"}

PumpSubscribes(p) ==
  /\ Spawned /\ pc # "await"
  /\ p \notin subscribed
  /\ subscribed' = subscribed \cup {p}
  /\ UNCHANGED <<mainVars, gatewayVars, recvVars, adapterVars, fillq, daemonVars, histories>>

(* handle_fill: the hedge, a registered option, or ignored. *)
handle_fill ==
  /\ fillq # <<>>
  /\ fillq' = Tail(fillq)
  /\ LET i == Head(fillq)[1]
         qty == Head(fillq)[2]
     IN /\ hedge_qty' = IF i = hedge_contract THEN hedge_qty + qty ELSE hedge_qty
        /\ book' = IF i \in DOMAIN registered THEN [book EXCEPT ![i] = @ + qty] ELSE book
  /\ UNCHANGED <<mainVars, gatewayVars, recvVars, adapterVars, subscribed, underlying,
                 registered, hedge_contract, histories>>

-----------------------------------------------------------------------------
Init ==
  /\ pc = "connect" /\ jobs = AllJobs
  /\ link = "down" /\ bootstrap = {} /\ account = Account /\ resting \in {{r} : r \in Resting}
  /\ todo = <<>> /\ mishaps = 0
  /\ cache = [i \in Instruments |-> 0] /\ done = {}
  /\ next_req_id = 1 /\ pending = <<>> /\ reply = Unanswered
  /\ subscribed = {} /\ fillq = <<>>
  /\ underlying = [contract |-> None, priced |-> FALSE] /\ registered = <<>>
  /\ hedge_contract = None /\ hedge_qty = 0
  /\ book = [o \in Opts |-> 0]
  /\ asked = FALSE /\ whole = FALSE /\ quiet = TRUE

MainWalks ==
  \/ client_connect \/ ConnectFails \/ wait_for_bootstrap \/ BootstrapTimeout
  \/ SendRequests \/ SendRequestsFails \/ wait_for_seeding \/ SeedingTimeout
  \/ seed_positions_from_broker \/ spawn_all
  \/ Query \/ QueryFails \/ Answered \/ QueryTimeout
  \/ wait_for_underlying \/ FirstTickTimeout \/ SubscriptionDone

Next ==
  \/ \E s \in DOMAIN todo : Receive(s) \/ DropFrame(s)
  \/ \E f \in resting : Execute(f[1], f[2])
  \/ LinkLost
  \/ MainWalks
  \/ \E p \in Pumps : PumpSubscribes(p)
  \/ handle_fill

(* Tasks run when they can, and a wait ends by its timeout at the latest;  *)
(* nothing is assumed of the gateway.                                      *)
Fairness ==
  /\ WF_vars(MainWalks) /\ WF_vars(handle_fill)
  /\ \A p \in Pumps : WF_vars(PumpSubscribes(p))

Spec == Init /\ [][Next]_vars /\ Fairness

-----------------------------------------------------------------------------
(* No request precedes the gateway's bootstrap answers: one that does      *)
(* makes the gateway hang up without a word.                               *)
BootstrapBeforeRequests == asked => bootstrap = BootstrapMsgs

(* An answer reaches the query that it answers, also when earlier queries  *)
(* timed out and are answered now: every option is registered under its    *)
(* own contract, and the hedge is in the first future past the lockout.    *)
AnswersMatchQueries ==
  /\ \A o \in DOMAIN registered : registered[o] = o
  /\ hedge_contract # None /\ mishaps = 0 => hedge_contract = Earliest(SetToSeq(Futures), Lockout)
  /\ underlying.contract # None /\ mishaps = 0 => underlying.contract = Min(Futures)

Settled ==
  /\ pc = "running" /\ subscribed = Pumps /\ link = "up"
  /\ DOMAIN todo = {} /\ fillq = <<>>

(* The account's only future is the one the hedge trades. *)
OnlyTheHedge ==
  hedge_contract # None /\ \A f \in Futures \ {hedge_contract} : Account[f] = 0

(* Once the daemon is up and has processed what it was sent, its book and  *)
(* its hedge are the account's, if the snapshot was complete, the options  *)
(* were registered, no order filled while it started and the account held  *)
(* no future but the one the hedge trades: seeding takes any future for    *)
(* the hedge.                                                              *)
BookMatchesAccount ==
  Settled /\ whole /\ quiet /\ mishaps = 0 /\ DOMAIN registered = Opts /\ OnlyTheHedge =>
    /\ \A o \in Opts : book[o] = account[o]
    /\ hedge_qty = account[hedge_contract]

(* Whatever the gateway and the link do, the boot ends: it fails, or the   *)
(* daemon runs and its pumps listen.                                       *)
BootEnds == <>(pc = "failed" \/ (pc = "running" /\ subscribed = Pumps))
=============================================================================
