----------------------------- MODULE BootProofs -----------------------------
(***************************************************************************)
(* Boot for every chain of futures, every list of options, every account   *)
(* and any number of lost frames and links: no request precedes the        *)
(* gateway's bootstrap, an answer is used for the query it answers,        *)
(* however late it comes, and a boot without mishaps ends with the         *)
(* account's positions in the book and in the hedge.                       *)
(***************************************************************************)
EXTENDS Boot, DataTheorems, FiniteSetTheorems, TLAPS

(* The bootstrap: what has arrived at each point of the main task. *)
Early == {"connect", "bootstrap", "failed"}

BootstrapInv ==
  /\ bootstrap \subseteq BootstrapMsgs
  /\ pc \in {"connect", "bootstrap"} => ~asked
  /\ pc \notin Early => bootstrap = BootstrapMsgs
  /\ BootstrapBeforeRequests

-----------------------------------------------------------------------------
(* The queries *)

Plain == {"managedAccounts", "nextValidId", "position", "end", "execution", "tick"}
Message == [type : Plain \cup {"details", "detailsEnd", "error"},
            id : Nat \cup Instruments \cup Ends, body : Int \cup Instruments]

JobSet == {HedgeChain, UnderlyingChain} \cup {<<"option", o>> : o \in Opts}

(* The current query, the stream of its answer and the contracts in it. *)
Req == next_req_id - 1
Key == <<"request", Req>>
All == ToSet(Answer(Job))
Waiting == pc = "await" /\ ~reply.answered

(* A stream is an answer to a query made, or one of these, which have      *)
(* nothing for queries.                                                    *)
Others == {Stream(n) : n \in BootstrapMsgs \cup {"positions", "others", "fill", "ticks"}}

AnswerStream(s, queue, next) ==
  \E r \in Nat : r < next /\ s = <<"request", r>> /\ \A i \in 1 .. Len(queue) : queue[i].id = r

Streams ==
  \A s \in DOMAIN todo :
    /\ todo[s] \in Seq(Message) /\ todo[s] # <<>>
    /\ \/ s \in Others /\ \A i \in 1 .. Len(todo[s]) : todo[s][i].type \in Plain
       \/ AnswerStream(s, todo[s], next_req_id)

(* The details under way and those collected belong to the answer. *)
Belongs(queue, all) == \A i \in 1 .. Len(queue) : queue[i].type = "details" => queue[i].body \in all

(* Nothing was lost: with what was collected, the rest of the stream is    *)
(* the whole answer, or it is an error and there is nothing.               *)
Complete(queue, got, all) ==
  \/ Len(queue) = 1 /\ queue[1].type = "error" /\ got = <<>>
  \/ /\ queue[Len(queue)].type = "detailsEnd"
     /\ \A i \in 1 .. Len(queue) - 1 : queue[i].type = "details"
     /\ ToSet(got) \cup {queue[i].body : i \in 1 .. Len(queue) - 1} = all

Shapes ==
  /\ next_req_id \in Nat \ {0} /\ mishaps \in Nat
  /\ jobs \in Seq(JobSet) /\ (pc = "await" => jobs # <<>>)
  /\ link \in {"down", "up", "lost"} /\ (link = "lost" => mishaps > 0)
  /\ (link = "down" => pc \in {"connect", "failed"}) /\ (pc = "connect" => link = "down")
  /\ reply.answered \in BOOLEAN
  /\ underlying = [contract |-> underlying.contract, priced |-> underlying.priced]
  /\ resting \subseteq Instruments \X Int
  /\ account \in [Instruments -> Int]

(* Only the current query can be answered: an entry that was left behind   *)
(* when a write failed on a lost link has no answer under way.             *)
OneWaiter ==
  \A r \in DOMAIN pending :
    (Waiting /\ r = Req) \/ (link = "lost" /\ <<"request", r>> \notin DOMAIN todo)

Collected ==
  Waiting /\ Req \in DOMAIN pending =>
    /\ pending[Req] \in Seq(Int \cup Instruments) /\ ToSet(pending[Req]) \subseteq All
    /\ Key \in DOMAIN todo => Belongs(todo[Key], All)

NothingLost ==
  Waiting /\ mishaps = 0 =>
    Req \in DOMAIN pending /\ Key \in DOMAIN todo /\ Complete(todo[Key], pending[Req], All)

RightReply ==
  pc = "await" /\ reply.answered =>
    /\ reply.contracts \in Seq(Int \cup Instruments) /\ ToSet(reply.contracts) \subseteq All
    /\ mishaps = 0 => reply.contracts = <<>> \/ ToSet(reply.contracts) = All

QueryInv == /\ Shapes /\ Streams /\ OneWaiter /\ Collected /\ NothingLost /\ RightReply
            /\ AnswersMatchQueries

-----------------------------------------------------------------------------
(* The bootstrap *)

(* Nothing is asked for and nothing has arrived before the start. *)
LEMMA BootstrapInit == Init => BootstrapInv
BY DEF Init, BootstrapInv, Early, BootstrapMsgs, BootstrapBeforeRequests

(* Only the bootstrap's messages add to it, and only wait_for_bootstrap    *)
(* leaves it, when both are there.                                         *)
LEMMA BootstrapNext == BootstrapInv /\ [Next]_vars => BootstrapInv'
<1> SUFFICES ASSUME BootstrapInv, [Next]_vars PROVE BootstrapInv'
  OBVIOUS
<1> USE DEF mainVars, gatewayVars, recvVars, adapterVars, pumpVars, daemonVars, histories
<1>1. ASSUME UNCHANGED <<pc, asked>>, bootstrap' = bootstrap PROVE BootstrapInv'
  BY <1>1 DEF BootstrapInv, BootstrapBeforeRequests, Early
<1>2. ASSUME NEW s \in DOMAIN todo, Receive(s) PROVE BootstrapInv'
  <2>1. /\ UNCHANGED <<pc, asked>>
        /\ bootstrap' = bootstrap \/ \E m \in BootstrapMsgs : bootstrap' = bootstrap \cup {m}
    BY <1>2 DEF Receive, RouteBootstrap
  <2>2. BootstrapMsgs \subseteq bootstrap => bootstrap' = bootstrap
    BY <2>1
  <2> QED
    BY <2>1, <2>2 DEF BootstrapInv, BootstrapBeforeRequests, Early
<1>3. ASSUME NEW s \in DOMAIN todo, DropFrame(s) PROVE BootstrapInv'
  BY <1>1, <1>3 DEF DropFrame
<1>4. ASSUME NEW f \in resting, Execute(f[1], f[2]) PROVE BootstrapInv'
  BY <1>1, <1>4 DEF Execute
<1>5. CASE LinkLost
  BY <1>1, <1>5 DEF LinkLost
<1>6. CASE MainWalks
  <2>1. CASE client_connect \/ ConnectFails \/ wait_for_bootstrap \/ BootstrapTimeout
    BY <2>1 DEF client_connect, ConnectFails, wait_for_bootstrap, BootstrapTimeout,
                Bootstrapped, BootstrapInv, BootstrapBeforeRequests, Early
  <2>2. ASSUME pc \notin Early, pc' \notin {"connect", "bootstrap"}, bootstrap' = bootstrap
        PROVE  BootstrapInv'
    BY <2>2 DEF BootstrapInv, BootstrapBeforeRequests
  <2>3. CASE SendRequests \/ SendRequestsFails \/ wait_for_seeding \/ SeedingTimeout
    BY <2>2, <2>3 DEF SendRequests, SendRequestsFails, wait_for_seeding, SeedingTimeout, Early
  <2>4. CASE seed_positions_from_broker \/ spawn_all \/ Query
    BY <2>2, <2>4 DEF seed_positions_from_broker, spawn_all, Query, Early
  <2>5. \A ok \in BOOLEAN : AfterQuery(ok) \notin {"connect", "bootstrap"}
    BY DEF AfterQuery, HedgeChain, UnderlyingChain
  <2>6. CASE QueryFails \/ Answered \/ QueryTimeout
    BY <2>2, <2>5, <2>6 DEF QueryFails, Answered, QueryTimeout, Early
  <2>7. CASE wait_for_underlying \/ FirstTickTimeout \/ SubscriptionDone
    BY <2>2, <2>7 DEF wait_for_underlying, FirstTickTimeout, SubscriptionDone, Early
  <2> QED
    BY <1>6, <2>1, <2>3, <2>4, <2>6, <2>7 DEF MainWalks
<1>7. ASSUME NEW p \in Pumps, PumpSubscribes(p) PROVE BootstrapInv'
  BY <1>1, <1>7 DEF PumpSubscribes
<1>8. CASE handle_fill
  BY <1>1, <1>8 DEF handle_fill
<1>9. CASE UNCHANGED vars
  BY <1>1, <1>9 DEF vars
<1> QED
  BY <1>2, <1>3, <1>4, <1>5, <1>6, <1>7, <1>8, <1>9 DEF Next

(* No request is sent before managedAccounts and nextValidId have arrived. *)
THEOREM NoEarlyRequest == Spec => []BootstrapBeforeRequests
<1>1. BootstrapInv => BootstrapBeforeRequests
  BY DEF BootstrapInv
<1> QED
  BY <1>1, BootstrapInit, BootstrapNext, PTL DEF Spec

-----------------------------------------------------------------------------
(* Queues *)

(* The answer to a chain query is the chain, to an option's its contract. *)
LEMMA AnswerSets ==
  ASSUME NEW job \in JobSet
  PROVE  /\ Answer(job) \in Seq(Instruments)
         /\ job[1] = "chain" => ToSet(Answer(job)) = Futures
         /\ job[1] = "option" => job = <<"option", job[2]>> /\ ToSet(Answer(job)) = {job[2]}
         /\ job[1] \in {"chain", "option"}
<1>1. SetToSeq(Futures) \in Seq(Futures) /\ ToSet(SetToSeq(Futures)) = Futures
  BY InSomeOrder, BootAssumption
<1>2. CASE job \in {HedgeChain, UnderlyingChain}
  <2>1. job[1] = "chain"
    BY <1>2 DEF HedgeChain, UnderlyingChain
  <2> QED
    BY <1>1, <2>1 DEF Answer, Instruments
<1>3. ASSUME NEW o \in Opts, job = <<"option", o>>
      PROVE  /\ job[1] = "option" /\ job[2] = o /\ Answer(job) = <<o>>
             /\ <<o>> \in Seq(Instruments) /\ ToSet(<<o>>) = {o}
  BY <1>3 DEF Answer, Instruments, ToSet
<1> QED
  BY <1>2, <1>3 DEF JobSet


-----------------------------------------------------------------------------
(* Streams *)

(* A frame is taken from a stream; the others are as they were. *)
LEMMA SentShape ==
  ASSUME Streams, NEW s \in DOMAIN todo, todo' = Sent(s)
  PROVE  /\ \A t \in DOMAIN todo' :
              /\ t \in DOMAIN todo
              /\ t # s => todo'[t] = todo[t]
              /\ t = s => todo'[t] = Tail(todo[s]) /\ Len(todo[s]) > 1
         /\ \A t \in DOMAIN todo : t # s => t \in DOMAIN todo'
         /\ Len(todo[s]) > 1 => s \in DOMAIN todo'
BY DEF Sent

(* What is left of the streams is as it should be. *)
LEMMA SentStreams ==
  ASSUME Streams, NEW s \in DOMAIN todo, todo' = Sent(s), next_req_id' = next_req_id
  PROVE  Streams'
<1> SUFFICES ASSUME NEW t \in DOMAIN todo'
             PROVE  /\ todo'[t] \in Seq(Message) /\ todo'[t] # <<>>
                    /\ \/ t \in Others /\ \A i \in 1 .. Len(todo'[t]) : todo'[t][i].type \in Plain
                       \/ AnswerStream(t, todo'[t], next_req_id)
  BY DEF Streams
<1>1. t \in DOMAIN todo
  BY SentShape
<1>2. CASE t # s
  BY <1>1, <1>2, SentShape DEF Streams
<1>3. CASE t = s
  <2>1. todo[s] \in Seq(Message) /\ todo[s] # <<>> /\ todo'[t] = Tail(todo[s]) /\ Len(todo[s]) > 1
    BY <1>3, SentShape DEF Streams
  <2> DEFINE q == todo[s]
  <2>2. /\ Tail(q) \in Seq(Message) /\ Tail(q) # <<>>
        /\ \A i \in 1 .. Len(Tail(q)) : i + 1 \in 1 .. Len(q) /\ Tail(q)[i] = q[i + 1]
    BY <2>1, PopFront
  <2> HIDE DEF q
  <2>3. CASE s \in Others /\ \A i \in 1 .. Len(q) : q[i].type \in Plain
    BY <1>3, <2>1, <2>2, <2>3 DEF q
  <2>4. CASE AnswerStream(s, q, next_req_id)
    <3>1. PICK r \in Nat : r < next_req_id /\ s = <<"request", r>> /\ \A i \in 1 .. Len(q) : q[i].id = r
      BY <2>4 DEF AnswerStream
    <3>2. \A i \in 1 .. Len(Tail(q)) : Tail(q)[i].id = r
      BY <2>2, <3>1
    <3>3. AnswerStream(s, Tail(q), next_req_id)
      BY <3>1, <3>2 DEF AnswerStream
    <3> QED
      BY <1>3, <2>1, <2>2, <3>3 DEF q
  <2> QED
    BY <2>3, <2>4 DEF Streams, q
<1> QED
  BY <1>2, <1>3

(* A stream is owed that has nothing for queries, or answers one made. *)
LEMMA OwesStreams ==
  ASSUME Streams, NEW s, NEW q \in Seq(Message), q # <<>>, todo' = Owes(s, q),
         next_req_id \in Nat, next_req_id' \in Nat, next_req_id' >= next_req_id,
         \/ s \in Others /\ \A i \in 1 .. Len(q) : q[i].type \in Plain
         \/ AnswerStream(s, q, next_req_id')
  PROVE  Streams'
<1> SUFFICES ASSUME NEW t \in DOMAIN todo'
             PROVE  /\ todo'[t] \in Seq(Message) /\ todo'[t] # <<>>
                    /\ \/ t \in Others /\ \A i \in 1 .. Len(todo'[t]) : todo'[t][i].type \in Plain
                       \/ AnswerStream(t, todo'[t], next_req_id')
  BY DEF Streams
<1>1. CASE t = s
  <2>1. todo'[t] = q
    BY <1>1 DEF Owes
  <2> QED
    BY <1>1, <2>1
<1>2. CASE t # s
  <2>1. t \in DOMAIN todo /\ todo'[t] = todo[t]
    BY <1>2 DEF Owes
  <2>2. AnswerStream(t, todo[t], next_req_id) => AnswerStream(t, todo[t], next_req_id')
    BY SMTT(30) DEF AnswerStream
  <2> QED
    BY <2>1, <2>2 DEF Streams
<1> QED
  BY <1>1, <1>2

(* A stream of the gateway's own: its messages are messages. *)
LEMMA PlainMsg ==
  /\ \A t \in Plain : \A i \in Nat \cup Instruments \cup Ends : \A b \in Int \cup Instruments :
       Msg(t, i, b) \in Message /\ Msg(t, i, b).type = t
  /\ 0 \in Nat \cup Instruments \cup Ends /\ 0 \in Int \cup Instruments
BY DEF Msg, Message

-----------------------------------------------------------------------------
(* The queries: steps that are not about them *)

(* The main task walks on while no query is open. *)
LEMMA IdleStep ==
  ASSUME QueryInv, pc # "await", pc' # "await",
         link = "lost" => link' = "lost" /\ DOMAIN todo' \subseteq DOMAIN todo,
         UNCHANGED <<pending, registered, hedge_contract, underlying, mishaps>>,
         Shapes', Streams'
  PROVE  QueryInv'
<1>1. OneWaiter'
  BY DEF QueryInv, OneWaiter, Waiting
<1>2. Collected' /\ NothingLost' /\ RightReply'
  BY DEF Collected, NothingLost, RightReply, Waiting
<1>3. AnswersMatchQueries'
  BY DEF QueryInv, AnswersMatchQueries
<1> QED
  BY <1>1, <1>2, <1>3 DEF QueryInv

(* Others take a step that leaves the open query and its answer alone. *)
LEMMA CalmStep ==
  ASSUME QueryInv, UNCHANGED <<pc, jobs, link, reply, next_req_id, mishaps>>,
         DOMAIN pending' = DOMAIN pending, Req \in DOMAIN pending => pending'[Req] = pending[Req],
         UNCHANGED <<registered, hedge_contract>>, underlying'.contract = underlying.contract,
         Shapes', Streams', link = "lost" => DOMAIN todo' \subseteq DOMAIN todo,
         Key \in DOMAIN todo' => Key \in DOMAIN todo /\ (Belongs(todo[Key], All) => Belongs(todo'[Key], All)),
         Waiting /\ mishaps = 0 /\ Key \in DOMAIN todo /\ Complete(todo[Key], pending[Req], All) =>
           Key \in DOMAIN todo' /\ Complete(todo'[Key], pending[Req], All)
  PROVE  QueryInv'
<1>1. Req' = Req /\ Key' = Key /\ All' = All /\ Waiting' = Waiting
  BY DEF Req, Key, All, Waiting, Job
<1>2. OneWaiter' /\ RightReply'
  BY <1>1 DEF QueryInv, OneWaiter, RightReply
<1>3. Collected'
  BY <1>1 DEF QueryInv, Collected
<1>4. NothingLost'
  BY <1>1 DEF QueryInv, NothingLost
<1>5. AnswersMatchQueries'
  BY DEF QueryInv, AnswersMatchQueries
<1> QED
  BY <1>2, <1>3, <1>4, <1>5 DEF QueryInv


(* Before the start there are no queries, no frames and no contracts. *)
LEMMA QueryInit == Init => QueryInv
<1> SUFFICES ASSUME Init PROVE QueryInv
  OBVIOUS
<1>1. jobs \in Seq(JobSet)
  <2> DEFINE opts == [i \in DOMAIN Options |-> <<"option", Options[i]>>]
  <2>1. Options \in Seq(Opts) /\ DOMAIN Options = 1 .. Len(Options) /\ Len(Options) \in Nat
    BY BootAssumption
  <2>2. \A i \in 1 .. Len(Options) : Options[i] \in Opts
    BY <2>1
  <2>3. \A i \in 1 .. Len(Options) : <<"option", Options[i]>> \in JobSet
    BY <2>2 DEF JobSet
  <2>4. opts \in [1 .. Len(Options) -> JobSet]
    BY <2>1, <2>3
  <2>5. opts \in Seq(JobSet)
    BY <2>1, <2>4
  <2>6. HedgeChain \in JobSet /\ UnderlyingChain \in JobSet
    BY DEF JobSet
  <2> HIDE DEF opts
  <2>7. <<HedgeChain, UnderlyingChain>> \o opts \in Seq(JobSet)
    BY <2>5, <2>6
  <2> QED
    BY <2>7 DEF Init, AllJobs, opts
<1>2. resting \subseteq Instruments \X Int /\ account \in [Instruments -> Int]
  BY BootAssumption DEF Init
<1>3. Shapes
  BY <1>1, <1>2 DEF Init, Shapes, Unanswered
<1>4. Streams /\ OneWaiter /\ Collected /\ NothingLost /\ RightReply
  BY DEF Init, Streams, OneWaiter, Collected, NothingLost, RightReply, Waiting
<1>5. AnswersMatchQueries
  BY DEF Init, AnswersMatchQueries
<1> QED
  BY <1>3, <1>4, <1>5 DEF QueryInv

(* The positions that the gateway announces are finitely many. *)
LEMMA HeldIsFinite ==
  IsFiniteSet({Msg("position", i, 0) : i \in {i \in Instruments : account[i] # 0}})
<1> DEFINE held == {i \in Instruments : account[i] # 0}
           sent == {Msg("position", i, 0) : i \in held}
<1>1. IsFiniteSet(Opts)
  <2>1. Options \in Seq(Opts) /\ DOMAIN Options = 1 .. Len(Options) /\ Len(Options) \in Nat
    BY BootAssumption
  <2>2. IsFiniteSet(DOMAIN Options)
    BY <2>1, FS_Interval
  <2>3. IsFiniteSet({Options[i] : i \in DOMAIN Options})
    BY <2>1, <2>2, ImageIsFinite
  <2> QED
    BY <2>3 DEF Opts, ToSet
<1>2. IsFiniteSet(Instruments)
  BY <1>1, BootAssumption, FS_Union DEF Instruments
<1>3. IsFiniteSet(held)
  BY <1>2, FS_Subset
<1>4. IsFiniteSet(sent)
  <2> DEFINE f == [i \in held |-> Msg("position", i, 0)]
  <2>1. IsFiniteSet(DOMAIN f) /\ f = [i \in DOMAIN f |-> f[i]]
    BY <1>3
  <2>2. sent = {f[i] : i \in DOMAIN f}
    OBVIOUS
  <2> HIDE DEF f, sent
  <2> QED
    BY <2>1, <2>2, ImageIsFinite
<1> QED
  BY <1>4

(* The gateway's streams hold messages, and there is at least one. *)
LEMMA RequestStreams ==
  ASSUME account \in [Instruments -> Int]
  PROVE  /\ PositionStream \in Seq(Message) /\ PositionStream # <<>>
         /\ \A i \in 1 .. Len(PositionStream) : PositionStream[i].type \in Plain
         /\ OtherEnds \in Seq(Message) /\ OtherEnds # <<>>
         /\ \A i \in 1 .. Len(OtherEnds) : OtherEnds[i].type \in Plain
<1> DEFINE held == {i \in Instruments : account[i] # 0}
           P == {m \in Message : m.type \in Plain}
           sent == {Msg("position", i, 0) : i \in held}
<1>4. IsFiniteSet(sent)
  BY HeldIsFinite
<1>5. sent \subseteq P
  <2>1. "position" \in Plain
    BY DEF Plain
  <2>2. \A i \in Instruments : Msg("position", i, 0) \in Message /\ Msg("position", i, 0).type = "position"
    BY <2>1, PlainMsg
  <2> QED
    BY <2>1, <2>2
<1>6. SetToSeq(sent) \in Seq(P)
  BY <1>4, <1>5, InSomeOrder
<1>7. Msg("end", "positions", 0) \in P /\ Msg("end", "account", 0) \in P /\ Msg("end", "open_orders", 0) \in P
  <2>1. "end" \in Plain
    BY DEF Plain
  <2>2. \A e \in Ends : Msg("end", e, 0) \in Message /\ Msg("end", e, 0).type = "end"
    BY <2>1, PlainMsg
  <2> QED
    BY <2>1, <2>2 DEF Ends
<1> DEFINE front == SetToSeq(sent)
           last == Msg("end", "positions", 0)
           ps == front \o <<last>>
<1>8. ps = PositionStream
  BY DEF PositionStream
<1> HIDE DEF P, front, last
<1>9. ps \in Seq(P) /\ ps # <<>>
  BY <1>6, <1>7 DEF front, last
<1>10. OtherEnds \in Seq(P) /\ OtherEnds # <<>>
  BY <1>7 DEF OtherEnds
<1>11. \A q \in Seq(P) : q \in Seq(Message) /\ \A i \in 1 .. Len(q) : q[i].type \in Plain
  BY DEF P
<1> QED
  BY <1>8, <1>9, <1>10, <1>11

(* The steps of the main task between queries. *)
LEMMA WalkStep ==
  ASSUME QueryInv,
         \/ client_connect \/ ConnectFails \/ wait_for_bootstrap \/ BootstrapTimeout
         \/ SendRequests \/ SendRequestsFails \/ wait_for_seeding \/ SeedingTimeout
         \/ seed_positions_from_broker \/ spawn_all
         \/ wait_for_underlying \/ FirstTickTimeout \/ SubscriptionDone
  PROVE  QueryInv'
<1> USE DEF mainVars, gatewayVars, recvVars, adapterVars, pumpVars, daemonVars, histories
<1>1. CASE client_connect
  <2>1. Shapes'
    BY <1>1 DEF client_connect, QueryInv, Shapes
  <2>2. \A s \in DOMAIN todo' : \E t \in BootstrapMsgs : s = Stream(t) /\ todo'[s] = <<Msg(t, 0, 0)>>
    BY <1>1 DEF client_connect, Stream
  <2>3. \A t \in BootstrapMsgs : Msg(t, 0, 0) \in Message /\ Msg(t, 0, 0).type \in Plain
    BY PlainMsg DEF BootstrapMsgs, Plain
  <2>4. \A s \in DOMAIN todo' : \E m \in Message : m.type \in Plain /\ todo'[s] = <<m>>
    BY <2>2, <2>3
  <2>5. ASSUME NEW s \in DOMAIN todo'
        PROVE  /\ todo'[s] \in Seq(Message) /\ todo'[s] # <<>> /\ s \in Others
               /\ \A i \in 1 .. Len(todo'[s]) : todo'[s][i].type \in Plain
    <3>0. s \in Others
      BY <2>2 DEF Others
    <3>1. PICK m \in Message : m.type \in Plain /\ todo'[s] = <<m>>
      BY <2>4
    <3>2. <<m>> \in Seq(Message) /\ <<m>> # <<>> /\ \A i \in 1 .. Len(<<m>>) : <<m>>[i] = m
      OBVIOUS
    <3> QED
      BY <3>0, <3>1, <3>2
  <2>6. Streams'
    BY <2>5 DEF Streams
  <2> QED
    BY <1>1, <2>1, <2>6, IdleStep DEF client_connect, QueryInv, Shapes
<1>2. CASE SendRequests
  <2>1. Shapes'
    BY <1>2 DEF SendRequests, QueryInv, Shapes
  <2>2. Streams'
    <3>1. CASE link = "up"
      <4>1. \A s \in DOMAIN todo' :
              \/ s \in Others /\ (todo'[s] = PositionStream \/ todo'[s] = OtherEnds)
              \/ s \in DOMAIN todo /\ todo'[s] = todo[s]
        BY <1>2, <3>1 DEF SendRequests, Others
      <4>2. next_req_id' = next_req_id /\ account \in [Instruments -> Int]
        BY <1>2 DEF SendRequests, QueryInv, Shapes
      <4> HIDE DEF PositionStream, OtherEnds
      <4> QED
        BY <4>1, <4>2, RequestStreams DEF QueryInv, Streams
    <3>2. CASE link # "up"
      BY <1>2, <3>2 DEF SendRequests, QueryInv, Streams
    <3> QED
      BY <3>1, <3>2
  <2> QED
    BY <1>2, <2>1, <2>2, IdleStep DEF SendRequests
<1>3. ASSUME pc # "await", pc' \notin {"await", "connect"},
             link = "down" => pc' = "failed",
             UNCHANGED <<jobs, link, account, resting, todo, mishaps, next_req_id, pending, reply>>,
             UNCHANGED <<underlying, registered, hedge_contract>>
      PROVE  QueryInv'
  <2>1. Shapes' /\ Streams'
    BY <1>3 DEF QueryInv, Shapes, Streams
  <2> QED
    BY <1>3, <2>1, IdleStep
<1>4. link = "down" => pc \in {"connect", "failed"}
  BY DEF QueryInv, Shapes
<1>5. CASE ConnectFails \/ wait_for_bootstrap \/ BootstrapTimeout
  BY <1>3, <1>4, <1>5 DEF ConnectFails, wait_for_bootstrap, BootstrapTimeout
<1>6. CASE SendRequestsFails \/ wait_for_seeding \/ SeedingTimeout
  BY <1>3, <1>4, <1>6 DEF SendRequestsFails, wait_for_seeding, SeedingTimeout
<1>7. CASE seed_positions_from_broker \/ spawn_all
  BY <1>3, <1>4, <1>7 DEF seed_positions_from_broker, spawn_all
<1>8. CASE wait_for_underlying \/ FirstTickTimeout \/ SubscriptionDone
  BY <1>3, <1>4, <1>8 DEF wait_for_underlying, FirstTickTimeout, SubscriptionDone
<1> QED
  BY <1>1, <1>2, <1>5, <1>6, <1>7, <1>8

(* The pumps, the fills and the stuttering steps. *)
LEMMA OtherStep ==
  ASSUME QueryInv,
         \/ \E p \in Pumps : PumpSubscribes(p)
         \/ handle_fill \/ UNCHANGED vars
  PROVE  QueryInv'
<1> USE DEF mainVars, gatewayVars, recvVars, adapterVars, pumpVars, daemonVars, histories
<1>1. /\ UNCHANGED <<pc, jobs, link, reply, next_req_id, pending, mishaps>>
      /\ UNCHANGED <<registered, hedge_contract, underlying, todo, resting, account>>
  BY DEF PumpSubscribes, handle_fill, vars
<1>2. Shapes' /\ Streams'
  BY <1>1 DEF QueryInv, Shapes, Streams
<1> QED
  BY <1>1, <1>2, CalmStep


(* An order fills: the gateway owes two frames that are no answers. *)
LEMMA ExecuteStep ==
  ASSUME QueryInv, NEW f \in resting, Execute(f[1], f[2]) PROVE QueryInv'
<1> USE DEF mainVars, gatewayVars, recvVars, adapterVars, pumpVars, daemonVars, histories
<1> DEFINE i == f[1]
           qty == f[2]
           q == <<Msg("execution", i, qty), Msg("position", i, 0)>>
<1>1. /\ UNCHANGED <<pc, jobs, link, reply, next_req_id, pending, mishaps>>
      /\ UNCHANGED <<registered, hedge_contract, underlying>>
      /\ todo' = Owes(Stream("fill"), q) /\ account' = [account EXCEPT ![i] = @ + qty]
      /\ resting' \subseteq resting
  BY DEF Execute
<1>2. i \in Instruments /\ qty \in Int
  BY DEF QueryInv, Shapes
<1>3. account' \in [Instruments -> Int]
  BY <1>1, <1>2 DEF QueryInv, Shapes
<1>4. Shapes'
  BY <1>1, <1>3 DEF QueryInv, Shapes
<1>5. "execution" \in Plain /\ "position" \in Plain
  BY DEF Plain
<1> HIDE DEF i, qty
<1>6. /\ Msg("execution", i, qty) \in Message /\ Msg("execution", i, qty).type = "execution"
      /\ Msg("position", i, 0) \in Message /\ Msg("position", i, 0).type = "position"
  BY <1>2, <1>5, PlainMsg
<1>7. q \in Seq(Message) /\ q # <<>> /\ \A j \in 1 .. Len(q) : q[j].type \in Plain
  BY <1>5, <1>6
<1> HIDE DEF q
<1>8. next_req_id \in Nat
  BY DEF QueryInv, Shapes
<1>9. Streams'
  BY <1>1, <1>7, <1>8, OwesStreams DEF QueryInv, Others
<1>10. Key # Stream("fill") /\ link = "up"
  BY DEF Key, Stream, Execute
<1>11. /\ Key \in DOMAIN todo' <=> Key \in DOMAIN todo
       /\ Key \in DOMAIN todo => todo'[Key] = todo[Key]
  BY <1>1, <1>10 DEF Owes
<1> QED
  BY <1>1, <1>4, <1>9, <1>10, <1>11, CalmStep

(* A frame is lost, or the link: nothing is promised but that what was     *)
(* collected belongs to the answer.                                        *)
LEMMA MishapStep ==
  ASSUME QueryInv, (\E s \in DOMAIN todo : DropFrame(s)) \/ LinkLost PROVE QueryInv'
<1> USE DEF mainVars, gatewayVars, recvVars, adapterVars, pumpVars, daemonVars, histories
<1>1. /\ UNCHANGED <<pc, jobs, reply, next_req_id, pending>>
      /\ UNCHANGED <<registered, hedge_contract, underlying, account, resting>>
      /\ link = "up" /\ link' \in {"up", "lost"} /\ mishaps' = mishaps + 1
      /\ link' = "up" => \E s \in DOMAIN todo : todo' = Sent(s)
      /\ link' = "lost" => todo' = todo
  BY DEF DropFrame, LinkLost
<1>2. mishaps \in Nat /\ mishaps' \in Nat \ {0}
  BY <1>1 DEF QueryInv, Shapes
<1>3. Shapes'
  BY <1>1, <1>2 DEF QueryInv, Shapes
<1>4. Req' = Req /\ Key' = Key /\ All' = All /\ Waiting' = Waiting
  BY <1>1 DEF Req, Key, All, Waiting, Job
<1>5. Streams' /\ (Key \in DOMAIN todo' =>
         Key \in DOMAIN todo /\ (Belongs(todo[Key], All) => Belongs(todo'[Key], All)))
  <2>1. CASE link' = "lost"
    BY <1>1, <2>1 DEF QueryInv, Streams
  <2>2. ASSUME NEW s \in DOMAIN todo, todo' = Sent(s)
        PROVE  Streams' /\ (Key \in DOMAIN todo' =>
                 Key \in DOMAIN todo /\ (Belongs(todo[Key], All) => Belongs(todo'[Key], All)))
    <3>1. Streams'
      BY <1>1, <2>2, SentStreams DEF QueryInv
    <3>2. ASSUME Key \in DOMAIN todo'
          PROVE  Key \in DOMAIN todo /\ (todo'[Key] = todo[Key] \/ todo'[Key] = Tail(todo[Key]))
      BY <2>2, <3>2, SentShape DEF QueryInv
    <3>3. ASSUME Key \in DOMAIN todo, todo'[Key] = Tail(todo[Key]), Belongs(todo[Key], All)
          PROVE  Belongs(todo'[Key], All)
      <4> DEFINE q == todo[Key]
      <4>1. q \in Seq(Message) /\ q # <<>>
        BY <3>3 DEF QueryInv, Streams
      <4> HIDE DEF q
      <4>2. \A j \in 1 .. Len(Tail(q)) : j + 1 \in 1 .. Len(q) /\ Tail(q)[j] = q[j + 1]
        BY <4>1, PopFront
      <4>3. Belongs(q, All) => Belongs(Tail(q), All)
        BY <4>2 DEF Belongs
      <4> QED
        BY <3>3, <4>3 DEF q
    <3> QED
      BY <3>1, <3>2, <3>3
  <2> QED
    BY <1>1, <2>1, <2>2
<1>6. OneWaiter' /\ Collected'
  BY <1>1, <1>4, <1>5 DEF QueryInv, OneWaiter, Collected
<1>7. NothingLost' /\ RightReply'
  BY <1>1, <1>2, <1>4 DEF QueryInv, NothingLost, RightReply
<1>8. AnswersMatchQueries'
  BY <1>1, <1>2 DEF QueryInv, AnswersMatchQueries
<1> QED
  BY <1>3, <1>5, <1>6, <1>7, <1>8 DEF QueryInv


(* A frame that is no answer to the open query: nobody waits for it. *)
LEMMA UnaskedFrame ==
  ASSUME QueryInv, NEW s \in DOMAIN todo, todo' = Sent(s),
         UNCHANGED <<pc, jobs, link, reply, next_req_id, mishaps, account, resting>>,
         DOMAIN pending' = DOMAIN pending, Req \in DOMAIN pending => pending'[Req] = pending[Req],
         UNCHANGED <<registered, hedge_contract>>,
         underlying' = [contract |-> underlying.contract, priced |-> underlying'.priced],
         \/ todo[s][1].type \in Plain
         \/ s # Key \/ Req \notin DOMAIN pending
  PROVE  QueryInv'
<1>1. Shapes'
  BY DEF QueryInv, Shapes
<1>2. Streams'
  BY SentStreams DEF QueryInv
<1>3. ASSUME Key \in DOMAIN todo'
      PROVE  Key \in DOMAIN todo /\ (todo'[Key] = todo[Key] \/ todo'[Key] = Tail(todo[Key]))
  BY <1>3, SentShape DEF QueryInv
<1>4. ASSUME Key \in DOMAIN todo, todo'[Key] = Tail(todo[Key]), Belongs(todo[Key], All)
      PROVE  Belongs(todo'[Key], All)
  <2> DEFINE q == todo[Key]
  <2>1. q \in Seq(Message) /\ q # <<>>
    BY <1>4 DEF QueryInv, Streams
  <2> HIDE DEF q
  <2>2. \A j \in 1 .. Len(Tail(q)) : j + 1 \in 1 .. Len(q) /\ Tail(q)[j] = q[j + 1]
    BY <2>1, PopFront
  <2>3. Belongs(q, All) => Belongs(Tail(q), All)
    BY <2>2 DEF Belongs
  <2> QED
    BY <1>4, <2>3 DEF q
<1>5. ASSUME Waiting, mishaps = 0, Key \in DOMAIN todo, Complete(todo[Key], pending[Req], All)
      PROVE  Key \in DOMAIN todo' /\ todo'[Key] = todo[Key]
  <2> DEFINE q == todo[Key]
  <2>1. q \in Seq(Message) /\ q # <<>> /\ Len(q) \in Nat \ {0}
    BY <1>5 DEF QueryInv, Streams
  <2> HIDE DEF q
  <2>2. Complete(q, pending[Req], All) => q[1].type \in {"error", "details", "detailsEnd"}
    BY <2>1 DEF Complete
  <2>3. q[1].type \notin Plain
    BY <1>5, <2>2 DEF q, Plain
  <2>4. Req \in DOMAIN pending
    BY <1>5 DEF QueryInv, NothingLost
  <2>5. s # Key
    BY <2>3, <2>4 DEF q
  <2> QED
    BY <1>5, <2>5, SentShape DEF QueryInv
<1>6. underlying'.contract = underlying.contract
  OBVIOUS
<1>7. DOMAIN todo' \subseteq DOMAIN todo
  BY SentShape DEF QueryInv
<1> QED
  BY <1>1, <1>2, <1>3, <1>4, <1>5, <1>6, <1>7, CalmStep

(* The frames of an answer: what they leave of the query. *)
LEMMA AskedFrame ==
  ASSUME NEW q \in Seq(Message), q # <<>>, NEW got \in Seq(Int \cup Instruments), NEW all,
         ToSet(got) \subseteq all, Belongs(q, all)
  PROVE  /\ q[1].type = "details" =>
              /\ Append(got, q[1].body) \in Seq(Int \cup Instruments)
              /\ ToSet(Append(got, q[1].body)) \subseteq all
              /\ Belongs(Tail(q), all)
              /\ Complete(q, got, all) => Len(q) > 1 /\ Complete(Tail(q), Append(got, q[1].body), all)
         /\ q[1].type = "detailsEnd" /\ Complete(q, got, all) => ToSet(got) = all
<1>1. /\ Len(q) \in Nat \ {0} /\ q[1] \in Message /\ Tail(q) \in Seq(Message)
      /\ Len(Tail(q)) = Len(q) - 1
      /\ \A i \in 1 .. Len(Tail(q)) : i + 1 \in 1 .. Len(q) /\ Tail(q)[i] = q[i + 1]
  BY PopFront
<1>2. q[1].body \in Int \cup Instruments
  BY <1>1 DEF Message
<1> DEFINE b == q[1].body
           n == Len(q)
<1> HIDE DEF b
<1>3. ToSet(Append(got, b)) = ToSet(got) \cup {b} /\ Append(got, b) \in Seq(Int \cup Instruments)
  BY <1>2, PushBack DEF b
<1>4. q[1].type = "details" => b \in all
  BY <1>1 DEF Belongs, b
<1>5. Belongs(Tail(q), all)
  BY <1>1 DEF Belongs
<1>6. ASSUME q[1].type = "details", Complete(q, got, all)
      PROVE  n > 1 /\ Complete(Tail(q), Append(got, b), all)
  <2>1. /\ q[n].type = "detailsEnd"
        /\ \A i \in 1 .. n - 1 : q[i].type = "details"
        /\ ToSet(got) \cup {q[i].body : i \in 1 .. n - 1} = all
    BY <1>6 DEF Complete
  <2>2. n > 1 /\ n \in Nat
    BY <1>1, <1>6, <2>1
  <2>3. Tail(q)[n - 1] = q[n] /\ \A i \in 1 .. n - 2 : i + 1 \in 1 .. n - 1 /\ Tail(q)[i] = q[i + 1]
    BY <1>1, <2>2
  <2>4. \A i \in 1 .. n - 1 : i = 1 \/ (i - 1 \in 1 .. n - 2 /\ Tail(q)[i - 1] = q[i])
    BY <2>2, <2>3
  <2> DEFINE A == {q[i].body : i \in 1 .. n - 1}
             B == {Tail(q)[i].body : i \in 1 .. n - 2}
  <2>5. A \subseteq B \cup {b}
    BY <2>4 DEF b
  <2>6. B \subseteq A
    BY <2>3
  <2>7. b \in A
    BY <2>2 DEF b
  <2>8. ToSet(Append(got, b)) \cup B = all
    BY <1>3, <2>1, <2>5, <2>6, <2>7
  <2>9. \A i \in 1 .. n - 2 : Tail(q)[i].type = "details"
    BY <2>1, <2>3
  <2>10. Len(Tail(q)) = n - 1 /\ (n - 1) - 1 = n - 2
    BY <1>1
  <2> QED
    BY <2>1, <2>2, <2>3, <2>8, <2>9, <2>10 DEF Complete
<1>7. ASSUME q[1].type = "detailsEnd", Complete(q, got, all) PROVE ToSet(got) = all
  <2>1. /\ \A i \in 1 .. n - 1 : q[i].type = "details"
        /\ ToSet(got) \cup {q[i].body : i \in 1 .. n - 1} = all
    BY <1>7 DEF Complete
  <2>2. n = 1
    BY <1>1, <1>7, <2>1
  <2>3. 1 .. n - 1 = {}
    BY <2>2
  <2> QED
    BY <2>1, <2>3
<1> QED
  BY <1>3, <1>4, <1>5, <1>6, <1>7 DEF b


(* A frame arrives and is routed. *)
LEMMA ReceiveStep ==
  ASSUME QueryInv, NEW s \in DOMAIN todo, Receive(s) PROVE QueryInv'
<1> USE DEF mainVars, gatewayVars, recvVars, adapterVars, pumpVars, daemonVars, histories
<1> DEFINE q == todo[s]
           m == q[1]
           msg == Current(m)
<1>1. q \in Seq(Message) /\ q # <<>> /\ Head(q) = m /\ m \in Message
  BY PopFront DEF QueryInv, Streams
<1>2. /\ todo' = Sent(s)
      /\ UNCHANGED <<pc, jobs, link, next_req_id, mishaps, account, resting>>
      /\ UNCHANGED <<registered, hedge_contract>>
  BY DEF Receive
<1>3. \/ /\ m.type \in Plain
         /\ UNCHANGED <<pending, reply>>
         /\ underlying' = underlying \/ underlying' = [underlying EXCEPT !.priced = TRUE]
      \/ /\ RouteContractDetails(m) \/ RouteContractDetailsEnd(m) \/ RouteError(m)
         /\ UNCHANGED underlying
  <2>1. msg.type = m.type /\ (m.type # "position" => msg = m)
    BY <1>1 DEF Current, Message
  <2>2. \/ RouteBootstrap(msg) \/ RoutePosition(msg) \/ RouteEnd(msg)
        \/ RouteContractDetails(msg) \/ RouteContractDetailsEnd(msg)
        \/ RouteError(msg) \/ RouteExecution(msg) \/ RouteTick(msg)
    BY <1>1 DEF Receive
  <2> HIDE DEF msg, m
  <2>3. CASE RouteBootstrap(msg) \/ RoutePosition(msg) \/ RouteEnd(msg) \/ RouteExecution(msg) \/ RouteTick(msg)
    BY <2>1, <2>3 DEF RouteBootstrap, RoutePosition, RouteEnd, RouteExecution, RouteTick, Plain, BootstrapMsgs
  <2>4. CASE RouteContractDetails(msg) \/ RouteContractDetailsEnd(msg) \/ RouteError(msg)
    <3>1. m.type \in {"details", "detailsEnd", "error"} /\ UNCHANGED underlying
      BY <2>1, <2>4 DEF RouteContractDetails, RouteContractDetailsEnd, RouteError
    <3>2. msg = m
      BY <2>1, <3>1
    <3> QED
      BY <2>4, <3>1, <3>2
  <2> QED
    BY <2>2, <2>3, <2>4
<1>4. underlying' = [contract |-> underlying.contract, priced |-> underlying'.priced]
  <2>1. underlying = [contract |-> underlying.contract, priced |-> underlying.priced]
    BY DEF QueryInv, Shapes
  <2>2. underlying' = underlying \/ underlying' = [underlying EXCEPT !.priced = TRUE]
    BY <1>3
  <2> QED
    BY <2>1, <2>2
<1>5. CASE m.type \in Plain /\ UNCHANGED <<pending, reply>>
  BY <1>2, <1>4, <1>5, UnaskedFrame
<1>6. CASE /\ RouteContractDetails(m) \/ RouteContractDetailsEnd(m) \/ RouteError(m)
           /\ UNCHANGED underlying
  <2>1. m.type \in {"details", "detailsEnd", "error"}
    BY <1>6 DEF RouteContractDetails, RouteContractDetailsEnd, RouteError
  <2>2. m.type \notin Plain /\ 1 \in 1 .. Len(q)
    BY <1>1, <2>1 DEF Plain
  <2>3. AnswerStream(s, q, next_req_id)
    BY <2>2 DEF QueryInv, Streams
  <2>4. PICK r \in Nat : s = <<"request", r>> /\ m.id = r
    BY <2>2, <2>3 DEF AnswerStream
  <2>5. /\ \A k \in DOMAIN pending : (Waiting /\ k = Req) \/ (link = "lost" /\ <<"request", k>> \notin DOMAIN todo)
        /\ DOMAIN todo' \subseteq DOMAIN todo
    BY <1>2, SentShape DEF QueryInv, OneWaiter
  <2>6. next_req_id \in Nat \ {0} /\ Req \in Nat
    BY DEF QueryInv, Shapes, Req
  <2> HIDE DEF m
  <2>7. CASE r \notin DOMAIN pending
    <3>1. /\ reply' = reply /\ DOMAIN pending' = DOMAIN pending
          /\ Req \in DOMAIN pending => pending'[Req] = pending[Req]
      BY <1>6, <2>4, <2>7 DEF RouteContractDetails, RouteContractDetailsEnd, RouteError, Deliver
    <3>2. s # Key \/ Req \notin DOMAIN pending
      BY <2>4, <2>7 DEF Key
    <3> QED
      BY <1>2, <1>4, <3>1, <3>2, UnaskedFrame
  <2>8. CASE r \in DOMAIN pending
    <3>1. Waiting /\ r = Req /\ s = Key
      BY <2>4, <2>5, <2>8 DEF Key
    <3> DEFINE got == pending[Req]
    <3>2. got \in Seq(Int \cup Instruments) /\ ToSet(got) \subseteq All /\ Belongs(q, All)
      BY <2>8, <3>1 DEF QueryInv, Collected
    <3>3. mishaps = 0 => Complete(q, got, All)
      BY <3>1 DEF QueryInv, NothingLost
    <3>4. Shapes' \/ reply' # reply
      BY <1>2, <1>4 DEF QueryInv, Shapes
    <3>5. Streams'
      BY <1>2, SentStreams DEF QueryInv
    <3>6. Req' = Req /\ Key' = Key /\ All' = All
      BY <1>2 DEF Req, Key, All, Job
    <3>7. AnswersMatchQueries'
      BY <1>2, <1>6 DEF QueryInv, AnswersMatchQueries
    <3>8. CASE RouteContractDetails(m)
      <4> DEFINE new == Append(got, m.body)
      <4>1. /\ reply' = reply /\ DOMAIN pending' = DOMAIN pending /\ pending'[Req] = new
            /\ m.type = "details"
        BY <2>4, <2>8, <3>1, <3>8 DEF RouteContractDetails
      <4> HIDE DEF q, got, new
      <4>2. /\ new \in Seq(Int \cup Instruments) /\ ToSet(new) \subseteq All /\ Belongs(Tail(q), All)
            /\ Complete(q, got, All) => Len(q) > 1 /\ Complete(Tail(q), new, All)
        BY <1>1, <3>2, <4>1, AskedFrame DEF m, new
      <4>3. Shapes' /\ Waiting'
        BY <1>2, <3>1, <3>4, <4>1 DEF Waiting
      <4>4. OneWaiter'
        BY <1>2, <2>5, <3>6, <4>1, <4>3 DEF OneWaiter
      <4>5. Key \in DOMAIN todo' => todo'[Key] = Tail(q)
        BY <1>2, <3>1, SentShape DEF QueryInv, q
      <4>6. Len(q) > 1 => Key \in DOMAIN todo'
        BY <1>2, <3>1, SentShape DEF QueryInv, q
      <4>7. Collected'
        BY <3>6, <4>1, <4>2, <4>5 DEF Collected
      <4>8. NothingLost'
        BY <1>2, <2>8, <3>1, <3>3, <3>6, <4>1, <4>2, <4>5, <4>6 DEF NothingLost
      <4>9. RightReply'
        BY <4>3 DEF RightReply, Waiting
      <4> QED
        BY <3>5, <3>7, <4>3, <4>4, <4>7, <4>8, <4>9 DEF QueryInv
    <3>9. ASSUME NEW c, c \in Seq(Int \cup Instruments), ToSet(c) \subseteq All,
                 reply' = Reply(c), DOMAIN pending' = DOMAIN pending \ {Req},
                 mishaps = 0 => c = <<>> \/ ToSet(c) = All
          PROVE  QueryInv'
      <4>1. reply'.answered = TRUE /\ reply'.contracts = c
        BY <3>9 DEF Reply
      <4>2. Shapes'
        BY <1>2, <1>4, <4>1 DEF QueryInv, Shapes
      <4>3. OneWaiter' /\ Collected' /\ NothingLost'
        BY <1>2, <2>5, <3>9, <4>1 DEF OneWaiter, Collected, NothingLost, Waiting
      <4>4. RightReply'
        BY <1>2, <3>6, <3>9, <4>1 DEF RightReply
      <4> QED
        BY <3>5, <3>7, <4>2, <4>3, <4>4 DEF QueryInv
    <3>10. CASE RouteContractDetailsEnd(m)
      <4>1. reply' = Reply(got) /\ DOMAIN pending' = DOMAIN pending \ {Req} /\ m.type = "detailsEnd"
        BY <2>4, <2>8, <3>1, <3>10 DEF RouteContractDetailsEnd, Deliver
      <4> HIDE DEF q, got
      <4>2. Complete(q, got, All) => ToSet(got) = All
        BY <1>1, <3>2, <4>1, AskedFrame DEF m
      <4> QED
        BY <3>2, <3>3, <3>9, <4>1, <4>2
    <3>11. CASE RouteError(m)
      <4>1. reply' = Reply(<<>>) /\ DOMAIN pending' = DOMAIN pending \ {Req}
        BY <2>4, <2>8, <3>1, <3>11 DEF RouteError, Deliver
      <4>2. <<>> \in Seq(Int \cup Instruments) /\ ToSet(<<>>) \subseteq All
        BY DEF ToSet
      <4> QED
        BY <3>9, <4>1, <4>2
    <3> QED
      BY <1>6, <3>8, <3>10, <3>11
  <2> QED
    BY <2>7, <2>8
<1> QED
  BY <1>3, <1>5, <1>6


-----------------------------------------------------------------------------
(* The queries: the main task's steps about them *)

(* The next query is one of the list, and the list stays one. *)
LEMMA NextJob ==
  ASSUME jobs \in Seq(JobSet), jobs # <<>>
  PROVE  Job \in JobSet /\ Tail(jobs) \in Seq(JobSet)
BY PopFront DEF Job

(* After a query the main task goes on; it does not wait again at once. *)
LEMMA GoesOn ==
  ASSUME NEW ok \in BOOLEAN PROVE AfterQuery(ok) \notin {"await", "connect"}
BY DEF AfterQuery, HedgeChain, UnderlyingChain

(* What the gateway answers to a query, if it answers. *)
LEMMA AnswerShapes ==
  ASSUME NEW job \in JobSet, NEW id \in Nat, NEW a \in Answers(id, job)
  PROVE  /\ a \in Seq(Message) /\ a # <<>>
         /\ \A i \in 1 .. Len(a) : a[i].id = id
         /\ Belongs(a, ToSet(Answer(job))) /\ Complete(a, <<>>, ToSet(Answer(job)))
<1> DEFINE c == Answer(job)
           d == Details(id, c)
           last == Msg("detailsEnd", id, 0)
           err == Msg("error", id, 0)
           n == Len(c)
<1>1. c \in Seq(Instruments) /\ n \in Nat /\ DOMAIN c = 1 .. n
  BY AnswerSets
<1>2. ToSet(<<>>) = {} /\ ToSet(c) = {c[i] : i \in 1 .. n}
  BY <1>1 DEF ToSet
<1>3. /\ last \in Message /\ last.type = "detailsEnd" /\ last.id = id
      /\ err \in Message /\ err.type = "error" /\ err.id = id
  BY DEF Msg, Message
<1>4. CASE a = <<err>>
  <2>1. a \in Seq(Message) /\ Len(a) = 1 /\ a[1] = err /\ a # <<>>
    BY <1>3, <1>4
  <2> QED
    BY <1>3, <2>1 DEF Belongs, Complete
<1>5. CASE a = d \o <<last>>
  <2> HIDE DEF c, last
  <2>1. /\ d \in [1 .. n -> Message]
        /\ \A i \in 1 .. n : d[i].type = "details" /\ d[i].id = id /\ d[i].body = c[i]
    <3>1. \A i \in 1 .. n : c[i] \in Instruments
      BY <1>1
    <3>2. \A i \in 1 .. n : Msg("details", id, c[i]) \in Message
      BY <3>1 DEF Msg, Message
    <3>3. DOMAIN d = 1 .. n /\ \A i \in 1 .. n : d[i] = Msg("details", id, c[i])
      BY <1>1 DEF Details
    <3>4. d = [i \in 1 .. n |-> Msg("details", id, c[i])]
      BY <1>1 DEF Details
    <3>5. d \in [1 .. n -> Message]
      BY <3>2, <3>4
    <3> QED
      BY <3>3, <3>5 DEF Msg
  <2> HIDE DEF d
  <2>2. d \in Seq(Message) /\ Len(d) = n
    BY <1>1, <2>1
  <2>3. /\ a \in Seq(Message) /\ Len(a) = n + 1 /\ a # <<>>
        /\ \A i \in 1 .. n : a[i] = d[i]
        /\ a[n + 1] = last
    BY <1>1, <1>3, <1>5, <2>2
  <2>4. \A i \in 1 .. n + 1 : i \in 1 .. n \/ i = n + 1
    BY <1>1
  <2>5. \A i \in 1 .. Len(a) : a[i].id = id
    BY <1>3, <2>1, <2>3, <2>4
  <2>6. Belongs(a, ToSet(c))
    BY <1>2, <1>3, <2>1, <2>3, <2>4 DEF Belongs
  <2>7. Len(a) - 1 = n
    BY <1>1, <2>3
  <2>8. {a[i].body : i \in 1 .. n} = ToSet(c)
    BY <1>2, <2>1, <2>3
  <2>9. Complete(a, <<>>, ToSet(c))
    BY <1>2, <1>3, <2>1, <2>3, <2>7, <2>8 DEF Complete
  <2> QED
    BY <2>3, <2>5, <2>6, <2>9 DEF c
<1> QED
  BY <1>4, <1>5 DEF Answers

(* No answer is under way to a query that was not made yet. *)
LEMMA NotYetAnswered ==
  ASSUME Streams, next_req_id \in Nat PROVE <<"request", next_req_id>> \notin DOMAIN todo
<1> SUFFICES ASSUME <<"request", next_req_id>> \in DOMAIN todo PROVE FALSE
  OBVIOUS
<1> DEFINE s == <<"request", next_req_id>>
<1>1. s \notin Others
  BY DEF Others, Stream
<1>2. AnswerStream(s, todo[s], next_req_id)
  BY <1>1 DEF Streams
<1>3. \A r \in Nat : s = <<"request", r>> => r = next_req_id
  OBVIOUS
<1>4. PICK r \in Nat : r < next_req_id /\ s = <<"request", r>>
  BY <1>2 DEF AnswerStream
<1> QED
  BY <1>3, <1>4

(* A query is made: only its own answer can reach it. *)
LEMMA QueryStep ==
  ASSUME QueryInv, Query PROVE QueryInv'
<1> USE DEF mainVars, gatewayVars, recvVars, adapterVars, pumpVars, daemonVars, histories
<1> DEFINE id == next_req_id
<1>1. /\ pc = "query" /\ pc' = "await" /\ jobs # <<>>
      /\ UNCHANGED <<jobs, link, account, resting, mishaps, registered, hedge_contract, underlying>>
      /\ next_req_id' = id + 1 /\ reply' = Unanswered
      /\ DOMAIN pending' = DOMAIN pending \cup {id} /\ pending'[id] = <<>>
  BY DEF Query, alloc_req_id
<1>2. id \in Nat \ {0} /\ jobs \in Seq(JobSet) /\ link \in {"up", "lost"} /\ (link = "lost" => mishaps > 0)
  BY <1>1 DEF QueryInv, Shapes
<1>3. Req' = id /\ Key' = <<"request", id>> /\ All' = All /\ Waiting'
  BY <1>1, <1>2 DEF Req, Key, All, Job, Waiting, Unanswered
<1>4. Job \in JobSet
  BY <1>1, <1>2, NextJob
<1>5. Shapes'
  <2>1. next_req_id' \in Nat \ {0} /\ reply'.answered \in BOOLEAN
    BY <1>1, <1>2 DEF Unanswered
  <2> QED
    BY <1>1, <2>1 DEF QueryInv, Shapes
<1>6. \A r \in DOMAIN pending : link = "lost" /\ <<"request", r>> \notin DOMAIN todo
  BY <1>1 DEF QueryInv, OneWaiter, Waiting
<1>7. OneWaiter'
  <2>1. link = "lost" => todo' = todo
    BY DEF Query
  <2> QED
    BY <1>1, <1>3, <1>6, <2>1 DEF OneWaiter
<1>8. RightReply' /\ AnswersMatchQueries'
  BY <1>1 DEF QueryInv, RightReply, Unanswered, AnswersMatchQueries
<1>9. CASE link = "lost"
  <2>1. todo' = todo /\ link' = "lost" /\ mishaps' # 0
    BY <1>1, <1>2, <1>9 DEF Query, QueryInv, Shapes
  <2>2. Streams'
    <3>1. \A s, q : AnswerStream(s, q, id) => AnswerStream(s, q, id + 1)
      BY <1>2 DEF AnswerStream
    <3> QED
      BY <1>1, <2>1, <3>1 DEF QueryInv, Streams
  <2>3. <<"request", id>> \notin DOMAIN todo
    BY <1>2, NotYetAnswered DEF QueryInv
  <2>4. <<>> \in Seq(Int \cup Instruments) /\ ToSet(<<>>) \subseteq All
    BY DEF ToSet
  <2>5. Collected' /\ NothingLost'
    BY <1>1, <1>3, <2>1, <2>3, <2>4 DEF Collected, NothingLost
  <2> QED
    BY <1>5, <1>7, <1>8, <2>2, <2>5 DEF QueryInv
<1>10. CASE link = "up"
  <2>1. PICK a \in Answers(id, Job) : todo' = Owes(<<"request", id>>, a)
    BY <1>10 DEF Query
  <2>2. /\ a \in Seq(Message) /\ a # <<>>
        /\ \A i \in 1 .. Len(a) : a[i].id = id
        /\ Belongs(a, All) /\ Complete(a, <<>>, All)
    BY <1>2, <1>4, AnswerShapes DEF All
  <2>3. AnswerStream(<<"request", id>>, a, next_req_id')
    BY <1>1, <1>2, <2>2 DEF AnswerStream
  <2> DEFINE k == <<"request", id>>
  <2>4. Streams'
    <3>1. next_req_id' \in Nat /\ next_req_id' >= next_req_id
      BY <1>1, <1>2
    <3>2. todo' = Owes(k, a) /\ AnswerStream(k, a, next_req_id')
      BY <2>1, <2>3
    <3> HIDE DEF k
    <3> QED
      BY <1>2, <2>2, <3>1, <3>2, OwesStreams DEF QueryInv
  <2>5. Key' \in DOMAIN todo' /\ todo'[Key'] = a
    BY <1>3, <2>1 DEF Owes
  <2>6. <<>> \in Seq(Int \cup Instruments) /\ ToSet(<<>>) \subseteq All
    BY DEF ToSet
  <2>7. Collected'
    BY <1>1, <1>3, <2>2, <2>5, <2>6 DEF Collected
  <2>8. NothingLost'
    BY <1>1, <1>3, <2>2, <2>5 DEF NothingLost
  <2> QED
    BY <1>5, <1>7, <1>8, <2>4, <2>7, <2>8 DEF QueryInv
<1> QED
  BY <1>2, <1>9, <1>10

(* A query that fails or is given up leaves nothing that can be answered. *)
LEMMA GiveUpStep ==
  ASSUME QueryInv, QueryFails \/ QueryTimeout PROVE QueryInv'
<1> USE DEF mainVars, gatewayVars, recvVars, adapterVars, pumpVars, daemonVars, histories
<1>1. /\ UNCHANGED <<link, account, resting, todo, mishaps, reply>>
      /\ UNCHANGED <<registered, hedge_contract, underlying>>
      /\ jobs # <<>> /\ jobs' = Tail(jobs) /\ pc' = AfterQuery(FALSE)
      /\ pc \in {"query", "await"}
  BY DEF QueryFails, QueryTimeout, QueryInv, Shapes
<1>2. pc' \notin {"await", "connect"}
  BY <1>1, GoesOn
<1>3. next_req_id \in Nat \ {0} /\ next_req_id' \in Nat \ {0} /\ next_req_id' >= next_req_id
  <2>1. next_req_id \in Nat \ {0} /\ next_req_id' \in {next_req_id, next_req_id + 1}
    BY DEF QueryFails, QueryTimeout, alloc_req_id, QueryInv, Shapes
  <2> QED
    BY <2>1
<1>4. Shapes'
  BY <1>1, <1>2, <1>3, NextJob DEF QueryInv, Shapes
<1>5. Streams'
  <2>1. \A s, q : AnswerStream(s, q, next_req_id) => AnswerStream(s, q, next_req_id')
    BY <1>3 DEF AnswerStream
  <2> QED
    BY <1>1, <2>1 DEF QueryInv, Streams
<1>6. \A r \in DOMAIN pending' : link = "lost" /\ <<"request", r>> \notin DOMAIN todo
  <2>1. CASE QueryFails
    <3>1. /\ DOMAIN pending' = DOMAIN pending \cup {next_req_id} /\ link = "lost"
          /\ pc = "query" /\ <<"request", next_req_id>> \notin DOMAIN todo
      BY <1>3, <2>1, NotYetAnswered DEF QueryFails, QueryInv
    <3> QED
      BY <3>1 DEF QueryInv, OneWaiter, Waiting
  <2>2. CASE QueryTimeout
    BY <2>2 DEF QueryTimeout, QueryInv, OneWaiter, Req
  <2> QED
    BY <2>1, <2>2
<1>7. OneWaiter' /\ Collected'
  BY <1>1, <1>2, <1>6 DEF OneWaiter, Collected, Waiting
<1>8. NothingLost' /\ RightReply' /\ AnswersMatchQueries'
  BY <1>1, <1>2 DEF QueryInv, NothingLost, RightReply, Waiting, AnswersMatchQueries
<1> QED
  BY <1>4, <1>5, <1>7, <1>8 DEF QueryInv

(* A query is answered: what is registered is what was asked for. *)
LEMMA AnsweredStep ==
  ASSUME QueryInv, Answered PROVE QueryInv'
<1> USE DEF mainVars, gatewayVars, recvVars, adapterVars, pumpVars, daemonVars, histories
<1> DEFINE c == reply.contracts
<1>1. /\ UNCHANGED <<link, account, resting, mishaps, next_req_id, pending>>
      /\ pc = "await" /\ reply.answered /\ reply' = Unanswered
      /\ jobs # <<>> /\ jobs' = Tail(jobs) /\ pc' = AfterQuery(c # <<>>)
  BY DEF Answered, QueryInv, Shapes
<1>2. pc' \notin {"await", "connect"}
  BY <1>1, GoesOn
<1>3. /\ c \in Seq(Int \cup Instruments) /\ ToSet(c) \subseteq All
      /\ mishaps = 0 => c = <<>> \/ ToSet(c) = All
  BY <1>1 DEF QueryInv, RightReply
<1>4. Job \in JobSet
  BY <1>1, NextJob DEF QueryInv, Shapes
<1>5. \A r \in DOMAIN pending : link = "lost" /\ <<"request", r>> \notin DOMAIN todo
  BY <1>1 DEF QueryInv, OneWaiter, Waiting
<1>6. OneWaiter' /\ Collected' /\ NothingLost' /\ RightReply'
  <2>1. link # "up" => todo' = todo
    BY DEF Answered, resolve_hedge_contracts, resolve_underlying, qualify_and_subscribe, subscribe_ticks
  <2>2. OneWaiter'
    BY <1>1, <1>5, <2>1 DEF OneWaiter
  <2> QED
    BY <1>1, <1>2, <2>2 DEF Collected, NothingLost, RightReply, Waiting
<1>7. (Job[1] = "chain" => All = Futures) /\ (Job[1] = "option" => All = {Job[2]})
  BY <1>4, AnswerSets DEF All
<1>8. Streams' /\ underlying' = [contract |-> underlying'.contract, priced |-> underlying'.priced]
  <2>1. underlying = [contract |-> underlying.contract, priced |-> underlying.priced]
    BY DEF QueryInv, Shapes
  <2>2. \/ UNCHANGED underlying
        \/ underlying' = [underlying EXCEPT !.contract = Earliest(c, 0)]
    BY DEF Answered, resolve_hedge_contracts, resolve_underlying, qualify_and_subscribe
  <2>3. todo' = todo \/ todo' = Owes(Stream("ticks"), <<Msg("tick", 0, 0)>>)
    BY DEF Answered, resolve_hedge_contracts, resolve_underlying, qualify_and_subscribe, subscribe_ticks
  <2>4. Msg("tick", 0, 0) \in Message /\ Msg("tick", 0, 0).type = "tick" /\ "tick" \in Plain
    BY DEF Msg, Message, Plain
  <2> DEFINE q == <<Msg("tick", 0, 0)>>
  <2>5. q \in Seq(Message) /\ q # <<>> /\ \A i \in 1 .. Len(q) : q[i].type \in Plain
    BY <2>4
  <2>6. next_req_id \in Nat
    BY DEF QueryInv, Shapes
  <2> HIDE DEF q
  <2>7. Streams'
    <3>1. CASE todo' = todo
      BY <1>1, <3>1 DEF QueryInv, Streams
    <3>2. CASE todo' = Owes(Stream("ticks"), q)
      BY <1>1, <2>5, <2>6, <3>2, OwesStreams DEF QueryInv, Others
    <3> QED
      BY <2>3, <3>1, <3>2 DEF q
  <2>8. underlying' = [contract |-> underlying'.contract, priced |-> underlying'.priced]
    BY <2>1, <2>2
  <2> QED
    BY <2>7, <2>8
<1>9. Shapes'
  <2>1. reply'.answered \in BOOLEAN
    BY <1>1 DEF Unanswered
  <2> QED
    BY <1>1, <1>2, <1>8, <2>1, NextJob DEF QueryInv, Shapes
<1>10. AnswersMatchQueries'
  <2>1. CASE resolve_hedge_contracts(c)
    <3>1. /\ UNCHANGED <<underlying, registered>> /\ Job[1] = "chain"
          /\ hedge_contract' \in {hedge_contract, Earliest(c, Lockout)}
          /\ (~ \E x \in ToSet(c) : x >= Lockout) => hedge_contract' = hedge_contract
      BY <2>1 DEF resolve_hedge_contracts, HedgeChain
    <3>2. mishaps = 0 /\ c # <<>> => Earliest(c, Lockout) = Earliest(SetToSeq(Futures), Lockout)
      BY <1>3, <1>7, <3>1, InSomeOrder, BootAssumption DEF Earliest
    <3>3. c = <<>> => ToSet(c) = {}
      BY DEF ToSet
    <3> QED
      BY <1>1, <3>1, <3>2, <3>3 DEF QueryInv, AnswersMatchQueries
  <2>2. CASE resolve_underlying(c)
    <3>1. /\ UNCHANGED <<hedge_contract, registered>> /\ Job[1] = "chain"
          /\ c = <<>> => underlying' = underlying
          /\ c # <<>> => underlying' = [underlying EXCEPT !.contract = Earliest(c, 0)]
      BY <2>2 DEF resolve_underlying, UnderlyingChain
    <3>2. mishaps = 0 /\ c # <<>> => Earliest(c, 0) = Min(Futures)
      <4>1. \A x \in Futures : x >= 0
        BY BootAssumption
      <4>2. {x \in Futures : x >= 0} = Futures
        BY <4>1
      <4> QED
        BY <1>3, <1>7, <3>1, <4>2 DEF Earliest
    <3>3. c # <<>> => underlying'.contract = Earliest(c, 0)
      BY <3>1 DEF QueryInv, Shapes
    <3> QED
      BY <1>1, <3>1, <3>2, <3>3 DEF QueryInv, AnswersMatchQueries
  <2>3. CASE qualify_and_subscribe(c)
    <3>1. /\ UNCHANGED <<hedge_contract, underlying>> /\ Job[1] = "option"
          /\ c = <<>> => registered' = registered
          /\ c # <<>> => registered' = [o \in DOMAIN registered \cup {Job[2]} |->
                                          IF o = Job[2] THEN c[1] ELSE registered[o]]
      BY <2>3 DEF qualify_and_subscribe
    <3>2. c # <<>> => c[1] = Job[2]
      <4>1. c # <<>> => c[1] \in ToSet(c)
        BY <1>3 DEF ToSet
      <4> QED
        BY <1>3, <1>7, <3>1, <4>1
    <3>3. \A o \in DOMAIN registered' : registered'[o] = o
      BY <3>1, <3>2 DEF QueryInv, AnswersMatchQueries
    <3> QED
      BY <1>1, <3>1, <3>3 DEF QueryInv, AnswersMatchQueries
  <2> QED
    BY <2>1, <2>2, <2>3 DEF Answered
<1> QED
  BY <1>6, <1>8, <1>9, <1>10 DEF QueryInv

(* Every step keeps the queries and their answers matched. *)
LEMMA QueryNext == QueryInv /\ [Next]_vars => QueryInv'
<1> SUFFICES ASSUME QueryInv, [Next]_vars PROVE QueryInv'
  OBVIOUS
<1>1. CASE \E s \in DOMAIN todo : Receive(s) \/ DropFrame(s)
  BY <1>1, ReceiveStep, MishapStep
<1>2. CASE \E f \in resting : Execute(f[1], f[2])
  BY <1>2, ExecuteStep
<1>3. CASE LinkLost
  BY <1>3, MishapStep
<1>4. CASE MainWalks
  BY <1>4, WalkStep, QueryStep, GiveUpStep, AnsweredStep DEF MainWalks
<1>5. CASE (\E p \in Pumps : PumpSubscribes(p)) \/ handle_fill \/ UNCHANGED vars
  BY <1>5, OtherStep
<1> QED
  BY <1>1, <1>2, <1>3, <1>4, <1>5 DEF Next

(* Whatever is late, lost or refused, an option is registered under its    *)
(* own contract; and if no frame was lost, the hedge is in the first       *)
(* future past the lockout and the underlying is the first future.         *)
THEOREM AnswersAreMatched == Spec => []AnswersMatchQueries
<1>1. QueryInv => AnswersMatchQueries
  BY DEF QueryInv
<1> QED
  BY <1>1, QueryInit, QueryNext, PTL DEF Spec


-----------------------------------------------------------------------------
(* The book: definitions.  All of it is about a boot without mishaps. *)

Pos == Stream("positions")
Fill == Stream("fill")

HedgeAhead == HedgeChain \in ToSet(jobs)

(* What the main task has behind it, and what not yet. *)
Phases ==
  /\ HedgeAhead => jobs = AllJobs
  /\ pc \in {"seed", "spawn", "first_tick", "running"} => ~HedgeAhead
  /\ HedgeAhead \/ pc \in {"seed", "spawn"} => subscribed = {} /\ fillq = <<>>
  /\ HedgeAhead \/ pc = "seed" => hedge_qty = 0 /\ ~whole
  /\ pc = "requests" => ~asked
  /\ pc \notin Early \cup {"requests"} => asked
  /\ hedge_contract # None => hedge_contract \in Futures
  /\ DOMAIN book = Opts /\ DOMAIN cache = Instruments

(* An execution is the first of its stream, the end of the positions the   *)
(* last of theirs; the others have neither.                                *)
Mail(T) ==
  \A s \in DOMAIN T : \A k \in 1 .. Len(T[s]) :
    /\ T[s][k].type = "execution" => s = Fill /\ k = 1
    /\ T[s][k].type = "end" /\ T[s][k].id = "positions" => s = Pos /\ k = Len(T[s])

Announced(T, i) ==
  Pos \in DOMAIN T /\ \E k \in 1 .. Len(T[Pos]) : T[Pos][k].type = "position" /\ T[Pos][k].id = i

(* The positions: until an order fills, a position is in the cache or on   *)
(* its way there, and the end comes after all of them.                     *)
Positions ==
  /\ ~asked => /\ "positions" \notin done
               /\ \A s \in DOMAIN todo : \A k \in 1 .. Len(todo[s]) : todo[s][k].type \in BootstrapMsgs
               /\ \A i \in Instruments : cache[i] = 0
  /\ "positions" \in done => Pos \notin DOMAIN todo
  /\ resting # {} => /\ account = Account /\ Fill \notin DOMAIN todo /\ fillq = <<>>
                     /\ asked => \A i \in Instruments : cache[i] = Account[i] \/ Announced(todo, i)
  /\ \A r, s \in resting : r = s

BookIs(a) == (\A o \in Opts : book[o] = a[o]) /\ hedge_qty = a[hedge_contract]

Eligible == whole /\ quiet /\ OnlyTheHedge

NoExecution(T) == Fill \in DOMAIN T => T[Fill][1].type # "execution"

(* The fill f of the resting order: under way, in the channel or booked. *)
FillFollows(f) ==
  /\ account = [Account EXCEPT ![f[1]] = @ + f[2]]
  /\ \/ /\ Fill \in DOMAIN todo /\ todo[Fill][1] = Msg("execution", f[1], f[2])
        /\ fillq = <<>> /\ BookIs(Account)
     \/ NoExecution(todo) /\ fillq = <<f>> /\ BookIs(Account)
     \/ NoExecution(todo) /\ fillq = <<>> /\ (DOMAIN registered = Opts => BookIs(account))

Books ==
  /\ quiet /\ resting = {} => pc = "running" /\ subscribed = Pumps
  /\ Eligible /\ resting # {} => BookIs(Account)
  /\ Eligible /\ resting = {} => \E f \in Instruments \X Int : FillFollows(f)

BookInv == mishaps = 0 => Phases /\ Mail(todo) /\ Positions /\ Books

-----------------------------------------------------------------------------
(* The book: jobs and mail *)

(* The hedge's chain is the first query and no other. *)
LEMMA HedgeChainIsFirst ==
  /\ AllJobs \in Seq(JobSet) /\ AllJobs # <<>> /\ Head(AllJobs) = HedgeChain
  /\ HedgeChain \in ToSet(AllJobs) /\ HedgeChain \notin ToSet(Tail(AllJobs))
<1> DEFINE opts == [i \in DOMAIN Options |-> <<"option", Options[i]>>]
           J == {UnderlyingChain} \cup {<<"option", o>> : o \in Opts}
<1>1. Options \in Seq(Opts) /\ DOMAIN Options = 1 .. Len(Options) /\ Len(Options) \in Nat
  BY BootAssumption
<1>2. \A i \in 1 .. Len(Options) : Options[i] \in Opts
  BY <1>1
<1>3. \A i \in 1 .. Len(Options) : <<"option", Options[i]>> \in J
  BY <1>2
<1>4. opts \in [1 .. Len(Options) -> J]
  BY <1>1, <1>3
<1>5. opts \in Seq(J)
  BY <1>1, <1>4
<1>6. HedgeChain \notin J /\ UnderlyingChain \in J /\ J \cup {HedgeChain} = JobSet
  BY DEF HedgeChain, UnderlyingChain, JobSet
<1> HIDE DEF opts, J
<1> DEFINE a == AllJobs
<1>7. a = <<HedgeChain, UnderlyingChain>> \o opts
  BY DEF AllJobs, opts
<1>8. /\ a \in Seq(JobSet) /\ Len(a) = Len(opts) + 2 /\ Len(opts) \in Nat
      /\ a[1] = HedgeChain /\ a[2] = UnderlyingChain
      /\ \A i \in 1 .. Len(opts) : a[i + 2] = opts[i] /\ opts[i] \in J
  <2>1. opts \in Seq(JobSet) /\ HedgeChain \in JobSet /\ UnderlyingChain \in JobSet
    BY <1>5, <1>6
  <2>2. <<HedgeChain, UnderlyingChain>> \in Seq(JobSet) /\ Len(<<HedgeChain, UnderlyingChain>>) = 2
    BY <2>1
  <2>3. a \in Seq(JobSet)
    BY <1>7, <2>1, <2>2
  <2>4. /\ Len(a) = Len(opts) + 2 /\ Len(opts) \in Nat
        /\ a[1] = HedgeChain /\ a[2] = UnderlyingChain
        /\ \A i \in 1 .. Len(opts) : a[i + 2] = opts[i]
    BY <1>7, <2>1, <2>2
  <2>5. \A i \in 1 .. Len(opts) : opts[i] \in J
    BY <1>5
  <2> QED
    BY <2>3, <2>4, <2>5
<1> HIDE DEF a
<1>9. a # <<>>
  BY <1>8
<1>10. /\ Head(a) = a[1] /\ Tail(a) \in Seq(JobSet) /\ Len(Tail(a)) = Len(opts) + 1
       /\ \A i \in 1 .. Len(Tail(a)) : Tail(a)[i] = a[i + 1]
       /\ a[1] \in ToSet(a)
  BY <1>8, <1>9, PopFront
<1>11. ASSUME NEW i \in 1 .. Len(Tail(a)) PROVE Tail(a)[i] \in J
  <2>1. CASE i = 1
    BY <1>6, <1>8, <1>10, <2>1
  <2>2. CASE i # 1
    <3>1. i - 1 \in 1 .. Len(opts) /\ (i - 1) + 2 = i + 1
      BY <1>8, <1>10, <2>2
    <3> QED
      BY <1>8, <1>10, <3>1
  <2> QED
    BY <2>1, <2>2
<1>12. HedgeChain \notin ToSet(Tail(a))
  <2>1. DOMAIN Tail(a) = 1 .. Len(Tail(a))
    BY <1>10
  <2> QED
    BY <1>6, <1>11, <2>1 DEF ToSet
<1> QED
  BY <1>8, <1>9, <1>10, <1>12 DEF a

(* The query that is over was the hedge's, or that is behind already. *)
LEMMA JobOver ==
  ASSUME jobs \in Seq(JobSet), jobs # <<>>, HedgeAhead => jobs = AllJobs, jobs' = Tail(jobs)
  PROVE  ~HedgeAhead' /\ (Job = HedgeChain <=> HedgeAhead)
<1>1. CASE HedgeAhead
  BY <1>1, HedgeChainIsFirst DEF HedgeAhead, Job
<1>2. CASE ~HedgeAhead
  <2>1. ToSet(Tail(jobs)) \subseteq ToSet(jobs) /\ Head(jobs) \in ToSet(jobs)
    BY PopFront
  <2> QED
    BY <1>2, <2>1 DEF HedgeAhead, Job
<1> QED
  BY <1>1, <1>2

(* What is not about positions and fills leaves their streams alone. *)
SameMail(T, U) ==
  \A s \in {Pos, Fill} : (s \in DOMAIN U <=> s \in DOMAIN T) /\ (s \in DOMAIN T => U[s] = T[s])

LEMMA OwesMail ==
  ASSUME Mail(todo), NEW s, s # Pos, s # Fill, NEW q,
         \A k \in 1 .. Len(q) : q[k].type \notin {"execution", "end"}
  PROVE  Mail(Owes(s, q)) /\ SameMail(todo, Owes(s, q))
<1> DEFINE T == Owes(s, q)
<1>1. /\ DOMAIN T = DOMAIN todo \cup {s} /\ T[s] = q
      /\ \A t \in DOMAIN T : t # s => T[t] = todo[t]
  BY DEF Owes
<1> HIDE DEF T
<1>2. Mail(T)
  BY <1>1 DEF Mail
<1>3. SameMail(todo, T)
  BY <1>1 DEF SameMail
<1> QED
  BY <1>2, <1>3 DEF T

(* A frame less leaves the mail in order. *)
LEMMA SentMail ==
  ASSUME Streams, Mail(todo), NEW s \in DOMAIN todo, todo' = Sent(s)
  PROVE  Mail(todo')
<1> SUFFICES ASSUME NEW t \in DOMAIN todo', NEW k \in 1 .. Len(todo'[t])
             PROVE  /\ todo'[t][k].type = "execution" => t = Fill /\ k = 1
                    /\ todo'[t][k].type = "end" /\ todo'[t][k].id = "positions" =>
                         t = Pos /\ k = Len(todo'[t])
  BY DEF Mail
<1>1. CASE t # s
  BY <1>1, SentShape DEF Mail
<1>2. CASE t = s
  <2> DEFINE q == todo[s]
  <2>1. q \in Seq(Message) /\ q # <<>> /\ todo'[t] = Tail(q)
    BY <1>2, SentShape DEF Streams
  <2>2. /\ k + 1 \in 1 .. Len(q) /\ Tail(q)[k] = q[k + 1]
        /\ Len(q) \in Nat /\ Len(Tail(q)) = Len(q) - 1
    BY <2>1, PopFront
  <2>3. /\ q[k + 1].type = "execution" => s = Fill /\ k + 1 = 1
        /\ q[k + 1].type = "end" /\ q[k + 1].id = "positions" => s = Pos /\ k + 1 = Len(q)
    BY <2>2 DEF Mail
  <2> HIDE DEF q
  <2>4. k \in Int /\ k + 1 # 1
    BY <2>1
  <2>5. k + 1 = Len(q) => k = Len(Tail(q))
    BY <2>2, <2>4
  <2> HIDE DEF Pos, Fill
  <2> QED
    BY <1>2, <2>1, <2>2, <2>3, <2>4, <2>5
<1> QED
  BY <1>1, <1>2

(* The mail about positions and fills, as the invariant sees it. *)
LEMMA SameMailSame ==
  ASSUME NEW T, NEW U, SameMail(T, U)
  PROVE  /\ \A i : Announced(T, i) => Announced(U, i)
         /\ Pos \in DOMAIN U <=> Pos \in DOMAIN T
         /\ Fill \in DOMAIN U <=> Fill \in DOMAIN T
         /\ Fill \in DOMAIN T => U[Fill] = T[Fill]
         /\ NoExecution(T) => NoExecution(U)
BY DEF SameMail, Announced, NoExecution

(* A step of the main task that leaves book, cache and fills alone. *)
LEMMA BookAside ==
  ASSUME BookInv, mishaps = 0, mishaps' = 0,
         UNCHANGED <<account, resting, cache, done, fillq, hedge_qty, book, asked, whole, quiet>>,
         Phases', Mail(todo'), SameMail(todo, todo'), asked \/ todo' = todo,
         whole => hedge_contract' = hedge_contract,
         pc = "running" => pc' = "running" /\ registered' = registered,
         subscribed = Pumps => subscribed' = Pumps
  PROVE  BookInv'
<1>1. Phases /\ Positions /\ Books
  BY DEF BookInv
<1>2. /\ \A i : Announced(todo, i) => Announced(todo', i)
      /\ Pos \in DOMAIN todo' <=> Pos \in DOMAIN todo
      /\ Fill \in DOMAIN todo' <=> Fill \in DOMAIN todo
      /\ Fill \in DOMAIN todo => todo'[Fill] = todo[Fill]
      /\ NoExecution(todo) => NoExecution(todo')
  BY SameMailSame
<1>3. Positions'
  <2>1. ~asked' => /\ "positions" \notin done'
                   /\ \A s \in DOMAIN todo' : \A k \in 1 .. Len(todo'[s]) : todo'[s][k].type \in BootstrapMsgs
                   /\ \A i \in Instruments : cache'[i] = 0
    BY <1>1 DEF Positions
  <2>2. "positions" \in done' => Pos \notin DOMAIN todo'
    BY <1>1, <1>2 DEF Positions
  <2>3. resting' # {} =>
          /\ account' = Account /\ Fill \notin DOMAIN todo' /\ fillq' = <<>>
          /\ asked' => \A i \in Instruments : cache'[i] = Account[i] \/ Announced(todo', i)
    BY <1>1, <1>2 DEF Positions
  <2>4. \A r, s \in resting' : r = s
    BY <1>1 DEF Positions
  <2>5. \A i : Announced(todo, i)' <=> Announced(todo', i)
    BY DEF Announced
  <2> QED
    BY <2>1, <2>2, <2>3, <2>4, <2>5 DEF Positions
<1>4. Books'
  <2>1. quiet' /\ resting' = {} => pc' = "running" /\ subscribed' = Pumps
    BY <1>1 DEF Books
  <2>2. Eligible' => Eligible /\ hedge_contract' = hedge_contract
    BY DEF Eligible, OnlyTheHedge
  <2>3. ASSUME Eligible', NEW a PROVE BookIs(a) => BookIs(a)'
    BY <2>2, <2>3 DEF BookIs
  <2>4. Eligible' /\ resting' # {} => BookIs(Account)'
    BY <1>1, <2>2, <2>3 DEF Books
  <2>5. ASSUME Eligible', resting' = {} PROVE \E f \in Instruments \X Int : FillFollows(f)'
    <3>1. PICK f \in Instruments \X Int : FillFollows(f)
      BY <1>1, <2>2, <2>5 DEF Books
    <3>2. registered' = registered
      BY <1>1, <2>2, <2>5 DEF Books, Eligible
    <3>3. BookIs(Account) => BookIs(Account)'
      BY <2>2, <2>5 DEF BookIs
    <3>4. BookIs(account) => BookIs(account)'
      BY <2>2, <2>5 DEF BookIs
    <3>5. NoExecution(todo)' <=> NoExecution(todo')
      BY DEF NoExecution
    <3>6. FillFollows(f)'
      BY <1>2, <3>1, <3>2, <3>3, <3>4, <3>5 DEF FillFollows
    <3> QED
      BY <3>6
  <2> QED
    BY <2>1, <2>4, <2>5 DEF Books
<1>5. Mail(todo)'
  BY DEF Mail
<1> QED
  BY <1>3, <1>4, <1>5 DEF BookInv


(* The positions of the account, and their end after them. *)
LEMMA PositionStreamShape ==
  LET n == Len(PositionStream) IN
    /\ n \in Nat \ {0} /\ PositionStream[n] = Msg("end", "positions", 0)
    /\ \A k \in 1 .. n - 1 : PositionStream[k].type = "position"
    /\ \A i \in Instruments : account[i] # 0 =>
         \E k \in 1 .. n : PositionStream[k].type = "position" /\ PositionStream[k].id = i
<1> DEFINE held == {i \in Instruments : account[i] # 0}
           sent == {Msg("position", i, 0) : i \in held}
           front == SetToSeq(sent)
           last == Msg("end", "positions", 0)
           p == PositionStream
<1>1. front \in Seq(sent) /\ ToSet(front) = sent
  BY HeldIsFinite, InSomeOrder
<1>2. p = front \o <<last>>
  BY DEF PositionStream
<1>3. \A m \in sent : m.type = "position"
  BY DEF Msg
<1>4. \A i \in held : Msg("position", i, 0) \in sent /\ Msg("position", i, 0).id = i
  BY DEF Msg
<1> HIDE DEF sent, front, last, p
<1>5. /\ Len(front) \in Nat /\ DOMAIN front = 1 .. Len(front)
      /\ Len(p) = Len(front) + 1 /\ p[Len(front) + 1] = last
      /\ \A k \in 1 .. Len(front) : p[k] = front[k] /\ front[k] \in sent
  BY <1>1, <1>2
<1>6. Len(p) \in Nat \ {0} /\ p[Len(p)] = last /\ Len(p) - 1 = Len(front)
  BY <1>5
<1>7. \A k \in 1 .. Len(p) - 1 : p[k].type = "position"
  BY <1>3, <1>5, <1>6
<1>8. ASSUME NEW i \in Instruments, account[i] # 0
      PROVE  \E k \in 1 .. Len(p) : p[k].type = "position" /\ p[k].id = i
  <2>1. i \in held
    BY <1>8
  <2>2. Msg("position", i, 0) \in ToSet(front)
    BY <1>1, <1>4, <2>1
  <2>3. PICK k \in 1 .. Len(front) : front[k] = Msg("position", i, 0)
    BY <1>5, <2>2 DEF ToSet
  <2>4. k \in 1 .. Len(p) /\ p[k] = Msg("position", i, 0)
    BY <1>5, <2>3
  <2> QED
    BY <1>3, <1>4, <2>1, <2>4
<1> QED
  BY <1>6, <1>7, <1>8 DEF p, last

(* The two streams are not one, and neither is an answer. *)
LEMMA StreamNames ==
  /\ Pos # Fill
  /\ \A r : <<"request", r>> # Pos /\ <<"request", r>> # Fill
  /\ Stream("ticks") # Pos /\ Stream("ticks") # Fill
  /\ Stream("others") # Pos /\ Stream("others") # Fill
  /\ \A t \in BootstrapMsgs : Stream(t) # Pos /\ Stream(t) # Fill
BY DEF Pos, Fill, Stream, BootstrapMsgs

-----------------------------------------------------------------------------
(* The book: the main task *)

(* Where the main task only walks on. *)
LEMMA WalkBook ==
  ASSUME BookInv, BootstrapInv, mishaps = 0, mishaps' = 0,
         \/ ConnectFails \/ wait_for_bootstrap \/ BootstrapTimeout \/ SendRequestsFails
         \/ wait_for_seeding \/ SeedingTimeout \/ spawn_all
         \/ wait_for_underlying \/ FirstTickTimeout \/ SubscriptionDone
  PROVE  BookInv'
<1> USE DEF mainVars, gatewayVars, recvVars, adapterVars, pumpVars, daemonVars, histories
<1>1. /\ UNCHANGED <<jobs, account, resting, cache, done, fillq, hedge_qty, book, asked, whole, quiet>>
      /\ UNCHANGED <<todo, hedge_contract, registered, subscribed>>
      /\ pc # "running"
  BY DEF ConnectFails, wait_for_bootstrap, BootstrapTimeout, SendRequestsFails, wait_for_seeding,
         SeedingTimeout, spawn_all, wait_for_underlying, FirstTickTimeout, SubscriptionDone
<1>2. \/ pc' = "failed"
      \/ pc = "bootstrap" /\ pc' = "requests"
      \/ pc \in {"seeding", "spawn", "first_tick"} /\ pc' = "query"
      \/ pc = "first_tick" /\ pc' = "running"
      \/ pc = "query" /\ jobs = <<>> /\ pc' = "running"
  BY DEF ConnectFails, wait_for_bootstrap, BootstrapTimeout, SendRequestsFails, wait_for_seeding,
         SeedingTimeout, spawn_all, wait_for_underlying, FirstTickTimeout, SubscriptionDone
<1>3. jobs = <<>> => ~HedgeAhead
  BY DEF HedgeAhead, ToSet
<1>4. HedgeAhead' = HedgeAhead
  BY <1>1 DEF HedgeAhead
<1>5. Phases /\ Mail(todo) /\ (pc = "bootstrap" => ~asked)
  BY DEF BookInv, BootstrapInv
<1>6. Phases'
  BY <1>1, <1>2, <1>3, <1>4, <1>5 DEF Phases, Early
<1>7. SameMail(todo, todo') /\ Mail(todo')
  BY <1>1, <1>5 DEF SameMail
<1> QED
  BY <1>1, <1>6, <1>7, BookAside

(* The link is up and the bootstrap is on its way. *)
LEMMA ConnectBook ==
  ASSUME BookInv, BootstrapInv, mishaps = 0, mishaps' = 0, client_connect
  PROVE  BookInv'
<1> USE DEF mainVars, gatewayVars, recvVars, adapterVars, pumpVars, daemonVars, histories
<1>1. /\ UNCHANGED <<jobs, account, resting, cache, done, fillq, hedge_qty, book, asked, whole, quiet>>
      /\ UNCHANGED <<hedge_contract, registered, subscribed>>
      /\ pc = "connect" /\ pc' = "bootstrap" /\ ~asked
      /\ todo' = [s \in {Stream(t) : t \in BootstrapMsgs} |-> <<Msg(s[2], 0, 0)>>]
  BY DEF client_connect, BootstrapInv
<1>2. \A s \in DOMAIN todo' : \E t \in BootstrapMsgs : s = Stream(t) /\ todo'[s] = <<Msg(t, 0, 0)>>
  BY <1>1 DEF Stream
<1>3. \A s \in DOMAIN todo' : \A k \in 1 .. Len(todo'[s]) : todo'[s][k].type \in BootstrapMsgs
  <2>1. \A t \in BootstrapMsgs : \A k \in 1 .. Len(<<Msg(t, 0, 0)>>) : <<Msg(t, 0, 0)>>[k].type = t
    BY DEF Msg
  <2> QED
    BY <1>2, <2>1
<1>4. Fill \notin DOMAIN todo' /\ Pos \notin DOMAIN todo'
  BY <1>2, StreamNames
<1>5. Phases /\ Positions /\ Books
  BY DEF BookInv
<1>6. HedgeAhead' = HedgeAhead
  BY <1>1 DEF HedgeAhead
<1>7. Phases'
  BY <1>1, <1>5, <1>6 DEF Phases, Early
<1>8. Mail(todo)'
  BY <1>3 DEF Mail, BootstrapMsgs
<1>9. Positions'
  BY <1>1, <1>3, <1>4, <1>5 DEF Positions
<1>10. Books'
  <2>1. ~(quiet /\ resting = {})
    BY <1>1, <1>5 DEF Books
  <2>2. Eligible' = Eligible /\ (BookIs(Account) => BookIs(Account)')
    BY <1>1 DEF Eligible, OnlyTheHedge, BookIs
  <2> QED
    BY <1>1, <1>5, <2>1, <2>2 DEF Books, Eligible
<1> QED
  BY <1>7, <1>8, <1>9, <1>10 DEF BookInv


(* The positions are asked for: each that is not flat is announced. *)
LEMMA RequestBook ==
  ASSUME BookInv, QueryInv, mishaps = 0, mishaps' = 0, SendRequests
  PROVE  BookInv'
<1> USE DEF mainVars, gatewayVars, recvVars, adapterVars, pumpVars, daemonVars, histories
<1>0. link = "up"
  BY DEF SendRequests, QueryInv, Shapes
<1>1. /\ UNCHANGED <<jobs, account, resting, cache, done, fillq, hedge_qty, book, whole, quiet>>
      /\ UNCHANGED <<hedge_contract, registered, subscribed>>
      /\ pc = "requests" /\ pc' = "seeding" /\ asked'
      /\ todo' = [s \in DOMAIN todo \cup {Stream("positions"), Stream("others")} |->
                     IF s = Stream("positions") THEN PositionStream
                     ELSE IF s = Stream("others") THEN OtherEnds ELSE todo[s]]
  BY <1>0 DEF SendRequests
<1>2. Phases /\ Mail(todo) /\ Positions /\ Books /\ ~asked
  BY <1>1 DEF BookInv, Phases
<1>3. /\ DOMAIN todo' = DOMAIN todo \cup {Pos, Stream("others")}
      /\ todo'[Pos] = PositionStream
      /\ \A s \in DOMAIN todo' : s # Pos /\ s # Stream("others") => s \in DOMAIN todo /\ todo'[s] = todo[s]
      /\ todo'[Stream("others")] = OtherEnds
  BY <1>1, StreamNames DEF Pos
<1>4. /\ Len(OtherEnds) = 2
      /\ \A k \in 1 .. 2 : OtherEnds[k].type = "end" /\ OtherEnds[k].id # "positions"
  BY DEF OtherEnds, Msg
<1> DEFINE n == Len(PositionStream)
           P == PositionStream
<1>5. /\ n \in Nat \ {0} /\ P[n] = Msg("end", "positions", 0)
      /\ \A k \in 1 .. n - 1 : P[k].type = "position"
      /\ \A i \in Instruments : account[i] # 0 => \E k \in 1 .. n : P[k].type = "position" /\ P[k].id = i
  BY PositionStreamShape
<1>6. \A k \in 1 .. n : k = n \/ k \in 1 .. n - 1
  BY <1>5
<1>7. P[n].type = "end"
  BY <1>5 DEF Msg
<1> HIDE DEF n, P
<1>8. Mail(todo')
  <2> SUFFICES ASSUME NEW s \in DOMAIN todo', NEW k \in 1 .. Len(todo'[s])
               PROVE  /\ todo'[s][k].type = "execution" => s = Fill /\ k = 1
                      /\ todo'[s][k].type = "end" /\ todo'[s][k].id = "positions" =>
                           s = Pos /\ k = Len(todo'[s])
    BY DEF Mail
  <2>1. CASE s = Pos
    <3>1. todo'[s] = P /\ Len(todo'[s]) = n /\ k \in 1 .. n
      BY <1>3, <2>1 DEF P, n
    <3>2. k = n \/ P[k].type = "position"
      BY <1>5, <1>6, <3>1
    <3> QED
      BY <1>7, <2>1, <3>1, <3>2
  <2>2. CASE s = Stream("others")
    BY <1>3, <1>4, <2>2
  <2>3. CASE s # Pos /\ s # Stream("others")
    BY <1>2, <1>3, <2>3 DEF Mail
  <2> QED
    BY <2>1, <2>2, <2>3
<1>9. HedgeAhead' = HedgeAhead
  BY <1>1 DEF HedgeAhead
<1>10. Phases'
  BY <1>1, <1>2, <1>9 DEF Phases, Early
<1>11. ASSUME resting' # {}
       PROVE  /\ account' = Account /\ Fill \notin DOMAIN todo' /\ fillq' = <<>>
              /\ \A i \in Instruments : cache'[i] = Account[i] \/ Announced(todo', i)
  <2>1. account = Account /\ Fill \notin DOMAIN todo /\ fillq = <<>>
    BY <1>1, <1>2, <1>11 DEF Positions
  <2>2. Fill \notin DOMAIN todo'
    BY <1>3, <2>1, StreamNames
  <2>3. ASSUME NEW i \in Instruments PROVE cache'[i] = Account[i] \/ Announced(todo', i)
    <3>1. cache'[i] = 0
      BY <1>1, <1>2 DEF Positions
    <3>2. CASE account[i] # 0
      <4>1. PICK k \in 1 .. n : P[k].type = "position" /\ P[k].id = i
        BY <1>5, <3>2
      <4> QED
        BY <1>3, <4>1 DEF Announced, n, P
    <3> QED
      BY <2>1, <3>1, <3>2
  <2> QED
    BY <1>1, <2>1, <2>2, <2>3
<1>12. Positions'
  <2>1. "positions" \notin done' /\ \A r, s \in resting' : r = s
    BY <1>1, <1>2 DEF Positions
  <2>2. \A i : Announced(todo, i)' <=> Announced(todo', i)
    BY DEF Announced
  <2> QED
    BY <1>1, <1>11, <2>1, <2>2 DEF Positions
<1>13. Books'
  <2>1. ~(quiet /\ resting = {})
    BY <1>1, <1>2 DEF Books
  <2>2. Eligible' = Eligible /\ (BookIs(Account) => BookIs(Account)')
    BY <1>1 DEF Eligible, OnlyTheHedge, BookIs
  <2> QED
    BY <1>1, <1>2, <2>1, <2>2 DEF Books, Eligible
<1>14. Mail(todo)'
  BY <1>8 DEF Mail
<1> QED
  BY <1>10, <1>12, <1>13, <1>14 DEF BookInv

(* A whole snapshot is the account, so what is seeded from it is. *)
LEMMA SeedBook ==
  ASSUME BookInv, mishaps = 0, mishaps' = 0, seed_positions_from_broker
  PROVE  BookInv'
<1> USE DEF mainVars, gatewayVars, recvVars, adapterVars, pumpVars, daemonVars, histories
<1> DEFINE held == {f \in Futures : cache[f] # 0}
<1>1. /\ UNCHANGED <<jobs, todo, account, resting, cache, done, fillq, asked, quiet>>
      /\ UNCHANGED <<hedge_contract, registered, subscribed>>
      /\ pc = "seed" /\ pc' = "spawn"
      /\ book' = [o \in Opts |-> cache[o]]
      /\ hedge_qty' \in (IF held = {} THEN {hedge_qty} ELSE {cache[f] : f \in held})
      /\ whole' = ("positions" \in done)
  BY DEF seed_positions_from_broker
<1>2. Phases /\ Mail(todo) /\ Positions /\ Books
  BY DEF BookInv
<1>3. HedgeAhead' = HedgeAhead
  BY <1>1 DEF HedgeAhead
<1>4. Phases'
  BY <1>1, <1>2, <1>3 DEF Phases, Early
<1>5. Mail(todo)' /\ Positions'
  BY <1>1, <1>2 DEF Mail, Positions, Announced
<1>6. ~(quiet /\ resting = {})
  BY <1>1, <1>2 DEF Books
<1>7. ASSUME Eligible' PROVE BookIs(Account)'
  <2>1. resting # {} /\ "positions" \in done /\ hedge_contract \in Futures
    BY <1>1, <1>2, <1>6, <1>7 DEF Eligible, OnlyTheHedge, Phases
  <2>2. \A i \in Instruments : cache[i] = Account[i]
    <3>1. Pos \notin DOMAIN todo
      BY <1>2, <2>1 DEF Positions
    <3>2. asked
      BY <1>1, <1>2 DEF Phases, Early
    <3> QED
      BY <1>2, <2>1, <3>1, <3>2 DEF Positions, Announced
  <2>3. \A o \in Opts : book'[o] = Account[o]
    BY <1>1, <2>2 DEF Instruments
  <2>4. \A f \in Futures : cache[f] = Account[f]
    BY <2>2 DEF Instruments
  <2>5. \A f \in held : f = hedge_contract
    BY <1>1, <1>7, <2>4 DEF Eligible, OnlyTheHedge
  <2>6. hedge_qty' = Account[hedge_contract]
    <3>1. CASE held = {}
      <4>1. hedge_qty' = 0
        BY <1>1, <1>2, <3>1 DEF Phases
      <4>2. cache[hedge_contract] = 0
        BY <2>1, <3>1
      <4> QED
        BY <2>1, <2>4, <4>1, <4>2
    <3>2. CASE held # {}
      <4>1. PICK f \in held : hedge_qty' = cache[f]
        BY <1>1, <3>2
      <4> QED
        BY <2>1, <2>4, <2>5, <4>1
    <3> QED
      BY <3>1, <3>2
  <2> QED
    BY <1>1, <2>3, <2>6 DEF BookIs
<1>8. Books'
  BY <1>1, <1>6, <1>7 DEF Books, Eligible
<1> QED
  BY <1>4, <1>5, <1>8 DEF BookInv

(* A query is made; its answer has no positions and no fills. *)
LEMMA QueryBook ==
  ASSUME BookInv, QueryInv, mishaps = 0, mishaps' = 0, Query
  PROVE  BookInv'
<1> USE DEF mainVars, gatewayVars, recvVars, adapterVars, pumpVars, daemonVars, histories
<1>1. /\ UNCHANGED <<jobs, account, resting, cache, done, fillq, hedge_qty, book, asked, whole, quiet>>
      /\ UNCHANGED <<hedge_contract, registered, subscribed>>
      /\ pc = "query" /\ pc' = "await" /\ jobs # <<>>
      /\ todo' = todo \/ \E a \in Answers(next_req_id, Job) : todo' = Owes(<<"request", next_req_id>>, a)
  BY DEF Query
<1>2. Phases /\ Mail(todo) /\ asked
  BY <1>1 DEF BookInv, Phases, Early
<1>3. HedgeAhead' = HedgeAhead
  BY <1>1 DEF HedgeAhead
<1>4. Phases'
  BY <1>1, <1>2, <1>3 DEF Phases, Early
<1>5. Mail(todo') /\ SameMail(todo, todo')
  <2>1. CASE todo' = todo
    BY <1>2, <2>1 DEF SameMail
  <2>2. ASSUME NEW a \in Answers(next_req_id, Job), todo' = Owes(<<"request", next_req_id>>, a)
        PROVE  Mail(todo') /\ SameMail(todo, todo')
    <3>1. Job \in JobSet /\ next_req_id \in Nat
      BY <1>1, NextJob DEF QueryInv, Shapes
    <3>2. Complete(a, <<>>, ToSet(Answer(Job))) /\ a \in Seq(Message)
      BY <3>1, AnswerShapes
    <3>3. ASSUME NEW k \in 1 .. Len(a) PROVE a[k].type \in {"error", "details", "detailsEnd"}
      <4>1. Len(a) \in Nat /\ (k = Len(a) \/ k \in 1 .. Len(a) - 1)
        BY <3>2
      <4> QED
        BY <3>2, <4>1 DEF Complete
    <3> DEFINE s == <<"request", next_req_id>>
    <3>4. s # Pos /\ s # Fill /\ todo' = Owes(s, a)
      BY <2>2, StreamNames
    <3> HIDE DEF s
    <3> QED
      BY <1>2, <3>3, <3>4, OwesMail
  <2> QED
    BY <1>1, <2>1, <2>2
<1> QED
  BY <1>1, <1>2, <1>4, <1>5, BookAside

(* A query is over; the hedge's contract is a future, and settled before   *)
(* the book is seeded.                                                     *)
LEMMA AnswerBook ==
  ASSUME BookInv, QueryInv, mishaps = 0, mishaps' = 0, Answered \/ QueryTimeout
  PROVE  BookInv'
<1> USE DEF mainVars, gatewayVars, recvVars, adapterVars, pumpVars, daemonVars, histories
<1> DEFINE c == reply.contracts
<1>1. /\ UNCHANGED <<account, resting, cache, done, fillq, hedge_qty, book, asked, whole, quiet>>
      /\ subscribed' = subscribed
      /\ pc = "await" /\ jobs # <<>> /\ jobs' = Tail(jobs)
      /\ \E ok \in BOOLEAN : pc' = AfterQuery(ok)
  BY DEF Answered, QueryTimeout, QueryInv, Shapes
<1>2. Phases /\ Mail(todo) /\ asked /\ jobs \in Seq(JobSet)
  BY <1>1 DEF BookInv, Phases, Early, QueryInv, Shapes
<1>3. ~HedgeAhead' /\ (Job = HedgeChain <=> HedgeAhead)
  BY <1>1, <1>2, JobOver DEF Phases
<1>4. /\ HedgeAhead => pc' = "seed"
      /\ ~HedgeAhead => pc' \in {"first_tick", "running", "query"}
  <2>1. HedgeChain # UnderlyingChain
    BY DEF HedgeChain, UnderlyingChain
  <2>2. \A ok \in BOOLEAN :
          /\ Job = HedgeChain => AfterQuery(ok) = "seed"
          /\ Job # HedgeChain => AfterQuery(ok) \in {"first_tick", "running", "query"}
    BY <2>1 DEF AfterQuery
  <2> QED
    BY <1>1, <1>3, <2>2
<1>5. hedge_contract' # hedge_contract => HedgeAhead /\ hedge_contract' \in Futures
  <2> SUFFICES ASSUME hedge_contract' # hedge_contract PROVE HedgeAhead /\ hedge_contract' \in Futures
    OBVIOUS
  <2>1. /\ Answered /\ Job = HedgeChain
        /\ \E x \in ToSet(c) : x >= Lockout
        /\ hedge_contract' = Earliest(c, Lockout)
    BY DEF Answered, QueryTimeout, resolve_hedge_contracts, resolve_underlying, qualify_and_subscribe
  <2>2. ToSet(c) \subseteq Futures
    <3>1. ToSet(c) \subseteq All
      BY <2>1 DEF Answered, QueryInv, RightReply
    <3>2. HedgeChain \in JobSet /\ HedgeChain[1] = "chain"
      BY DEF JobSet, HedgeChain
    <3>3. All = Futures
      BY <2>1, <3>2, AnswerSets DEF All
    <3> QED
      BY <3>1, <3>3
  <2> DEFINE S == {x \in ToSet(c) : x >= Lockout}
  <2>3. S \subseteq Nat /\ S # {} /\ S \subseteq Futures
    BY <2>1, <2>2, BootAssumption
  <2>4. hedge_contract' = CHOOSE x \in S : \A y \in S : x <= y
    BY <2>1 DEF Earliest, Min
  <2> HIDE DEF S
  <2>5. \E x \in S : \A y \in S : x <= y
    BY <2>3, LeastOf
  <2>6. hedge_contract' \in S
    BY <2>4, <2>5
  <2> QED
    BY <1>3, <2>1, <2>3, <2>6
<1>6. Phases'
  BY <1>1, <1>2, <1>3, <1>4, <1>5 DEF Phases, Early
<1>7. whole => hedge_contract' = hedge_contract
  BY <1>2, <1>5 DEF Phases
<1>8. Mail(todo') /\ SameMail(todo, todo')
  <2>1. todo' = todo \/ todo' = Owes(Stream("ticks"), <<Msg("tick", 0, 0)>>)
    BY DEF Answered, QueryTimeout, resolve_hedge_contracts, resolve_underlying,
           qualify_and_subscribe, subscribe_ticks
  <2>2. CASE todo' = todo
    BY <1>2, <2>2 DEF SameMail
  <2>3. CASE todo' = Owes(Stream("ticks"), <<Msg("tick", 0, 0)>>)
    <3> DEFINE q == <<Msg("tick", 0, 0)>>
    <3>1. \A k \in 1 .. Len(q) : q[k].type \notin {"execution", "end"}
      BY DEF Msg
    <3>2. todo' = Owes(Stream("ticks"), q) /\ Stream("ticks") # Pos /\ Stream("ticks") # Fill
      BY <2>3, StreamNames
    <3> HIDE DEF q
    <3> QED
      BY <1>2, <3>1, <3>2, OwesMail
  <2> QED
    BY <2>1, <2>2, <2>3
<1> QED
  BY <1>1, <1>2, <1>6, <1>7, <1>8, BookAside


-----------------------------------------------------------------------------
(* The book: the gateway, the dispatcher and the pumps *)

(* What a frame that is received does to cache, seeding and fills. *)
LEMMA ReceivedFrame ==
  ASSUME Streams, NEW s \in DOMAIN todo, Receive(s)
  PROVE  LET m == todo[s][1] IN
           /\ m.type # "position" => cache' = cache
           /\ m.type = "position" => cache' = [cache EXCEPT ![m.id] = account[m.id]]
           /\ done' = done \/ (m.type = "end" /\ done' = done \cup {m.id})
           /\ m.type # "execution" => fillq' = fillq
           /\ m.type = "execution" =>
                fillq' = IF "fills" \in subscribed THEN Append(fillq, <<m.id, m.body>>) ELSE fillq
           /\ m.type \in BootstrapMsgs => done' = done
<1> DEFINE m == todo[s][1]
           w == Current(m)
<1>1. m \in Message /\ m = Head(todo[s])
  BY PopFront DEF Streams
<1>2. /\ w.type = m.type /\ w.id = m.id
      /\ m.type = "position" => w.body = account[m.id]
      /\ m.type # "position" => w.body = m.body
  BY <1>1 DEF Current, Message
<1>3. \/ RouteBootstrap(w)
      \/ RoutePosition(w) \/ RouteEnd(w)
      \/ RouteContractDetails(w) \/ RouteContractDetailsEnd(w)
      \/ RouteError(w) \/ RouteExecution(w) \/ RouteTick(w)
  BY <1>1 DEF Receive
<1> HIDE DEF m, w
<1>4. /\ m.type # "position" => cache' = cache
      /\ m.type = "position" => cache' = [cache EXCEPT ![m.id] = account[m.id]]
  BY <1>2, <1>3 DEF RouteBootstrap, RoutePosition, RouteEnd, RouteContractDetails,
     RouteContractDetailsEnd, RouteError, RouteExecution, RouteTick, BootstrapMsgs
<1>5. done' = done \/ (m.type = "end" /\ done' = done \cup {m.id})
  BY <1>2, <1>3 DEF RouteBootstrap, RoutePosition, RouteEnd, RouteContractDetails,
     RouteContractDetailsEnd, RouteError, RouteExecution, RouteTick, BootstrapMsgs
<1>6. /\ m.type # "execution" => fillq' = fillq
      /\ m.type = "execution" =>
           fillq' = IF "fills" \in subscribed THEN Append(fillq, <<m.id, m.body>>) ELSE fillq
  BY <1>2, <1>3 DEF RouteBootstrap, RoutePosition, RouteEnd, RouteContractDetails,
     RouteContractDetailsEnd, RouteError, RouteExecution, RouteTick, BootstrapMsgs
<1>7. m.type \in BootstrapMsgs => done' = done
  BY <1>5 DEF BootstrapMsgs
<1> QED
  BY <1>4, <1>5, <1>6, <1>7 DEF m

(* A frame moves a position into the cache, the end into the seeding, or   *)
(* the fill into the channel.                                              *)
LEMMA ReceiveBook ==
  ASSUME BookInv, QueryInv, mishaps = 0, mishaps' = 0, NEW s \in DOMAIN todo, Receive(s)
  PROVE  BookInv'
<1> USE DEF mainVars, gatewayVars, recvVars, adapterVars, pumpVars, daemonVars, histories
<1> DEFINE q == todo[s]
           m == q[1]
<1>1. /\ UNCHANGED <<pc, jobs, account, resting, hedge_qty, book, asked, whole, quiet>>
      /\ UNCHANGED <<hedge_contract, registered, subscribed>>
      /\ todo' = Sent(s)
  BY DEF Receive
<1>2. Phases /\ Mail(todo) /\ Positions /\ Books /\ Streams
  BY DEF BookInv, QueryInv
<1>3. /\ m.type # "position" => cache' = cache
      /\ m.type = "position" => cache' = [cache EXCEPT ![m.id] = account[m.id]]
      /\ done' = done \/ (m.type = "end" /\ done' = done \cup {m.id})
      /\ m.type # "execution" => fillq' = fillq
      /\ m.type = "execution" =>
           fillq' = IF "fills" \in subscribed THEN Append(fillq, <<m.id, m.body>>) ELSE fillq
      /\ m.type \in BootstrapMsgs => done' = done
  BY <1>2, ReceivedFrame
<1>4. /\ \A t \in DOMAIN todo' :
           /\ t \in DOMAIN todo
           /\ t # s => todo'[t] = todo[t]
           /\ t = s => todo'[t] = Tail(q) /\ Len(q) > 1
      /\ \A t \in DOMAIN todo : t # s => t \in DOMAIN todo'
      /\ Len(q) > 1 => s \in DOMAIN todo'
  BY <1>1, <1>2, SentShape
<1>5. /\ q \in Seq(Message) /\ q # <<>> /\ Len(q) \in Nat \ {0} /\ Len(Tail(q)) = Len(q) - 1
      /\ \A i \in 1 .. Len(Tail(q)) : i + 1 \in 1 .. Len(q) /\ Tail(q)[i] = q[i + 1]
  BY <1>2, PopFront DEF Streams
<1>6. /\ m.type = "execution" => s = Fill
      /\ m.type = "end" /\ m.id = "positions" => s = Pos /\ Len(q) = 1
      /\ \A k \in 1 .. Len(q) : q[k].type = "execution" => k = 1
  BY <1>2, <1>5 DEF Mail
<1> HIDE DEF q, m
<1>7. Mail(todo')
  BY <1>1, <1>2, SentMail
<1>8. DOMAIN cache' = Instruments
  BY <1>2, <1>3 DEF Phases
<1>9. HedgeAhead' = HedgeAhead
  BY <1>1 DEF HedgeAhead
<1>10. subscribed = {} => fillq' = fillq
  BY <1>3
<1>11. Phases'
  BY <1>1, <1>2, <1>8, <1>9, <1>10 DEF Phases, Early
<1>12. ASSUME ~asked
       PROVE  /\ "positions" \notin done'
              /\ \A t \in DOMAIN todo' : \A k \in 1 .. Len(todo'[t]) : todo'[t][k].type \in BootstrapMsgs
              /\ \A i \in Instruments : cache'[i] = 0
  <2>1. \A t \in DOMAIN todo : \A k \in 1 .. Len(todo[t]) : todo[t][k].type \in BootstrapMsgs
    BY <1>2, <1>12 DEF Positions
  <2>2. m.type \in BootstrapMsgs
    <3>1. 1 \in 1 .. Len(q)
      BY <1>5
    <3> QED
      BY <2>1, <3>1 DEF q, m
  <2>3. done' = done /\ cache' = cache
    BY <1>3, <2>2 DEF BootstrapMsgs
  <2>4. \A k \in 1 .. Len(Tail(q)) : Tail(q)[k].type \in BootstrapMsgs
    BY <1>5, <2>1 DEF q
  <2>5. \A t \in DOMAIN todo' : \A k \in 1 .. Len(todo'[t]) : todo'[t][k].type \in BootstrapMsgs
    BY <1>4, <2>1, <2>4
  <2> QED
    BY <1>2, <1>12, <2>3, <2>5 DEF Positions
<1>13. "positions" \in done' => Pos \notin DOMAIN todo'
  <2>1. CASE "positions" \in done
    BY <1>2, <1>4, <2>1 DEF Positions
  <2>2. CASE "positions" \in done' /\ "positions" \notin done
    <3>1. s = Pos /\ Len(q) = 1
      BY <1>3, <1>6, <2>2
    <3> QED
      BY <1>4, <3>1
  <2> QED
    BY <2>1, <2>2
<1>14. ASSUME resting # {}
       PROVE  /\ account' = Account /\ Fill \notin DOMAIN todo' /\ fillq' = <<>>
              /\ asked => \A i \in Instruments : cache'[i] = Account[i] \/ Announced(todo', i)
  <2>1. account = Account /\ Fill \notin DOMAIN todo /\ fillq = <<>>
    BY <1>2, <1>14 DEF Positions
  <2>2. m.type # "execution"
    BY <1>6, <2>1
  <2>3. ASSUME asked, NEW i \in Instruments PROVE cache'[i] = Account[i] \/ Announced(todo', i)
    <3>1. cache[i] = Account[i] => cache'[i] = Account[i]
      BY <1>2, <1>3, <2>1 DEF Phases
    <3>2. ASSUME Announced(todo, i) PROVE cache'[i] = Account[i] \/ Announced(todo', i)
      <4>1. PICK k \in 1 .. Len(todo[Pos]) : todo[Pos][k].type = "position" /\ todo[Pos][k].id = i
        BY <3>2 DEF Announced
      <4>2. Pos \in DOMAIN todo
        BY <3>2 DEF Announced
      <4>3. CASE s # Pos
        BY <1>4, <4>1, <4>2, <4>3 DEF Announced
      <4>4. CASE s = Pos /\ k = 1
        <5>1. m.type = "position" /\ m.id = i
          BY <4>1, <4>4 DEF m, q
        <5> QED
          BY <1>2, <1>3, <2>1, <5>1 DEF Phases
      <4>5. CASE s = Pos /\ k # 1
        <5>1. k \in 1 .. Len(q) /\ q[k].type = "position" /\ q[k].id = i
          BY <4>1, <4>5 DEF q
        <5>2. Len(q) > 1 /\ k - 1 \in 1 .. Len(Tail(q)) /\ (k - 1) + 1 = k
          BY <1>5, <4>5, <5>1
        <5>3. Pos \in DOMAIN todo' /\ todo'[Pos] = Tail(q) /\ Tail(q)[k - 1] = q[k]
          BY <1>4, <1>5, <4>5, <5>2
        <5> QED
          BY <5>1, <5>2, <5>3 DEF Announced
      <4> QED
        BY <4>3, <4>4, <4>5
    <3> QED
      BY <1>2, <1>14, <2>3, <3>1, <3>2 DEF Positions
  <2> QED
    BY <1>1, <1>3, <1>4, <2>1, <2>2, <2>3
<1>15. Positions'
  <2>1. \A i : Announced(todo, i)' <=> Announced(todo', i)
    BY DEF Announced
  <2>2. \A r, t \in resting' : r = t
    BY <1>1, <1>2 DEF Positions
  <2> QED
    BY <1>1, <1>12, <1>13, <1>14, <2>1, <2>2 DEF Positions
<1>16. Books'
  <2>1. Eligible' = Eligible /\ BookIs(Account)' = BookIs(Account)
    BY <1>1 DEF Eligible, OnlyTheHedge, BookIs
  <2>2. ASSUME Eligible, resting = {} PROVE \E f \in Instruments \X Int : FillFollows(f)'
    <3>1. PICK f \in Instruments \X Int : FillFollows(f)
      BY <1>2, <2>2 DEF Books
    <3>2. subscribed = Pumps
      BY <1>2, <2>2 DEF Books, Eligible
    <3>3. BookIs(account)' = BookIs(account)
      BY <1>1 DEF BookIs
    <3>4. NoExecution(todo)' <=> NoExecution(todo')
      BY DEF NoExecution
    <3>5. account' = [Account EXCEPT ![f[1]] = @ + f[2]]
      BY <1>1, <3>1 DEF FillFollows
    <3>6. s = Fill => NoExecution(todo')
      <4> SUFFICES ASSUME s = Fill, Fill \in DOMAIN todo' PROVE todo'[Fill][1].type # "execution"
        BY DEF NoExecution
      <4>1. todo'[Fill] = Tail(q) /\ Len(q) > 1
        BY <1>4
      <4>2. 1 \in 1 .. Len(Tail(q)) /\ 1 + 1 \in 1 .. Len(q) /\ 1 + 1 # 1 /\ Tail(q)[1] = q[1 + 1]
        BY <1>5, <4>1
      <4>3. q[1 + 1].type # "execution"
        BY <1>6, <4>2
      <4> QED
        BY <4>1, <4>2, <4>3
    <3>7. NoExecution(todo) => NoExecution(todo') /\ m.type # "execution"
      <4>1. s # Fill => (NoExecution(todo) => NoExecution(todo'))
        BY <1>4 DEF NoExecution
      <4>2. NoExecution(todo) => m.type # "execution"
        BY <1>6 DEF NoExecution, m, q
      <4> QED
        BY <3>6, <4>1, <4>2
    <3>8. CASE /\ Fill \in DOMAIN todo /\ todo[Fill][1] = Msg("execution", f[1], f[2])
               /\ fillq = <<>> /\ BookIs(Account)
      <4>1. CASE s = Fill
        <5>1. m.type = "execution" /\ m.id = f[1] /\ m.body = f[2]
          BY <3>8, <4>1 DEF m, q, Msg
        <5>2. f = <<f[1], f[2]>>
          BY <3>1
        <5>3. fillq' = Append(<<>>, f)
          BY <1>3, <3>2, <3>8, <5>1, <5>2 DEF Pumps
        <5>4. fillq' = <<f>>
          BY <5>3
        <5> QED
          BY <2>1, <3>4, <3>5, <3>6, <3>8, <4>1, <5>4 DEF FillFollows
      <4>2. CASE s # Fill
        <5>1. fillq' = fillq /\ Fill \in DOMAIN todo' /\ todo'[Fill] = todo[Fill]
          BY <1>3, <1>4, <1>6, <3>8, <4>2
        <5> QED
          BY <2>1, <3>5, <3>8, <5>1 DEF FillFollows
      <4> QED
        BY <4>1, <4>2
    <3>9. CASE NoExecution(todo) /\ fillq = <<f>> /\ BookIs(Account)
      <4>1. fillq' = fillq
        BY <1>3, <3>7, <3>9
      <4> QED
        BY <2>1, <3>4, <3>5, <3>7, <3>9, <4>1 DEF FillFollows
    <3>10. CASE NoExecution(todo) /\ fillq = <<>> /\ (DOMAIN registered = Opts => BookIs(account))
      <4>1. fillq' = fillq
        BY <1>3, <3>7, <3>10
      <4> QED
        BY <1>1, <3>3, <3>4, <3>5, <3>7, <3>10, <4>1 DEF FillFollows
    <3> QED
      BY <3>1, <3>8, <3>9, <3>10 DEF FillFollows
  <2> QED
    BY <1>1, <1>2, <2>1, <2>2 DEF Books
<1>17. Mail(todo)'
  BY <1>7 DEF Mail
<1> QED
  BY <1>11, <1>15, <1>16, <1>17 DEF BookInv


(* The resting order fills: its execution is on its way, and the book is   *)
(* what the account was.                                                   *)
LEMMA ExecuteBook ==
  ASSUME BookInv, QueryInv, mishaps = 0, mishaps' = 0, NEW f \in resting, Execute(f[1], f[2])
  PROVE  BookInv'
<1> USE DEF mainVars, gatewayVars, recvVars, adapterVars, pumpVars, daemonVars, histories
<1> DEFINE q == <<Msg("execution", f[1], f[2]), Msg("position", f[1], 0)>>
<1>1. /\ UNCHANGED <<pc, jobs, cache, done, fillq, hedge_qty, book, asked, whole>>
      /\ UNCHANGED <<hedge_contract, registered, subscribed>>
      /\ asked /\ resting' = resting \ {<<f[1], f[2]>>}
      /\ account' = [account EXCEPT ![f[1]] = @ + f[2]]
      /\ todo' = Owes(Fill, q)
      /\ quiet' = (quiet /\ pc = "running" /\ subscribed = Pumps)
  BY DEF Execute, Fill
<1>2. Phases /\ Mail(todo) /\ Positions /\ Books
  BY DEF BookInv
<1>3. f \in Instruments \X Int /\ f = <<f[1], f[2]>>
  BY DEF QueryInv, Shapes
<1>4. /\ resting' = {} /\ resting # {} /\ account = Account
      /\ fillq = <<>>
  BY <1>1, <1>2, <1>3 DEF Positions
<1>5. /\ Len(q) = 2 /\ q[1] = Msg("execution", f[1], f[2])
      /\ q[1].type = "execution" /\ q[2].type = "position"
  BY DEF Msg
<1> HIDE DEF q
<1>6. /\ DOMAIN todo' = DOMAIN todo \cup {Fill} /\ todo'[Fill] = q
      /\ \A t \in DOMAIN todo : t # Fill => todo'[t] = todo[t]
  BY <1>1 DEF Owes
<1>7. HedgeAhead' = HedgeAhead
  BY <1>1 DEF HedgeAhead
<1>8. Phases'
  BY <1>1, <1>2, <1>7 DEF Phases, Early
<1>9. Mail(todo)'
  <2>1. \A k \in 1 .. Len(q) : k = 1 \/ k = 2
    BY <1>5
  <2>2. \A k \in 1 .. Len(q) :
          /\ q[k].type = "execution" => k = 1
          /\ q[k].type # "end"
    BY <1>5, <2>1
  <2> QED
    BY <1>2, <1>6, <2>2 DEF Mail
<1>10. Positions'
  BY <1>1, <1>2, <1>4, <1>6, StreamNames DEF Positions
<1>11. ASSUME Eligible' PROVE FillFollows(f)'
  <2>1. Eligible
    BY <1>1, <1>11 DEF Eligible, OnlyTheHedge
  <2>2. BookIs(Account)'
    BY <1>1, <1>2, <1>4, <2>1 DEF Books, BookIs
  <2>3. account' = [Account EXCEPT ![f[1]] = @ + f[2]]
    BY <1>1, <1>4
  <2> QED
    BY <1>1, <1>4, <1>5, <1>6, <2>2, <2>3 DEF FillFollows
<1>12. Books'
  BY <1>1, <1>3, <1>4, <1>11 DEF Books
<1> QED
  BY <1>8, <1>9, <1>10, <1>12 DEF BookInv

(* A pump listens, which is after the book was seeded; or nothing moves. *)
LEMMA PumpBook ==
  ASSUME BookInv, mishaps = 0, mishaps' = 0,
         (\E p \in Pumps : PumpSubscribes(p)) \/ UNCHANGED vars
  PROVE  BookInv'
<1> USE DEF mainVars, gatewayVars, recvVars, adapterVars, pumpVars, daemonVars, histories
<1>1. /\ UNCHANGED <<jobs, account, resting, cache, done, fillq, hedge_qty, book, asked, whole, quiet>>
      /\ UNCHANGED <<pc, todo, hedge_contract, registered>>
      /\ subscribed' = subscribed \/ (Spawned /\ \E p \in Pumps : subscribed' = subscribed \cup {p})
  BY DEF PumpSubscribes, vars
<1>2. Phases /\ Mail(todo)
  BY DEF BookInv
<1>3. HedgeAhead' = HedgeAhead
  BY <1>1 DEF HedgeAhead
<1>4. Spawned => ~HedgeAhead /\ pc \notin {"seed", "spawn"}
  BY DEF Spawned, HedgeAhead
<1>5. Phases'
  BY <1>1, <1>2, <1>3, <1>4 DEF Phases, Early
<1>6. SameMail(todo, todo') /\ Mail(todo')
  BY <1>1, <1>2 DEF SameMail
<1>7. subscribed = Pumps => subscribed' = Pumps
  BY <1>1
<1> QED
  BY <1>1, <1>5, <1>6, <1>7, BookAside

(* The fill in the channel is booked: as the hedge's, as an option's, or   *)
(* not at all if its option was not registered or its future is not the    *)
(* hedge's; a future that is not the hedge's is in nobody's book.          *)
LEMMA HandleFillBook ==
  ASSUME BookInv, mishaps = 0, mishaps' = 0, handle_fill
  PROVE  BookInv'
<1> USE DEF mainVars, gatewayVars, recvVars, adapterVars, pumpVars, daemonVars, histories
<1> DEFINE i == Head(fillq)[1]
           qty == Head(fillq)[2]
<1>1. /\ UNCHANGED <<pc, jobs, todo, account, resting, cache, done, asked, whole, quiet>>
      /\ UNCHANGED <<hedge_contract, registered, subscribed>>
      /\ fillq # <<>> /\ fillq' = Tail(fillq)
      /\ hedge_qty' = IF i = hedge_contract THEN hedge_qty + qty ELSE hedge_qty
      /\ book' = IF i \in DOMAIN registered THEN [book EXCEPT ![i] = @ + qty] ELSE book
  BY DEF handle_fill
<1>2. Phases /\ Mail(todo) /\ Positions /\ Books
  BY DEF BookInv
<1> HIDE DEF i, qty
<1>3. resting = {} /\ ~HedgeAhead /\ pc \notin {"seed", "spawn"}
  BY <1>1, <1>2 DEF Positions, Phases
<1>4. ~HedgeAhead' /\ DOMAIN book' = Opts
  BY <1>1, <1>2, <1>3 DEF HedgeAhead, Phases
<1>5. Phases'
  BY <1>1, <1>2, <1>3, <1>4 DEF Phases, Early
<1>6. Mail(todo)' /\ Positions'
  BY <1>1, <1>2, <1>3 DEF Mail, Positions
<1>7. ASSUME Eligible' PROVE \E f \in Instruments \X Int : FillFollows(f)'
  <2>1. Eligible
    BY <1>1, <1>7 DEF Eligible, OnlyTheHedge
  <2>2. PICK f \in Instruments \X Int : FillFollows(f)
    BY <1>2, <1>3, <2>1 DEF Books
  <2>3. /\ account = [Account EXCEPT ![f[1]] = @ + f[2]]
        /\ NoExecution(todo) /\ fillq = <<f>> /\ BookIs(Account)
    BY <1>1, <2>2 DEF FillFollows
  <2>4. i = f[1] /\ qty = f[2] /\ fillq' = <<>>
    BY <1>1, <2>3 DEF i, qty
  <2>5. f[1] \in Instruments /\ f[2] \in Int
    BY <2>2
  <2>6. hedge_contract \in Futures /\ Futures \cap Opts = {} /\ DOMAIN book = Opts
    BY <1>2, <2>1, BootAssumption DEF Eligible, OnlyTheHedge, Phases
  <2>7. DOMAIN Account = Instruments /\ Futures \subseteq Instruments /\ Opts \subseteq Instruments
    BY BootAssumption DEF Instruments
  <2>8. hedge_qty' = account[hedge_contract]
    BY <1>1, <2>3, <2>4, <2>6, <2>7 DEF BookIs
  <2>9. ASSUME DOMAIN registered = Opts, NEW o \in Opts PROVE book'[o] = account[o]
    BY <1>1, <2>3, <2>4, <2>5, <2>6, <2>7, <2>9 DEF BookIs
  <2>10. DOMAIN registered' = Opts => BookIs(account)'
    BY <1>1, <2>8, <2>9 DEF BookIs
  <2>11. NoExecution(todo)'
    BY <1>1, <2>3 DEF NoExecution
  <2> QED
    BY <1>1, <2>2, <2>3, <2>4, <2>10, <2>11 DEF FillFollows
<1>8. Books'
  BY <1>1, <1>2, <1>3, <1>7 DEF Books
<1> QED
  BY <1>5, <1>6, <1>8 DEF BookInv

-----------------------------------------------------------------------------
(* The book: the theorem *)

(* The daemon starts with an empty book and its queries before it. *)
LEMMA BookInit == Init => BookInv
<1> SUFFICES ASSUME Init PROVE Phases /\ Mail(todo) /\ Positions /\ Books
  BY DEF BookInv
<1>1. DOMAIN todo = {}
  BY DEF Init
<1>2. Phases
  BY HedgeChainIsFirst DEF Init, Phases, Early, None
<1>3. Mail(todo)
  BY <1>1 DEF Mail
<1>4. resting # {} /\ \A r, s \in resting : r = s
  BY DEF Init
<1>5. Positions
  BY <1>1, <1>4 DEF Init, Positions
<1>6. Books
  BY <1>4 DEF Init, Books, Eligible
<1> QED
  BY <1>2, <1>3, <1>5, <1>6

(* Every step keeps the book where it belongs, or is a mishap. *)
LEMMA BookNext == BookInv /\ QueryInv /\ BootstrapInv /\ [Next]_vars => BookInv'
<1> SUFFICES ASSUME BookInv, QueryInv, BootstrapInv, [Next]_vars, mishaps' = 0 PROVE BookInv'
  BY DEF BookInv
<1>1. mishaps \in Nat /\ (link = "lost" => mishaps > 0)
  BY DEF QueryInv, Shapes
<1>2. mishaps' = mishaps \/ mishaps' = mishaps + 1
  BY DEF Next, vars, MainWalks, Receive, DropFrame, Execute, LinkLost, PumpSubscribes, handle_fill,
         client_connect, ConnectFails, wait_for_bootstrap, BootstrapTimeout, SendRequests,
         SendRequestsFails, wait_for_seeding, SeedingTimeout, seed_positions_from_broker, spawn_all,
         Query, QueryFails, Answered, QueryTimeout, wait_for_underlying, FirstTickTimeout,
         SubscriptionDone, recvVars, gatewayVars
<1>3. mishaps = 0 /\ link # "lost"
  BY <1>1, <1>2
<1>4. ~LinkLost /\ ~QueryFails /\ \A s \in DOMAIN todo : ~DropFrame(s)
  <2>1. mishaps' # mishaps + 1
    BY <1>3
  <2>2. ~LinkLost
    BY <2>1 DEF LinkLost
  <2>3. ~QueryFails
    BY <1>3 DEF QueryFails
  <2>4. ASSUME NEW s \in DOMAIN todo PROVE ~DropFrame(s)
    BY <2>1 DEF DropFrame
  <2> QED
    BY <2>2, <2>3, <2>4
<1>5. CASE \E s \in DOMAIN todo : Receive(s) \/ DropFrame(s)
  BY <1>3, <1>4, <1>5, ReceiveBook
<1>6. CASE \E f \in resting : Execute(f[1], f[2])
  BY <1>3, <1>6, ExecuteBook
<1>7. CASE MainWalks
  BY <1>3, <1>4, <1>7, WalkBook, ConnectBook, RequestBook, SeedBook, QueryBook, AnswerBook
  DEF MainWalks
<1>8. CASE (\E p \in Pumps : PumpSubscribes(p)) \/ UNCHANGED vars
  BY <1>3, <1>8, PumpBook
<1>9. CASE handle_fill
  BY <1>3, <1>9, HandleFillBook
<1> QED
  BY <1>4, <1>5, <1>6, <1>7, <1>8, <1>9 DEF Next

(* When the daemon is up, without a lost frame or link, and has processed  *)
(* what it was sent, its book and its hedge are the account's: what was    *)
(* announced before the book was seeded and what filled after it, each     *)
(* counted once.                                                           *)
THEOREM TheBookIsTheAccounts == Spec => []BookMatchesAccount
<1>1. BookInv => BookMatchesAccount
  <2> SUFFICES ASSUME BookInv, Settled, whole, quiet, mishaps = 0, DOMAIN registered = Opts, OnlyTheHedge
               PROVE  BookIs(account)
    BY DEF BookMatchesAccount, BookIs
  <2>1. Eligible /\ Positions /\ Books /\ DOMAIN todo = {} /\ fillq = <<>>
    BY DEF BookInv, Eligible, Settled
  <2>2. CASE resting # {}
    BY <2>1, <2>2 DEF Books, Positions
  <2>3. CASE resting = {}
    <3>1. PICK f \in Instruments \X Int : FillFollows(f)
      BY <2>1, <2>3 DEF Books
    <3>2. fillq # <<f>> /\ Fill \notin DOMAIN todo
      BY <2>1
    <3> QED
      BY <3>1, <3>2 DEF FillFollows
  <2> QED
    BY <2>2, <2>3
<1> QED
  BY <1>1, BookInit, BookNext, QueryInit, QueryNext, BootstrapInit, BootstrapNext, PTL DEF Spec
=============================================================================
