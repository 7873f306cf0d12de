----------------------------- MODULE FeedProofs -----------------------------
(***************************************************************************)
(* Feed for every chain, every sequence of ticks, and all sizes of the     *)
(* ring and of the channel: the trader's quotes, the daemon's marks and    *)
(* the points of a surface are the gateway's.                              *)
(***************************************************************************)
EXTENDS Feed, WellFoundedInduction, TLAPS

Fields == {"bid", "ask", "last"}
Instruments == Chain \cup {Underlying}
Tick == Instruments \X Kinds \X Int

Event == [ty : {"tick"}, key : Chain, body : [Sides -> Int]]
    \cup [ty : {"vol_surface"}, key : {"BOTH"}, body : [forward : Int, points : SUBSET Chain]]
    \cup [ty : {"vol_surface_failed"}, key : {"BOTH"}, body : {Blank}]

(* e is the last element of the queue in M; or the queue has none. *)
Newest(q, M, e) ==
  \E i \in 1 .. Len(q) : q[i] = e /\ e \in M /\ \A j \in 1 .. Len(q) : q[j] \in M => j <= i
Absent(q, M) == \A i \in 1 .. Len(q) : q[i] \notin M

-----------------------------------------------------------------------------
(* The inductive invariant *)

Types ==
  /\ ring \in Seq(Event) /\ channel \in Seq(Tick)
  /\ DOMAIN options \subseteq Chain /\ options \in [DOMAIN options -> [Fields -> Int]]
  /\ underlying \in Int
  /\ DOMAIN cache \subseteq Chain /\ cache \in [DOMAIN cache -> [Sides -> Int]]
  /\ installed \in BOOLEAN /\ lagged \in BOOLEAN

(* Only what is registered is shown; a price that is shown is positive. *)
ShownOfRegistered ==
  /\ \A x \in DOMAIN shown : shown[x] \in Int /\ shown[x] > 0
  /\ \A o \in Chain, k \in Kinds : <<o, k>> \in DOMAIN shown => o \in DOMAIN options
  /\ \A i \in 1 .. Len(channel) : channel[i][1] \in DOMAIN options \cup {Underlying}

(* The publisher's entry has the last of each side. *)
CacheIsSent ==
  \A o \in Chain, k \in Sides :
    /\ o \in DOMAIN cache => cache[o][k] = IF <<o, k>> \in DOMAIN sent THEN sent[<<o, k>>] ELSE Unset
    /\ o \notin DOMAIN cache => <<o, k>> \notin DOMAIN sent

(* The last event of an option in the ring has the publisher's entry; with *)
(* none there, the trader has it.                                          *)
TicksOf(o) == {e \in Event : e.ty = "tick" /\ e.key = o}
TickEvent(o, body) == [ty |-> "tick", key |-> o, body |-> body]

CacheIsOnItsWay ==
  \A o \in DOMAIN cache \ refused :
    \/ Newest(ring, TicksOf(o), TickEvent(o, cache[o]))
    \/ Absent(ring, TicksOf(o)) /\ o \in DOMAIN options_seen /\ options_seen[o] = cache[o]

(* What is positive was shown; a surface has enough points, all shown. *)
RestsOnQuotes(body, keys) ==
  /\ Cardinality(body.points) >= MinStrikes
  /\ \A o \in body.points : <<o, "bid">> \in keys /\ <<o, "ask">> \in keys

PositiveWasShown ==
  /\ \A i \in 1 .. Len(channel) : channel[i][3] > 0 => <<channel[i][1], channel[i][2]>> \in DOMAIN shown
  /\ \A o \in DOMAIN options, k \in Fields : options[o][k] > 0 => <<o, k>> \in DOMAIN shown
  /\ \A i \in 1 .. Len(ring) : ring[i].ty = "vol_surface" => RestsOnQuotes(ring[i].body, DOMAIN shown)
  /\ \A s \in DOMAIN surfaces : RestsOnQuotes(surfaces[s], DOMAIN shown)

(* The last positive price is in the channel or in the daemon's state. *)
ShowsOf(o, k) == {t \in Tick : t[1] = o /\ t[2] = k /\ t[3] > 0}
MarksOf == {t \in Tick : t[1] = Underlying /\ t[2] \in {"bid", "last"} /\ t[3] > 0}

OptionsFollow ==
  ~lagged => \A o \in DOMAIN options, k \in Fields :
    \/ Newest(channel, ShowsOf(o, k), <<o, k, LastShown(o, k)>>)
    \/ Absent(channel, ShowsOf(o, k)) /\ options[o][k] = LastShown(o, k)

UnderlyingFollows ==
  ~lagged =>
    \/ \E k \in {"bid", "last"} : Newest(channel, MarksOf, <<Underlying, k, LastShown(Underlying, k)>>)
    \/ Absent(channel, MarksOf) /\ underlying \in {LastShown(Underlying, "bid"), LastShown(Underlying, "last")}

IInv == /\ Types /\ ShownOfRegistered /\ CacheIsSent /\ CacheIsOnItsWay
        /\ PositiveWasShown /\ OptionsFollow /\ UnderlyingFollows

-----------------------------------------------------------------------------
(* Queues *)

(* A set of naturals has a least element. *)
LEMMA MinOf ==
  ASSUME NEW T, T \subseteq Nat, T # {}
  PROVE  \E x \in T : \A y \in T : x <= y
<1> DEFINE R == OpToRel(<, Nat)
<1>1. IsWellFoundedOn(R, Nat)
  BY NatLessThanWellFounded
<1>2. \A x, y \in Nat : y < x => <<y, x>> \in R
  BY DEF OpToRel
<1> HIDE DEF R
<1>3. PICK x \in T : \A y \in T : ~ (<<y, x>> \in R)
  BY <1>1, WFMin
<1>4. \A y \in T : ~ (y < x)
  BY <1>2, <1>3
<1>5. \A y \in T : x <= y
  BY <1>4
<1> QED
  BY <1>5

(* Max is what its name says of a set of indices. *)
LEMMA MaxOf ==
  ASSUME NEW n \in Nat, NEW I, I \subseteq 1 .. n, I # {}
  PROVE  Max(I) \in I /\ \A j \in I : j <= Max(I)
<1> DEFINE T == {n - i : i \in I}
<1>1. \A i \in I : n - i \in Nat /\ i \in Nat
  OBVIOUS
<1>2. T \subseteq Nat /\ T # {}
  BY <1>1
<1>3. PICK x \in T : \A y \in T : x <= y
  BY <1>2, MinOf
<1>4. PICK i \in I : x = n - i
  OBVIOUS
<1>5. \A j \in I : n - i <= n - j
  BY <1>3, <1>4
<1>6. \A j \in I : i >= j
  BY <1>1, <1>5
<1>7. Max(I) \in I /\ \A j \in I : Max(I) >= j
  BY <1>6 DEF Max
<1> QED
  BY <1>1, <1>7

(* The index of the newest is the greatest of those in M. *)
LEMMA NewestIsMax ==
  ASSUME NEW S, NEW q \in Seq(S), NEW M, NEW I, I = {i \in 1 .. Len(q) : q[i] \in M}
  PROVE  /\ \A e : Newest(q, M, e) => I # {} /\ q[Max(I)] = e
         /\ Absent(q, M) <=> I = {}
<1>1. Absent(q, M) <=> I = {}
  BY DEF Absent
<1>2. ASSUME NEW e, Newest(q, M, e)
      PROVE  I # {} /\ q[Max(I)] = e
  <2>1. PICK i \in 1 .. Len(q) : q[i] = e /\ e \in M /\ \A j \in 1 .. Len(q) : q[j] \in M => j <= i
    BY <1>2 DEF Newest
  <2>2. i \in I /\ (\A j \in I : j <= i) /\ Len(q) \in Nat /\ I \subseteq 1 .. Len(q)
    BY <2>1
  <2>3. Max(I) \in I /\ \A j \in I : j <= Max(I)
    BY <2>2, MaxOf
  <2>4. Max(I) = i
    BY <2>2, <2>3
  <2> QED
    BY <2>1, <2>2, <2>4
<1> QED
  BY <1>1, <1>2

LEMMA NoneInEmpty ==
  ASSUME NEW M
  PROVE  Absent(<<>>, M)
<1>1. Len(<<>>) = 0 /\ 1 .. 0 = {}
  OBVIOUS
<1> QED
  BY <1>1 DEF Absent

LEMMA AfterAppend ==
  ASSUME NEW S, NEW q \in Seq(S), NEW x \in S, NEW M
  PROVE  /\ x \in M => Newest(Append(q, x), M, x)
         /\ x \notin M => /\ Absent(q, M) => Absent(Append(q, x), M)
                          /\ \A e : Newest(q, M, e) => Newest(Append(q, x), M, e)
<1> DEFINE r == Append(q, x)
<1>1. /\ r \in Seq(S) /\ Len(r) = Len(q) + 1 /\ r[Len(r)] = x /\ Len(q) \in Nat
      /\ \A i \in 1 .. Len(q) : r[i] = q[i]
  OBVIOUS
<1>2. \A i \in 1 .. Len(r) : i \in 1 .. Len(q) \/ i = Len(r)
  BY <1>1
<1>3. 1 .. Len(q) \subseteq 1 .. Len(r) /\ Len(r) \in 1 .. Len(r)
  BY <1>1
<1> HIDE DEF r
<1>4. x \in M => Newest(r, M, x)
  BY <1>1, <1>3 DEF Newest
<1>5. ASSUME x \notin M, Absent(q, M)
      PROVE  Absent(r, M)
  BY <1>1, <1>2, <1>5 DEF Absent
<1>6. ASSUME x \notin M, NEW e, Newest(q, M, e)
      PROVE  Newest(r, M, e)
  <2>1. PICK i \in 1 .. Len(q) : q[i] = e /\ e \in M /\ \A j \in 1 .. Len(q) : q[j] \in M => j <= i
    BY <1>6 DEF Newest
  <2>2. i \in 1 .. Len(r) /\ r[i] = e
    BY <1>1, <1>3, <2>1
  <2>3. ASSUME NEW j \in 1 .. Len(r), r[j] \in M
        PROVE  j <= i
    <3>1. j # Len(r)
      BY <1>1, <1>6, <2>3
    <3>2. j \in 1 .. Len(q) /\ q[j] \in M
      BY <1>1, <1>2, <2>3, <3>1
    <3> QED
      BY <2>1, <3>2
  <2> QED
    BY <2>1, <2>2, <2>3 DEF Newest
<1> QED
  BY <1>4, <1>5, <1>6 DEF r

LEMMA AfterTail ==
  ASSUME NEW S, NEW q \in Seq(S), q # <<>>, NEW M
  PROVE  /\ Absent(q, M) => Absent(Tail(q), M) /\ Head(q) \notin M
         /\ \A e : Newest(q, M, e) => \/ Newest(Tail(q), M, e)
                                      \/ Absent(Tail(q), M) /\ Head(q) = e
<1> DEFINE r == Tail(q)
<1>1. /\ r \in Seq(S) /\ Len(r) = Len(q) - 1 /\ Len(q) \in Nat /\ Len(q) > 0 /\ Head(q) = q[1]
      /\ \A i \in 1 .. Len(r) : r[i] = q[i + 1]
  OBVIOUS
<1>2. (\A i \in 1 .. Len(r) : i + 1 \in 1 .. Len(q)) /\ 1 \in 1 .. Len(q)
  BY <1>1
<1>3. \A i \in 1 .. Len(q) : i = 1 \/ (i - 1 \in 1 .. Len(r) /\ r[i - 1] = q[i])
  <2>1. \A i \in 1 .. Len(q) : i = 1 \/ i - 1 \in 1 .. Len(r)
    BY <1>1
  <2>2. \A i \in 1 .. Len(q) : i - 1 + 1 = i
    BY <1>1
  <2> QED
    BY <1>1, <2>1, <2>2
<1> HIDE DEF r
<1>4. ASSUME Absent(q, M)
      PROVE  Absent(r, M) /\ Head(q) \notin M
  BY <1>1, <1>2, <1>4 DEF Absent
<1>5. ASSUME NEW e, Newest(q, M, e)
      PROVE  Newest(r, M, e) \/ (Absent(r, M) /\ Head(q) = e)
  <2>1. PICK i \in 1 .. Len(q) : q[i] = e /\ e \in M /\ \A j \in 1 .. Len(q) : q[j] \in M => j <= i
    BY <1>5 DEF Newest
  <2>2. CASE i = 1
    <3>1. \A j \in 1 .. Len(r) : r[j] \in M => j + 1 <= 1
      BY <1>1, <1>2, <2>1, <2>2
    <3>2. \A j \in 1 .. Len(r) : ~ (j + 1 <= 1)
      BY <1>1
    <3> QED
      BY <1>1, <2>1, <2>2, <3>1, <3>2 DEF Absent
  <2>3. CASE i # 1
    <3>1. i - 1 \in 1 .. Len(r) /\ r[i - 1] = e
      BY <1>3, <2>1, <2>3
    <3>2. \A j \in 1 .. Len(r) : r[j] \in M => j + 1 <= i
      BY <1>1, <1>2, <2>1
    <3>3. \A j \in 1 .. Len(r) : r[j] \in M => j <= i - 1
      BY <1>1, <3>2
    <3> QED
      BY <2>1, <3>1, <3>3 DEF Newest
  <2> QED
    BY <2>2, <2>3
<1> QED
  BY <1>4, <1>5 DEF r

-----------------------------------------------------------------------------
(* Initially, and the steps that change little *)

LEMMA InitIsInv ==
  ASSUME Init
  PROVE  IInv
<1> USE DEF Init, MarketDataInit, Empty
<1>1. Len(<<>>) = 0 /\ 1 .. 0 = {}
  OBVIOUS
<1>2. Types
  <2>1. ring \in Seq(Event) /\ channel \in Seq(Tick) /\ underlying \in Int
    OBVIOUS
  <2>2. DOMAIN options = {} /\ options \in [{} -> [Fields -> Int]]
    OBVIOUS
  <2>3. DOMAIN cache = {} /\ cache \in [{} -> [Sides -> Int]]
    OBVIOUS
  <2>4. installed \in BOOLEAN /\ lagged \in BOOLEAN
    OBVIOUS
  <2> HIDE DEF Init
  <2> QED
    BY <2>1, <2>2, <2>3, <2>4 DEF Types
<1>3. ShownOfRegistered /\ PositiveWasShown
  BY <1>1 DEF ShownOfRegistered, PositiveWasShown
<1>4. CacheIsSent /\ CacheIsOnItsWay /\ OptionsFollow
  BY DEF CacheIsSent, CacheIsOnItsWay, OptionsFollow
<1>5. UnderlyingFollows
  <2>1. Absent(channel, MarksOf)
    BY NoneInEmpty
  <2>2. underlying = LastShown(Underlying, "bid")
    BY DEF LastShown
  <2> QED
    BY <2>1, <2>2 DEF UnderlyingFollows
<1> QED
  BY <1>2, <1>3, <1>4, <1>5 DEF IInv

proofVars == <<ring, channel, options, underlying, cache, lagged, shown, sent, refused,
               options_seen, surfaces>>

LEMMA UnchangedKeepsInv ==
  ASSUME IInv, UNCHANGED proofVars, installed' \in BOOLEAN
  PROVE  IInv'
<1> USE DEF proofVars
<1>1. Types'
  BY DEF IInv, Types
<1>2. ShownOfRegistered'
  BY DEF IInv, ShownOfRegistered
<1>3. CacheIsSent' /\ CacheIsOnItsWay'
  BY DEF IInv, CacheIsSent, CacheIsOnItsWay
<1>4. PositiveWasShown'
  BY DEF IInv, PositiveWasShown
<1>5. OptionsFollow' /\ UnderlyingFollows'
  BY DEF IInv, OptionsFollow, UnderlyingFollows, LastShown
<1> QED
  BY <1>1, <1>2, <1>3, <1>4, <1>5 DEF IInv

(* An option that is registered has not been shown and is not in the       *)
(* channel.                                                                *)
LEMMA RegisterKeepsInv ==
  ASSUME IInv, NEW p \in Chain, RegisterOption(p)
  PROVE  IInv'
<1> DEFINE zero == [bid |-> 0, ask |-> 0, last |-> 0]
<1>1. /\ DOMAIN options' = DOMAIN options \cup {p} /\ p \notin DOMAIN options
      /\ \A o \in DOMAIN options : options'[o] = options[o]
      /\ options'[p] = zero
      /\ options' = [o \in DOMAIN options' |-> options'[o]]
  BY DEF RegisterOption, register_option
<1>2. /\ UNCHANGED <<ring, channel, underlying, cache, lagged, shown, sent, refused,
                     options_seen, surfaces, installed>>
  BY DEF RegisterOption, register_option, feedVars, traderVars
<1>3. zero \in [Fields -> Int] /\ \A k \in Fields : zero[k] = 0
  BY DEF Fields
<1> HIDE DEF zero
<1>4. Types'
  <2>1. \A o \in DOMAIN options' : options'[o] \in [Fields -> Int]
    BY <1>1, <1>3 DEF IInv, Types
  <2>2. options' \in [DOMAIN options' -> [Fields -> Int]]
    BY <1>1, <2>1
  <2>3. DOMAIN options' \subseteq Chain
    BY <1>1 DEF IInv, Types
  <2> QED
    BY <1>2, <2>2, <2>3 DEF IInv, Types
<1>5. ShownOfRegistered'
  BY <1>1, <1>2 DEF IInv, ShownOfRegistered
<1>6. CacheIsSent' /\ CacheIsOnItsWay'
  BY <1>2 DEF IInv, CacheIsSent, CacheIsOnItsWay
<1>7. PositiveWasShown'
  <2>1. \A o \in DOMAIN options', k \in Fields : options'[o][k] > 0 => <<o, k>> \in DOMAIN shown
    BY <1>1, <1>3 DEF IInv, PositiveWasShown
  <2> QED
    BY <1>2, <2>1 DEF IInv, PositiveWasShown
<1>8. OptionsFollow'
  <2> SUFFICES ASSUME ~lagged, NEW o \in DOMAIN options', NEW k \in Fields
               PROVE  \/ Newest(channel, ShowsOf(o, k), <<o, k, LastShown(o, k)>>)
                      \/ Absent(channel, ShowsOf(o, k)) /\ options'[o][k] = LastShown(o, k)
    BY <1>2 DEF OptionsFollow, LastShown
  <2>1. CASE o \in DOMAIN options
    BY <1>1, <2>1 DEF IInv, OptionsFollow
  <2>2. CASE o = p
    <3>1. k \in Kinds /\ Underlying \notin Chain
      BY FeedAssumption DEF Fields, Kinds, Sides
    <3>2. LastShown(p, k) = 0
      BY <1>1, <3>1 DEF IInv, ShownOfRegistered, LastShown
    <3>3. Absent(channel, ShowsOf(p, k))
      BY <1>1, <3>1 DEF IInv, ShownOfRegistered, Absent, ShowsOf
    <3> QED
      BY <1>1, <1>3, <2>2, <3>2, <3>3
  <2> QED
    BY <1>1, <2>1, <2>2
<1>9. UnderlyingFollows'
  BY <1>2 DEF IInv, UnderlyingFollows, LastShown
<1> QED
  BY <1>4, <1>5, <1>6, <1>7, <1>8, <1>9 DEF IInv

-----------------------------------------------------------------------------
(* pump_ticks *)

(* What Update does to a field, and to the underlying's price. *)
LEMMA UpdateFacts ==
  ASSUME Types, NEW i \in Instruments, NEW f \in Fields, NEW v \in Int, Update(i, f, v)
  PROVE  /\ DOMAIN options' = DOMAIN options
         /\ options' \in [DOMAIN options -> [Fields -> Int]]
         /\ underlying' \in Int
         /\ \A o \in DOMAIN options, k \in Fields :
              options'[o][k] = IF o = i /\ k = f /\ v > 0 THEN v ELSE options[o][k]
         /\ underlying' = IF i = Underlying /\ f # "ask" /\ v > 0 THEN v ELSE underlying
<1>1. options \in [DOMAIN options -> [Fields -> Int]] /\ underlying \in Int
  BY DEF Types
<1>2. Underlying \notin DOMAIN options
  BY FeedAssumption DEF Types
<1>3. CASE i \in DOMAIN options
  <2>1. options' = [options EXCEPT ![i][f] = Set(@, v)] /\ underlying' = underlying
    BY <1>3 DEF Update
  <2>2. Set(options[i][f], v) \in Int
    BY <1>1, <1>3 DEF Set
  <2>3. \A o \in DOMAIN options, k \in Fields :
          options'[o][k] = IF o = i /\ k = f THEN Set(options[i][f], v) ELSE options[o][k]
    BY <1>1, <1>3, <2>1
  <2>4. DOMAIN options' = DOMAIN options /\ options' \in [DOMAIN options -> [Fields -> Int]]
    BY <1>1, <1>3, <2>1, <2>2
  <2> QED
    BY <1>1, <1>2, <1>3, <2>1, <2>3, <2>4 DEF Set
<1>4. CASE i \notin DOMAIN options
  <2>1. /\ options' = options
        /\ underlying' = IF i = Underlying /\ f # "ask" THEN Set(underlying, v) ELSE underlying
    BY <1>4 DEF Update
  <2> QED
    BY <1>1, <1>4, <2>1 DEF Set
<1> QED
  BY <1>3, <1>4

(* The same of a whole step: a size changes nothing. *)
LEMMA PumpFacts ==
  ASSUME Types, pump_ticks, NEW t, t = Head(channel)
  PROVE  /\ channel # <<>> /\ channel' = Tail(channel) /\ t \in Tick
         /\ UNCHANGED <<ring, cache, lagged, shown, sent, refused, options_seen, surfaces, installed>>
         /\ DOMAIN options' = DOMAIN options
         /\ options' \in [DOMAIN options -> [Fields -> Int]]
         /\ underlying' \in Int
         /\ \A o \in DOMAIN options, k \in Fields :
              options'[o][k] = IF o = t[1] /\ k = t[2] /\ t[3] > 0 THEN t[3] ELSE options[o][k]
         /\ underlying' = IF t[1] = Underlying /\ t[2] \in {"bid", "last"} /\ t[3] > 0 THEN t[3]
                          ELSE underlying
<1>1. /\ channel # <<>> /\ channel' = Tail(channel)
      /\ IF t[2] \in {"bid", "ask", "last"} THEN Update(t[1], t[2], t[3]) ELSE UNCHANGED mdVars
  BY DEF pump_ticks
<1>2. UNCHANGED <<ring, cache, lagged, shown, sent, refused, options_seen, surfaces, installed>>
  BY DEF pump_ticks, traderVars
<1>3. t \in Tick
  BY <1>1 DEF Types
<1>4. t[1] \in Instruments /\ t[2] \in Kinds /\ t[3] \in Int
  BY <1>3 DEF Tick
<1>5. CASE t[2] \in Fields
  <2>1. Update(t[1], t[2], t[3])
    BY <1>1, <1>5 DEF Fields
  <2>2. t[2] # "ask" <=> t[2] \in {"bid", "last"}
    BY <1>5 DEF Fields
  <2> QED
    BY <1>1, <1>2, <1>3, <1>4, <1>5, <2>1, <2>2, UpdateFacts
<1>6. CASE t[2] \notin Fields
  <2>1. UNCHANGED <<options, underlying>>
    BY <1>1, <1>6 DEF Fields, mdVars
  <2>2. t[2] \notin {"bid", "last"}
    BY <1>6 DEF Fields
  <2> QED
    BY <1>1, <1>2, <1>3, <1>6, <2>1, <2>2 DEF Types
<1> QED
  BY <1>5, <1>6

LEMMA PumpKeepsInv ==
  ASSUME IInv, pump_ticks
  PROVE  IInv'
<1> DEFINE t == Head(channel)
<1>1. /\ channel # <<>> /\ channel' = Tail(channel) /\ t \in Tick
      /\ UNCHANGED <<ring, cache, lagged, shown, sent, refused, options_seen, surfaces, installed>>
      /\ DOMAIN options' = DOMAIN options
      /\ options' \in [DOMAIN options -> [Fields -> Int]]
      /\ underlying' \in Int
      /\ \A o \in DOMAIN options, k \in Fields :
           options'[o][k] = IF o = t[1] /\ k = t[2] /\ t[3] > 0 THEN t[3] ELSE options[o][k]
      /\ underlying' = IF t[1] = Underlying /\ t[2] \in {"bid", "last"} /\ t[3] > 0 THEN t[3]
                       ELSE underlying
  BY PumpFacts DEF IInv
<1>2. channel \in Seq(Tick)
  BY DEF IInv, Types
<1>3. /\ \A i \in 1 .. Len(channel') : \E j \in 1 .. Len(channel) : channel'[i] = channel[j]
      /\ \E j \in 1 .. Len(channel) : t = channel[j]
  <2>1. /\ Len(channel) \in Nat /\ Len(channel) > 0 /\ Len(channel') = Len(channel) - 1
        /\ \A i \in 1 .. Len(channel') : channel'[i] = channel[i + 1]
        /\ t = channel[1]
    BY <1>1, <1>2
  <2>2. (\A i \in 1 .. Len(channel') : i + 1 \in 1 .. Len(channel)) /\ 1 \in 1 .. Len(channel)
    BY <2>1
  <2> QED
    BY <2>1, <2>2
<1> HIDE DEF t
<1>4. Types'
  <2>1. channel' \in Seq(Tick)
    BY <1>1, <1>2
  <2> QED
    BY <1>1, <2>1 DEF IInv, Types
<1>5. ShownOfRegistered'
  BY <1>1, <1>3 DEF IInv, ShownOfRegistered
<1>6. CacheIsSent' /\ CacheIsOnItsWay'
  BY <1>1 DEF IInv, CacheIsSent, CacheIsOnItsWay
<1>7. PositiveWasShown'
  <2>1. \A i \in 1 .. Len(channel') : channel'[i][3] > 0 => <<channel'[i][1], channel'[i][2]>> \in DOMAIN shown
    BY <1>3 DEF IInv, PositiveWasShown
  <2>2. t[3] > 0 => <<t[1], t[2]>> \in DOMAIN shown
    BY <1>3 DEF IInv, PositiveWasShown
  <2>3. \A o \in DOMAIN options', k \in Fields : options'[o][k] > 0 => <<o, k>> \in DOMAIN shown
    BY <1>1, <2>2 DEF IInv, PositiveWasShown
  <2> QED
    BY <1>1, <2>1, <2>3 DEF IInv, PositiveWasShown
<1>8. OptionsFollow'
  <2> SUFFICES ASSUME ~lagged, NEW o \in DOMAIN options, NEW k \in Fields
               PROVE  \/ Newest(Tail(channel), ShowsOf(o, k), <<o, k, LastShown(o, k)>>)
                      \/ Absent(Tail(channel), ShowsOf(o, k)) /\ options'[o][k] = LastShown(o, k)
    BY <1>1 DEF OptionsFollow, LastShown
  <2>1. CASE Newest(channel, ShowsOf(o, k), <<o, k, LastShown(o, k)>>)
    <3>1. <<o, k, LastShown(o, k)>> \in ShowsOf(o, k)
      BY <2>1 DEF Newest
    <3>2. LastShown(o, k) > 0
      BY <3>1 DEF ShowsOf
    <3>3. CASE Absent(Tail(channel), ShowsOf(o, k)) /\ t = <<o, k, LastShown(o, k)>>
      BY <1>1, <3>2, <3>3
    <3> QED
      BY <1>1, <1>2, <2>1, <3>3, AfterTail DEF t
  <2>2. CASE Absent(channel, ShowsOf(o, k)) /\ options[o][k] = LastShown(o, k)
    <3>1. Absent(Tail(channel), ShowsOf(o, k)) /\ t \notin ShowsOf(o, k)
      BY <1>1, <1>2, <2>2, AfterTail DEF t
    <3> QED
      BY <1>1, <2>2, <3>1 DEF ShowsOf
  <2> QED
    BY <2>1, <2>2 DEF IInv, OptionsFollow
<1>9. UnderlyingFollows'
  <2> DEFINE Shown(k) == <<Underlying, k, LastShown(Underlying, k)>>
  <2> SUFFICES ASSUME ~lagged
               PROVE  \/ \E k \in {"bid", "last"} : Newest(Tail(channel), MarksOf, Shown(k))
                      \/ /\ Absent(Tail(channel), MarksOf)
                         /\ underlying' \in {LastShown(Underlying, "bid"), LastShown(Underlying, "last")}
    BY <1>1 DEF UnderlyingFollows, LastShown
  <2>1. ASSUME NEW k \in {"bid", "last"}, Newest(channel, MarksOf, Shown(k))
        PROVE  \/ Newest(Tail(channel), MarksOf, Shown(k))
               \/ Absent(Tail(channel), MarksOf) /\ underlying' = LastShown(Underlying, k)
    <3>1. Shown(k) \in MarksOf
      BY <2>1 DEF Newest
    <3>2. LastShown(Underlying, k) > 0
      BY <3>1 DEF MarksOf
    <3>3. CASE Absent(Tail(channel), MarksOf) /\ t = Shown(k)
      BY <1>1, <2>1, <3>2, <3>3
    <3> QED
      BY <1>1, <1>2, <2>1, <3>3, AfterTail DEF t
  <2>2. ASSUME Absent(channel, MarksOf)
        PROVE  Absent(Tail(channel), MarksOf) /\ underlying' = underlying
    <3>1. Absent(Tail(channel), MarksOf) /\ t \notin MarksOf
      BY <1>1, <1>2, <2>2, AfterTail DEF t
    <3> QED
      BY <1>1, <2>2, <3>1 DEF MarksOf
  <2> QED
    BY <2>1, <2>2 DEF IInv, UnderlyingFollows
<1> QED
  BY <1>4, <1>5, <1>6, <1>7, <1>8, <1>9 DEF IInv

-----------------------------------------------------------------------------
(* fit_and_publish *)

(* An event that is published is appended, or dropped by a full ring. *)
LEMMA PublishFacts ==
  ASSUME NEW e, Publish(e)
  PROVE  ring' = IF RingFull THEN ring ELSE Append(ring, e)
BY DEF Publish

(* An event that is no tick leaves the ticks of the ring as they are. *)
LEMMA OtherEventKeepsTicks ==
  ASSUME Types, NEW e \in Event, NEW o, e \notin TicksOf(o), NEW r,
         r = ring \/ r = Append(ring, e)
  PROVE  /\ \A x : Newest(ring, TicksOf(o), x) => Newest(r, TicksOf(o), x)
         /\ Absent(ring, TicksOf(o)) => Absent(r, TicksOf(o))
<1>1. ring \in Seq(Event)
  BY DEF Types
<1> DEFINE M == TicksOf(o)
<1> HIDE DEF M
<1>2. /\ \A x : Newest(ring, M, x) => Newest(Append(ring, e), M, x)
      /\ Absent(ring, M) => Absent(Append(ring, e), M)
  BY <1>1, AfterAppend DEF M
<1> QED
  BY <1>2 DEF M

LEMMA FitKeepsInv ==
  ASSUME IInv, NEW solved \in SUBSET DOMAIN options, fit_and_publish(solved)
  PROVE  IInv'
<1> DEFINE surface == [ty |-> "vol_surface", key |-> "BOTH",
                       body |-> [forward |-> underlying, points |-> solved]]
           failed == [ty |-> "vol_surface_failed", key |-> "BOTH", body |-> Blank]
<1>1. UNCHANGED <<channel, options, underlying, cache, lagged, shown, sent, refused,
                  options_seen, surfaces, installed>>
  BY DEF fit_and_publish, mdVars, feedVars, traderVars
<1>2. HasChain(solved) /\ (\/ Cardinality(solved) >= MinStrikes /\ Publish(surface)
                           \/ Publish(failed))
  BY DEF fit_and_publish
<1>3. PICK e \in {surface, failed} :
        /\ ring' = ring \/ ring' = Append(ring, e)
        /\ e = surface => Cardinality(solved) >= MinStrikes
  <2>1. surface # failed
    <3>1. surface.ty # failed.ty
      OBVIOUS
    <3> QED
      BY <3>1
  <2> HIDE DEF surface, failed
  <2> QED
    BY <1>2, <2>1, PublishFacts
<1>4. e \in Event /\ e.ty # "tick"
  <2>1. solved \in SUBSET Chain /\ underlying \in Int
    BY DEF IInv, Types
  <2>2. surface \in Event /\ surface.ty # "tick"
    BY <2>1 DEF Event
  <2>3. failed \in Event /\ failed.ty # "tick"
    BY DEF Event
  <2> HIDE DEF surface, failed
  <2> QED
    BY <2>2, <2>3
<1>5. e.ty = "vol_surface" => RestsOnQuotes(e.body, DOMAIN shown)
  <2> SUFFICES ASSUME e.ty = "vol_surface" PROVE RestsOnQuotes(e.body, DOMAIN shown)
    OBVIOUS
  <2>1. e # failed
    <3>1. e.ty # failed.ty
      OBVIOUS
    <3> QED
      BY <3>1
  <2>2. e = surface
    BY <2>1
  <2>3. e.body.points = solved /\ Cardinality(solved) >= MinStrikes
    BY <1>3, <2>2
  <2>4. \A o \in solved : options[o]["bid"] > 0 /\ options[o]["ask"] > 0
    BY <1>2 DEF HasChain, TwoSided
  <2>5. \A o \in solved : <<o, "bid">> \in DOMAIN shown /\ <<o, "ask">> \in DOMAIN shown
    BY <2>4 DEF IInv, PositiveWasShown, Fields
  <2> HIDE DEF surface, failed
  <2> QED
    BY <2>3, <2>5 DEF RestsOnQuotes
<1> HIDE DEF surface, failed
<1>6. Types'
  <2>1. ring' \in Seq(Event)
    BY <1>3, <1>4 DEF IInv, Types
  <2> QED
    BY <1>1, <2>1 DEF IInv, Types
<1>7. ShownOfRegistered' /\ CacheIsSent'
  BY <1>1 DEF IInv, ShownOfRegistered, CacheIsSent
<1>8. CacheIsOnItsWay'
  <2>1. \A o : e \notin TicksOf(o)
    BY <1>4 DEF TicksOf
  <2>2. \A o : /\ \A x : Newest(ring, TicksOf(o), x) => Newest(ring', TicksOf(o), x)
               /\ Absent(ring, TicksOf(o)) => Absent(ring', TicksOf(o))
    BY <1>3, <1>4, <2>1, OtherEventKeepsTicks DEF IInv
  <2> QED
    BY <1>1, <2>2 DEF IInv, CacheIsOnItsWay
<1>9. PositiveWasShown'
  <2>1. \A i \in 1 .. Len(ring') : ring'[i] = e \/ \E j \in 1 .. Len(ring) : ring'[i] = ring[j]
    <3>1. CASE ring' = Append(ring, e)
      <4>1. /\ Len(ring') = Len(ring) + 1 /\ Len(ring) \in Nat /\ ring'[Len(ring')] = e
            /\ \A i \in 1 .. Len(ring) : ring'[i] = ring[i]
        BY <1>4, <3>1 DEF IInv, Types
      <4>2. \A i \in 1 .. Len(ring') : i \in 1 .. Len(ring) \/ i = Len(ring')
        BY <4>1
      <4> QED
        BY <4>1, <4>2
    <3> QED
      BY <1>3, <3>1
  <2>2. \A i \in 1 .. Len(ring') : ring'[i].ty = "vol_surface" => RestsOnQuotes(ring'[i].body, DOMAIN shown)
    BY <1>5, <2>1 DEF IInv, PositiveWasShown
  <2> QED
    BY <1>1, <2>2 DEF IInv, PositiveWasShown
<1>10. OptionsFollow' /\ UnderlyingFollows'
  BY <1>1 DEF IInv, OptionsFollow, UnderlyingFollows, LastShown
<1> QED
  BY <1>6, <1>7, <1>8, <1>9, <1>10 DEF IInv

-----------------------------------------------------------------------------
(* The trader *)

(* The entry that the trader keeps is the newest tick's; the surface is    *)
(* one of the ring's.                                                      *)
LEMMA TicksAreRead ==
  ASSUME Types, process_events, NEW o, NEW b
  PROVE  /\ Newest(ring, TicksOf(o), TickEvent(o, b)) =>
              o \in DOMAIN options_seen' /\ options_seen'[o] = b
         /\ Absent(ring, TicksOf(o)) /\ o \in DOMAIN options_seen =>
              o \in DOMAIN options_seen' /\ options_seen'[o] = options_seen[o]
<1> DEFINE I == {i \in 1 .. Len(ring) : ring[i].ty = "tick" /\ ring[i].key = o}
<1>1. ring \in Seq(Event) /\ \A i \in 1 .. Len(ring) : ring[i] \in Event
  BY DEF Types
<1>2. I = {i \in 1 .. Len(ring) : ring[i] \in TicksOf(o)}
  BY <1>1 DEF TicksOf
<1>3. LastTick(o) = IF I # {} THEN Max(I) ELSE 0
  BY DEF LastTick, SelectLastInSeq
<1>4. o \in Keys <=> I # {}
  BY <1>1 DEF Keys, ToSet
<1>5. /\ DOMAIN options_seen' = DOMAIN options_seen \cup Keys
      /\ \A p \in DOMAIN options_seen' :
           options_seen'[p] = IF p \in Keys THEN ring[LastTick(p)].body ELSE options_seen[p]
  BY DEF process_events
<1> HIDE DEF I
<1>6. ASSUME Newest(ring, TicksOf(o), TickEvent(o, b))
      PROVE  o \in DOMAIN options_seen' /\ options_seen'[o] = b
  <2>1. I # {} /\ ring[Max(I)] = TickEvent(o, b)
    BY <1>1, <1>2, <1>6, NewestIsMax
  <2>2. TickEvent(o, b).body = b
    BY DEF TickEvent
  <2> QED
    BY <1>3, <1>4, <1>5, <2>1, <2>2
<1>7. ASSUME Absent(ring, TicksOf(o)), o \in DOMAIN options_seen
      PROVE  o \in DOMAIN options_seen' /\ options_seen'[o] = options_seen[o]
  <2>1. I = {}
    BY <1>1, <1>2, <1>7, NewestIsMax
  <2> QED
    BY <1>4, <1>5, <1>7, <2>1
<1> QED
  BY <1>6, <1>7

LEMMA SurfaceIsRead ==
  ASSUME Types, process_events
  PROVE  \A s \in DOMAIN surfaces' :
           \/ s \in DOMAIN surfaces /\ surfaces'[s] = surfaces[s]
           \/ \E i \in 1 .. Len(ring) : ring[i].ty = "vol_surface" /\ surfaces'[s] = ring[i].body
<1> DEFINE I == {i \in 1 .. Len(ring) : ring[i].ty = "vol_surface"}
<1>1. LastSurface = IF I # {} THEN Max(I) ELSE 0
  BY DEF LastSurface, SelectLastInSeq
<1>2. surfaces' = IF LastSurface = 0 THEN surfaces ELSE Put(surfaces, "B", ring[LastSurface].body)
  BY DEF process_events
<1>3. CASE I = {}
  BY <1>1, <1>2, <1>3
<1>4. CASE I # {}
  <2>1. Len(ring) \in Nat /\ I \subseteq 1 .. Len(ring)
    BY DEF Types
  <2> HIDE DEF I
  <2>2. Max(I) \in I
    BY <1>4, <2>1, MaxOf
  <2>3. LastSurface \in 1 .. Len(ring) /\ ring[LastSurface].ty = "vol_surface"
    BY <1>1, <1>4, <2>2 DEF I
  <2>4. LastSurface # 0
    BY <2>1, <2>3
  <2>5. surfaces' = Put(surfaces, "B", ring[LastSurface].body)
    BY <1>2, <2>4
  <2> QED
    BY <2>3, <2>5 DEF Put
<1> QED
  BY <1>3, <1>4

LEMMA ReadKeepsInv ==
  ASSUME IInv, process_events, UNCHANGED <<mdVars, feedVars>>
  PROVE  IInv'
<1>1. /\ UNCHANGED <<channel, options, underlying, cache, lagged, shown, sent, refused, installed>>
      /\ ring' = <<>>
  BY DEF mdVars, feedVars, process_events
<1>2. Types'
  <2>1. ring' \in Seq(Event)
    BY <1>1
  <2> QED
    BY <1>1, <2>1 DEF IInv, Types
<1>3. ShownOfRegistered' /\ CacheIsSent'
  BY <1>1 DEF IInv, ShownOfRegistered, CacheIsSent
<1>4. CacheIsOnItsWay'
  <2> SUFFICES ASSUME NEW o \in DOMAIN cache \ refused
               PROVE  /\ Absent(<<>>, TicksOf(o))
                      /\ o \in DOMAIN options_seen' /\ options_seen'[o] = cache[o]
    BY <1>1 DEF CacheIsOnItsWay
  <2> QED
    BY NoneInEmpty, TicksAreRead DEF IInv, CacheIsOnItsWay
<1>5. PositiveWasShown'
  <2>1. \A s \in DOMAIN surfaces' : RestsOnQuotes(surfaces'[s], DOMAIN shown)
    BY SurfaceIsRead DEF IInv, PositiveWasShown
  <2>2. Len(ring') = 0 /\ 1 .. 0 = {}
    BY <1>1
  <2> QED
    BY <1>1, <2>1, <2>2 DEF IInv, PositiveWasShown
<1>6. OptionsFollow' /\ UnderlyingFollows'
  BY <1>1 DEF IInv, OptionsFollow, UnderlyingFollows, LastShown
<1> QED
  BY <1>2, <1>3, <1>4, <1>5, <1>6 DEF IInv

-----------------------------------------------------------------------------
(* RouteTick *)

(* The publisher and the ring.  Without the publisher, or of a tick that   *)
(* it skips, nothing is sent that its entries would miss.                  *)
LEMMA PublisherKeeps ==
  ASSUME IInv, NEW i \in Instruments, NEW k \in Kinds, NEW v \in Int, RouteTick(i, k, v)
  PROVE  /\ ring' \in Seq(Event)
         /\ DOMAIN cache' \subseteq Chain /\ cache' \in [DOMAIN cache' -> [Sides -> Int]]
         /\ \A j \in 1 .. Len(ring') : ring'[j].ty = "vol_surface" =>
              \E m \in 1 .. Len(ring) : ring'[j] = ring[m]
         /\ CacheIsSent' /\ CacheIsOnItsWay'
<1>1. /\ tick_publisher(i, k, v) /\ i \in DOMAIN options \cup {Underlying}
      /\ sent' = IF installed THEN Put(sent, <<i, k>>, v) ELSE sent
      /\ options_seen' = options_seen
  BY DEF RouteTick, traderVars
<1>2. /\ ring \in Seq(Event)
      /\ DOMAIN cache \subseteq Chain /\ cache \in [DOMAIN cache -> [Sides -> Int]]
      /\ DOMAIN options \subseteq Chain
  BY DEF IInv, Types
<1>3. Underlying \notin Chain
  BY FeedAssumption
<1>4. installed => /\ DOMAIN sent' = DOMAIN sent \cup {<<i, k>>} /\ sent'[<<i, k>>] = v
                   /\ \A x \in DOMAIN sent : x # <<i, k>> => sent'[x] = sent[x]
  BY <1>1 DEF Put
<1>5. CASE ~Consumable(i, k)
  <2>1. UNCHANGED <<ring, cache, refused>>
    BY <1>1, <1>5 DEF tick_publisher
  <2>2. \A o \in Chain, s \in Sides : installed => <<o, s>> # <<i, k>>
    BY <1>1, <1>3, <1>5 DEF Consumable, option_meta
  <2>3. \A o \in Chain, s \in Sides : /\ <<o, s>> \in DOMAIN sent' <=> <<o, s>> \in DOMAIN sent
                                      /\ <<o, s>> \in DOMAIN sent => sent'[<<o, s>>] = sent[<<o, s>>]
    BY <1>1, <1>4, <2>2
  <2>4. CacheIsSent'
    BY <2>1, <2>3 DEF IInv, CacheIsSent
  <2>5. CacheIsOnItsWay'
    BY <1>1, <2>1 DEF IInv, CacheIsOnItsWay
  <2> QED
    BY <1>2, <2>1, <2>4, <2>5
<1>6. CASE Consumable(i, k)
  <2> DEFINE old == IF i \in DOMAIN cache THEN cache[i] ELSE Blank
             body == [old EXCEPT ![k] = v]
             e == TickEvent(i, body)
  <2>1. installed /\ k \in Sides /\ i \in DOMAIN options /\ i \in Chain
    BY <1>2, <1>6 DEF Consumable, option_meta
  <2>2. /\ cache' = Put(cache, i, body)
        /\ Publish([ty |-> "tick", key |-> i, body |-> cache'[i]])
        /\ refused' = IF RingFull THEN refused \cup {i} ELSE refused \ {i}
    BY <1>1, <1>6 DEF tick_publisher, Consolidated
  <2>3. old \in [Sides -> Int]
    BY <1>2 DEF Blank, Unset
  <2>4. body \in [Sides -> Int] /\ body[k] = v /\ \A s \in Sides : s # k => body[s] = old[s]
    BY <2>1, <2>3
  <2>5. i \notin DOMAIN cache => \A s \in Sides : old[s] = Unset
    BY DEF Blank
  <2>6. i \in DOMAIN cache => old = cache[i]
    OBVIOUS
  <2> HIDE DEF old, body
  <2>7. /\ DOMAIN cache' = DOMAIN cache \cup {i} /\ cache'[i] = body
        /\ \A o \in DOMAIN cache : o # i => cache'[o] = cache[o]
        /\ cache' = [o \in DOMAIN cache' |-> cache'[o]]
    BY <2>2 DEF Put
  <2>8. DOMAIN cache' \subseteq Chain /\ cache' \in [DOMAIN cache' -> [Sides -> Int]]
    <3>1. \A o \in DOMAIN cache' : cache'[o] \in [Sides -> Int]
      BY <1>2, <2>4, <2>7
    <3> QED
      BY <1>2, <2>1, <2>7, <3>1
  <2>9. ring' = IF RingFull THEN ring ELSE Append(ring, e)
    BY <2>2, <2>7, PublishFacts DEF TickEvent
  <2>10. e \in Event /\ e.ty = "tick" /\ e.key = i
    BY <2>1, <2>4 DEF Event, TickEvent
  <2>11. e \in TicksOf(i) /\ \A o : o # i => e \notin TicksOf(o)
    BY <2>10 DEF TicksOf
  <2> HIDE DEF e
  <2>12. CacheIsSent'
    <3> SUFFICES ASSUME NEW o \in Chain, NEW s \in Sides
                 PROVE  /\ o \in DOMAIN cache' =>
                             cache'[o][s] = IF <<o, s>> \in DOMAIN sent' THEN sent'[<<o, s>>] ELSE Unset
                        /\ o \notin DOMAIN cache' => <<o, s>> \notin DOMAIN sent'
      BY DEF CacheIsSent
    <3>1. /\ o \in DOMAIN cache => cache[o][s] = IF <<o, s>> \in DOMAIN sent THEN sent[<<o, s>>] ELSE Unset
          /\ o \notin DOMAIN cache => <<o, s>> \notin DOMAIN sent
      BY DEF IInv, CacheIsSent
    <3>2. CASE o # i
      <4>1. <<o, s>> # <<i, k>>
        BY <3>2
      <4> QED
        BY <1>4, <2>1, <2>7, <3>1, <3>2, <4>1
    <3>3. CASE o = i /\ s = k
      BY <1>4, <2>1, <2>4, <2>7, <3>3
    <3>4. CASE o = i /\ s # k
      <4>1. <<o, s>> # <<i, k>>
        BY <3>4
      <4>2. cache'[o][s] = old[s]
        BY <2>4, <2>7, <3>4
      <4> QED
        BY <1>4, <2>1, <2>5, <2>6, <2>7, <3>1, <3>4, <4>1, <4>2
    <3> QED
      BY <3>2, <3>3, <3>4
  <2>13. CacheIsOnItsWay'
    <3> SUFFICES ASSUME NEW o \in DOMAIN cache' \ refused'
                 PROVE  \/ Newest(ring', TicksOf(o), TickEvent(o, cache'[o]))
                        \/ Absent(ring', TicksOf(o)) /\ o \in DOMAIN options_seen /\ options_seen[o] = cache'[o]
      BY <1>1 DEF CacheIsOnItsWay
    <3>1. CASE o = i
      <4>1. ring' = Append(ring, e)
        BY <2>2, <2>9, <3>1
      <4>2. Newest(Append(ring, e), TicksOf(i), e)
        <5> DEFINE M == TicksOf(i)
        <5> HIDE DEF M
        <5>1. e \in M
          BY <2>11 DEF M
        <5>2. Newest(Append(ring, e), M, e)
          BY <1>2, <2>10, <5>1, AfterAppend
        <5> QED
          BY <5>2 DEF M
      <4>3. e = TickEvent(o, cache'[o])
        BY <2>7, <3>1 DEF e
      <4> QED
        BY <3>1, <4>1, <4>2, <4>3
    <3>2. CASE o # i
      <4>1. o \in DOMAIN cache \ refused /\ cache'[o] = cache[o]
        BY <2>2, <2>7, <3>2
      <4>2. /\ \A x : Newest(ring, TicksOf(o), x) => Newest(ring', TicksOf(o), x)
            /\ Absent(ring, TicksOf(o)) => Absent(ring', TicksOf(o))
        BY <2>9, <2>10, <2>11, <3>2, OtherEventKeepsTicks DEF IInv
      <4> QED
        BY <4>1, <4>2 DEF IInv, CacheIsOnItsWay
    <3> QED
      BY <3>1, <3>2
  <2>14. ring' \in Seq(Event)
    BY <1>2, <2>9, <2>10
  <2>15. \A j \in 1 .. Len(ring') : ring'[j].ty = "vol_surface" =>
            \E m \in 1 .. Len(ring) : ring'[j] = ring[m]
    <3>1. CASE ring' = Append(ring, e)
      <4>1. /\ Len(ring') = Len(ring) + 1 /\ Len(ring) \in Nat /\ ring'[Len(ring')] = e
            /\ \A j \in 1 .. Len(ring) : ring'[j] = ring[j]
        BY <1>2, <2>10, <3>1
      <4>2. \A j \in 1 .. Len(ring') : j \in 1 .. Len(ring) \/ j = Len(ring')
        BY <4>1
      <4>3. e.ty # "vol_surface"
        BY <2>10
      <4> QED
        BY <4>1, <4>2, <4>3
    <3> QED
      BY <2>9, <3>1
  <2> QED
    BY <2>8, <2>12, <2>13, <2>14, <2>15
<1> QED
  BY <1>5, <1>6

(* The broadcast and the daemon's state.  A channel that overwrites a tick *)
(* is lagged for good.                                                     *)
LEMMA BroadcastKeeps ==
  ASSUME IInv, NEW i \in Instruments, NEW k \in Kinds, NEW v \in Int, RouteTick(i, k, v)
  PROVE  /\ channel' \in Seq(Tick) /\ lagged' \in BOOLEAN
         /\ \A x \in DOMAIN shown : x \in DOMAIN shown'
         /\ \A j \in 1 .. Len(channel') : channel'[j][3] > 0 => <<channel'[j][1], channel'[j][2]>> \in DOMAIN shown'
         /\ ShownOfRegistered' /\ OptionsFollow' /\ UnderlyingFollows'
<1> DEFINE t == <<i, k, v>>
<1>1. /\ i \in DOMAIN options \cup {Underlying}
      /\ shown' = IF v > 0 THEN Put(shown, <<i, k>>, v) ELSE shown
      /\ UNCHANGED <<options, underlying>>
      /\ channel' = Append(IF Len(channel) < ChannelCap THEN channel ELSE Tail(channel), t)
      /\ lagged' = (lagged \/ Len(channel) >= ChannelCap)
  BY DEF RouteTick, Broadcast, mdVars
<1>2. /\ channel \in Seq(Tick) /\ Len(channel) \in Nat /\ ChannelCap \in Nat \ {0}
      /\ DOMAIN options \subseteq Chain /\ Underlying \notin Chain
  BY FeedAssumption DEF IInv, Types
<1>3. t \in Tick /\ t[1] = i /\ t[2] = k /\ t[3] = v
  BY DEF Tick
<1> HIDE DEF t
<1>4. /\ channel' \in Seq(Tick)
      /\ \A j \in 1 .. Len(channel') : \/ channel'[j] = t
                                       \/ \E m \in 1 .. Len(channel) : channel'[j] = channel[m]
  <2> DEFINE q == IF Len(channel) < ChannelCap THEN channel ELSE Tail(channel)
  <2>1. q \in Seq(Tick) /\ \A j \in 1 .. Len(q) : \E m \in 1 .. Len(channel) : q[j] = channel[m]
    <3>1. CASE Len(channel) < ChannelCap
      BY <1>2, <3>1
    <3>2. CASE ~ (Len(channel) < ChannelCap)
      <4>1. Len(channel) > 0 /\ channel # <<>>
        BY <1>2, <3>2
      <4>2. /\ q \in Seq(Tick) /\ Len(q) = Len(channel) - 1
            /\ \A j \in 1 .. Len(q) : q[j] = channel[j + 1]
        BY <1>2, <3>2, <4>1
      <4>3. \A j \in 1 .. Len(q) : j + 1 \in 1 .. Len(channel)
        BY <1>2, <4>1, <4>2
      <4> QED
        BY <4>2, <4>3
    <3> QED
      BY <3>1, <3>2
  <2>2. channel' = Append(q, t)
    BY <1>1
  <2> HIDE DEF q
  <2>3. /\ channel' \in Seq(Tick) /\ Len(channel') = Len(q) + 1 /\ Len(q) \in Nat
        /\ channel'[Len(channel')] = t
        /\ \A j \in 1 .. Len(q) : channel'[j] = q[j]
    BY <1>3, <2>1, <2>2
  <2>4. \A j \in 1 .. Len(channel') : j \in 1 .. Len(q) \/ j = Len(channel')
    BY <2>3
  <2> QED
    BY <2>1, <2>3, <2>4
<1>5. /\ v > 0 => /\ DOMAIN shown' = DOMAIN shown \cup {<<i, k>>} /\ shown'[<<i, k>>] = v
                  /\ \A x \in DOMAIN shown : x # <<i, k>> => shown'[x] = shown[x]
      /\ ~(v > 0) => shown' = shown
  BY <1>1 DEF Put
<1>6. \A x \in DOMAIN shown : x \in DOMAIN shown'
  BY <1>5
<1>7. \A j \in 1 .. Len(channel') : channel'[j][3] > 0 => <<channel'[j][1], channel'[j][2]>> \in DOMAIN shown'
  <2>1. t[3] > 0 => <<t[1], t[2]>> \in DOMAIN shown'
    BY <1>3, <1>5
  <2>2. \A m \in 1 .. Len(channel) : channel[m][3] > 0 => <<channel[m][1], channel[m][2]>> \in DOMAIN shown
    BY DEF IInv, PositiveWasShown
  <2> QED
    BY <1>4, <1>6, <2>1, <2>2
<1>8. ShownOfRegistered'
  <2>1. \A x \in DOMAIN shown' : shown'[x] \in Int /\ shown'[x] > 0
    BY <1>5 DEF IInv, ShownOfRegistered
  <2>2. ASSUME NEW o \in Chain, NEW s \in Kinds, <<o, s>> \in DOMAIN shown'
        PROVE  o \in DOMAIN options
    <3>1. CASE <<o, s>> \in DOMAIN shown
      BY <3>1 DEF IInv, ShownOfRegistered
    <3>2. CASE <<o, s>> = <<i, k>>
      BY <1>1, <1>2, <3>2
    <3> QED
      BY <1>5, <2>2, <3>1, <3>2
  <2>3. \A j \in 1 .. Len(channel') : channel'[j][1] \in DOMAIN options \cup {Underlying}
    BY <1>1, <1>3, <1>4 DEF IInv, ShownOfRegistered
  <2> QED
    BY <1>1, <2>1, <2>2, <2>3 DEF ShownOfRegistered
<1>9. \A o, s : LastShown(o, s)' = IF <<o, s>> = <<i, k>> /\ v > 0 THEN v ELSE LastShown(o, s)
  BY <1>5 DEF LastShown
<1>10. ~lagged' => ~lagged /\ channel' = Append(channel, t)
  <2>1. ~(Len(channel) >= ChannelCap) => Len(channel) < ChannelCap
    BY <1>2
  <2>2. ~lagged' => ~lagged /\ ~(Len(channel) >= ChannelCap)
    BY <1>1
  <2> QED
    BY <1>1, <2>1, <2>2
<1>11. OptionsFollow'
  <2> SUFFICES ASSUME ~lagged', NEW o \in DOMAIN options, NEW s \in Fields
               PROVE  \/ Newest(channel', ShowsOf(o, s), <<o, s, LastShown(o, s)'>>)
                      \/ Absent(channel', ShowsOf(o, s)) /\ options[o][s] = LastShown(o, s)'
    BY <1>1 DEF OptionsFollow
  <2> DEFINE M == ShowsOf(o, s)
  <2>1. t \in M <=> <<o, s>> = <<i, k>> /\ v > 0
    BY <1>3 DEF ShowsOf
  <2>2. \/ Newest(channel, M, <<o, s, LastShown(o, s)>>)
        \/ Absent(channel, M) /\ options[o][s] = LastShown(o, s)
    BY <1>10 DEF IInv, OptionsFollow
  <2> HIDE DEF M
  <2>3. CASE t \in M
    <3>1. Newest(channel', M, t)
      BY <1>2, <1>3, <1>10, <2>3, AfterAppend
    <3>2. t = <<o, s, LastShown(o, s)'>>
      BY <1>9, <2>1, <2>3 DEF t
    <3> QED
      BY <3>1, <3>2 DEF M
  <2>4. CASE t \notin M
    <3>1. LastShown(o, s)' = LastShown(o, s)
      BY <1>9, <2>1, <2>4
    <3>2. /\ Absent(channel, M) => Absent(channel', M)
          /\ \A e : Newest(channel, M, e) => Newest(channel', M, e)
      BY <1>2, <1>3, <1>10, <2>4, AfterAppend
    <3> QED
      BY <2>2, <3>1, <3>2 DEF M
  <2> QED
    BY <2>3, <2>4
<1>12. UnderlyingFollows'
  <2> SUFFICES ASSUME ~lagged'
               PROVE  \/ \E s \in {"bid", "last"} :
                           Newest(channel', MarksOf, <<Underlying, s, LastShown(Underlying, s)'>>)
                      \/ /\ Absent(channel', MarksOf)
                         /\ underlying \in {LastShown(Underlying, "bid")', LastShown(Underlying, "last")'}
    BY <1>1 DEF UnderlyingFollows
  <2>1. t \in MarksOf <=> i = Underlying /\ k \in {"bid", "last"} /\ v > 0
    BY <1>3 DEF MarksOf
  <2>2. CASE t \in MarksOf
    <3>1. Newest(channel', MarksOf, t)
      BY <1>2, <1>3, <1>10, <2>2, AfterAppend
    <3>2. t = <<Underlying, k, LastShown(Underlying, k)'>>
      BY <1>9, <2>1, <2>2 DEF t
    <3> QED
      BY <2>1, <2>2, <3>1, <3>2
  <2>3. CASE t \notin MarksOf
    <3>1. \A s \in {"bid", "last"} : LastShown(Underlying, s)' = LastShown(Underlying, s)
      BY <1>9, <2>1, <2>3
    <3>2. /\ Absent(channel, MarksOf) => Absent(channel', MarksOf)
          /\ \A e : Newest(channel, MarksOf, e) => Newest(channel', MarksOf, e)
      BY <1>2, <1>3, <1>10, <2>3, AfterAppend
    <3> QED
      BY <1>10, <3>1, <3>2 DEF IInv, UnderlyingFollows
  <2> QED
    BY <2>2, <2>3
<1> QED
  BY <1>1, <1>4, <1>6, <1>7, <1>8, <1>11, <1>12 DEF IInv, Types

LEMMA RouteKeepsInv ==
  ASSUME IInv, NEW i \in Instruments, NEW k \in Kinds, NEW v \in Int, RouteTick(i, k, v)
  PROVE  IInv'
<1>1. /\ UNCHANGED <<options, underlying, installed, surfaces>>
  BY DEF RouteTick, mdVars, traderVars
<1>2. /\ ring' \in Seq(Event)
      /\ DOMAIN cache' \subseteq Chain /\ cache' \in [DOMAIN cache' -> [Sides -> Int]]
      /\ \A j \in 1 .. Len(ring') : ring'[j].ty = "vol_surface" =>
           \E m \in 1 .. Len(ring) : ring'[j] = ring[m]
      /\ CacheIsSent' /\ CacheIsOnItsWay'
  BY PublisherKeeps
<1>3. /\ channel' \in Seq(Tick) /\ lagged' \in BOOLEAN
      /\ \A x \in DOMAIN shown : x \in DOMAIN shown'
      /\ \A j \in 1 .. Len(channel') : channel'[j][3] > 0 => <<channel'[j][1], channel'[j][2]>> \in DOMAIN shown'
      /\ ShownOfRegistered' /\ OptionsFollow' /\ UnderlyingFollows'
  BY BroadcastKeeps
<1>4. Types'
  BY <1>1, <1>2, <1>3 DEF IInv, Types
<1>5. PositiveWasShown'
  <2>1. \A o, s : <<o, s>> \in DOMAIN shown => <<o, s>> \in DOMAIN shown'
    BY <1>3
  <2>2. \A b : RestsOnQuotes(b, DOMAIN shown) => RestsOnQuotes(b, DOMAIN shown')
    BY <2>1 DEF RestsOnQuotes
  <2>3. \A j \in 1 .. Len(ring') : ring'[j].ty = "vol_surface" => RestsOnQuotes(ring'[j].body, DOMAIN shown')
    BY <1>2, <2>2 DEF IInv, PositiveWasShown
  <2>4. \A s \in DOMAIN surfaces' : RestsOnQuotes(surfaces'[s], DOMAIN shown')
    BY <1>1, <2>2 DEF IInv, PositiveWasShown
  <2>5. \A o \in DOMAIN options', s \in Fields : options'[o][s] > 0 => <<o, s>> \in DOMAIN shown'
    BY <1>1, <2>1 DEF IInv, PositiveWasShown
  <2> QED
    BY <1>3, <2>3, <2>4, <2>5 DEF PositiveWasShown
<1> QED
  BY <1>2, <1>3, <1>4, <1>5 DEF IInv

-----------------------------------------------------------------------------
(* Every step, and the theorems *)

LEMMA NextKeepsInv ==
  ASSUME IInv, [Next]_vars
  PROVE  IInv'
<1>1. ASSUME NEW o \in Chain, RegisterOption(o)
      PROVE  IInv'
  BY <1>1, RegisterKeepsInv
<1>2. CASE install_tick_fastpath
  BY <1>2, UnchangedKeepsInv DEF install_tick_fastpath, proofVars, mdVars, traderVars
<1>3. ASSUME NEW t \in Ticks, RouteTick(t[1], t[2], t[3])
      PROVE  IInv'
  <2>1. t[1] \in Instruments /\ t[2] \in Kinds /\ t[3] \in Int
    BY FeedAssumption DEF Instruments
  <2> QED
    BY <1>3, <2>1, RouteKeepsInv
<1>4. CASE pump_ticks
  BY <1>4, PumpKeepsInv
<1>5. ASSUME NEW solved \in SUBSET DOMAIN options, fit_and_publish(solved)
      PROVE  IInv'
  BY <1>5, FitKeepsInv
<1>6. ASSUME UNCHANGED <<mdVars, ring, feedVars, traderVars>>
      PROVE  IInv'
  <2>1. UNCHANGED proofVars /\ installed' = installed
    BY <1>6 DEF proofVars, mdVars, feedVars, traderVars
  <2>2. installed \in BOOLEAN
    BY DEF IInv, Types
  <2> QED
    BY <2>1, <2>2, UnchangedKeepsInv
<1>7. CASE TraderStep
  BY <1>6, <1>7, ReadKeepsInv DEF TraderStep
<1>8. CASE Notify \/ ReactorPoll
  BY <1>6, <1>8 DEF Notify, ReactorPoll
<1>9. CASE UNCHANGED vars
  BY <1>6, <1>9 DEF vars
<1> QED
  BY <1>1, <1>2, <1>3, <1>4, <1>5, <1>7, <1>8, <1>9 DEF Next

LEMMA InvHolds == Spec => []IInv
<1>1. Init => IInv
  BY InitIsInv
<1>2. IInv /\ [Next]_vars => IInv'
  BY NextKeepsInv
<1> QED
  BY <1>1, <1>2, PTL DEF Spec

(* The trader's entry of an option has the last of each side that the      *)
(* gateway sent, once the ring is read: whatever the ticks and the pace of *)
(* the two processes, as tick_publisher sends the consolidated entry with  *)
(* each tick and process_event overwrites the trader's with it.            *)
THEOREM TraderIsUpToDate == Spec => []TraderSeesLastQuote
<1>1. IInv => TraderSeesLastQuote
  <2> SUFFICES ASSUME IInv, ring = <<>>, NEW o \in DOMAIN cache \ refused
               PROVE  /\ o \in DOMAIN options_seen
                      /\ \A k \in Sides : options_seen[o][k] =
                           IF <<o, k>> \in DOMAIN sent THEN sent[<<o, k>>] ELSE Unset
    BY DEF TraderSeesLastQuote
  <2>1. Len(<<>>) = 0 /\ 1 .. 0 = {}
    OBVIOUS
  <2>2. ~Newest(ring, TicksOf(o), TickEvent(o, cache[o]))
    BY <2>1 DEF Newest
  <2>3. o \in DOMAIN options_seen /\ options_seen[o] = cache[o]
    BY <2>2 DEF IInv, CacheIsOnItsWay
  <2>4. o \in Chain
    BY DEF IInv, Types
  <2> QED
    BY <2>3, <2>4 DEF IInv, CacheIsSent
<1> QED
  BY <1>1, InvHolds, PTL

(* Once the channel is empty and was never overwritten, pump_ticks has     *)
(* stored the last positive price of each field: update_bid, update_ask    *)
(* and update_last keep the order of the broadcast and skip what is not    *)
(* positive.                                                               *)
THEOREM MarksAreLastPositive == Spec => []DaemonMarksLastPositive
<1>1. IInv => DaemonMarksLastPositive
  <2> SUFFICES ASSUME IInv, channel = <<>>, ~lagged
               PROVE  /\ \A o \in DOMAIN options, k \in Fields : options[o][k] = LastShown(o, k)
                      /\ underlying \in {LastShown(Underlying, "bid"), LastShown(Underlying, "last")}
    BY DEF DaemonMarksLastPositive, Fields
  <2>1. Len(<<>>) = 0 /\ 1 .. 0 = {}
    OBVIOUS
  <2>2. \A M, e : ~Newest(channel, M, e)
    BY <2>1 DEF Newest
  <2> QED
    BY <2>2 DEF IInv, OptionsFollow, UnderlyingFollows
<1> QED
  BY <1>1, InvHolds, PTL

(* Every surface that the trader keeps was fitted to MinStrikes options or *)
(* more, of each of which the gateway had shown a bid and an ask.          *)
THEOREM SurfacesRestOnQuotes == Spec => []SurfaceRestsOnQuotes
<1>1. IInv => SurfaceRestsOnQuotes
  <2> SUFFICES ASSUME IInv, NEW s \in DOMAIN surfaces
               PROVE  /\ Cardinality(surfaces[s].points) >= MinStrikes
                      /\ \A o \in surfaces[s].points : LastShown(o, "bid") > 0 /\ LastShown(o, "ask") > 0
    BY DEF SurfaceRestsOnQuotes
  <2>1. RestsOnQuotes(surfaces[s], DOMAIN shown)
    BY DEF IInv, PositiveWasShown
  <2>2. \A x \in DOMAIN shown : shown[x] > 0
    BY DEF IInv, ShownOfRegistered
  <2> QED
    BY <2>1, <2>2 DEF RestsOnQuotes, LastShown
<1> QED
  BY <1>1, InvHolds, PTL
=============================================================================
