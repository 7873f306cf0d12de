----------------------------- MODULE EventLoop -----------------------------
(***************************************************************************)
(* The trader's hot loop in its default (FIFO-notify) mode against the     *)
(* broker's publish.  The ring is the atomic stream that Ring implements:  *)
(* `published` frames, of which the trader has read the first `consumed`.  *)
(*                                                                         *)
(* After its Release store write_frame writes one byte into the notify     *)
(* FIFO; the trader reads the ring, and when that was empty drains the     *)
(* FIFO and waits for it to become readable, 100 ms at most.  tokio's      *)
(* reactor stands between them: it is edge-triggered, looks at the FIFO    *)
(* only when it polls, and remembers readiness until clear_ready.          *)
(***************************************************************************)
EXTENDS Naturals

CONSTANT MaxPublished    \* bound: frames the broker publishes

VARIABLES published,     \* frames in the ring since the start
          consumed,      \* frames read_available has returned
          publisher,     \* "idle", or "stored": offset stored, not notified
          fifo,          \* bytes wait in the notify FIFO
          edge,          \* the FIFO was written since the reactor last looked
          ready,         \* the reactor's cached readiness of the FIFO
          loop           \* where the hot loop stands

vars == <<published, consumed, publisher, fifo, edge, ready, loop>>

(* The FIFO outlives both processes: bytes of an earlier run may be in it. *)
Init ==
  /\ published = 0 /\ consumed = 0
  /\ publisher = "idle"
  /\ fifo \in BOOLEAN /\ edge = fifo /\ ready = FALSE
  /\ loop = "read"

-----------------------------------------------------------------------------
(* Broker: SHMServer::publish *)

StoreOffset ==
  /\ publisher = "idle" /\ published < MaxPublished
  /\ published' = published + 1
  /\ publisher' = "stored"
  /\ UNCHANGED <<consumed, fifo, edge, ready, loop>>

Notify ==
  /\ publisher = "stored"
  /\ fifo' = TRUE /\ edge' = TRUE
  /\ publisher' = "idle"
  /\ UNCHANGED <<published, consumed, ready, loop>>

-----------------------------------------------------------------------------
(* Trader *)

(* A non-empty read is decoded and processed, then the loop continues. *)
ReadSome ==
  /\ loop = "read" /\ consumed < published
  /\ consumed' = published
  /\ UNCHANGED <<published, publisher, fifo, edge, ready, loop>>

ReadNothing ==
  /\ loop = "read" /\ consumed = published
  /\ loop' = "drain"
  /\ UNCHANGED <<published, consumed, publisher, fifo, edge, ready>>

DrainNotify ==
  /\ loop = "drain"
  /\ fifo' = FALSE
  /\ loop' = "wait"
  /\ UNCHANGED <<published, consumed, publisher, edge, ready>>

(* readable() returns; clear_ready forgets the cached readiness. *)
Readable ==
  /\ loop = "wait" /\ ready
  /\ ready' = FALSE
  /\ loop' = "read"
  /\ UNCHANGED <<published, consumed, publisher, fifo, edge>>

(* Without the 100 ms limit on the wait. *)
TimeoutNever == FALSE /\ UNCHANGED vars

Timeout ==
  /\ loop = "wait" /\ ~ready
  /\ loop' = "read"
  /\ UNCHANGED <<published, consumed, publisher, fifo, edge, ready>>

(* External: epoll_wait of tokio's reactor.  An edge whose bytes are gone  *)
(* by then is not reported.                                                *)
ReactorPoll ==
  /\ edge
  /\ edge' = FALSE
  /\ ready' = (ready \/ fifo)
  /\ UNCHANGED <<published, consumed, publisher, fifo, loop>>

-----------------------------------------------------------------------------
Trader == ReadSome \/ ReadNothing \/ DrainNotify \/ Readable \/ Timeout

Next == StoreOffset \/ Notify \/ Trader \/ ReactorPoll

(* The hot loop and the reactor run for ever; write_frame, once past its   *)
(* store, goes on to notify.  Publishing another frame is no obligation.   *)
Spec == Init /\ [][Next]_vars /\ WF_vars(Trader) /\ WF_vars(ReactorPoll) /\ WF_vars(Notify)

-----------------------------------------------------------------------------
(* Every published event reaches the trader, although a wakeup can be lost *)
(* (the byte of a frame published between the empty read and the drain is  *)
(* drained): the timeout of the wait is what guarantees it.                *)
EveryEventIsRead ==
  \A n \in 1 .. MaxPublished : published >= n ~> consumed >= n
=============================================================================
