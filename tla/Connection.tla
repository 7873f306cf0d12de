----------------------------- MODULE Connection -----------------------------
(***************************************************************************)
(* The end of the gateway connection as the daemon sees it: NativeClient's *)
(* recv task, the dispatch channel with the holders of its sending end,    *)
(* NativeBroker's dispatcher task and the connected flag that it clears.   *)
(* A tokio channel reports its end to the receiver when it is empty and    *)
(* every sender is dropped.                                                *)
(***************************************************************************)
EXTENDS Naturals

CONSTANT InboxCap        \* DISPATCH_CHANNEL_CAP (16384 in production)

VARIABLES senders,       \* holders of msg_tx: the client, the recv task
          inbox,         \* the number of frames in the channel
          dispatcher,    \* "running" or "ended"
          connected,     \* NativeBroker.connected
          events         \* the last ConnectionEvent published

vars == <<senders, inbox, dispatcher, connected, events>>

(* The connection works while the recv task runs; at EOF it exits. *)
Link == IF "recv" \in senders THEN "up" ELSE "lost"

(* connect: NativeClient::new keeps a sender, connect gives a clone of it  *)
(* to the recv task and spawns the dispatcher.                             *)
Init ==
  /\ senders = {"client", "recv"}
  /\ inbox = 0 /\ dispatcher = "running"
  /\ connected = TRUE /\ events = "Connected"

(* A frame arrives; a full channel drops it. *)
RecvFrame ==
  /\ "recv" \in senders
  /\ inbox' = IF inbox < InboxCap THEN inbox + 1 ELSE inbox
  /\ UNCHANGED <<senders, dispatcher, connected, events>>

(* EOF, a read error or a frame that does not decode: the task returns and *)
(* drops its sender.                                                       *)
RecvExits ==
  /\ "recv" \in senders
  /\ senders' = senders \ {"recv"}
  /\ UNCHANGED <<inbox, dispatcher, connected, events>>

Dispatch ==
  /\ dispatcher = "running" /\ inbox > 0
  /\ inbox' = inbox - 1
  /\ UNCHANGED <<senders, dispatcher, connected, events>>

(* rx.recv() returned None. *)
DispatcherEnds ==
  /\ dispatcher = "running" /\ inbox = 0 /\ senders = {}
  /\ dispatcher' = "ended"
  /\ connected' = FALSE /\ events' = "LostConnection"
  /\ UNCHANGED <<senders, inbox>>

Next == RecvFrame \/ RecvExits \/ Dispatch \/ DispatcherEnds

Spec == Init /\ [][Next]_vars

(* The tokio tasks run whenever they can. *)
FairSpec == Spec /\ WF_vars(Dispatch) /\ WF_vars(DispatcherEnds)

(* "IBKR gateway disconnect | Any loss of connection | Cancel all resting  *)
(* orders; halt quoting": the daemon cannot act on a loss it is not told   *)
(* of, so a lost link must eventually be published and is_connected turn   *)
(* FALSE.                                                                  *)
LossIsReported == Link = "lost" ~> (~connected /\ events = "LostConnection")
=============================================================================
