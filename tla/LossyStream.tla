---------------------------- MODULE LossyStream ----------------------------
(***************************************************************************)
(* What corsair_ipc promises of one ring, whatever its layout: the frames  *)
(* the producer was told were accepted form one stream, and the consumer   *)
(* reads exactly that stream, in order, each element once.  A frame may be *)
(* refused (write_frame returns false), and is then no part of the stream. *)
(***************************************************************************)
EXTENDS Naturals, Sequences

CONSTANT Element      \* what a stream is made of: the ring's bytes

VARIABLES sent,       \* everything accepted so far
          taken       \* everything the consumer has read so far

vars == <<sent, taken>>

Init == sent = <<>> /\ taken = <<>>

(* write_frame returned true: a whole frame joins the stream at once. *)
Accept ==
  /\ sent' \in Seq(Element)
  /\ Len(sent') >= Len(sent) /\ SubSeq(sent', 1, Len(sent)) = sent
  /\ UNCHANGED taken

(* read_available: the consumer catches up with some later point of the    *)
(* stream (the producer may have gone on while it copied).                 *)
Take ==
  /\ \E n \in Len(taken) .. Len(sent) : taken' = SubSeq(sent, 1, n)
  /\ UNCHANGED sent

Next == Accept \/ Take

Spec == Init /\ [][Next]_vars
=============================================================================
