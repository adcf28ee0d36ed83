---------------------------- MODULE PacketStream ----------------------------
(***************************************************************************)
(* What the receiving side of a session promises: the packets a client     *)
(* sent reach the packet handler once each, in order and unchanged, until  *)
(* the stream is given up.                                                 *)
(***************************************************************************)
EXTENDS Sequences, Naturals

CONSTANT Packets

VARIABLES sent, delivered

streamVars == <<sent, delivered>>

StreamInit == sent = <<>> /\ delivered = <<>>

Submit(p) == sent' = Append(sent, p) /\ UNCHANGED delivered

Deliver ==
  /\ Len(delivered) < Len(sent)
  /\ delivered' = Append(delivered, sent[Len(delivered) + 1])
  /\ UNCHANGED sent

GiveUp == sent' = <<>> /\ delivered' = <<>>

StreamNext == Deliver \/ GiveUp \/ \E p \in Packets : Submit(p)

StreamSpec == StreamInit /\ [][StreamNext]_streamVars
=============================================================================
