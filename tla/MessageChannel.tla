---------------------------- MODULE MessageChannel ----------------------------
(***************************************************************************)
(* What the transport promises to the application callback on one          *)
(* connection: the complete text messages of the server arrive whole, in   *)
(* order, without gap or duplicate, and losing the connection forgets      *)
(* everything that was on it.                                              *)
(*                                                                         *)
(*   sent       the complete text messages the server has written          *)
(*   delivered  the messages the application callback has received         *)
(***************************************************************************)
EXTENDS Naturals, Sequences

CONSTANT Message          \* the messages a server can write

VARIABLES sent, delivered

channelVars == <<sent, delivered>>

Init == sent = <<>> /\ delivered = <<>>

Send ==
  /\ Len(sent') = Len(sent) + 1
  /\ sent' = Append(sent, sent'[Len(sent) + 1])
  /\ sent'[Len(sent) + 1] \in Message
  /\ UNCHANGED delivered

Deliver ==
  /\ Len(delivered) < Len(sent)
  /\ delivered' = Append(delivered, sent[Len(delivered) + 1])
  /\ UNCHANGED sent

Lose == sent' = <<>> /\ delivered' = <<>>

Next == Send \/ Deliver \/ Lose

Spec == Init /\ [][Next]_channelVars
===============================================================================
