------------------------------- MODULE Channel ------------------------------
(***************************************************************************)
(* What a bounded buffer promises, whoever fills and empties it: the items *)
(* are delivered once each, in the order in which they were put, and at    *)
(* most Capacity of them are on their way.                                 *)
(***************************************************************************)
EXTENDS Naturals, Sequences

CONSTANTS Capacity, Item

VARIABLES sent, received

channelVars == <<sent, received>>

ChannelInit == sent = <<>> /\ received = <<>>

Send(i) ==
    /\ Len(sent) - Len(received) < Capacity
    /\ sent' = Append(sent, i)
    /\ UNCHANGED received

Receive ==
    /\ Len(received) < Len(sent)
    /\ received' = Append(received, sent[Len(received) + 1])
    /\ UNCHANGED sent

ChannelSpec == ChannelInit /\ [][(\E i \in Item : Send(i)) \/ Receive]_channelVars
=============================================================================
