---------------------------- MODULE PacketStream ----------------------------
(***************************************************************************)
(* What Transfer takes for granted of a direction of the connection: whole *)
(* packets are put into it and taken from it in order, until it ends in    *)
(* one of the ways that Stream knows.                                      *)
(***************************************************************************)
EXTENDS Stream

VARIABLE channel

Init == channel = OpenStream

Put == LET now == channel'
       IN  now.queue # <<>> /\ now = Push(channel, <<Last(now.queue)>>)

Take == LET before == channel IN before.queue # <<>> /\ channel' = Pop(before)

End == LET before == channel now == channel' IN now \in Cut(before)

Next == Put \/ Take \/ End

Spec == Init /\ [][Next]_channel

=============================================================================
