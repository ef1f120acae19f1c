------------------------------- MODULE Stream -------------------------------
(***************************************************************************)
(* One direction of the TCP connection, as the nodes see it (protocol/     *)
(* send.go, recv.go).                                                      *)
(*                                                                         *)
(* A stream is the packets that are written and not yet taken from the     *)
(* peer's packetPipe, and how it ends.                                     *)
(* "eof": the connection ended on a packet boundary, ReadFromConn fails to *)
(* read the next size, ReceivePackets closes the pipe.  "torn": it ended   *)
(* inside a packet; ReadFromConn drops the error of connection.Read and    *)
(* loops without progress, so the pipe is neither fed nor closed.          *)
(***************************************************************************)
EXTENDS Integers, SequencesExt

CONSTANT Faults  \* what may go wrong in the environment, a subset of AllFaults

\* kill   a node's process dies              link  the connection is lost
\* torn   a loss may cut a packet in two     open  a served file cannot be opened
\* remove the receiver's os.Remove fails
AllFaults == {"kill", "link", "torn", "open", "remove"}

OpenStream == [queue |-> <<>>, end |-> "open"]

\* SendPacket drops the error of connection.Write: packets written to a
\* connection that is gone vanish.
Push(stream, packets) ==
  IF stream.end = "open" THEN [stream EXCEPT !.queue = @ \o packets] ELSE stream

Pop(stream) == [stream EXCEPT !.queue = Tail(@)]

Close(stream) == [stream EXCEPT !.end = IF @ = "open" THEN "eof" ELSE @]

\* What is left of an open stream when a failure ends it: any number of the
\* packets in flight are lost, and the first of them may be cut in two.
Cut(stream) ==
  IF stream.end # "open"
    THEN {stream}
    ELSE {[queue |-> SubSeq(stream.queue, 1, k), end |-> "eof"] : k \in 0 .. Len(stream.queue)}
         \cup IF "torn" \in Faults
                THEN {[queue |-> SubSeq(stream.queue, 1, k), end |-> "torn"] :
                        k \in 0 .. Len(stream.queue) - 1}
                ELSE {}

\* Mutant of PipeClosed: nobody closes the pipe.
PipeNeverClosed(stream) == FALSE

\* The main loop finds the pipe closed, and nothing left in it.
PipeClosed(stream) == stream.queue = <<>> /\ stream.end = "eof"

=============================================================================
