------------------------- MODULE TransferInvariant -------------------------
(***************************************************************************)
(* The inductive invariant of Transfer: what the two streams may hold and  *)
(* how far the nodes may be, from one stage of the protocol to the next.   *)
(***************************************************************************)
EXTENDS Transfer

OnlyHeaders(queue, headers) == \A i \in 1 .. Len(queue) : queue[i].hdr \in headers

\* Every file up to n has been received or skipped, and its checksum compared.
Checked(f) == SameChecksum(f) \/ f \in corrupted
CheckedBelow(n) == \A f \in FileIDs : f < n => Checked(f)

\* Whoever has ended, or lost the connection, no longer writes.
EndedStreams ==
  /\ senderPc = "listen" => toReceiver = OpenStream /\ toSender = OpenStream
  /\ senderPc \in Ended => toReceiver.end # "open"
  /\ receiverPc \in Ended /\ offerPc # "idle" => toSender.end # "open"

\* Nothing has happened before the nodes are connected.
Unconnected ==
  /\ offerPc = "idle" =>
       /\ senderPc \in {"listen", "killed"} /\ receiverPc \in {"dial", "exit"}
       /\ prompt = "none"
       /\ toReceiver.queue = <<>>
  /\ senderPc = "listen" => receiverPc = "dial"
  /\ senderPc = "listen" \/ receiverPc = "dial" => offerPc = "idle"

\* An encrypted packet stands behind the key, or the key has been taken.
KeyAhead ==
  /\ \A i \in 1 .. Len(toReceiver.queue) :
       toReceiver.queue[i].hdr \in EncryptedHeaders =>
         receiving.EncryptionKey \/ (i # 1 /\ toReceiver.queue[1].hdr = "ENCRKEY")
  /\ offerPc = "pending" /\ toReceiver.end = "open" =>
       \/ receiving.EncryptionKey
       \/ toReceiver.queue # <<>> /\ toReceiver.queue[1].hdr = "ENCRKEY"
  /\ prompt # "none" => receiving.EncryptionKey /\ offerPc = "sent"

NothingAccepted == receiving.AcceptedFiles = <<>>

\* Before the question is put.
Offering ==
  prompt = "none" =>
    /\ sending = FreshSending /\ NothingAccepted /\ ~receiving.stopped
    /\ toSender.queue = <<>>
    /\ OnlyHeaders(toReceiver.queue, {"ENCRKEY", "TRANSFEROFFER"})
    /\ \A i \in 1 .. Len(toReceiver.queue) :
         toReceiver.queue[i].hdr = "TRANSFEROFFER" =>
           i = Len(toReceiver.queue) /\ offerPc = "sent"

\* While the user thinks, and until the sender has heard of a yes.
Asking ==
  prompt \in {"asking", "yes"} /\ ~sending.AllowedToTransfer =>
    /\ sending = FreshSending /\ NothingAccepted /\ ~receiving.stopped
    /\ toReceiver.queue = <<>>
    /\ IF prompt = "asking"
         THEN toSender.queue = <<>>
         ELSE Len(toSender.queue) <= 1 /\ OnlyHeaders(toSender.queue, {"ACCEPT"})

\* After a no.
Rejected ==
  prompt \in {"rejecting", "no"} =>
    /\ [sending EXCEPT !.stopped = FALSE] = FreshSending /\ NothingAccepted
    /\ OnlyHeaders(toReceiver.queue, {"DONE", "BYE!"})
    /\ OnlyHeaders(toSender.queue, {"REJECT", "BYE!"})

\* The file on its way, as the receiver accepted it.
AcceptedIs(id, sent) ==
  receiving.AcceptedFiles =
    <<[id |-> id, size |-> Len(offered[id]), sum |-> GetPartialCheckSum(offered[id]), sent |-> sent]>>

\* What a packet on its way to the receiver says of both nodes.
Outbound(packet) ==
  LET id == packet.id  current == sending.CurrentFileID
  IN  \/ /\ packet.hdr = "FILE"
         /\ id = current /\ sending.InTransfer /\ sending.fileSent[id] = 0
         /\ packet.size = Len(offered[id]) /\ packet.data = GetPartialCheckSum(offered[id])
         /\ NothingAccepted /\ CheckedBelow(current)
      \/ /\ packet.hdr = "FILEBYTES"
         /\ id = current /\ sending.InTransfer /\ Len(packet.data) <= sending.fileSent[id]
         /\ AcceptedIs(id, sending.fileSent[id] - Len(packet.data)) /\ CheckedBelow(current)
      \/ /\ packet.hdr = "ENDFILE"
         /\ id = current - 1 /\ ~sending.InTransfer
         /\ AcceptedIs(id, Len(offered[id])) /\ CheckedBelow(id)
      \/ /\ packet.hdr = "SYMLINK"
         /\ current = NumFiles /\ ~sending.InTransfer
         /\ NothingAccepted /\ CheckedBelow(NumFiles)

\* What an answer on its way to the sender says of both nodes.
Inbound(packet) ==
  LET current == sending.CurrentFileID
  IN  /\ CheckedBelow(current)
      /\ \/ /\ packet.hdr = "ALREADYHAVE"
            /\ packet.id = current /\ sending.InTransfer /\ sending.fileSent[current] = 0
            /\ NothingAccepted /\ SameChecksum(current)
         \/ /\ packet.hdr = "READY" /\ sending.InTransfer
            /\ AcceptedIs(current, sending.fileSent[current])
         \/ packet.hdr = "READY" /\ ~sending.InTransfer /\ NothingAccepted

\* From ACCEPT to DONE: one packet at most, and what it says.
UnderWay ==
  sending.AllowedToTransfer /\ ~sending.stopped =>
    /\ ~receiving.stopped
    /\ Len(toReceiver.queue) + Len(toSender.queue) <= 1
    /\ \A i \in 1 .. Len(toReceiver.queue) : Outbound(toReceiver.queue[i])
    /\ \A i \in 1 .. Len(toSender.queue) : Inbound(toSender.queue[i])

\* After DONE, or a panic.
Over ==
  sending.AllowedToTransfer /\ sending.stopped =>
    /\ OnlyHeaders(toReceiver.queue, {"DONE", "BYE!"})
    /\ senderPc # "panic" => CheckedBelow(NumFiles)

\* What remains of the files, in order, from an ID on.
Remaining(id) == [i \in 1 .. NumFiles - id |-> id + i - 1]

\* The sender's lists and counters, once the offer has been accepted.
ListsOf(s) ==
  /\ s.CurrentFileID <= NumFiles
  /\ s.FilesToSend = Remaining(s.CurrentFileID)
  /\ s.SymlinksToSend = AllSymlinks
  /\ s.CurrentSymlinkIndex <= NumSymlinks
  /\ s.CurrentSymlinkIndex > 0 => s.CurrentFileID = NumFiles
  /\ s.InTransfer => s.CurrentFileID < NumFiles
  /\ \A f \in FileIDs :
       f > s.CurrentFileID \/ (f = s.CurrentFileID /\ ~s.InTransfer) => s.fileSent[f] = 0

Lists ==
  /\ \A f \in FileIDs : sending.fileSent[f] <= Len(offered[f])
  /\ sending.AllowedToTransfer => prompt = "yes" /\ ListsOf(sending)

\* All of it: what either node may take from its pipe fits the state the node
\* is in, at every stage of node.send and node.receive.
IInv ==
  /\ Types
  /\ Lists
  /\ EndedStreams
  /\ Unconnected
  /\ KeyAhead
  /\ Offering
  /\ Asking
  /\ Rejected
  /\ UnderWay
  /\ Over
  /\ StopAndWait

-----------------------------------------------------------------------------
(* The progress counters.                                                  *)

\* Nothing is counted as received before the sender has heard of a yes.
NothingReceived == ~sending.AllowedToTransfer => receiving.ReceivedBytes = 0

\* What the one packet under way stands for is the difference.
CountedButOne ==
  Transferring =>
    /\ \A i \in 1 .. Len(toSender.queue) :
         sending.SentBytes + BytesOf(toSender.queue[i], "ALREADYHAVE") = receiving.ReceivedBytes
    /\ \A i \in 1 .. Len(toReceiver.queue) :
         sending.SentBytes = receiving.ReceivedBytes + BytesOf(toReceiver.queue[i], "FILEBYTES")

\* With it CountersAgree is inductive.
CInv == IInv /\ NothingReceived /\ CountedButOne

=============================================================================
