--------------------------- MODULE TransferProofs ---------------------------
(***************************************************************************)
(* Every step of the receiver, and what befalls both nodes, keeps the      *)
(* inductive invariant; and the theorems about Transfer: for every number  *)
(* of files and symlinks, whatever their contents, whatever is edited and  *)
(* under every fault.  A packet of the transfer is the only one there is   *)
(* (BodyArrived), and what it says of both nodes (Outbound) is what the    *)
(* answer may say (Inbound).                                               *)
(***************************************************************************)
EXTENDS SenderProofs

-----------------------------------------------------------------------------
(* The receiver's actions.                                                 *)

\* What the receiver finds at the head of its queue.
LEMMA ReceiverHead ==
  ASSUME IInv, NEW headers, ReceiverTakes(headers)
  PROVE  /\ toReceiver' \in Streams /\ toReceiver'.end = toReceiver.end
         /\ toReceiver \in Streams /\ Len(toReceiver.queue) \in Nat
         /\ Len(toReceiver.queue) >= 1 /\ 1 \in 1 .. Len(toReceiver.queue)
         /\ toReceiver.queue[1].hdr \in headers
         /\ Packet = toReceiver.queue[1] /\ Packet \in Packets
         /\ Len(toReceiver'.queue) = Len(toReceiver.queue) - 1
         /\ \A i \in 1 .. Len(toReceiver'.queue) :
              i + 1 \in 1 .. Len(toReceiver.queue) /\ toReceiver'.queue[i] = toReceiver.queue[i + 1]
         /\ receiverPc = "wait" /\ receiverPc' = "top" /\ offerPc # "idle" /\ senderPc # "listen"
<1>1. toReceiver \in Streams /\ toReceiver.queue # <<>> /\ Head(toReceiver.queue).hdr \in headers
      /\ toReceiver' = Pop(toReceiver) /\ receiverPc = "wait" /\ receiverPc' = "top"
  BY DEF IInv, Types, ReceiverTakes, Arrived
<1>2. Len(toReceiver.queue) \in Nat
  BY <1>1 DEF Streams
<1>3. offerPc # "idle" /\ senderPc # "listen"
  BY <1>1 DEF IInv, Unconnected
<1> DEFINE r == Pop(toReceiver)
<1>4. /\ r \in Streams
      /\ r.end = toReceiver.end
      /\ Len(toReceiver.queue) >= 1
      /\ Len(r.queue) = Len(toReceiver.queue) - 1
      /\ \A i \in 1 .. Len(r.queue) : r.queue[i] = toReceiver.queue[i + 1]
      /\ Packet = toReceiver.queue[1] /\ Packet \in Packets
  BY <1>1, PopOne DEF Packet
<1> HIDE DEF r
<1>5. toReceiver' = r
  BY <1>1 DEF r
<1>6. \A i \in 1 .. Len(r.queue) : i + 1 \in 1 .. Len(toReceiver.queue)
  BY <1>2, <1>4
<1>7. 1 \in 1 .. Len(toReceiver.queue)
  BY <1>2, <1>4
<1> QED
  BY <1>1, <1>2, <1>3, <1>4, <1>5, <1>6, <1>7 DEF Packet

Bodies == {"FILE", "FILEBYTES", "ENDFILE", "SYMLINK"}

\* A packet of the transfer itself is the only one there is.
LEMMA BodyArrived ==
  ASSUME IInv, NEW headers, Arrived(toReceiver, headers), headers \subseteq Bodies
  PROVE  /\ sending.AllowedToTransfer /\ ~sending.stopped
         /\ prompt = "yes" /\ ~receiving.stopped
         /\ Len(toReceiver.queue) = 1 /\ toSender.queue = <<>>
         /\ Packet = toReceiver.queue[1] /\ Packet \in Packets /\ Packet.hdr \in headers
         /\ Outbound(Packet)
<1>1. toReceiver \in Streams /\ toSender \in Streams /\ toReceiver.queue # <<>>
      /\ Head(toReceiver.queue).hdr \in headers
  BY DEF Arrived, IInv, Types
<1>2. Len(toReceiver.queue) \in Nat /\ Len(toReceiver.queue) >= 1 /\ Len(toSender.queue) \in Nat
      /\ Head(toReceiver.queue) = toReceiver.queue[1] /\ Head(toReceiver.queue) \in Packets
  BY <1>1 DEF Streams
<1>3. 1 \in 1 .. Len(toReceiver.queue) /\ toReceiver.queue[1].hdr \in Bodies
      /\ Packet = toReceiver.queue[1] /\ Packet \in Packets
  BY <1>1, <1>2 DEF Packet
<1>4. prompt # "none" /\ prompt \notin {"rejecting", "no"}
  BY <1>3 DEF IInv, Offering, Rejected, OnlyHeaders, Bodies
<1>5. prompt \in {"asking", "yes"}
  BY <1>4 DEF IInv, Types
<1>6. sending.AllowedToTransfer
  BY <1>1, <1>5 DEF IInv, Asking
<1>7. ~sending.stopped
  BY <1>3, <1>6 DEF IInv, Over, OnlyHeaders, Bodies
<1>8. /\ ~receiving.stopped
      /\ Len(toReceiver.queue) + Len(toSender.queue) <= 1
      /\ Outbound(Packet)
  BY <1>3, <1>6, <1>7 DEF IInv, UnderWay
<1>9. Len(toReceiver.queue) = 1 /\ toSender.queue = <<>>
  <2> DEFINE m == Len(toReceiver.queue)
             n == Len(toSender.queue)
  <2>1. m \in Nat /\ n \in Nat /\ m >= 1 /\ m + n <= 1
    BY <1>2, <1>8
  <2> HIDE DEF m, n
  <2>2. m = 1 /\ n = 0
    BY <2>1
  <2> QED
    BY <1>1, <2>2, EmptyQueue DEF m, n
<1> QED
  BY <1>1, <1>3, <1>6, <1>7, <1>8, <1>9, SendingFacts DEF Packet

\* Once it is taken both queues are empty.
LEMMA BodyTaken ==
  ASSUME IInv, NEW headers, ReceiverTakes(headers), headers \subseteq Bodies
  PROVE  /\ sending.AllowedToTransfer /\ ~sending.stopped /\ ListsOf(sending)
         /\ prompt = "yes" /\ ~receiving.stopped
         /\ toReceiver'.queue = <<>> /\ toSender.queue = <<>>
         /\ Outbound(Packet) /\ Packet \in Packets /\ Packet.hdr \in headers
<1>1. Arrived(toReceiver, headers)
  BY DEF ReceiverTakes
<1>2. Len(toReceiver'.queue) = 0
  <2>1. Len(toReceiver.queue) = 1
    BY <1>1, BodyArrived
  <2> QED
    BY <2>1, ReceiverHead
<1>3. toReceiver'.queue = <<>>
  BY <1>2, ReceiverHead, EmptyQueue
<1> QED
  BY <1>1, <1>3, BodyArrived, SendingFacts

\* The receiver hands the turn back to the sender.
LEMMA AnswerBack ==
  ASSUME IInv, NEW headers, ReceiverTakes(headers), headers \subseteq Bodies,
         UNCHANGED <<senderVars, session, edits, prompt>>,
         NEW p \in Packets, Answer(p),
         receiving' \in Receivings, ~receiving'.stopped,
         receiving'.EncryptionKey = receiving.EncryptionKey,
         disk' \in [FileIDs -> Content \cup {NoFile}],
         links' \in [SymlinkIDs -> {"absent", "other", "made"}],
         corrupted' \subseteq FileIDs,
         Inbound(p)'
  PROVE  IInv'
<1> USE DEF senderVars
<1>0. Types /\ Lists /\ EndedStreams /\ Unconnected /\ KeyAhead /\ toSender \in Streams
  BY DEF IInv, Types
<1>1. /\ sending.AllowedToTransfer /\ ~sending.stopped /\ prompt = "yes"
      /\ toReceiver'.queue = <<>> /\ toSender.queue = <<>> /\ Len(toSender.queue) = 0
  BY BodyTaken
<1>2. /\ toReceiver' \in Streams /\ toReceiver'.end = toReceiver.end
      /\ receiverPc = "wait" /\ receiverPc' = "top" /\ offerPc # "idle" /\ senderPc # "listen"
  BY ReceiverHead
<1> DEFINE r == Push(toSender, <<p>>)
<1>3. /\ r \in Streams /\ r.end = toSender.end
      /\ toSender.end # "open" => r = toSender
      /\ toSender.end = "open" => Len(r.queue) = 0 + 1 /\ r.queue[0 + 1] = p
  <2>1. /\ r \in Streams /\ r.end = toSender.end
        /\ toSender.end # "open" => r = toSender
    BY <1>0, PushOne
  <2>2. toSender.end = "open" =>
          /\ Len(r.queue) = Len(toSender.queue) + 1
          /\ r.queue[Len(toSender.queue) + 1] = p
    BY <1>0, PushOne
  <2> HIDE DEF r
  <2> QED
    BY <1>1, <2>1, <2>2
<1>4. toSender' = r
  BY DEF Answer
<1> HIDE DEF r
<1>5. Len(r.queue) <= 1 /\ \A i \in 1 .. Len(r.queue) : r.queue[i] = p
  <2>1. CASE toSender.end = "open"
    <3>1. Len(r.queue) = 1 /\ r.queue[1] = p
      BY <1>3, <2>1
    <3> QED
      BY <3>1, SingleQueue
  <2>2. CASE toSender.end # "open"
    BY <1>1, <1>3, <2>2
  <2> QED
    BY <2>1, <2>2
<1>6. Types'
  BY <1>0, <1>2, <1>3, <1>4 DEF Types
<1>7. Lists'
  BY <1>0 DEF Lists, ListsOf
<1>8. EndedStreams' /\ Unconnected'
  BY <1>0, <1>2, <1>3, <1>4 DEF EndedStreams, Unconnected, Ended
<1>9. Len(toReceiver'.queue) = 0
  BY <1>1
<1>10. KeyAhead'
  BY <1>0, <1>1, <1>9 DEF KeyAhead
<1>11. Offering' /\ Asking' /\ Rejected' /\ Over'
  BY <1>1 DEF Offering, Asking, Rejected, Over
<1>12. UnderWay'
  <2>1. Len(toReceiver'.queue) + Len(toSender'.queue) <= 1
    BY <1>3, <1>4, <1>5, <1>9 DEF Streams
  <2> QED
    BY <1>4, <1>5, <1>9, <2>1 DEF UnderWay
<1>13. StopAndWait'
  BY <1>1, <1>2, <1>3, <1>4, <1>9 DEF StopAndWait, Transferring
<1> QED
  BY <1>6, <1>7, <1>8, <1>10, <1>11, <1>12, <1>13 DEF IInv

\* Facts about the receiving record.
LEMMA ReceivingFacts ==
  ASSUME IInv
  PROVE  /\ receiving \in Receivings /\ receiving.ReceivedBytes \in Nat
         /\ receiving.AcceptedFiles \in Seq(AcceptedFile)
         /\ disk \in [FileIDs -> Content \cup {NoFile}]
         /\ links \in [SymlinkIDs -> {"absent", "other", "made"}]
         /\ corrupted \subseteq FileIDs
         /\ \A f \in FileIDs : offered[f] \in Content /\ Len(offered[f]) \in Nat
                                 /\ sending.fileSent[f] \in Nat
BY DEF IInv, Types, Receivings, Sendings, Content

\* FILE: the file is here already, or is accepted.
LEMMA FileStep ==
  ASSUME IInv, ReceiverOnFile, UNCHANGED <<senderVars, session, edits>>
  PROVE  IInv'
<1> DEFINE c == sending.CurrentFileID
<1> USE DEF senderVars
<1>1. ReceiverTakes({"FILE"}) /\ UNCHANGED <<prompt, links, corrupted>>
  BY DEF ReceiverOnFile
<1>2. /\ sending.AllowedToTransfer /\ ListsOf(sending) /\ ~receiving.stopped
      /\ Outbound(Packet) /\ Packet \in Packets /\ Packet.hdr = "FILE"
  BY <1>1, BodyTaken DEF Bodies
<1>3. /\ Packet.id = c /\ sending.InTransfer /\ sending.fileSent[c] = 0
      /\ Packet.size = Len(offered[c]) /\ Packet.data = GetPartialCheckSum(offered[c])
      /\ NothingAccepted /\ CheckedBelow(c)
  BY <1>2 DEF Outbound
<1>4. c \in FileIDs /\ c \in Nat /\ Packet.size \in Nat /\ Packet.data \in Content
  BY <1>2, <1>3, SendingFacts DEF ListsOf, FileIDs, Packets
<1>5. CASE AlreadyHave
  <2>0. PICK p : p = WithID("ALREADYHAVE", Packet.id)
    OBVIOUS
  <2>1. p \in Packets /\ p.hdr = "ALREADYHAVE" /\ p.id = c
    BY <1>3, <1>4, <2>0, WithIDType DEF IDsOf
  <2>2. Answer(p) /\ UNCHANGED disk /\ IsExactFile(Packet)
        /\ receiving' = [receiving EXCEPT !.ReceivedBytes = @ + Packet.size]
    BY <1>5, <2>0 DEF AlreadyHave
  <2>3. receiving' \in Receivings /\ receiving'.EncryptionKey = receiving.EncryptionKey
        /\ receiving'.stopped = receiving.stopped
        /\ receiving'.AcceptedFiles = receiving.AcceptedFiles
    <3>1. receiving.ReceivedBytes + Packet.size \in Nat
      BY <1>4, ReceivingFacts
    <3> QED
      BY <2>2, <3>1, ReceivingFacts DEF Receivings
  <2>4. SameChecksum(c)
    BY <1>3, <2>2 DEF SameChecksum, Present, IsExactFile
  <2>5. Inbound(p)'
    BY <1>1, <1>3, <2>1, <2>2, <2>3, <2>4
    DEF Inbound, NothingAccepted, CheckedBelow, Checked, SameChecksum, Present
  <2> QED
    BY <1>1, <1>2, <2>1, <2>2, <2>3, <2>5, ReceivingFacts, AnswerBack DEF Bodies
<1>6. CASE AcceptFile
  <2> DEFINE file == [id |-> Packet.id, size |-> Packet.size, sum |-> Packet.data, sent |-> 0]
  <2>0. PICK p : p = Bare("READY")
    OBVIOUS
  <2>1. p \in Packets /\ p.hdr = "READY"
    BY <2>0, BareType DEF BareHeaders
  <2>2. Answer(p) /\ receiving' = [receiving EXCEPT !.AcceptedFiles = Append(@, file)]
    BY <1>6, <2>0 DEF AcceptFile, Ready
  <2>3. disk' \in [FileIDs -> Content \cup {NoFile}]
        /\ \A f \in FileIDs : f # c => disk'[f] = disk[f]
    BY <1>3, <1>6, ReceivingFacts DEF AcceptFile
  <2>4. file \in AcceptedFile
    BY <1>3, <1>4 DEF AcceptedFile
  <2>5. Append(receiving.AcceptedFiles, file) = <<file>>
    BY <1>3 DEF NothingAccepted
  <2>6. <<file>> \in Seq(AcceptedFile)
    BY <2>4
  <2>7. receiving' \in Receivings /\ receiving'.EncryptionKey = receiving.EncryptionKey
        /\ receiving'.stopped = receiving.stopped /\ receiving'.AcceptedFiles = <<file>>
    <3> HIDE DEF file
    <3> QED
      BY <2>2, <2>5, <2>6, ReceivingFacts DEF Receivings
  <2>8. AcceptedIs(c, sending.fileSent[c])'
    BY <1>3, <2>7 DEF AcceptedIs
  <2>9. CheckedBelow(c)'
    BY <1>1, <1>3, <1>4, <2>3 DEF CheckedBelow, Checked, SameChecksum, Present, FileIDs
  <2>10. Inbound(p)'
    BY <1>3, <2>1, <2>8, <2>9 DEF Inbound
  <2> QED
    BY <1>1, <1>2, <2>1, <2>2, <2>3, <2>7, <2>10, ReceivingFacts, AnswerBack DEF Bodies
<1> QED
  BY <1>5, <1>6 DEF ReceiverOnFile

\* Writing at an offset: the type of what is there then, and its length.
LEMMA WriteAtFacts ==
  ASSUME NEW content \in Content, NEW bytes \in Content, NEW at \in Nat
  PROVE  /\ WriteAt(content, bytes, at) \in Content
         /\ Len(content) = at => Len(WriteAt(content, bytes, at)) = at + Len(bytes)
<1> DEFINE end == at + Len(bytes)
           length == IF Len(content) < end THEN end ELSE Len(content)
           byte(j) == IF j \in at + 1 .. end THEN bytes[j - at]
                      ELSE IF j <= Len(content) THEN content[j] ELSE 0
<1>1. Len(bytes) \in Nat /\ Len(content) \in Nat /\ end \in Nat /\ length \in Nat
  BY DEF Content
<1>2. \A j \in 1 .. length : byte(j) \in Nat
  <2>1. ASSUME NEW j \in 1 .. length PROVE byte(j) \in Nat
    <3>1. CASE j \in at + 1 .. end
      <4>1. j - at \in 1 .. Len(bytes)
        BY <1>1, <3>1
      <4> QED
        BY <3>1, <4>1 DEF Content
    <3>2. CASE j \notin at + 1 .. end /\ j <= Len(content)
      <4>1. j \in 1 .. Len(content)
        BY <1>1, <3>2
      <4> QED
        BY <3>2, <4>1 DEF Content
    <3>3. CASE j \notin at + 1 .. end /\ ~(j <= Len(content))
      BY <3>3
    <3> QED
      BY <3>1, <3>2, <3>3
  <2> QED
    BY <2>1
<1>3. WriteAt(content, bytes, at) = [j \in 1 .. length |-> byte(j)]
  BY DEF WriteAt
<1> HIDE DEF byte, length
<1>4. [j \in 1 .. length |-> byte(j)] \in Seq(Nat) /\ Len([j \in 1 .. length |-> byte(j)]) = length
  BY <1>1, <1>2
<1>5. Len(content) = at => length = at + Len(bytes)
  BY <1>1 DEF length
<1> QED
  BY <1>3, <1>4, <1>5 DEF Content

\* An opened file has contents.
LEMMA OpenedType ==
  ASSUME NEW content \in Content \cup {NoFile}
  PROVE  Opened(content) \in Content
BY DEF Opened, Content

\* The one accepted file is found, and is the one removed.
LEMMA AcceptedOne ==
  ASSUME NEW file, receiving.AcceptedFiles = <<file>>
  PROVE  /\ Accepted(file.id) = {1} /\ receiving.AcceptedFiles[1] = file
         /\ RemoveAt(receiving.AcceptedFiles, 1) = <<>>
<1>1. Len(<<file>>) = 1 /\ <<file>>[1] = file /\ <<file>> \in Seq({file})
  OBVIOUS
<1>2. Accepted(file.id) = {i \in 1 .. 1 : <<file>>[i].id = file.id}
  BY <1>1 DEF Accepted
<1>3. Accepted(file.id) = {1}
  BY <1>1, <1>2
<1>4. SubSeq(<<file>>, 1, 0) = <<>> /\ SubSeq(<<file>>, 2, 1) = <<>>
  BY <1>1
<1>5. RemoveAt(<<file>>, 1) = <<>>
  BY <1>1, <1>4 DEF RemoveAt
<1> QED
  BY <1>1, <1>3, <1>5

\* The file under this ID as the receiver accepted it, so many bytes of it there.
IncomingFile(id, sent) ==
  [id |-> id, size |-> Len(offered[id]), sum |-> GetPartialCheckSum(offered[id]), sent |-> sent]

\* Taking a piece writes it after what came before.
LEMMA BytesStored ==
  ASSUME IInv, ReceiverOnFileBytes
  PROVE  LET c == sending.CurrentFileID
             n == Len(Packet.data)
             start == sending.fileSent[c] - n
         IN  /\ c \in FileIDs /\ start \in Nat /\ n \in Nat /\ Packet.data \in Content
             /\ start + n = sending.fileSent[c] /\ sending.InTransfer /\ CheckedBelow(c)
             /\ receiving.AcceptedFiles = <<IncomingFile(c, start)>>
             /\ disk' = [disk EXCEPT ![c] = WriteAt(Opened(@), Packet.data, start)]
             /\ receiving' \in Receivings /\ receiving'.stopped = receiving.stopped
             /\ receiving'.EncryptionKey = receiving.EncryptionKey
             /\ receiving'.AcceptedFiles = <<IncomingFile(c, start + n)>>
             /\ receiving'.ReceivedBytes = receiving.ReceivedBytes + n
<1> DEFINE c == sending.CurrentFileID
           n == Len(Packet.data)
           start == sending.fileSent[c] - n
<1>1. ReceiverTakes({"FILEBYTES"})
  BY DEF ReceiverOnFileBytes
<1>2. /\ sending.AllowedToTransfer /\ ListsOf(sending)
      /\ Outbound(Packet) /\ Packet \in Packets /\ Packet.hdr = "FILEBYTES"
  BY <1>1, BodyTaken DEF Bodies
<1>3. /\ Packet.id = c /\ sending.InTransfer /\ n <= sending.fileSent[c]
      /\ AcceptedIs(c, start) /\ CheckedBelow(c)
  BY <1>2 DEF Outbound
<1>4. c \in FileIDs /\ c \in Nat /\ Packet.data \in Content /\ n \in Nat
  BY <1>2, <1>3, SendingFacts DEF ListsOf, FileIDs, Packets, Content
<1>5. start \in Nat /\ start + n = sending.fileSent[c]
  BY <1>3, <1>4, ReceivingFacts
<1>6. receiving.AcceptedFiles = <<IncomingFile(c, start)>>
      /\ IncomingFile(c, start).id = c /\ IncomingFile(c, start).sent = start
  BY <1>3 DEF AcceptedIs, IncomingFile
<1>7. Accepted(c) = {1} /\ receiving.AcceptedFiles[1] = IncomingFile(c, start)
  BY <1>6, AcceptedOne
<1>8. StoreBytes(1, c, Packet.data)
  BY <1>3, <1>7 DEF ReceiverOnFileBytes
<1>9. /\ disk' = [disk EXCEPT ![c] = WriteAt(Opened(@), Packet.data, start)]
      /\ receiving' = [receiving EXCEPT !.AcceptedFiles[1].sent = @ + n, !.ReceivedBytes = @ + n]
  BY <1>6, <1>7, <1>8 DEF StoreBytes
<1>10. receiving' \in Receivings /\ receiving'.stopped = receiving.stopped
       /\ receiving'.EncryptionKey = receiving.EncryptionKey
       /\ receiving'.AcceptedFiles = <<IncomingFile(c, start + n)>>
       /\ receiving'.ReceivedBytes = receiving.ReceivedBytes + n
  <2>1. [receiving.AcceptedFiles EXCEPT ![1].sent = @ + n] = <<IncomingFile(c, start + n)>>
    BY <1>6 DEF IncomingFile
  <2>2. IncomingFile(c, start + n) \in AcceptedFile
    BY <1>4, <1>5, ReceivingFacts, ChecksumType DEF AcceptedFile, IncomingFile
  <2>3. <<IncomingFile(c, start + n)>> \in Seq(AcceptedFile) /\ receiving.ReceivedBytes + n \in Nat
    BY <1>4, <2>2, ReceivingFacts
  <2>4. receiving' = [receiving EXCEPT !.AcceptedFiles = <<IncomingFile(c, start + n)>>,
                                       !.ReceivedBytes = @ + n]
    BY <1>9, <2>1
  <2> HIDE DEF n
  <2> QED
    BY <2>3, <2>4, ReceivingFacts DEF Receivings
<1> QED
  BY <1>3, <1>4, <1>5, <1>6, <1>9, <1>10

\* FILEBYTES: the piece is stored, READY hands the turn back.
LEMMA FileBytesStep ==
  ASSUME IInv, ReceiverOnFileBytes, UNCHANGED <<senderVars, session, edits>>
  PROVE  IInv'
<1> DEFINE c == sending.CurrentFileID
           n == Len(Packet.data)
           start == sending.fileSent[c] - n
<1> USE DEF senderVars
<1>0. PICK p : p = Bare("READY")
  OBVIOUS
<1>1. /\ ReceiverTakes({"FILEBYTES"}) /\ UNCHANGED <<prompt, links, corrupted>> /\ Answer(p)
      /\ p \in Packets /\ p.hdr = "READY"
  BY <1>0, BareType DEF ReceiverOnFileBytes, Ready, BareHeaders
<1>2. ~receiving.stopped
  BY <1>1, BodyTaken DEF Bodies
<1>3. /\ c \in FileIDs /\ start \in Nat /\ n \in Nat /\ Packet.data \in Content
      /\ start + n = sending.fileSent[c] /\ sending.InTransfer /\ CheckedBelow(c)
      /\ disk' = [disk EXCEPT ![c] = WriteAt(Opened(@), Packet.data, start)]
      /\ receiving' \in Receivings /\ receiving'.stopped = receiving.stopped
      /\ receiving'.EncryptionKey = receiving.EncryptionKey
      /\ receiving'.AcceptedFiles = <<IncomingFile(c, start + n)>>
  BY BytesStored
<1>4. disk' \in [FileIDs -> Content \cup {NoFile}] /\ \A f \in FileIDs : f # c => disk'[f] = disk[f]
  <2>1. Opened(disk[c]) \in Content
    BY <1>3, ReceivingFacts, OpenedType
  <2>2. WriteAt(Opened(disk[c]), Packet.data, start) \in Content
    BY <1>3, <2>1, WriteAtFacts
  <2> QED
    BY <1>3, <2>2, ReceivingFacts
<1>5. AcceptedIs(c, sending.fileSent[c])'
  BY <1>3 DEF AcceptedIs, IncomingFile
<1>6. CheckedBelow(c)'
  BY <1>1, <1>3, <1>4 DEF CheckedBelow, Checked, SameChecksum, Present, FileIDs
<1>7. Inbound(p)'
  BY <1>1, <1>3, <1>5, <1>6 DEF Inbound
<1> QED
  BY <1>1, <1>2, <1>3, <1>4, <1>7, ReceivingFacts, AnswerBack DEF Bodies

\* ENDFILE: the file is checked and leaves the list of accepted ones.
LEMMA EndfileStep ==
  ASSUME IInv, ReceiverOnEndfile, UNCHANGED <<senderVars, session, edits>>
  PROVE  IInv'
<1> DEFINE c == sending.CurrentFileID
           e == c - 1
           file == [id |-> e, size |-> Len(offered[e]),
                    sum |-> GetPartialCheckSum(offered[e]), sent |-> Len(offered[e])]
<1> USE DEF senderVars
<1>0. PICK p : p = Bare("READY")
  OBVIOUS
<1>1. /\ ReceiverTakes({"ENDFILE"}) /\ UNCHANGED <<prompt, links>> /\ Answer(p)
      /\ p \in Packets /\ p.hdr = "READY"
  BY <1>0, BareType DEF ReceiverOnEndfile, Ready, BareHeaders
<1>2. /\ sending.AllowedToTransfer /\ ~receiving.stopped
      /\ Outbound(Packet) /\ Packet \in Packets /\ Packet.hdr = "ENDFILE"
  BY <1>1, BodyTaken DEF Bodies
<1>3. /\ Packet.id = e /\ ~sending.InTransfer
      /\ AcceptedIs(e, Len(offered[e])) /\ CheckedBelow(e)
  BY <1>2 DEF Outbound
<1>4. e \in FileIDs /\ c \in Nat
  BY <1>2, <1>3, SendingFacts DEF Packets, IDsOf
<1>5. receiving.AcceptedFiles = <<file>> /\ file.id = e /\ file.sum = GetPartialCheckSum(offered[e])
  BY <1>3 DEF AcceptedIs
<1>6. Accepted(e) = {1} /\ receiving.AcceptedFiles[1] = file
      /\ RemoveAt(receiving.AcceptedFiles, 1) = <<>>
  BY <1>5, AcceptedOne
<1>7. FinishFile(1, e)
  BY <1>3, <1>6 DEF ReceiverOnEndfile
<1>8. /\ disk' = [disk EXCEPT ![e] = Opened(@)]
      /\ receiving' = [receiving EXCEPT !.AcceptedFiles = <<>>]
      /\ corrupted' = IF GetPartialCheckSum(Opened(disk[e])) = GetPartialCheckSum(offered[e])
                        THEN corrupted ELSE corrupted \cup {e}
  BY <1>5, <1>6, <1>7 DEF FinishFile
<1>9. /\ disk' \in [FileIDs -> Content \cup {NoFile}]
      /\ \A f \in FileIDs : f # e => disk'[f] = disk[f]
      /\ disk'[e] = Opened(disk[e]) /\ Opened(disk[e]) \in Content
      /\ corrupted' \subseteq FileIDs /\ corrupted \subseteq corrupted'
  BY <1>4, <1>8, ReceivingFacts, OpenedType
<1>10. receiving' \in Receivings /\ receiving'.stopped = receiving.stopped
       /\ receiving'.EncryptionKey = receiving.EncryptionKey /\ receiving'.AcceptedFiles = <<>>
  <2>1. receiving' = [receiving EXCEPT !.AcceptedFiles = <<>>] /\ <<>> \in Seq(AcceptedFile)
    BY <1>8
  <2>2. receiving \in Receivings
    BY ReceivingFacts
  <2> QED
    BY <2>1, <2>2 DEF Receivings
<1>11. Checked(e)'
  <2>1. disk'[e] # NoFile
    BY <1>9, ProtocolAssumption
  <2>2. GetPartialCheckSum(disk'[e]) = GetPartialCheckSum(offered[e]) \/ e \in corrupted'
    BY <1>8, <1>9
  <2> QED
    BY <2>1, <2>2 DEF Checked, SameChecksum, Present
<1>12. CheckedBelow(c)'
  <2>1. ASSUME NEW f \in FileIDs, f < c PROVE Checked(f)'
    <3>1. CASE f = e
      BY <1>11, <3>1
    <3>2. CASE f # e
      <4>1. f < e
        BY <1>4, <2>1, <3>2 DEF FileIDs
      <4>2. Checked(f) /\ disk'[f] = disk[f]
        BY <1>3, <1>9, <3>2, <4>1 DEF CheckedBelow
      <4> QED
        BY <1>9, <4>2 DEF Checked, SameChecksum, Present
    <3> QED
      BY <3>1, <3>2
  <2> QED
    BY <2>1 DEF CheckedBelow
<1>13. Inbound(p)'
  BY <1>1, <1>3, <1>10, <1>12 DEF Inbound, NothingAccepted
<1> QED
  BY <1>1, <1>2, <1>9, <1>10, <1>13, ReceivingFacts, AnswerBack DEF Bodies

\* SYMLINK: READY hands the turn back whether or not the link could be made.
LEMMA SymlinkStep ==
  ASSUME IInv, ReceiverOnSymlink, UNCHANGED <<senderVars, session, edits>>
  PROVE  IInv'
<1> USE DEF senderVars
<1>0. PICK p : p = Bare("READY")
  OBVIOUS
<1>1. /\ ReceiverTakes({"SYMLINK"}) /\ UNCHANGED <<prompt, receiving, disk, corrupted>> /\ Answer(p)
      /\ p \in Packets /\ p.hdr = "READY"
  BY <1>0, BareType DEF ReceiverOnSymlink, Ready, BareHeaders
<1>2. ~receiving.stopped /\ Outbound(Packet) /\ Packet.hdr = "SYMLINK"
  BY <1>1, BodyTaken DEF Bodies
<1>3. /\ sending.CurrentFileID = NumFiles /\ ~sending.InTransfer
      /\ NothingAccepted /\ CheckedBelow(NumFiles)
  BY <1>2 DEF Outbound
<1>4. links' \in [SymlinkIDs -> {"absent", "other", "made"}]
  BY ReceivingFacts DEF ReceiverOnSymlink
<1>5. Inbound(p)'
  BY <1>1, <1>3 DEF Inbound, NothingAccepted, CheckedBelow, Checked, SameChecksum, Present
<1> QED
  BY <1>1, <1>2, <1>4, <1>5, ReceivingFacts, AnswerBack DEF Bodies

\* The key and the offer are taken before the question is put.
LEMMA OpeningTaken ==
  ASSUME IInv, NEW headers, ReceiverTakes(headers), headers \subseteq {"ENCRKEY", "TRANSFEROFFER"}
  PROVE  /\ prompt = "none" /\ sending = FreshSending /\ ~sending.AllowedToTransfer
         /\ NothingAccepted /\ ~receiving.stopped /\ toSender.queue = <<>>
         /\ OnlyHeaders(toReceiver.queue, {"ENCRKEY", "TRANSFEROFFER"})
         /\ \A i \in 1 .. Len(toReceiver.queue) :
              toReceiver.queue[i].hdr = "TRANSFEROFFER" =>
                i = Len(toReceiver.queue) /\ offerPc = "sent"
<1>1. 1 \in 1 .. Len(toReceiver.queue) /\ toReceiver.queue[1].hdr \in {"ENCRKEY", "TRANSFEROFFER"}
      /\ toReceiver.queue # <<>>
  BY ReceiverHead DEF ReceiverTakes, Arrived
<1>2. prompt \notin {"rejecting", "no"}
  BY <1>1 DEF IInv, Rejected, OnlyHeaders
<1>3. prompt \in {"asking", "yes"} => sending.AllowedToTransfer
  BY <1>1 DEF IInv, Asking
<1>4. sending.AllowedToTransfer => sending.stopped
  BY <1>1 DEF IInv, UnderWay, Outbound
<1>5. ~sending.AllowedToTransfer
  BY <1>1, <1>4 DEF IInv, Over, OnlyHeaders
<1>6. prompt = "none"
  BY <1>2, <1>3, <1>5 DEF IInv, Types
<1> QED
  BY <1>5, <1>6 DEF IInv, Offering

\* ENCRKEY: what stands behind it may be decrypted from now on.
LEMMA KeyStep ==
  ASSUME IInv, ReceiverOnKey, UNCHANGED <<senderVars, session, edits>>
  PROVE  IInv'
<1> USE DEF senderVars
<1>1. ReceiverTakes({"ENCRKEY"}) /\ UNCHANGED <<prompt, disk, links, corrupted, toSender>>
      /\ receiving' = [receiving EXCEPT !.EncryptionKey = TRUE]
  BY DEF ReceiverOnKey
<1>2. Types /\ Lists /\ EndedStreams /\ Unconnected /\ KeyAhead
  BY DEF IInv
<1>3. receiving' \in Receivings /\ receiving'.stopped = receiving.stopped /\ receiving'.EncryptionKey
      /\ receiving'.AcceptedFiles = receiving.AcceptedFiles
  BY <1>1, ReceivingFacts DEF Receivings
<1>4. Types'
  BY <1>1, <1>2, <1>3, ReceiverHead DEF Types
<1>5. Lists'
  BY <1>1, <1>2 DEF Lists, ListsOf
<1>6. EndedStreams' /\ Unconnected'
  BY <1>1, <1>2, ReceiverHead DEF EndedStreams, Unconnected, Ended
<1>7. KeyAhead'
  BY <1>1, <1>2, <1>3 DEF KeyAhead
<1>8. Offering'
  <2>1. /\ prompt = "none" /\ sending = FreshSending /\ NothingAccepted /\ ~receiving.stopped
        /\ toSender.queue = <<>> /\ OnlyHeaders(toReceiver.queue, {"ENCRKEY", "TRANSFEROFFER"})
        /\ \A i \in 1 .. Len(toReceiver.queue) :
             toReceiver.queue[i].hdr = "TRANSFEROFFER" =>
               i = Len(toReceiver.queue) /\ offerPc = "sent"
    BY <1>1, OpeningTaken
  <2>2. /\ Len(toReceiver.queue) \in Nat /\ Len(toReceiver'.queue) = Len(toReceiver.queue) - 1
        /\ \A i \in 1 .. Len(toReceiver'.queue) :
             i + 1 \in 1 .. Len(toReceiver.queue) /\ toReceiver'.queue[i] = toReceiver.queue[i + 1]
    BY <1>1, ReceiverHead
  <2>3. OnlyHeaders(toReceiver'.queue, {"ENCRKEY", "TRANSFEROFFER"})
    BY <2>1, <2>2 DEF OnlyHeaders
  <2>4. \A i \in 1 .. Len(toReceiver'.queue) :
          toReceiver'.queue[i].hdr = "TRANSFEROFFER" =>
            i = Len(toReceiver'.queue) /\ offerPc = "sent"
    BY <2>1, <2>2
  <2> QED
    BY <1>1, <1>3, <2>1, <2>3, <2>4 DEF Offering, NothingAccepted
<1>9. prompt = "none" /\ ~sending.AllowedToTransfer
  BY <1>1, OpeningTaken
<1>10. Asking' /\ Rejected' /\ UnderWay' /\ Over' /\ StopAndWait'
  BY <1>1, <1>9 DEF Asking, Rejected, UnderWay, Over, StopAndWait, Transferring
<1> QED
  BY <1>4, <1>5, <1>6, <1>7, <1>8, <1>10 DEF IInv

\* TRANSFEROFFER: nothing is under way while the user thinks.
LEMMA OnOfferStep ==
  ASSUME IInv, ReceiverOnOffer, UNCHANGED <<senderVars, session, edits>>
  PROVE  IInv'
<1> USE DEF senderVars
<1>1. ReceiverTakes({"TRANSFEROFFER"}) /\ UNCHANGED <<receiving, disk, links, corrupted, toSender>>
      /\ prompt' = "asking"
  BY DEF ReceiverOnOffer
<1>2. Types /\ Lists /\ EndedStreams /\ Unconnected /\ KeyAhead
  BY DEF IInv
<1>3. /\ prompt = "none" /\ sending = FreshSending /\ ~sending.AllowedToTransfer
      /\ NothingAccepted /\ ~receiving.stopped /\ toSender.queue = <<>>
      /\ \A i \in 1 .. Len(toReceiver.queue) :
           toReceiver.queue[i].hdr = "TRANSFEROFFER" =>
             i = Len(toReceiver.queue) /\ offerPc = "sent"
  BY <1>1, OpeningTaken
<1>4. 1 \in 1 .. Len(toReceiver.queue) /\ toReceiver.queue[1].hdr = "TRANSFEROFFER"
      /\ toReceiver' \in Streams /\ Len(toReceiver'.queue) = Len(toReceiver.queue) - 1
  BY <1>1, ReceiverHead
<1>5. 1 = Len(toReceiver.queue) /\ offerPc = "sent"
  BY <1>3, <1>4
<1>6. Len(toReceiver'.queue) = 0 /\ toReceiver'.queue = <<>>
  BY <1>4, <1>5, EmptyQueue
<1>7. receiving.EncryptionKey
  BY <1>2, <1>4 DEF KeyAhead, EncryptedHeaders
<1>8. Types'
  BY <1>1, <1>2, ReceiverHead DEF Types
<1>9. Lists'
  BY <1>1, <1>2, <1>3 DEF Lists
<1>10. EndedStreams' /\ Unconnected'
  BY <1>1, <1>2, ReceiverHead DEF EndedStreams, Unconnected, Ended
<1>11. KeyAhead'
  BY <1>1, <1>5, <1>7 DEF KeyAhead
<1>12. Asking'
  BY <1>1, <1>3, <1>6 DEF Asking, NothingAccepted
<1>13. Offering' /\ Rejected' /\ UnderWay' /\ Over' /\ StopAndWait'
  BY <1>1, <1>3 DEF Offering, Rejected, UnderWay, Over, StopAndWait, Transferring
<1> QED
  BY <1>8, <1>9, <1>10, <1>11, <1>12, <1>13 DEF IInv

\* Once either node has stopped, or the user has said no, only farewells are left.
LEMMA StopTaken ==
  ASSUME IInv, NEW headers, ReceiverTakes(headers), headers \subseteq {"DONE", "BYE!"}
  PROVE  /\ prompt # "none" /\ ~(prompt \in {"asking", "yes"} /\ ~sending.AllowedToTransfer)
         /\ sending.AllowedToTransfer => sending.stopped
         /\ OnlyHeaders(toReceiver.queue, {"DONE", "BYE!"})
<1>1. 1 \in 1 .. Len(toReceiver.queue) /\ toReceiver.queue[1].hdr \in {"DONE", "BYE!"}
      /\ toReceiver.queue # <<>>
  BY ReceiverHead DEF ReceiverTakes, Arrived
<1>2. prompt # "none"
  BY <1>1 DEF IInv, Offering, OnlyHeaders
<1>3. ~(prompt \in {"asking", "yes"} /\ ~sending.AllowedToTransfer)
  BY <1>1 DEF IInv, Asking
<1>4. sending.AllowedToTransfer => sending.stopped
  BY <1>1 DEF IInv, UnderWay, Outbound
<1>5. OnlyHeaders(toReceiver.queue, {"DONE", "BYE!"})
  BY <1>2, <1>3, <1>4 DEF IInv, Types, Rejected, Over
<1> QED
  BY <1>2, <1>3, <1>4, <1>5

\* DONE and BYE!: the loop will stop.
LEMMA OnStopStep ==
  ASSUME IInv, ReceiverOnStop, UNCHANGED <<senderVars, session, edits>>
  PROVE  IInv'
<1> USE DEF senderVars
<1>1. ReceiverTakes({"DONE", "BYE!"}) /\ UNCHANGED <<prompt, disk, links, corrupted, toSender>>
      /\ receiving' = [receiving EXCEPT !.stopped = TRUE]
  BY DEF ReceiverOnStop
<1>2. Types /\ Lists /\ EndedStreams /\ Unconnected /\ KeyAhead
  BY DEF IInv
<1>3. /\ prompt # "none" /\ ~(prompt \in {"asking", "yes"} /\ ~sending.AllowedToTransfer)
      /\ sending.AllowedToTransfer => sending.stopped
      /\ OnlyHeaders(toReceiver.queue, {"DONE", "BYE!"})
  BY <1>1, StopTaken
<1>4. receiving' \in Receivings /\ receiving'.EncryptionKey = receiving.EncryptionKey
      /\ receiving'.AcceptedFiles = receiving.AcceptedFiles
  BY <1>1, ReceivingFacts DEF Receivings
<1>5. OnlyHeaders(toReceiver'.queue, {"DONE", "BYE!"})
  BY <1>1, <1>3, ReceiverHead DEF OnlyHeaders
<1>6. Types'
  BY <1>1, <1>2, <1>4, ReceiverHead DEF Types
<1>7. Lists'
  BY <1>1, <1>2 DEF Lists, ListsOf
<1>8. EndedStreams' /\ Unconnected'
  BY <1>1, <1>2, ReceiverHead DEF EndedStreams, Unconnected, Ended
<1>9. KeyAhead'
  BY <1>1, <1>2, <1>3, <1>4, <1>5 DEF KeyAhead, OnlyHeaders, EncryptedHeaders
<1>10. Offering' /\ Asking' /\ UnderWay' /\ StopAndWait'
  BY <1>1, <1>3 DEF Offering, Asking, UnderWay, StopAndWait, Transferring
<1>11. Rejected'
  BY <1>1, <1>4, <1>5 DEF IInv, Rejected, NothingAccepted
<1>12. Over'
  BY <1>1, <1>5 DEF IInv, Over, CheckedBelow, Checked, SameChecksum, Present
<1> QED
  BY <1>6, <1>7, <1>8, <1>9, <1>10, <1>11, <1>12 DEF IInv

\* The check at the top of the loop: BYE!, or wait for a packet.
LEMMA LoopTopStep ==
  ASSUME IInv, LoopTop, UNCHANGED <<senderVars, session, edits>>
  PROVE  IInv'
<1> USE DEF senderVars
<1>1. /\ receiverPc = "top"
      /\ UNCHANGED <<prompt, receiving, disk, links, corrupted, toReceiver>>
  BY DEF LoopTop
<1>2. Types /\ Lists /\ EndedStreams /\ Unconnected /\ KeyAhead
      /\ toSender \in Streams /\ toReceiver \in Streams
  BY DEF IInv, Types
<1>3. offerPc # "idle" /\ senderPc # "listen"
  BY <1>1, <1>2 DEF Unconnected
<1>4. CASE ~receiving.stopped
  <2>1. receiverPc' = "wait" /\ UNCHANGED toSender
    BY <1>4 DEF LoopTop
  <2>2. Types' /\ EndedStreams' /\ Unconnected'
    BY <1>1, <1>2, <1>3, <2>1 DEF Types, EndedStreams, Unconnected, Ended
  <2>3. Beginning(toReceiver', toReceiver) /\ Beginning(toSender', toSender)
    BY <1>1, <1>2, <2>1, BeginningSame
  <2>4. Lists' /\ KeyAhead' /\ Offering' /\ Asking' /\ Rejected' /\ UnderWay' /\ Over'
    BY <1>1, <2>1, <2>3, Shrunk
  <2>5. StopAndWait'
    BY <1>1, <2>1 DEF IInv, StopAndWait, Transferring, ReceiverAlive
  <2> QED
    BY <2>2, <2>4, <2>5 DEF IInv
<1>5. CASE receiving.stopped
  <2>0. PICK p : p = Bare("BYE!")
    OBVIOUS
  <2>1. receiverPc' = "done" /\ toSender' = Close(Push(toSender, <<p>>))
    BY <1>5, <2>0 DEF LoopTop
  <2>2. p \in Packets /\ p.hdr = "BYE!"
    BY <2>0, BareType DEF BareHeaders
  <2>3. Push(toSender, <<p>>) \in Streams
    BY <1>2, <2>2, PushOne
  <2>4. toSender' \in Streams /\ toSender'.end # "open" /\ toSender'.queue = Push(toSender, <<p>>).queue
    BY <2>1, <2>3, CloseOne
  <2>5. /\ prompt # "none" /\ ~(prompt \in {"asking", "yes"} /\ ~sending.AllowedToTransfer)
        /\ sending.AllowedToTransfer => sending.stopped
    BY <1>5 DEF IInv, Offering, Asking, UnderWay
  <2>6. Types'
    BY <1>1, <1>2, <2>1, <2>4 DEF Types, Ended
  <2>7. Lists'
    BY <1>1, <1>2 DEF Lists, ListsOf
  <2>8. EndedStreams' /\ Unconnected'
    BY <1>1, <1>2, <1>3, <2>1, <2>4 DEF EndedStreams, Unconnected, Ended
  <2>9. KeyAhead'
    BY <1>1, <1>2 DEF KeyAhead
  <2>10. Offering' /\ Asking' /\ UnderWay' /\ StopAndWait'
    BY <1>1, <2>5 DEF Offering, Asking, UnderWay, StopAndWait, Transferring
  <2>11. Rejected'
    <3>1. SUFFICES ASSUME prompt \in {"rejecting", "no"} PROVE Rejected'
      BY <1>1 DEF Rejected
    <3>2. /\ [sending EXCEPT !.stopped = FALSE] = FreshSending /\ NothingAccepted
          /\ OnlyHeaders(toReceiver.queue, {"DONE", "BYE!"})
          /\ OnlyHeaders(toSender.queue, {"REJECT", "BYE!"})
      BY <3>1 DEF IInv, Rejected
    <3>3. OnlyHeaders(toSender'.queue, {"REJECT", "BYE!"})
      BY <1>2, <2>2, <2>4, <3>2, PushHeaders
    <3> QED
      BY <1>1, <3>2, <3>3 DEF Rejected, NothingAccepted
  <2>12. Over'
    BY <1>1 DEF IInv, Over, CheckedBelow, Checked, SameChecksum, Present
  <2> QED
    BY <2>6, <2>7, <2>8, <2>9, <2>10, <2>11, <2>12 DEF IInv
<1> QED
  BY <1>4, <1>5

-----------------------------------------------------------------------------
(* The goroutine that asks.                                                *)

\* Both answers find the sender waiting and both queues empty.
LEMMA AskingFacts ==
  ASSUME IInv, ReceiverAlive, prompt = "asking"
  PROVE  /\ sending = FreshSending /\ ~sending.AllowedToTransfer /\ NothingAccepted
         /\ ~receiving.stopped /\ toReceiver.queue = <<>> /\ Len(toReceiver.queue) = 0
         /\ toSender.queue = <<>> /\ Len(toSender.queue) = 0
         /\ toSender \in Streams
         /\ offerPc = "sent" /\ senderPc # "listen" /\ receiverPc \notin Ended
         /\ receiving.EncryptionKey
<1>1. receiverPc \in {"top", "wait"} /\ receiverPc \notin Ended /\ toSender \in Streams
  BY DEF ReceiverAlive, Ended, IInv, Types
<1>2. offerPc # "idle" /\ senderPc # "listen"
  BY <1>1 DEF IInv, Unconnected
<1>3. offerPc = "sent" /\ receiving.EncryptionKey
  BY DEF IInv, KeyAhead
<1>4. ~sending.AllowedToTransfer
  BY DEF IInv, Lists
<1>5. /\ sending = FreshSending /\ NothingAccepted /\ ~receiving.stopped
      /\ toReceiver.queue = <<>> /\ toSender.queue = <<>>
  BY <1>4 DEF IInv, Asking
<1> QED
  BY <1>1, <1>2, <1>3, <1>4, <1>5

\* The user answers, yes or no.
LEMMA AnswerStepKeeps ==
  ASSUME IInv, AnswerStep
  PROVE  IInv'
<1> USE DEF senderVars
<1>0. PICK h \in {"ACCEPT", "REJECT"} :
        /\ Answer(Bare(h))
        /\ prompt' = IF h = "ACCEPT" THEN "yes" ELSE "rejecting"
  BY DEF AnswerStep, AnswerYes, AnswerNo
<1>1. /\ ReceiverAlive /\ prompt = "asking"
      /\ UNCHANGED <<receiverPc, receiving, disk, links, corrupted, toReceiver>>
      /\ UNCHANGED <<senderVars, session, edits>>
  BY DEF AnswerStep, AnswerYes, AnswerNo
<1>2. Types /\ Lists /\ EndedStreams /\ Unconnected /\ KeyAhead
  BY DEF IInv
<1>3. Bare(h) \in Packets /\ Bare(h).hdr = h
  BY BareType DEF BareHeaders
<1>q. toSender \in Streams /\ toSender.queue = <<>> /\ Len(toSender.queue) = 0
  BY <1>1, AskingFacts
<1> DEFINE r == Push(toSender, <<Bare(h)>>)
<1>4. /\ r \in Streams /\ r.end = toSender.end
      /\ toSender.end # "open" => r = toSender
      /\ toSender.end = "open" => Len(r.queue) = 0 + 1
  BY <1>3, <1>q, PushOne
<1>5. OnlyHeaders(r.queue, {h})
  <2>1. OnlyHeaders(toSender.queue, {h})
    BY <1>q DEF OnlyHeaders
  <2> QED
    BY <1>3, <1>q, <2>1, PushHeaders
<1> HIDE DEF r
<1>6. toSender' = r
  BY <1>0 DEF r, Answer
<1>7. Len(r.queue) <= 1
  <2>1. CASE toSender.end = "open"
    <3>1. Len(r.queue) = 1
      BY <1>4, <2>1
    <3> QED
      BY <3>1
  <2>2. CASE toSender.end # "open"
    <3>1. r = toSender
      BY <1>4, <2>2
    <3>2. Len(r.queue) = 0
      BY <1>q, <3>1
    <3> QED
      BY <3>2
  <2> QED
    BY <2>1, <2>2
<1>8. Types'
  BY <1>0, <1>1, <1>2, <1>4, <1>6 DEF Types
<1>9. Lists'
  BY <1>0, <1>1, AskingFacts DEF IInv, Lists
<1>10. EndedStreams' /\ Unconnected'
  BY <1>0, <1>1, <1>2, <1>4, <1>6, AskingFacts DEF EndedStreams, Unconnected
<1>11. KeyAhead'
  BY <1>0, <1>1, <1>2, AskingFacts DEF KeyAhead
<1>12. Offering' /\ UnderWay' /\ Over' /\ StopAndWait'
  BY <1>0, <1>1, AskingFacts DEF Offering, UnderWay, Over, StopAndWait, Transferring
<1>13. CASE h = "ACCEPT"
  <2>1. Asking'
    BY <1>0, <1>1, <1>5, <1>6, <1>7, <1>13, AskingFacts DEF Asking, NothingAccepted
  <2>2. Rejected'
    BY <1>0, <1>13 DEF Rejected
  <2> QED
    BY <1>8, <1>9, <1>10, <1>11, <1>12, <2>1, <2>2 DEF IInv
<1>14. CASE h = "REJECT"
  <2>1. Asking'
    BY <1>0, <1>14 DEF Asking
  <2>2. [sending EXCEPT !.stopped = FALSE] = FreshSending
    <3>1. sending = FreshSending /\ sending \in Sendings
      BY <1>1, AskingFacts, SendingFacts
    <3>2. ~sending.stopped
      BY <3>1 DEF FreshSending
    <3>3. [sending EXCEPT !.stopped = FALSE] = sending
      BY <3>1, <3>2 DEF Sendings
    <3> QED
      BY <3>1, <3>3
  <2>3. OnlyHeaders(toReceiver.queue, {"DONE", "BYE!"}) /\ OnlyHeaders(r.queue, {"REJECT", "BYE!"})
    BY <1>1, <1>5, <1>14, AskingFacts DEF OnlyHeaders
  <2>4. Rejected'
    BY <1>1, <1>6, <2>2, <2>3, AskingFacts DEF Rejected, NothingAccepted
  <2> QED
    BY <1>8, <1>9, <1>10, <1>11, <1>12, <2>1, <2>4 DEF IInv
<1> QED
  BY <1>13, <1>14

\* The goroutine of a rejecting user stops the loop.
LEMMA RejectStepKeeps ==
  ASSUME IInv, RejectStep
  PROVE  IInv'
<1> USE DEF senderVars
<1>1. /\ prompt = "rejecting" /\ prompt' = "no"
      /\ receiving' = [receiving EXCEPT !.stopped = TRUE]
      /\ UNCHANGED <<receiverPc, disk, links, corrupted, toReceiver, toSender>>
      /\ UNCHANGED <<senderVars, session, edits>>
  BY DEF RejectStep, RejectStop
<1>2. Types /\ Lists /\ EndedStreams /\ Unconnected /\ KeyAhead /\ Rejected
  BY DEF IInv
<1>3. receiving' \in Receivings /\ receiving'.EncryptionKey = receiving.EncryptionKey
      /\ receiving'.AcceptedFiles = receiving.AcceptedFiles
  BY <1>1, ReceivingFacts DEF Receivings
<1>4. ~sending.AllowedToTransfer
  BY <1>1, <1>2 DEF Lists
<1>5. Types'
  BY <1>1, <1>2, <1>3 DEF Types
<1>6. Lists' /\ EndedStreams' /\ Unconnected'
  BY <1>1, <1>2, <1>4 DEF Lists, EndedStreams, Unconnected
<1>7. KeyAhead' /\ Rejected'
  BY <1>1, <1>2, <1>3 DEF KeyAhead, Rejected, NothingAccepted
<1>8. Offering' /\ Asking' /\ UnderWay' /\ Over' /\ StopAndWait'
  BY <1>1, <1>4 DEF Offering, Asking, UnderWay, Over, StopAndWait, Transferring
<1> QED
  BY <1>5, <1>6, <1>7, <1>8 DEF IInv

-----------------------------------------------------------------------------
(* Death of the receiver.                                                  *)

\* Bytes that have arrived are those of the current file.
LEMMA BytesArrived ==
  ASSUME IInv, Arrived(toReceiver, {"FILEBYTES"})
  PROVE  BytesComing /\ Packet \in Packets /\ Packet.id = sending.CurrentFileID
<1>1. /\ sending.AllowedToTransfer /\ ~sending.stopped /\ Len(toReceiver.queue) = 1
      /\ Packet = toReceiver.queue[1] /\ Packet \in Packets /\ Packet.hdr = "FILEBYTES"
      /\ Outbound(Packet)
  BY BodyArrived DEF Bodies
<1> QED
  BY <1>1 DEF BytesComing, Outbound

\* The receiver dies: at most the current file is torn.
LEMMA KillReceiverStep ==
  ASSUME IInv, KillReceiver
  PROVE  IInv'
<1> USE DEF senderVars
<1>1. Types /\ toReceiver \in Streams /\ toSender \in Streams /\ EndedStreams /\ Unconnected
  BY DEF IInv, Types
<1>2. /\ ReceiverAlive /\ receiverPc' = "killed" /\ toSender' \in Cut(toSender)
      /\ UNCHANGED <<senderVars, prompt, receiving, links, corrupted, toReceiver, session, edits>>
  BY DEF KillReceiver
<1>3. Beginning(toReceiver', toReceiver) /\ Beginning(toSender', toSender) /\ toSender'.end # "open"
  BY <1>1, <1>2, BeginningSame, BeginningCut
<1>4. /\ disk' \in [FileIDs -> Content \cup {NoFile}]
      /\ \A f \in FileIDs : disk'[f] = disk[f] \/ (BytesComing /\ f = sending.CurrentFileID)
  <2>1. CASE TornWrite
    <3>1. PICK i \in Accepted(Packet.id), k \in 0 .. Len(Packet.data) :
            disk' = [disk EXCEPT ![Packet.id] =
                       WriteAt(Opened(@), SubSeq(Packet.data, 1, k), receiving.AcceptedFiles[i].sent)]
      BY <2>1 DEF TornWrite
    <3>2. BytesComing /\ Packet \in Packets /\ Packet.id = sending.CurrentFileID
      BY <2>1, BytesArrived DEF TornWrite
    <3>3. SubSeq(Packet.data, 1, k) \in Content
      <4> DEFINE bytes == Packet.data
      <4>1. bytes \in Seq(Nat) /\ k \in 0 .. Len(bytes)
        BY <3>2 DEF Packets, Content
      <4> HIDE DEF bytes
      <4>2. SubSeq(bytes, 1, k) \in Seq(Nat)
        BY <4>1
      <4> QED
        BY <4>2 DEF bytes, Content
    <3>4. receiving.AcceptedFiles[i].sent \in Nat
      <4>1. i \in 1 .. Len(receiving.AcceptedFiles)
        BY DEF Accepted
      <4>2. receiving.AcceptedFiles[i] \in AcceptedFile
        BY <4>1, ReceivingFacts
      <4> QED
        BY <4>2 DEF AcceptedFile
    <3>5. Packet.id \in FileIDs => Opened(disk[Packet.id]) \in Content
      BY ReceivingFacts, OpenedType
    <3>6. Packet.id \in FileIDs =>
            WriteAt(Opened(disk[Packet.id]), SubSeq(Packet.data, 1, k),
                    receiving.AcceptedFiles[i].sent) \in Content
      BY <3>3, <3>4, <3>5, WriteAtFacts
    <3> QED
      BY <3>1, <3>2, <3>6, ReceivingFacts
  <2>2. CASE UNCHANGED disk
    BY <2>2, ReceivingFacts
  <2> QED
    BY <2>1, <2>2 DEF KillReceiver
<1>5. Types'
  BY <1>1, <1>2, <1>3, <1>4 DEF Types, Ended, Beginning
<1>6. receiverPc \notin {"dial", "exit"}
  BY <1>2 DEF ReceiverAlive
<1>7. EndedStreams' /\ Unconnected'
  BY <1>1, <1>2, <1>3, <1>6 DEF EndedStreams, Unconnected
<1> QED
  BY <1>2, <1>3, <1>4, <1>5, <1>7, ShrunkStep

-----------------------------------------------------------------------------
(* An exit, a death, a lost connection, an edit, a new attempt.             *)

\* The sender finds its pipe closed and exits.
LEMMA SenderExitStep ==
  ASSUME IInv, SenderExit, UNCHANGED <<receiverVars, session, edits>>
  PROVE  IInv'
<1> USE DEF SenderExit, receiverVars
<1>1. Types /\ toReceiver \in Streams /\ toSender \in Streams
  BY DEF IInv, Types
<1>2. Beginning(toReceiver', toReceiver) /\ Beginning(toSender', toSender) /\ toReceiver'.end # "open"
  BY <1>1, BeginningSame, BeginningClose
<1>3. Types'
  BY <1>1, <1>2 DEF Types, Beginning, Ended
<1>4. EndedStreams' /\ Unconnected'
  <2>1. EndedStreams /\ Unconnected
    BY DEF IInv
  <2>2. toReceiver'.queue = toReceiver.queue
    BY <1>1, CloseOne
  <2> QED
    BY <1>2, <2>1, <2>2 DEF EndedStreams, Unconnected
<1> QED
  BY <1>2, <1>3, <1>4, ShrunkStep

\* The receiver finds its pipe closed and exits.
LEMMA ReceiverExitStep ==
  ASSUME IInv, ReceiverExit, UNCHANGED <<senderVars, session, edits>>
  PROVE  IInv'
<1> USE DEF ReceiverExit, senderVars
<1>1. Types /\ toReceiver \in Streams /\ toSender \in Streams
  BY DEF IInv, Types
<1>2. Beginning(toReceiver', toReceiver) /\ Beginning(toSender', toSender) /\ toSender'.end # "open"
  BY <1>1, BeginningSame, BeginningClose
<1>3. Types'
  BY <1>1, <1>2 DEF Types, Beginning, Ended
<1>4. EndedStreams' /\ Unconnected'
  <2>1. EndedStreams /\ Unconnected
    BY DEF IInv
  <2> QED
    BY <1>2, <2>1 DEF EndedStreams, Unconnected, Ended
<1> QED
  BY <1>2, <1>3, <1>4, ShrunkStep

\* The receiver gives up on a sender that has died.
LEMMA DialFailsStep ==
  ASSUME IInv, DialFails
  PROVE  IInv'
<1> USE DEF DialFails, senderVars, streams
<1>1. Types /\ toReceiver \in Streams /\ toSender \in Streams /\ EndedStreams /\ Unconnected
  BY DEF IInv, Types
<1>2. Beginning(toReceiver', toReceiver) /\ Beginning(toSender', toSender)
  BY <1>1, BeginningSame
<1>3. Types'
  BY <1>1 DEF Types, Ended
<1>4. toReceiver'.end # "open" /\ EndedStreams' /\ Unconnected'
  BY <1>1 DEF EndedStreams, Unconnected, Ended
<1> QED
  BY <1>2, <1>3, <1>4, ShrunkStep

\* The sender dies, listening or at work.
LEMMA KillSenderStep ==
  ASSUME IInv, KillSender
  PROVE  IInv'
<1> USE DEF KillSender, receiverVars
<1>1. Types /\ toReceiver \in Streams /\ toSender \in Streams /\ EndedStreams /\ Unconnected
  BY DEF IInv, Types
<1>2. Beginning(toReceiver', toReceiver) /\ Beginning(toSender', toSender) /\ toReceiver'.end # "open"
  BY <1>1, BeginningSame, BeginningCut
<1>3. Types'
  BY <1>1, <1>2 DEF Types, Ended, Beginning
<1>4. EndedStreams' /\ Unconnected'
  <2>1. toReceiver.queue = <<>> => toReceiver'.queue = <<>>
    <3>1. Len(toReceiver'.queue) <= Len(toReceiver.queue) /\ toReceiver' \in Streams
      BY <1>2 DEF Beginning
    <3>2. toReceiver.queue = <<>> => Len(toReceiver.queue) = 0
      OBVIOUS
    <3>3. Len(toReceiver'.queue) \in Nat
      BY <3>1 DEF Streams
    <3> QED
      BY <3>1, <3>2, <3>3, EmptyQueue
  <2> QED
    BY <1>1, <1>2, <2>1 DEF EndedStreams, Unconnected, Ended
<1> QED
  BY <1>2, <1>3, <1>4, ShrunkStep

\* The connection breaks for both nodes.
LEMMA LoseConnectionStep ==
  ASSUME IInv, LoseConnection
  PROVE  IInv'
<1> USE DEF LoseConnection, receiverVars, senderVars
<1>1. Types /\ toReceiver \in Streams /\ toSender \in Streams /\ EndedStreams /\ Unconnected
  BY DEF IInv, Types
<1>2. Beginning(toReceiver', toReceiver) /\ Beginning(toSender', toSender)
      /\ toReceiver'.end # "open" /\ toSender'.end # "open"
  BY <1>1, BeginningCut
<1>3. Types'
  BY <1>1, <1>2 DEF Types, Beginning
<1>4. EndedStreams' /\ Unconnected'
  BY <1>1, <1>2 DEF EndedStreams, Unconnected, Ended, ReceiverAlive
<1> QED
  BY <1>2, <1>3, <1>4, ShrunkStep

\* A served file is edited: what was offered of it stays as it was.
LEMMA EditServedStep ==
  ASSUME IInv, EditServed
  PROVE  IInv'
<1> USE DEF EditServed, receiverVars, streams
<1>1. Types /\ toReceiver \in Streams /\ toSender \in Streams /\ EndedStreams /\ Unconnected
  BY DEF IInv, Types
<1>2. Beginning(toReceiver', toReceiver) /\ Beginning(toSender', toSender)
  BY <1>1, BeginningSame
<1>3. served' \in [FileIDs -> Content]
  BY <1>1, TransferAssumption DEF Types
<1>4. Types'
  BY <1>1, <1>3 DEF Types
<1>5. EndedStreams' /\ Unconnected'
  BY <1>1 DEF EndedStreams, Unconnected
<1> QED
  BY <1>2, <1>4, <1>5, ShrunkStep

\* Both nodes are about to start.
Starting ==
  /\ senderPc = "listen" /\ offerPc = "idle" /\ sending = FreshSending
  /\ receiverPc = "dial" /\ prompt = "none" /\ receiving = FreshReceiving
  /\ corrupted = {}
  /\ toReceiver = OpenStream /\ toSender = OpenStream
  /\ served \in [FileIDs -> Content] /\ offered \in [FileIDs -> Content]
  /\ disk \in [FileIDs -> Content \cup {NoFile}]
  /\ links \in [SymlinkIDs -> {"absent", "other", "made"}]
  /\ session \in Nat /\ edits \in Nat

\* The invariant holds whenever both nodes are about to start.
LEMMA StartingIInv == Starting => IInv
<1> SUFFICES ASSUME Starting PROVE IInv
  OBVIOUS
<1> USE DEF Starting
<1>1. OpenStream \in Streams /\ OpenStream.queue = <<>> /\ OpenStream.end = "open" /\ Len(<<>>) = 0
  BY DEF OpenStream, Streams
<1>2. FreshSending \in Sendings
  BY DEF FreshSending, Sendings
<1>3. FreshReceiving \in Receivings
  BY DEF FreshReceiving, Receivings
<1>4. Types
  BY <1>1, <1>2, <1>3 DEF Types
<1>5. ~sending.AllowedToTransfer /\ NothingAccepted /\ ~receiving.stopped
  BY DEF FreshSending, FreshReceiving, NothingAccepted
<1>6. Lists
  <2>1. \A f \in FileIDs : Len(offered[f]) \in Nat
    BY DEF Content
  <2>2. \A f \in FileIDs : sending.fileSent[f] = 0
    BY DEF FreshSending
  <2> QED
    BY <1>5, <2>1, <2>2 DEF Lists
<1>7. EndedStreams /\ Unconnected
  BY <1>1 DEF EndedStreams, Unconnected, Ended
<1>8. KeyAhead /\ Offering
  BY <1>1, <1>5 DEF KeyAhead, Offering, OnlyHeaders
<1>9. Asking /\ Rejected /\ UnderWay /\ Over /\ StopAndWait
  BY <1>5 DEF Asking, Rejected, UnderWay, Over, StopAndWait, Transferring
<1> QED
  BY <1>4, <1>6, <1>7, <1>8, <1>9 DEF IInv

\* Starting both nodes again is starting.
LEMMA NewSessionStep ==
  ASSUME IInv, NewSession
  PROVE  IInv'
<1>1. Starting'
  BY DEF IInv, Types, NewSession, Starting
<1>2. Starting' => IInv'
  BY StartingIInv, PTL
<1> QED
  BY <1>1, <1>2

-----------------------------------------------------------------------------
(* The invariant is inductive.                                             *)

\* The initial states satisfy the invariant.
LEMMA InitIInv == Init => IInv
<1> SUFFICES ASSUME Init PROVE IInv
  OBVIOUS
<1>1. served \in [FileIDs -> Content] /\ disk \in [FileIDs -> Content \cup {NoFile}]
  BY TransferAssumption DEF Init
<1>2. links \in [SymlinkIDs -> {"absent", "other", "made"}]
  BY TransferAssumption DEF Init
<1>3. Starting
  BY <1>1, <1>2 DEF Init, Starting
<1> QED
  BY <1>3, StartingIInv

\* Steps that change nothing keep it.
LEMMA StutterStep ==
  ASSUME IInv, UNCHANGED vars
  PROVE  IInv'
<1> USE DEF vars, senderVars, receiverVars, streams
<1>1. Types' /\ EndedStreams' /\ Unconnected'
  BY DEF IInv, Types, EndedStreams, Unconnected
<1>2. Beginning(toReceiver', toReceiver) /\ Beginning(toSender', toSender)
  BY BeginningSame DEF IInv, Types
<1> QED
  BY <1>1, <1>2, ShrunkStep

\* The sender's main loop keeps it.
LEMMA SenderStepKeeps ==
  ASSUME IInv, SenderStep
  PROVE  IInv'
<1>1. UNCHANGED <<receiverVars, session, edits>> /\ SenderLoop
  BY DEF SenderStep
<1>2. CASE SenderOnReady
  BY <1>1, <1>2, ReadyTurn, TurnStep
<1>3. CASE SenderOnAccept
  BY <1>1, <1>3, AcceptTurn, TurnStep
<1>4. CASE SenderOnStop
  BY <1>1, <1>4, StopStep
<1>5. CASE SenderOnAlreadyHave
  BY <1>1, <1>5, AlreadyHaveTurn, TurnStep
<1>6. CASE SenderDisconnect
  BY <1>1, <1>6, DisconnectStep
<1>7. CASE SenderExit
  BY <1>1, <1>7, SenderExitStep
<1> QED
  BY <1>1, <1>2, <1>3, <1>4, <1>5, <1>6, <1>7 DEF SenderLoop

\* The receiver's main loop keeps it.
LEMMA ReceiverStepKeeps ==
  ASSUME IInv, ReceiverStep
  PROVE  IInv'
<1>1. UNCHANGED <<senderVars, session, edits>> /\ ReceiverLoop
  BY DEF ReceiverStep
<1>2. CASE LoopTop
  BY <1>1, <1>2, LoopTopStep
<1>3. CASE ReceiverOnKey
  BY <1>1, <1>3, KeyStep
<1>4. CASE ReceiverOnOffer
  BY <1>1, <1>4, OnOfferStep
<1>5. CASE ReceiverOnFile
  BY <1>1, <1>5, FileStep
<1>6. CASE ReceiverOnFileBytes
  BY <1>1, <1>6, FileBytesStep
<1>7. CASE ReceiverOnEndfile
  BY <1>1, <1>7, EndfileStep
<1>8. CASE ReceiverOnSymlink
  BY <1>1, <1>8, SymlinkStep
<1>9. CASE ReceiverOnStop
  BY <1>1, <1>9, OnStopStep
<1>10. CASE ReceiverExit
  BY <1>1, <1>10, ReceiverExitStep
<1> QED
  BY <1>1, <1>2, <1>3, <1>4, <1>5, <1>6, <1>7, <1>8, <1>9, <1>10 DEF ReceiverLoop

\* Every step keeps it.
LEMMA NextIInv ==
  ASSUME IInv, [Next]_vars
  PROVE  IInv'
<1>1. CASE Connect
  BY <1>1, ConnectStep
<1>2. CASE DialFails
  BY <1>2, DialFailsStep
<1>3. CASE SenderStep
  BY <1>3, SenderStepKeeps
<1>4. CASE OfferStep
  BY <1>4, OfferStepKeeps
<1>5. CASE ReceiverStep
  BY <1>5, ReceiverStepKeeps
<1>6. CASE AnswerStep
  BY <1>6, AnswerStepKeeps
<1>7. CASE RejectStep
  BY <1>7, RejectStepKeeps
<1>8. CASE KillSender
  BY <1>8, KillSenderStep
<1>9. CASE KillReceiver
  BY <1>9, KillReceiverStep
<1>10. CASE LoseConnection
  BY <1>10, LoseConnectionStep
<1>11. CASE EditServed
  BY <1>11, EditServedStep
<1>12. CASE NewSession
  BY <1>12, NewSessionStep
<1>13. CASE Finished \/ UNCHANGED vars
  BY <1>13, StutterStep DEF Finished
<1> QED
  BY <1>1, <1>2, <1>3, <1>4, <1>5, <1>6, <1>7, <1>8, <1>9, <1>10, <1>11, <1>12, <1>13 DEF Next

\* The inductive invariant holds in every state either node, or the world
\* around them, can bring about.
THEOREM Invariant == Spec => []IInv
<1>1. Init => IInv
  BY InitIInv
<1>2. IInv /\ [Next]_vars => IInv'
  BY NextIInv
<1> QED
  BY <1>1, <1>2, PTL DEF Spec

\* Before the offer is accepted the sender's state is fresh, but for stopped;
\* after that Lists bounds what it counts.
LEMMA Bounded == IInv => InBounds
<1> SUFFICES ASSUME IInv PROVE InBounds
  OBVIOUS
<1>1. Lists
  BY DEF IInv
<1>2. NumFiles \in Nat /\ NumSymlinks \in Nat /\ Len(AllSymlinks) = NumSymlinks
  BY ProtocolAssumption DEF AllSymlinks
<1>3. \A f \in FileIDs : sending.fileSent[f] <= Len(offered[f])
  BY <1>1 DEF Lists
<1>4. CASE sending.AllowedToTransfer
  <2>1. ListsOf(sending)
    BY <1>1, <1>4 DEF Lists
  <2> QED
    BY <2>1, <1>2, <1>3 DEF InBounds, ListsOf
<1>5. CASE ~sending.AllowedToTransfer
  <2>1. sending \in Sendings /\ prompt \in {"none", "asking", "yes", "rejecting", "no"}
    BY DEF IInv, Types
  <2>2. sending = FreshSending \/ [sending EXCEPT !.stopped = FALSE] = FreshSending
    BY <1>5, <2>1 DEF IInv, Offering, Asking, Rejected
  <2>3. ~sending.InTransfer /\ sending.SymlinksToSend = <<>>
    <3>1. CASE sending = FreshSending
      BY <3>1 DEF FreshSending
    <3>2. CASE [sending EXCEPT !.stopped = FALSE] = FreshSending
      <4>1. /\ [sending EXCEPT !.stopped = FALSE].InTransfer = sending.InTransfer
            /\ [sending EXCEPT !.stopped = FALSE].SymlinksToSend = sending.SymlinksToSend
        BY <2>1 DEF Sendings
      <4> QED
        BY <3>2, <4>1 DEF FreshSending
    <3> QED
      BY <2>2, <3>1, <3>2
  <2>4. sending.CurrentFileID = 0 /\ sending.CurrentSymlinkIndex = 0 /\ Len(<<>>) = 0
    BY <1>5, Unallowed, EmptySeq
  <2> QED
    BY <2>3, <2>4, <1>2, <1>3 DEF InBounds
<1> QED
  BY <1>4, <1>5

\* Neither node is ever in a state outside its types, and the sender never counts
\* past a list or past the size of a file: the indexing of FilesToSend and
\* SymlinksToSend cannot panic, nor file.Size - file.SentBytes wrap around.
THEOREM TypeCorrect == Spec => []TypeOK
<1>1. IInv => TypeOK
  BY Bounded DEF IInv, TypeOK
<1> QED
  BY <1>1, Invariant, PTL

\* Between ACCEPT and DONE there is one packet under way, and never none, in
\* node.send and node.receive together.
THEOREM StopAndWaitHolds == Spec => []StopAndWait
<1>1. IInv => StopAndWait
  BY DEF IInv
<1> QED
  BY <1>1, Invariant, PTL

\* The index search of node.send always finds the current file.
THEOREM ListFollowsCounterHolds == Spec => []ListFollowsCounter
<1>1. IInv => ListFollowsCounter
  BY DEF IInv, Lists, ListsOf, Remaining, ListFollowsCounter
<1> QED
  BY <1>1, Invariant, PTL

\* The receiver never takes an encrypted body before the key, whichever of the
\* sender's goroutines writes first after Connect.
THEOREM KeyFirstHolds == Spec => []KeyFirst
<1>1. IInv => KeyFirst
  <2>1. SUFFICES ASSUME IInv, receiverPc = "wait", Arrived(toReceiver, EncryptedHeaders)
                 PROVE  receiving.EncryptionKey
    BY DEF KeyFirst
  <2>2. toReceiver \in Streams /\ toReceiver.queue # <<>>
        /\ Head(toReceiver.queue).hdr \in EncryptedHeaders
    BY <2>1 DEF IInv, Types, Arrived
  <2>3. Len(toReceiver.queue) \in Nat /\ Len(toReceiver.queue) >= 1
        /\ Head(toReceiver.queue) = toReceiver.queue[1]
    BY <2>2 DEF Streams
  <2>4. 1 \in 1 .. Len(toReceiver.queue)
    BY <2>3
  <2>5. KeyAhead
    BY <2>1 DEF IInv
  <2> QED
    BY <2>2, <2>3, <2>4, <2>5 DEF KeyAhead
<1> QED
  BY <1>1, Invariant, PTL

\* A symlink never overtakes a file: when the first one arrives all files are
\* there and have been checked.
THEOREM SymlinksAfterFilesHolds == Spec => []SymlinksAfterFiles
<1>1. IInv => SymlinksAfterFiles
  <2>1. SUFFICES ASSUME IInv, Arrived(toReceiver, {"SYMLINK"})
                 PROVE  receiving.AcceptedFiles = <<>>
                          /\ \A f \in FileIDs : SameChecksum(f) \/ f \in corrupted
    BY DEF SymlinksAfterFiles
  <2>2. Outbound(Packet) /\ Packet.hdr = "SYMLINK"
    BY <2>1, BodyArrived DEF Bodies
  <2>3. NothingAccepted /\ CheckedBelow(NumFiles)
    BY <2>2 DEF Outbound
  <2> QED
    BY <2>3, ProtocolAssumption DEF NothingAccepted, CheckedBelow, Checked, FileIDs
<1> QED
  BY <1>1, Invariant, PTL

\* DONE after ACCEPT means that each file is there with the offered checksum,
\* or has been found corrupted: under every fault and every edit.
THEOREM DoneMeansCheckedHolds == Spec => []DoneMeansChecked
<1>1. IInv => DoneMeansChecked
  <2>1. SUFFICES ASSUME IInv, sending.AllowedToTransfer, sending.stopped, senderPc # "panic"
                 PROVE  \A f \in FileIDs : SameChecksum(f) \/ f \in corrupted
    BY DEF DoneMeansChecked
  <2>2. CheckedBelow(NumFiles)
    BY <2>1 DEF IInv, Over
  <2> QED
    BY <2>2, ProtocolAssumption DEF CheckedBelow, Checked, FileIDs
<1> QED
  BY <1>1, Invariant, PTL

\* Nothing is written, removed or linked in the downloads folder in a step that
\* does not find the user's yes.
THEOREM OnlyAfterConsentHolds == Spec => OnlyAfterConsent
<1> DEFINE Touched == disk' # disk \/ links' # links => prompt = "yes"
<1>1. ASSUME IInv, Next PROVE Touched
  <2>1. ASSUME NEW headers, Arrived(toReceiver, headers), headers \subseteq Bodies PROVE prompt = "yes"
    BY <1>1, <2>1, BodyArrived
  <2>2. CASE ReceiverStep
    <3>1. CASE ReceiverOnFile \/ ReceiverOnFileBytes \/ ReceiverOnEndfile \/ ReceiverOnSymlink
      BY <2>1, <3>1 DEF ReceiverOnFile, ReceiverOnFileBytes, ReceiverOnEndfile, ReceiverOnSymlink,
                        ReceiverTakes, Bodies
    <3>2. CASE LoopTop \/ ReceiverOnKey \/ ReceiverOnOffer \/ ReceiverOnStop \/ ReceiverExit
      BY <3>2 DEF LoopTop, ReceiverOnKey, ReceiverOnOffer, ReceiverOnStop, ReceiverExit
    <3> QED
      BY <2>2, <3>1, <3>2 DEF ReceiverStep, ReceiverLoop
  <2>3. CASE KillReceiver
    BY <2>1, <2>3 DEF KillReceiver, TornWrite, Bodies
  <2>4. CASE AnswerStep \/ RejectStep \/ Connect
    BY <2>4 DEF AnswerStep, AnswerYes, AnswerNo, RejectStep, RejectStop, Connect
  <2>5. CASE SenderStep \/ OfferStep \/ DialFails \/ KillSender \/ LoseConnection
               \/ EditServed \/ NewSession \/ Finished
    BY <2>5 DEF SenderStep, OfferStep, DialFails, KillSender, LoseConnection, EditServed,
                NewSession, Finished, vars, receiverVars
  <2> QED
    BY <1>1, <2>2, <2>3, <2>4, <2>5 DEF Next
<1>2. IInv /\ [Next]_vars => [Touched]_vars
  BY <1>1
<1> QED
  BY <1>2, Invariant, PTL DEF Spec, OnlyAfterConsent

-----------------------------------------------------------------------------
(* What a file being received holds.                                       *)

Holds(files, d) == \A i \in 1 .. Len(files) : Len(Opened(d[files[i].id])) = files[i].sent

\* Holds, of a single file.
LEMMA HoldsOne ==
  ASSUME NEW file, NEW d, Len(Opened(d[file.id])) = file.sent
  PROVE  Holds(<<file>>, d)
<1>1. Len(<<file>>) = 1 /\ <<file>>[1] = file
  OBVIOUS
<1> QED
  BY <1>1, SingleQueue DEF Holds

\* Holds, of no file.
LEMMA HoldsNone ==
  ASSUME NEW d
  PROVE  Holds(<<>>, d)
<1>1. Len(<<>>) = 0
  OBVIOUS
<1> QED
  BY <1>1 DEF Holds

\* A file that has just been accepted is empty.
LEMMA FileHolds ==
  ASSUME "remove" \notin Faults, IInv, ReceiverOnFile
  PROVE  Holds(receiving'.AcceptedFiles, disk')
<1>1. NothingAccepted /\ Packet.id \in FileIDs
  <2>1. Outbound(Packet) /\ Packet.hdr = "FILE" /\ Packet \in Packets
    BY BodyArrived DEF ReceiverOnFile, ReceiverTakes, Bodies
  <2> QED
    BY <2>1 DEF Outbound, Packets, IDsOf
<1>2. CASE AlreadyHave
  <2>1. receiving'.AcceptedFiles = receiving.AcceptedFiles
    BY <1>2, ReceivingFacts DEF AlreadyHave, Receivings
  <2> QED
    BY <1>1, <2>1, HoldsNone DEF NothingAccepted
<1>3. CASE AcceptFile
  <2> DEFINE file == [id |-> Packet.id, size |-> Packet.size, sum |-> Packet.data, sent |-> 0]
  <2>1. disk' = [disk EXCEPT ![Packet.id] = NoFile]
        /\ receiving' = [receiving EXCEPT !.AcceptedFiles = Append(@, file)]
    BY <1>3 DEF AcceptFile
  <2>2. receiving'.AcceptedFiles = Append(receiving.AcceptedFiles, file)
    <3> HIDE DEF file
    <3> QED
      BY <2>1, ReceivingFacts DEF Receivings
  <2>3. receiving'.AcceptedFiles = <<file>>
    BY <1>1, <2>2 DEF NothingAccepted
  <2>4. disk'[file.id] = NoFile /\ file.sent = 0
    BY <1>1, <2>1, ReceivingFacts
  <2>5. Opened(disk'[file.id]) = <<>> /\ Len(<<>>) = 0
    BY <2>4 DEF Opened
  <2>6. Len(Opened(disk'[file.id])) = file.sent
    BY <2>4, <2>5
  <2> HIDE DEF file
  <2> QED
    BY <2>3, <2>6, HoldsOne
<1> QED
  BY <1>2, <1>3 DEF ReceiverOnFile

\* A piece makes it longer by as much as came.
LEMMA FileBytesHolds ==
  ASSUME IInv, ReceiverOnFileBytes, Holds(receiving.AcceptedFiles, disk)
  PROVE  Holds(receiving'.AcceptedFiles, disk')
<1> DEFINE c == sending.CurrentFileID
           n == Len(Packet.data)
           start == sending.fileSent[c] - n
           file == IncomingFile(c, start)
           next == IncomingFile(c, start + n)
<1>1. /\ c \in FileIDs /\ start \in Nat /\ n \in Nat /\ Packet.data \in Content
      /\ receiving.AcceptedFiles = <<file>> /\ receiving'.AcceptedFiles = <<next>>
      /\ disk' = [disk EXCEPT ![c] = WriteAt(Opened(@), Packet.data, start)]
  BY BytesStored
<1>2. file.id = c /\ next.id = c /\ file.sent = start /\ next.sent = start + n
  BY DEF IncomingFile
<1>3. Len(Opened(disk[c])) = start
  <2>1. Len(<<file>>) = 1 /\ <<file>>[1] = file /\ 1 \in 1 .. 1
    OBVIOUS
  <2> HIDE DEF file
  <2>2. Len(Opened(disk[file.id])) = file.sent
    BY <1>1, <2>1 DEF Holds
  <2> QED
    BY <1>2, <2>2
<1>4. Opened(disk[c]) \in Content
  BY <1>1, ReceivingFacts, OpenedType
<1>5. disk'[c] = WriteAt(Opened(disk[c]), Packet.data, start)
  BY <1>1, ReceivingFacts
<1>6. disk'[c] \in Content /\ Len(disk'[c]) = start + n
  BY <1>1, <1>3, <1>4, <1>5, WriteAtFacts
<1>7. Opened(disk'[c]) = disk'[c]
  BY <1>6, ProtocolAssumption DEF Opened
<1>8. Len(Opened(disk'[next.id])) = next.sent
  BY <1>2, <1>6, <1>7
<1> HIDE DEF next
<1> QED
  BY <1>1, <1>8, HoldsOne

\* After ENDFILE no file is being received.
LEMMA EndfileHolds ==
  ASSUME IInv, ReceiverOnEndfile
  PROVE  Holds(receiving'.AcceptedFiles, disk')
<1>1. Outbound(Packet) /\ Packet.hdr = "ENDFILE"
  BY BodyArrived DEF ReceiverOnEndfile, ReceiverTakes, Bodies
<1> DEFINE file == IncomingFile(Packet.id, Len(offered[Packet.id]))
<1>2. receiving.AcceptedFiles = <<file>> /\ file.id = Packet.id
  BY <1>1 DEF Outbound, AcceptedIs, IncomingFile
<1>3. Accepted(Packet.id) = {1} /\ RemoveAt(receiving.AcceptedFiles, 1) = <<>>
  BY <1>2, AcceptedOne
<1>4. receiving' = [receiving EXCEPT !.AcceptedFiles = <<>>]
  BY <1>3 DEF ReceiverOnEndfile, FinishFile
<1>5. receiving'.AcceptedFiles = <<>>
  BY <1>4, ReceivingFacts DEF Receivings
<1> QED
  BY <1>5, HoldsNone

\* Every step keeps the files being received as long as what came of them.
LEMMA HoldsStep ==
  ASSUME "remove" \notin Faults, IInv, HoldsWhatCame, [Next]_vars
  PROVE  HoldsWhatCame'
<1>1. (ReceiverAlive => Holds(receiving.AcceptedFiles, disk)) = HoldsWhatCame
  BY DEF HoldsWhatCame, Holds
<1>2. (ReceiverAlive' => Holds(receiving'.AcceptedFiles, disk')) = HoldsWhatCame'
  BY DEF HoldsWhatCame, Holds
<1>3. CASE ~ReceiverAlive'
  BY <1>2, <1>3
<1>4. CASE ReceiverAlive /\ UNCHANGED disk /\ receiving'.AcceptedFiles = receiving.AcceptedFiles
  BY <1>1, <1>2, <1>4
<1>5. CASE ReceiverStep
  <2>1. CASE ReceiverOnFile
    BY <1>2, <2>1, FileHolds
  <2>2. CASE ReceiverOnFileBytes
    <3>1. ReceiverAlive
      BY <2>2 DEF ReceiverOnFileBytes, ReceiverTakes, ReceiverAlive
    <3> QED
      BY <1>1, <1>2, <2>2, <3>1, FileBytesHolds
  <2>3. CASE ReceiverOnEndfile
    BY <1>2, <2>3, EndfileHolds
  <2>4. CASE ReceiverExit
    BY <1>3, <2>4 DEF ReceiverExit, ReceiverAlive
  <2>5. CASE LoopTop \/ ReceiverOnKey \/ ReceiverOnOffer \/ ReceiverOnSymlink \/ ReceiverOnStop
    <3>1. ReceiverAlive /\ UNCHANGED disk
      BY <2>5 DEF LoopTop, ReceiverOnKey, ReceiverOnOffer, ReceiverOnSymlink, ReceiverOnStop,
                  ReceiverTakes, ReceiverAlive
    <3>2. receiving'.AcceptedFiles = receiving.AcceptedFiles
      BY <2>5, ReceivingFacts DEF LoopTop, ReceiverOnKey, ReceiverOnOffer, ReceiverOnSymlink,
                                  ReceiverOnStop, Receivings
    <3> QED
      BY <1>4, <3>1, <3>2
  <2> QED
    BY <1>5, <2>1, <2>2, <2>3, <2>4, <2>5 DEF ReceiverStep, ReceiverLoop
<1>6. CASE AnswerStep
  BY <1>4, <1>6 DEF AnswerStep, AnswerYes, AnswerNo
<1>7. CASE RejectStep
  <2>1. receiving'.AcceptedFiles = receiving.AcceptedFiles
    BY <1>7, ReceivingFacts DEF RejectStep, RejectStop, Receivings
  <2> QED
    BY <1>4, <1>7, <2>1 DEF RejectStep, RejectStop
<1>8. CASE Connect
  <2>1. NothingAccepted
    BY <1>8 DEF Connect, IInv, Unconnected, Offering
  <2> QED
    BY <1>2, <1>8, <2>1, HoldsNone DEF Connect, NothingAccepted
<1>9. CASE DialFails \/ KillReceiver \/ NewSession
  BY <1>3, <1>9 DEF DialFails, KillReceiver, NewSession, ReceiverAlive
<1>10. CASE SenderStep \/ OfferStep \/ KillSender \/ LoseConnection \/ EditServed
              \/ Finished \/ UNCHANGED vars
  <2>1. UNCHANGED <<receiverPc, receiving, disk>>
    BY <1>10 DEF SenderStep, OfferStep, KillSender, LoseConnection, EditServed, Finished, vars,
                 receiverVars
  <2> QED
    BY <1>3, <1>4, <2>1 DEF ReceiverAlive
<1> QED
  BY <1>5, <1>6, <1>7, <1>8, <1>9, <1>10 DEF Next

\* As long as os.Remove works, a file being received holds what has come of it
\* in this attempt and nothing else, whatever stood in its place before.
THEOREM HoldsWhatCameHolds ==
  ASSUME "remove" \notin Faults
  PROVE  Spec => []HoldsWhatCame
<1>1. Init => HoldsWhatCame
  BY DEF Init, HoldsWhatCame, ReceiverAlive
<1>2. IInv /\ HoldsWhatCame /\ [Next]_vars => HoldsWhatCame'
  BY HoldsStep
<1> QED
  BY <1>1, <1>2, Invariant, PTL DEF Spec

-----------------------------------------------------------------------------
(* The progress counters.                                                  *)

\* A packet of another kind stands for no bytes.
LEMMA OtherBytes ==
  ASSUME NEW p, NEW header, p.hdr # header
  PROVE  BytesOf(p, header) = 0
BY DEF BytesOf

\* The piece that is sent is as long as what it is counted for.
LEMMA PieceCounts ==
  ASSUME IInv, NEW s \in Sendings, ListsOf(s), s.CurrentFileID < NumFiles,
         \A f \in FileIDs : s.fileSent[f] <= Len(offered[f]),
         Readable(s, s.CurrentFileID)
  PROVE  /\ s.CurrentFileID \in FileIDs /\ PieceLength(s, s.CurrentFileID) \in Nat
         /\ NextPiece(s, s.CurrentFileID) \in Content
         /\ Len(NextPiece(s, s.CurrentFileID)) = PieceLength(s, s.CurrentFileID)
<1> DEFINE c == s.CurrentFileID
           n == PieceLength(s, c)
           a == s.fileSent[c]
           bytes == served[c]
<1>1. c \in FileIDs
  BY ProtocolAssumption DEF ListsOf, FileIDs, Sendings
<1>2. a \in Nat /\ bytes \in Seq(Nat) /\ Len(offered[c]) \in Nat /\ a <= Len(offered[c])
  BY <1>1, ReceivingFacts DEF Sendings, IInv, Types, Content
<1>3. n \in Nat
  BY <1>2, ProtocolAssumption DEF PieceLength, Unsent
<1>4. a + n <= Len(bytes)
  BY DEF Readable
<1>5. NextPiece(s, c) = SubSeq(bytes, a + 1, a + n)
  BY DEF NextPiece
<1> HIDE DEF c, n, a, bytes
<1>6. SubSeq(bytes, a + 1, a + n) \in Seq(Nat) /\ Len(SubSeq(bytes, a + 1, a + n)) = n
  BY <1>2, <1>3, <1>4
<1> QED
  BY <1>1, <1>3, <1>5, <1>6 DEF c, n, Content

\* Before the sender's turn its counter is the receiver's.
LEMMA TurnStarts ==
  ASSUME CInv, NEW s, HoldsToken(s), Follows(s), OnlySection,
         toSender.queue # <<>>, ~sending.stopped, Transferring \/ ~sending.AllowedToTransfer
  PROVE  s.SentBytes = receiving.ReceivedBytes
<1>1. /\ IInv /\ Len(toSender.queue) \in Nat /\ 1 \in 1 .. Len(toSender.queue)
      /\ Head(toSender.queue) = toSender.queue[1]
  BY DEF CInv, IInv, Types, Streams
<1>2. CASE Transferring
  BY <1>1, <1>2 DEF CInv, CountedButOne, Follows
<1>3. CASE ~sending.AllowedToTransfer
  <2>1. toSender.queue[1].hdr = "ACCEPT"
    BY <1>1, <1>3 DEF IInv, Asking, HoldsToken, OnlyHeaders
  <2>2. BytesOf(toSender.queue[1], "ALREADYHAVE") = 0
    BY <2>1, OtherBytes
  <2> QED
    BY <1>1, <1>3, <2>2, Unallowed DEF CInv, NothingReceived, Follows
<1> QED
  BY <1>2, <1>3

\* The sender counts what it writes, and the receiver has yet to.
LEMMA TurnCounts ==
  ASSUME CInv, Turn, toSender.queue # <<>>, ~sending.stopped
  PROVE  NothingReceived' /\ CountedButOne'
<1>1. PICK s : HoldsToken(s) /\ Follows(s) /\ TransferSection(s)
  BY DEF Turn
<1>2. IInv /\ OnlySection
  BY DEF CInv, Turn
<1>3. /\ s \in Sendings /\ ListsOf(s) /\ Types /\ s.AllowedToTransfer /\ ~s.stopped
      /\ s.InTransfer => s.CanSendBytes
      /\ \A f \in FileIDs : s.fileSent[f] <= Len(offered[f])
      /\ toReceiver.queue = <<>> /\ toReceiver \in Streams /\ toSender'.queue = <<>>
      /\ toSender'.end = toSender.end /\ s.SentBytes \in Nat /\ s.CurrentFileID \in Nat
  BY <1>1, <1>2 DEF HoldsToken, IInv, Types, Sendings
<1>4. NothingReceived'
  BY <1>1, <1>3, SectionCounts DEF Counted, NothingReceived
<1>5. receiving' = receiving /\ senderPc = "loop" /\ receiverPc' = receiverPc
      /\ receiving.ReceivedBytes \in Nat
  BY <1>2, ReceivingFacts DEF OnlySection, receiverVars
<1>6. SUFFICES ASSUME Transferring' PROVE CountedButOne'
  BY <1>4 DEF CountedButOne
<1>7. senderPc' = "loop" /\ ~sending'.stopped /\ ReceiverAlive /\ toSender.end = "open"
      /\ toReceiver'.end = "open"
  BY <1>3, <1>5, <1>6 DEF Transferring, ReceiverAlive
<1>8. ASSUME toReceiver.end = "open" PROVE s.SentBytes = receiving.ReceivedBytes
  BY <1>1, <1>2, <1>5, <1>7, <1>8, TurnStarts DEF Transferring
<1>9. ASSUME NEW t, NEW p \in Packets, Continue(t, <<p>>),
             t.SentBytes = s.SentBytes + BytesOf(p, "FILEBYTES")'
      PROVE  CountedButOne'
  <2>1. sending' = t /\ toReceiver' = Push(toReceiver, <<p>>)
    BY <1>9 DEF Continue
  <2>2. toReceiver.end = "open" /\ \A i \in 1 .. Len(toReceiver'.queue) : toReceiver'.queue[i] = p
    <3>1. /\ Push(toReceiver, <<p>>).end = toReceiver.end
          /\ \A i \in 1 .. Len(Push(toReceiver, <<p>>).queue) : Push(toReceiver, <<p>>).queue[i] = p
      BY <1>3, PushOne, PushedOnly
    <3> QED
      BY <1>7, <2>1, <3>1
  <2>3. Len(toSender'.queue) = 0
    BY <1>3
  <2> QED
    BY <1>5, <1>8, <1>9, <2>1, <2>2, <2>3 DEF CountedButOne
<1>10. ASSUME NEW t, NEW p \in Packets, Continue(t, <<p>>),
              t.SentBytes = s.SentBytes, p.hdr # "FILEBYTES"
       PROVE  CountedButOne'
  <2>1. BytesOf(p, "FILEBYTES")' = 0
    BY <1>10 DEF BytesOf
  <2> QED
    BY <1>3, <1>9, <1>10, <2>1
<1>11. CASE /\ s.CurrentFileID = NumFiles /\ s.CurrentSymlinkIndex < NumSymlinks
            /\ Continue([s EXCEPT !.CurrentSymlinkIndex = @ + 1],
                        <<WithID("SYMLINK", s.CurrentSymlinkIndex + 1)>>)
  <2>1. s.CurrentSymlinkIndex + 1 \in IDsOf("SYMLINK")
    BY <1>3, <1>11, ProtocolAssumption DEF IDsOf, SymlinkIDs, Sendings
  <2>2. PICK p : p = WithID("SYMLINK", s.CurrentSymlinkIndex + 1)
    OBVIOUS
  <2>3. p \in Packets /\ p.hdr = "SYMLINK"
    BY <2>1, <2>2, WithIDType
  <2>4. [s EXCEPT !.CurrentSymlinkIndex = @ + 1].SentBytes = s.SentBytes
    BY <1>3 DEF Sendings
  <2> QED
    BY <1>10, <1>11, <2>2, <2>3, <2>4
<1>12. CASE /\ s.CurrentFileID = NumFiles /\ s.CurrentSymlinkIndex = NumSymlinks
            /\ Continue([s EXCEPT !.stopped = TRUE], <<Bare("DONE")>>)
  BY <1>3, <1>7, <1>12 DEF Continue, Sendings
<1>13. CASE /\ s.CurrentFileID < NumFiles /\ ~s.InTransfer
            /\ Continue([s EXCEPT !.InTransfer = TRUE],
                        <<FilePacket(s.CurrentFileID, offered[s.CurrentFileID])>>)
  <2>1. s.CurrentFileID \in FileIDs /\ offered[s.CurrentFileID] \in Content
    BY <1>3, <1>13, ProtocolAssumption DEF FileIDs, Types
  <2>2. PICK p : p = FilePacket(s.CurrentFileID, offered[s.CurrentFileID])
    OBVIOUS
  <2>3. p \in Packets /\ p.hdr = "FILE"
    BY <2>1, <2>2, FilePacketType DEF FilePacket
  <2>4. [s EXCEPT !.InTransfer = TRUE].SentBytes = s.SentBytes
    BY <1>3 DEF Sendings
  <2> QED
    BY <1>10, <1>13, <2>2, <2>3, <2>4
<1>14. CASE /\ s.CurrentFileID < NumFiles /\ s.InTransfer
            /\ Continue([s EXCEPT !.FilesToSend = Remaining(s.CurrentFileID + 1),
                                  !.CurrentFileID = @ + 1, !.InTransfer = FALSE],
                        <<WithID("ENDFILE", s.CurrentFileID)>>)
  <2>1. s.CurrentFileID \in IDsOf("ENDFILE")
    BY <1>3, <1>14, ProtocolAssumption DEF IDsOf, FileIDs
  <2>2. PICK p : p = WithID("ENDFILE", s.CurrentFileID)
    OBVIOUS
  <2>3. p \in Packets /\ p.hdr = "ENDFILE"
    BY <2>1, <2>2, WithIDType
  <2>4. [s EXCEPT !.FilesToSend = Remaining(s.CurrentFileID + 1), !.CurrentFileID = @ + 1,
                  !.InTransfer = FALSE].SentBytes = s.SentBytes
    BY <1>3 DEF Sendings
  <2> QED
    BY <1>10, <1>14, <2>2, <2>3, <2>4
<1>15. CASE /\ s.CurrentFileID < NumFiles /\ Readable(s, s.CurrentFileID)
            /\ SendBytes(s, s.CurrentFileID)
  <2> DEFINE c == s.CurrentFileID
             n == PieceLength(s, c)
             t == [s EXCEPT !.fileSent[c] = @ + n, !.SentBytes = @ + n, !.CanSendBytes = FALSE]
  <2>1. c \in FileIDs /\ n \in Nat /\ NextPiece(s, c) \in Content /\ Len(NextPiece(s, c)) = n
    BY <1>2, <1>3, <1>15, PieceCounts
  <2>2. PICK p : p = FileBytesPacket(c, NextPiece(s, c))
    OBVIOUS
  <2>3. Continue(t, <<p>>)
    BY <1>15, <2>2 DEF SendBytes
  <2>4. p.hdr = "FILEBYTES" /\ Len(p.data) = n
    BY <2>1, <2>2 DEF FileBytesPacket
  <2>5. BytesOf(p, "FILEBYTES")' = n
    BY <2>4 DEF BytesOf
  <2>6. t.SentBytes = s.SentBytes + n
    <3> HIDE DEF n, c
    <3> QED
      BY <1>3 DEF Sendings
  <2>7. p \in Packets
    BY <2>1, <2>2, FileBytesPacketType
  <2> HIDE DEF t, n
  <2> QED
    BY <1>9, <2>3, <2>5, <2>6, <2>7
<1>16. CASE Panic(s) \/ Panic([s EXCEPT !.stopped = TRUE])
  BY <1>7, <1>16 DEF Panic
<1> QED
  BY <1>1, <1>3, <1>11, <1>12, <1>13, <1>14, <1>15, <1>16, SectionOutcome

\* A step that touches no counter, and no stream while the transfer goes on.
LEMMA QuietCounts ==
  ASSUME CInv, UNCHANGED <<sending, offered, receiving>>,
         Transferring' => Transferring /\ UNCHANGED streams
  PROVE  NothingReceived' /\ CountedButOne'
<1>1. NothingReceived'
  BY DEF CInv, NothingReceived
<1>2. SUFFICES ASSUME Transferring' PROVE CountedButOne'
  BY <1>1 DEF CountedButOne
<1>3. Transferring /\ toReceiver' = toReceiver /\ toSender' = toSender
  BY <1>2 DEF streams
<1>4. \A p, header : BytesOf(p, header)' = BytesOf(p, header)
  BY DEF BytesOf
<1> QED
  BY <1>3, <1>4 DEF CInv, CountedButOne

\* A step before ACCEPT, after DONE, or that cuts the connection.
LEMMA IdleCounts ==
  ASSUME CInv, ~Transferring', receiving'.ReceivedBytes = receiving.ReceivedBytes,
         sending.AllowedToTransfer => sending'.AllowedToTransfer
  PROVE  NothingReceived' /\ CountedButOne'
BY DEF CInv, NothingReceived, CountedButOne

\* The receiver counts what it takes, and what it has already.
LEMMA AnswerCounts ==
  ASSUME CInv, NEW headers, ReceiverTakes(headers), headers \subseteq Bodies,
         UNCHANGED senderVars, NEW p \in Packets, Answer(p),
         NEW m \in Nat, BytesOf(Packet, "FILEBYTES") = m,
         NEW n \in Nat, BytesOf(p, "ALREADYHAVE")' = n,
         receiving'.ReceivedBytes = receiving.ReceivedBytes + m + n
  PROVE  NothingReceived' /\ CountedButOne'
<1>1. IInv /\ sending' = sending /\ senderPc' = senderPc
  BY DEF CInv, senderVars
<1>2. /\ sending.AllowedToTransfer /\ toReceiver'.queue = <<>> /\ toSender.queue = <<>>
      /\ toSender \in Streams /\ receiving.ReceivedBytes \in Nat
  BY <1>1, BodyTaken, ReceivingFacts DEF IInv, Types
<1>3. NothingReceived'
  BY <1>1, <1>2 DEF NothingReceived
<1>4. SUFFICES ASSUME Transferring' PROVE CountedButOne'
  BY <1>3 DEF CountedButOne
<1>5. /\ Packet = toReceiver.queue[1] /\ 1 \in 1 .. Len(toReceiver.queue)
      /\ receiverPc = "wait" /\ toReceiver'.end = toReceiver.end
  BY <1>1, ReceiverHead
<1>6. toSender' = Push(toSender, <<p>>) /\ toSender'.end = toSender.end
      /\ \A i \in 1 .. Len(toSender'.queue) : toSender'.queue[i] = p
  <2>1. /\ Push(toSender, <<p>>).end = toSender.end
        /\ \A i \in 1 .. Len(Push(toSender, <<p>>).queue) : Push(toSender, <<p>>).queue[i] = p
    BY <1>2, PushOne, PushedOnly
  <2> QED
    BY <2>1 DEF Answer
<1>7. Transferring
  BY <1>1, <1>4, <1>5, <1>6 DEF Transferring, ReceiverAlive
<1>8. sending.SentBytes = receiving.ReceivedBytes + m
  BY <1>5, <1>7 DEF CInv, CountedButOne
<1>9. Len(toReceiver'.queue) = 0
  BY <1>2
<1> QED
  BY <1>1, <1>2, <1>6, <1>8, <1>9 DEF CountedButOne

\* FILE, FILEBYTES, ENDFILE and SYMLINK.
LEMMA BodyCounts ==
  ASSUME CInv, UNCHANGED senderVars,
         ReceiverOnFile \/ ReceiverOnFileBytes \/ ReceiverOnEndfile \/ ReceiverOnSymlink
  PROVE  NothingReceived' /\ CountedButOne'
<1>0. IInv /\ receiving \in Receivings /\ receiving.ReceivedBytes \in Nat /\ offered' = offered
  BY ReceivingFacts DEF CInv, senderVars
<1>1. PICK ready : ready = Bare("READY")
  OBVIOUS
<1>2. ready \in Packets /\ BytesOf(ready, "ALREADYHAVE")' = 0
  <2>1. ready.hdr = "READY"
    BY <1>1, BareType DEF BareHeaders
  <2> QED
    BY <1>1, <2>1, BareType DEF BytesOf, BareHeaders
<1>3. ASSUME NEW headers, ReceiverTakes(headers), headers \subseteq {"FILE", "ENDFILE", "SYMLINK"}
      PROVE  headers \subseteq Bodies /\ BytesOf(Packet, "FILEBYTES") = 0
  <2>1. headers \subseteq Bodies
    BY <1>3 DEF Bodies
  <2>2. Packet.hdr # "FILEBYTES"
    BY <1>0, <1>3, <2>1, BodyTaken
  <2> QED
    BY <2>1, <2>2, OtherBytes
<1>4. CASE ReceiverOnFile
  <2>1. ReceiverTakes({"FILE"})
    BY <1>4 DEF ReceiverOnFile
  <2>2. /\ Packet \in Packets /\ Packet.hdr = "FILE" /\ Packet.id \in FileIDs
        /\ Packet.size = Len(offered[Packet.id]) /\ Packet.size \in Nat
    <3>1. Outbound(Packet) /\ Packet \in Packets /\ Packet.hdr = "FILE"
      BY <1>0, <2>1, BodyTaken DEF Bodies
    <3> QED
      BY <3>1 DEF Outbound, Packets, IDsOf
  <2>3. CASE AlreadyHave
    <3>1. PICK p : p = WithID("ALREADYHAVE", Packet.id)
      OBVIOUS
    <3>2. p \in Packets /\ p.hdr = "ALREADYHAVE" /\ p.id = Packet.id
      BY <2>2, <3>1, WithIDType DEF IDsOf
    <3>3. Answer(p) /\ receiving' = [receiving EXCEPT !.ReceivedBytes = @ + Packet.size]
      BY <2>3, <3>1 DEF AlreadyHave
    <3>4. receiving'.ReceivedBytes = receiving.ReceivedBytes + 0 + Packet.size
      BY <1>0, <2>2, <3>3 DEF Receivings
    <3>5. BytesOf(p, "ALREADYHAVE")' = Packet.size
      BY <1>0, <2>2, <3>2 DEF BytesOf
    <3> QED
      BY <1>3, <2>1, <2>2, <3>2, <3>3, <3>4, <3>5, AnswerCounts
  <2>4. CASE AcceptFile
    <3>1. receiving'.ReceivedBytes = receiving.ReceivedBytes + 0 + 0 /\ Answer(ready)
      BY <1>0, <1>1, <2>4 DEF AcceptFile, Ready, Receivings
    <3> QED
      BY <1>2, <1>3, <2>1, <3>1, AnswerCounts
  <2> QED
    BY <1>4, <2>3, <2>4 DEF ReceiverOnFile
<1>5. CASE ReceiverOnFileBytes
  <2>1. ReceiverTakes({"FILEBYTES"}) /\ Answer(ready)
    BY <1>1, <1>5 DEF ReceiverOnFileBytes, Ready
  <2>2. Packet.hdr = "FILEBYTES"
    BY <1>0, <2>1, BodyTaken DEF Bodies
  <2>3. Len(Packet.data) \in Nat
        /\ receiving'.ReceivedBytes = receiving.ReceivedBytes + Len(Packet.data)
    BY <1>0, <1>5, BytesStored
  <2>4. BytesOf(Packet, "FILEBYTES") = Len(Packet.data)
    BY <2>2 DEF BytesOf
  <2>5. receiving'.ReceivedBytes = receiving.ReceivedBytes + Len(Packet.data) + 0
    BY <1>0, <2>3
  <2> QED
    BY <1>2, <2>1, <2>3, <2>4, <2>5, AnswerCounts DEF Bodies
<1>6. CASE ReceiverOnEndfile
  <2>1. ReceiverTakes({"ENDFILE"}) /\ Answer(ready)
    BY <1>1, <1>6 DEF ReceiverOnEndfile, Ready
  <2>2. receiving'.ReceivedBytes = receiving.ReceivedBytes + 0 + 0
    <3>1. receiving' = receiving \/ \E i : receiving' = [receiving EXCEPT !.AcceptedFiles = RemoveAt(@, i)]
      BY <1>6 DEF ReceiverOnEndfile, FinishFile
    <3> QED
      BY <1>0, <3>1 DEF Receivings
  <2> QED
    BY <1>2, <1>3, <2>1, <2>2, AnswerCounts
<1>7. CASE ReceiverOnSymlink
  <2>1. ReceiverTakes({"SYMLINK"}) /\ Answer(ready)
        /\ receiving'.ReceivedBytes = receiving.ReceivedBytes + 0 + 0
    BY <1>0, <1>1, <1>7 DEF ReceiverOnSymlink, Ready
  <2> QED
    BY <1>2, <1>3, <2>1, AnswerCounts
<1> QED
  BY <1>4, <1>5, <1>6, <1>7

\* The receiver's main loop.
LEMMA ReceiverCounts ==
  ASSUME CInv, ReceiverStep
  PROVE  NothingReceived' /\ CountedButOne'
<1>1. UNCHANGED senderVars /\ sending' = sending /\ offered' = offered /\ ReceiverLoop
      /\ IInv /\ receiving \in Receivings
  BY ReceivingFacts DEF ReceiverStep, senderVars, CInv
<1>2. CASE LoopTop
  <2>1. receiving' = receiving /\ toReceiver' = toReceiver /\ receiverPc = "top"
    BY <1>2 DEF LoopTop
  <2>2. CASE receiving.stopped
    <3>1. ~Transferring'
      BY <1>2, <2>2 DEF LoopTop, Transferring, ReceiverAlive
    <3> QED
      BY <1>1, <2>1, <3>1, IdleCounts
  <2>3. CASE ~receiving.stopped
    <3>1. toSender' = toSender
      BY <1>2, <2>3 DEF LoopTop
    <3>2. Transferring' => Transferring /\ UNCHANGED streams
      BY <1>1, <2>1, <3>1 DEF Transferring, ReceiverAlive, streams, senderVars
    <3> QED
      BY <1>1, <2>1, <3>2, QuietCounts
  <2> QED
    BY <2>2, <2>3
<1>3. CASE ReceiverOnKey \/ ReceiverOnOffer
  <2>1. ~sending.AllowedToTransfer
    BY <1>1, <1>3, OpeningTaken DEF ReceiverOnKey, ReceiverOnOffer
  <2>2. receiving'.ReceivedBytes = receiving.ReceivedBytes
    BY <1>1, <1>3 DEF ReceiverOnKey, ReceiverOnOffer, Receivings
  <2>3. ~Transferring'
    BY <1>1, <2>1 DEF Transferring
  <2> QED
    BY <1>1, <2>2, <2>3, IdleCounts
<1>4. CASE ReceiverOnFile \/ ReceiverOnFileBytes \/ ReceiverOnEndfile \/ ReceiverOnSymlink
  BY <1>1, <1>4, BodyCounts
<1>5. CASE ReceiverOnStop
  <2>1. sending.AllowedToTransfer => sending.stopped
    BY <1>1, <1>5, StopTaken DEF ReceiverOnStop
  <2>2. receiving'.ReceivedBytes = receiving.ReceivedBytes
    BY <1>1, <1>5 DEF ReceiverOnStop, Receivings
  <2>3. ~Transferring'
    BY <1>1, <2>1 DEF Transferring
  <2> QED
    BY <1>1, <2>2, <2>3, IdleCounts
<1>6. CASE ReceiverExit
  <2>1. receiving' = receiving /\ ~Transferring'
    BY <1>6 DEF ReceiverExit, Transferring, ReceiverAlive
  <2> QED
    BY <1>1, <2>1, IdleCounts
<1> QED
  BY <1>1, <1>2, <1>3, <1>4, <1>5, <1>6 DEF ReceiverLoop

\* The sender's main loop.
LEMMA SenderStepCounts ==
  ASSUME CInv, SenderStep
  PROVE  NothingReceived' /\ CountedButOne'
<1>1. UNCHANGED <<receiverVars, session, edits>> /\ receiving' = receiving /\ SenderLoop /\ IInv
  BY DEF SenderStep, receiverVars, CInv
<1>2. CASE SenderOnReady \/ SenderOnAlreadyHave \/ SenderOnAccept
  <2>1. Turn
    BY <1>1, <1>2, ReadyTurn, AlreadyHaveTurn, AcceptTurn
  <2>2. toSender.queue # <<>> /\ ~sending.stopped
    BY <1>2 DEF SenderOnReady, SenderOnAlreadyHave, SenderOnAccept, SenderTakes, Arrived
  <2> QED
    BY <2>1, <2>2, TurnCounts
<1>3. CASE SenderOnStop
  <2> DEFINE s == [sending EXCEPT !.stopped = TRUE]
  <2>1. ~sending.AllowedToTransfer
    BY <1>1, <1>3, StopUnallowed
  <2>2. s \in Sendings /\ s.AllowedToTransfer = sending.AllowedToTransfer
    BY <1>1, SendingFacts DEF Sendings
  <2>3. TransferSection(s)
    BY <1>3 DEF SenderOnStop
  <2> HIDE DEF s
  <2>4. ~sending'.AllowedToTransfer
    BY <2>1, <2>2, <2>3, SectionCounts DEF Counted
  <2> QED
    BY <1>1, <2>1, <2>4, IdleCounts DEF Transferring
<1>4. CASE SenderDisconnect \/ SenderExit
  <2>1. sending' = sending /\ ~Transferring'
    BY <1>4 DEF SenderDisconnect, SenderExit, Transferring
  <2> QED
    BY <1>1, <2>1, IdleCounts
<1> QED
  BY <1>1, <1>2, <1>3, <1>4 DEF SenderLoop

\* Every step keeps the counters in step.
LEMMA NextCounts ==
  ASSUME CInv, [Next]_vars
  PROVE  NothingReceived' /\ CountedButOne'
<1>1. IInv /\ receiving \in Receivings /\ toReceiver \in Streams /\ toSender \in Streams
  BY ReceivingFacts DEF CInv, IInv, Types
<1>2. ASSUME receiving'.ReceivedBytes = receiving.ReceivedBytes, sending' = sending,
             ~sending.AllowedToTransfer
      PROVE  NothingReceived' /\ CountedButOne'
  BY <1>2, IdleCounts DEF Transferring
<1>3. ASSUME prompt # "yes" PROVE ~sending.AllowedToTransfer
  BY <1>1, <1>3 DEF IInv, Lists
<1>4. CASE Connect
  <2>1. prompt = "none"
    BY <1>1, <1>4 DEF Connect, IInv, Unconnected
  <2> QED
    BY <1>2, <1>3, <1>4, <2>1 DEF Connect
<1>5. CASE DialFails \/ KillSender \/ KillReceiver
  <2>1. UNCHANGED <<sending, receiving>> /\ ~Transferring'
    BY <1>5 DEF DialFails, KillSender, KillReceiver, senderVars, receiverVars, Transferring,
                ReceiverAlive
  <2> QED
    BY <2>1, IdleCounts
<1>6. CASE SenderStep
  BY <1>6, SenderStepCounts
<1>7. CASE OfferStep
  <2>1. prompt = "none"
    BY <1>1, <1>7 DEF OfferStep, SendTransferOffer, IInv, KeyAhead
  <2> QED
    BY <1>2, <1>3, <1>7, <2>1 DEF OfferStep, SendTransferOffer, receiverVars
<1>8. CASE ReceiverStep
  BY <1>8, ReceiverCounts
<1>9. CASE AnswerStep
  <2>1. prompt = "asking" /\ UNCHANGED <<sending, receiving>>
    BY <1>9 DEF AnswerStep, AnswerYes, AnswerNo, senderVars
  <2> QED
    BY <1>2, <1>3, <2>1
<1>10. CASE RejectStep
  <2>1. /\ prompt = "rejecting" /\ sending' = sending
        /\ receiving' = [receiving EXCEPT !.stopped = TRUE]
    BY <1>10 DEF RejectStep, RejectStop, senderVars
  <2>2. receiving'.ReceivedBytes = receiving.ReceivedBytes
    BY <1>1, <2>1 DEF Receivings
  <2> QED
    BY <1>2, <1>3, <2>1, <2>2
<1>11. CASE LoseConnection
  <2>1. UNCHANGED <<sending, receiving>> /\ toReceiver'.end # "open"
    BY <1>1, <1>11, CutOne DEF LoseConnection, senderVars, receiverVars
  <2> QED
    BY <2>1, IdleCounts DEF Transferring
<1>12. CASE EditServed \/ Finished \/ UNCHANGED vars
  <2>1. UNCHANGED <<senderPc, sending, offered, receiverPc, receiving, streams>>
    BY <1>12 DEF EditServed, Finished, vars, senderVars, receiverVars
  <2>2. Transferring' => Transferring
    BY <2>1 DEF Transferring, ReceiverAlive, streams
  <2> QED
    BY <2>1, <2>2, QuietCounts
<1>13. CASE NewSession
  <2>1. receiving'.ReceivedBytes = 0 /\ ~sending'.AllowedToTransfer
    BY <1>13 DEF NewSession, FreshReceiving, FreshSending
  <2> QED
    BY <2>1 DEF NothingReceived, CountedButOne, Transferring
<1> QED
  BY <1>4, <1>5, <1>6, <1>7, <1>8, <1>9, <1>10, <1>11, <1>12, <1>13 DEF Next

\* The counters of both nodes, beside the inductive invariant of their steps.
THEOREM CountersInvariant == Spec => []CInv
<1>1. Init => CInv
  <2>1. ASSUME Init PROVE ~sending.AllowedToTransfer /\ receiving.ReceivedBytes = 0
    BY <2>1 DEF Init, FreshSending, FreshReceiving
  <2> QED
    BY <2>1, InitIInv DEF CInv, NothingReceived, CountedButOne, Transferring
<1>2. CInv /\ [Next]_vars => CInv'
  BY NextIInv, NextCounts DEF CInv
<1> QED
  BY <1>1, <1>2, PTL DEF Spec

\* What a queue of no packet, or of one, stands for.
LEMMA FoldOfAtMostOne ==
  ASSUME NEW q \in Seq(Packets), NEW h, Len(q) <= 1
  PROVE  /\ Len(q) = 0 => BytesIn(q, h) = 0
         /\ Len(q) = 1 => BytesIn(q, h) = 0 + BytesOf(q[1], h)
<1> DEFINE D == DOMAIN q
           Step(f) == [s \in SUBSET D |->
                         IF s = {} THEN 0
                         ELSE f[s \ {Max(s)}] + BytesOf(q[Max(s)], h)]
           it == CHOOSE f : f = Step(f)
<1>1. BytesIn(q, h) = it[D]
  BY DEF BytesIn, FoldLeft, MapThenFoldSet
<1>2. D = 1 .. Len(q) /\ Len(q) \in Nat
  BY LenProperties
<1>3. Max({1}) = 1
  <2>1. \E x \in {1} : \A y \in {1} : x >= y
    OBVIOUS
  <2> QED
    BY <2>1 DEF Max
<1> HIDE DEF D
<1>4. CASE Len(q) = 0
  <2>1. D = {}
    BY <1>2, <1>4
  <2> DEFINE g == [s \in SUBSET D |-> 0]
  <2>2. g = Step(g)
    BY <2>1
  <2>3. it = Step(it)
    BY <2>2
  <2>4. {} \in SUBSET D
    OBVIOUS
  <2> HIDE DEF it
  <2>5. it[D] = 0
    BY <2>1, <2>3, <2>4
  <2> QED
    BY <1>1, <1>4, <2>5
<1>5. CASE Len(q) = 1
  <2>1. D = {1} /\ SUBSET D = {{}, {1}}
    BY <1>2, <1>5
  <2> DEFINE g == [s \in SUBSET D |-> IF s = {} THEN 0 ELSE 0 + BytesOf(q[1], h)]
  <2>2. g[{}] = 0
    BY <2>1
  <2>3. g = Step(g)
    <3>1. ASSUME NEW s \in SUBSET D, s # {} PROVE s = {1} /\ Max(s) = 1 /\ s \ {Max(s)} = {}
      BY <1>3, <2>1, <3>1
    <3> HIDE DEF g
    <3>2. \A s \in SUBSET D : Step(g)[s] = IF s = {} THEN 0 ELSE 0 + BytesOf(q[1], h)
      BY <2>2, <3>1
    <3> QED
      BY <3>2 DEF g
  <2>4. it = Step(it)
    BY <2>3
  <2>5. {} \in SUBSET D /\ {1} \in SUBSET D /\ {1} \ {1} = {}
    BY <2>1
  <2> HIDE DEF it
  <2>6. it[{}] = 0
    BY <2>4, <2>5
  <2>7. it[{1}] = it[{1} \ {Max({1})}] + BytesOf(q[Max({1})], h)
    BY <2>4, <2>5
  <2>8. it[D] = 0 + BytesOf(q[1], h)
    <3> DEFINE m == Max({1})
    <3>1. m = 1 /\ it[{1}] = it[{1} \ {m}] + BytesOf(q[m], h)
      BY <1>3, <2>7
    <3> HIDE DEF m
    <3>2. {1} \ {m} = {}
      BY <3>1
    <3>3. it[{1}] = 0 + BytesOf(q[1], h)
      BY <2>6, <3>1, <3>2
    <3> QED
      BY <2>1, <3>3
  <2> QED
    BY <1>1, <1>5, <2>8
<1> QED
  BY <1>2, <1>4, <1>5

\* No packet stands for nothing.
LEMMA FoldOfNone ==
  ASSUME NEW q \in Seq(Packets), NEW h, Len(q) = 0
  PROVE  BytesIn(q, h) = 0
<1>1. Len(q) <= 1
  OBVIOUS
<1> QED
  BY <1>1, FoldOfAtMostOne

\* One packet, for what it is itself.
LEMMA FoldOfOne ==
  ASSUME NEW q \in Seq(Packets), NEW h, Len(q) = 1
  PROVE  BytesIn(q, h) = 0 + BytesOf(q[1], h)
<1>1. Len(q) <= 1
  OBVIOUS
<1> QED
  BY <1>1, FoldOfAtMostOne

\* While the transfer goes on SentBytes and ReceivedBytes, which both sides
\* show as progress, differ by the packet under way and by nothing else.
THEOREM CountersAgreeHolds == Spec => []CountersAgree
<1>1. CInv => CountersAgree
  <2> SUFFICES ASSUME CInv, Transferring PROVE CountersAgree
    BY DEF CountersAgree
  <2>1. /\ toSender.queue \in Seq(Packets) /\ toReceiver.queue \in Seq(Packets)
        /\ sending.SentBytes \in Nat /\ receiving.ReceivedBytes \in Nat
    BY DEF CInv, IInv, Types, Streams, Sendings, Receivings
  <2>2. Len(toReceiver.queue) + Len(toSender.queue) = 1
    BY DEF CInv, IInv, StopAndWait
  <2> DEFINE m == Len(toReceiver.queue)
             n == Len(toSender.queue)
  <2>3. (m = 1 /\ n = 0) \/ (m = 0 /\ n = 1)
    <3>1. m \in Nat /\ n \in Nat
      BY <2>1, LenProperties
    <3>2. m + n = 1
      BY <2>2
    <3> HIDE DEF m, n
    <3> QED
      BY <3>1, <3>2
  <2>4. ASSUME NEW q \in Seq(Packets), NEW header, Len(q) = 0
        PROVE  BytesIn(q, header) = 0
    BY <2>4, FoldOfNone
  <2>5. ASSUME NEW q \in Seq(Packets), NEW header, Len(q) = 1
        PROVE  BytesIn(q, header) = 0 + BytesOf(q[1], header)
    BY <2>5, FoldOfOne
  <2>6. CASE m = 1 /\ n = 0
    <3>1. BytesIn(toSender.queue, "ALREADYHAVE") = 0
      BY <2>1, <2>4, <2>6
    <3>2. BytesIn(toReceiver.queue, "FILEBYTES") = 0 + BytesOf(toReceiver.queue[1], "FILEBYTES")
      BY <2>1, <2>5, <2>6
    <3>3. sending.SentBytes = receiving.ReceivedBytes + BytesOf(toReceiver.queue[1], "FILEBYTES")
      BY <2>6 DEF CInv, CountedButOne
    <3>4. BytesOf(toReceiver.queue[1], "FILEBYTES") \in Nat
      BY <2>1, <2>6 DEF BytesOf, Packets, Content
    <3> QED
      BY <2>1, <3>1, <3>2, <3>3, <3>4 DEF CountersAgree
  <2>7. CASE m = 0 /\ n = 1
    <3>1. BytesIn(toReceiver.queue, "FILEBYTES") = 0
      BY <2>1, <2>4, <2>7
    <3>2. BytesIn(toSender.queue, "ALREADYHAVE") = 0 + BytesOf(toSender.queue[1], "ALREADYHAVE")
      BY <2>1, <2>5, <2>7
    <3>3. sending.SentBytes + BytesOf(toSender.queue[1], "ALREADYHAVE") = receiving.ReceivedBytes
      BY <2>7 DEF CInv, CountedButOne
    <3>4. BytesOf(toSender.queue[1], "ALREADYHAVE") \in Nat
      <4>1. toSender.queue[1] \in Packets
        BY <2>1, <2>7
      <4> DEFINE p == toSender.queue[1]
      <4> HIDE DEF p
      <4>2. p.hdr = "ALREADYHAVE" => p.id \in FileIDs
        BY <4>1 DEF Packets, IDsOf, p
      <4>3. \A f \in FileIDs : Len(offered[f]) \in Nat
        BY ReceivingFacts DEF CInv
      <4> QED
        BY <4>2, <4>3 DEF BytesOf, p
    <3> QED
      BY <2>1, <3>1, <3>2, <3>3, <3>4 DEF CountersAgree
  <2> QED
    BY <2>3, <2>6, <2>7
<1> QED
  BY <1>1, CountersInvariant, PTL

=============================================================================
