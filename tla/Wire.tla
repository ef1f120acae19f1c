-------------------------------- MODULE Wire --------------------------------
(***************************************************************************)
(* One direction of the connection in bytes (protocol/send.go, recv.go):   *)
(* a node writes packets with SendPacket; the ReceivePackets goroutine of  *)
(* the other reads sizes and bodies, as many bytes at a time as there are, *)
(* and puts packets into the pipe, which holds PIPE of them; the main loop *)
(* takes them from there, decrypts and decodes them.                       *)
(*                                                                         *)
(* The connection may end at any byte.  Wire implements PacketStream, the  *)
(* stream of packets that the rest of the model is built on.               *)
(***************************************************************************)
EXTENDS PacketCodec

CONSTANTS
  Key,       \* the encryption key
  Messages,  \* what may be said, apart from the key and the file's bytes
  FileID, FileContent,  \* the file that is sent in pieces
  BUFFER,    \* the most bytes that connection.Read is asked for (8192)
  PIPE,      \* what packetPipe holds (100)
  MaxSent    \* bound: how many packets follow the key

KeyMessage == [header |-> "ENCRKEY", value |-> Key]

ASSUME WireAssumption ==
  /\ Key \in Bytes \ {<<>>} /\ "ENCRKEY" \in Headers /\ Fits(Packet(KeyMessage, Key))
  /\ \A m \in Messages :
       IsMessage(m) /\ m.header \notin {"ENCRKEY", "FILEBYTES"} /\ Fits(Packet(m, Key))
  /\ FileID \in Word /\ FileContent \in Bytes
  /\ BUFFER \in Nat \ {0} /\ PIPE \in Nat \ {0} /\ MaxSent \in Nat

VARIABLES
  \* the writing node
  sent,       \* how many packets it has written, the key's included
  SentBytes,  \* how many bytes of the file
  \* the connection
  bytes,      \* written and not yet read
  ended,      \* it is closed or lost
  \* ReceivePackets
  reading,    \* "size", "body", "packet" (has one for the pipe) or "closed" (has closed it)
  left,       \* how many bytes of the packet are still to come
  buffer,     \* packetBuffer
  pipe,       \* packetPipe
  \* the main loop
  key,        \* EncryptionKey, <<>> for nil
  \* what has been said and not heard, and whether all that was heard was right
  owed,
  right

vars == <<sent, SentBytes, bytes, ended, reading, left, buffer, pipe, key, owed, right>>

-----------------------------------------------------------------------------
(* The writer.                                                             *)

\* ToBytes refuses what is too big, and no caller looks at that.  What is
\* written to a connection that has ended vanishes.
SendPacket(message) ==
  LET packet == Packet(message, Key)
  IN  /\ sent' = sent + 1
      /\ \/ ended /\ UNCHANGED <<bytes, owed>>
         \/ /\ ~ended
            /\ owed' = Append(owed, message)
            /\ bytes' = IF Fits(packet) THEN bytes \o ToBytes(packet) ELSE bytes
      /\ UNCHANGED <<ended, reading, left, buffer, pipe, key, right>>

SendEncryptionKey == sent = 0 /\ SendPacket(KeyMessage) /\ UNCHANGED SentBytes

MaySend == sent \in 1 .. MaxSent

Send(message) == MaySend /\ SendPacket(message) /\ UNCHANGED SentBytes

PieceLength == LET rest == Len(FileContent) - SentBytes
               IN  IF rest < PieceBudget THEN rest ELSE PieceBudget

SendPiece ==
  /\ MaySend /\ SentBytes # Len(FileContent)
  /\ SendPacket([header |-> "FILEBYTES",
                 value |-> [ID |-> FileID,
                            bytes |-> SubSeq(FileContent, SentBytes + 1, SentBytes + PieceLength)]])
  /\ SentBytes' = SentBytes + PieceLength

-----------------------------------------------------------------------------
(* ReceivePackets.                                                         *)

\* Mutant of ReadSize: an end there is taken for bytes that are still to come.
ReadSizeWaits ==
  /\ reading = "size" /\ Len(bytes) >= WORD
  /\ left' = NumberAt(bytes, 1) /\ buffer' = <<>>
  /\ bytes' = SubSeq(bytes, WORD + 1, Len(bytes))
  /\ reading' = "body"
  /\ UNCHANGED <<sent, SentBytes, ended, pipe, key, owed, right>>

\* binary.Read waits for all bytes of the size, and fails when they cannot come.
ReadSize ==
  /\ reading = "size"
  /\ \/ /\ Len(bytes) >= WORD
        /\ left' = NumberAt(bytes, 1) /\ buffer' = <<>>
        /\ bytes' = SubSeq(bytes, WORD + 1, Len(bytes))
        /\ reading' = "body"
     \/ /\ Len(bytes) < WORD /\ ended
        /\ reading' = "closed"
        /\ UNCHANGED <<left, buffer, bytes>>
  /\ UNCHANGED <<sent, SentBytes, ended, pipe, key, owed, right>>

\* Mutant of ReadBody: a whole buffer is asked for although less is left.
ReadBodyOver ==
  /\ reading = "body" /\ left > 0
  /\ \E read \in 1 .. Min({BUFFER, Len(bytes)}) :
       /\ left' = Max({left - read, 0})
       /\ buffer' = buffer \o SubSeq(bytes, 1, read)
       /\ bytes' = SubSeq(bytes, read + 1, Len(bytes))
  /\ UNCHANGED <<sent, SentBytes, ended, reading, pipe, key, owed, right>>

\* connection.Read gives what it has.  When the connection has ended it gives
\* nothing, its error is dropped, and the loop goes round without a change.
ReadBody ==
  /\ reading = "body" /\ left > 0
  /\ \E read \in 1 .. Min({left, BUFFER, Len(bytes)}) :
       /\ left' = left - read
       /\ buffer' = buffer \o SubSeq(bytes, 1, read)
       /\ bytes' = SubSeq(bytes, read + 1, Len(bytes))
  /\ UNCHANGED <<sent, SentBytes, ended, reading, pipe, key, owed, right>>

EndBody ==
  /\ reading = "body" /\ left = 0
  /\ reading' = IF HasDelimiter(buffer) THEN "packet" ELSE "closed"
  /\ UNCHANGED <<sent, SentBytes, bytes, ended, left, buffer, pipe, key, owed, right>>

\* Mutant of FillPipe: it does not wait.
FillPipeOver ==
  /\ reading = "packet"
  /\ pipe' = Append(pipe, BytesToPacket(buffer))
  /\ reading' = "size" /\ buffer' = <<>>
  /\ UNCHANGED <<sent, SentBytes, bytes, ended, left, key, owed, right>>

\* Waits while the pipe is full.
FillPipe ==
  /\ reading = "packet" /\ Len(pipe) < PIPE
  /\ pipe' = Append(pipe, BytesToPacket(buffer))
  /\ reading' = "size" /\ buffer' = <<>>
  /\ UNCHANGED <<sent, SentBytes, bytes, ended, left, key, owed, right>>

ReceivePackets == ReadSize \/ ReadBody \/ EndBody \/ FillPipe

-----------------------------------------------------------------------------
(* The main loop: it takes a packet, decrypts the body if there is a key   *)
(* and a body, and reads what the header says.                             *)

Decrypted(packet) ==
  IF key # <<>> /\ packet.Body # <<>> THEN Decrypt(key, packet.Body) ELSE packet.Body

Heard(packet) ==
  Decoded(CHOOSE h \in Headers : HeaderOf[h] = packet.Header, Decrypted(packet))

TakePacket ==
  /\ pipe # <<>>
  /\ LET packet == Head(pipe)
     IN  /\ right' = (right /\ owed # <<>> /\ Heard(packet) = Head(owed))
         /\ key' = IF packet.Header = HeaderOf["ENCRKEY"] THEN Heard(packet).value ELSE key
  /\ pipe' = Tail(pipe) /\ owed' = Tail(owed)
  /\ UNCHANGED <<sent, SentBytes, bytes, ended, reading, left, buffer>>

-----------------------------------------------------------------------------

\* Closed by the writer, or lost with some of what it has written.
EndConnection ==
  /\ ~ended /\ ended' = TRUE
  /\ \E k \in 0 .. Len(bytes) : bytes' = SubSeq(bytes, 1, k)
  /\ UNCHANGED <<sent, SentBytes, reading, left, buffer, pipe, key, owed, right>>

Init ==
  /\ sent = 0 /\ SentBytes = 0
  /\ bytes = <<>> /\ ended = FALSE
  /\ reading = "size" /\ left = 0 /\ buffer = <<>> /\ pipe = <<>>
  /\ key = <<>>
  /\ owed = <<>> /\ right = TRUE

Next ==
  \/ SendEncryptionKey
  \/ \E message \in Messages : Send(message)
  \/ SendPiece
  \/ ReceivePackets
  \/ TakePacket
  \/ EndConnection

Spec == Init /\ [][Next]_vars

\* The goroutine and the main loop go on as long as they can.
FairSpec == Spec /\ WF_vars(ReceivePackets) /\ WF_vars(TakePacket)

-----------------------------------------------------------------------------
(* The stream of packets behind the bytes.                                 *)

\* What the goroutine is in the middle of, put back before what it has not read.
Unread ==
  CASE reading = "size" -> bytes
    [] reading \in {"body", "packet"} -> Uint64(Len(buffer) + left) \o buffer \o bytes
    [] reading = "closed" -> <<>>

\* Where the first packet ends, and whether all of it is there.
FirstEnd(stream) == WORD + NumberAt(stream, 1)
FirstIsWhole(stream) == Len(stream) >= WORD /\ Len(stream) >= FirstEnd(stream)

\* The whole packets in a sequence of bytes, and how many bytes come after them.
Parsed[stream \in Bytes] ==
  IF FirstIsWhole(stream)
    THEN LET rest == Parsed[SubSeq(stream, FirstEnd(stream) + 1, Len(stream))]
         IN  [packets |-> <<BytesToPacket(SubSeq(stream, WORD + 1, FirstEnd(stream)))>> \o rest.packets,
              remainder |-> rest.remainder]
    ELSE [packets |-> <<>>, remainder |-> Len(stream)]

\* What comes after the whole packets is less than a size, or some of a packet.
Stream ==
  LET parsed == Parsed[Unread]
  IN  [queue |-> pipe \o parsed.packets,
       end |-> IF ~ended THEN "open" ELSE IF parsed.remainder < WORD THEN "eof" ELSE "torn"]

S == INSTANCE PacketStream WITH channel <- Stream, Faults <- {"torn"}

-----------------------------------------------------------------------------
(* Properties.                                                             *)

TypeOK ==
  /\ sent \in 0 .. MaxSent + 1 /\ SentBytes \in 0 .. Len(FileContent)
  /\ bytes \in Bytes /\ ended \in BOOLEAN
  /\ reading \in {"size", "body", "packet", "closed"}
  /\ left \in Nat /\ buffer \in Bytes /\ Len(buffer) + left <= MAXPACKETSIZE
  /\ pipe \in Seq([Header : Bytes, Body : Bytes]) /\ Len(pipe) <= PIPE
  /\ key \in {<<>>, Key}

\* However the bytes are split into reads and wherever the connection ends,
\* whole packets come out in order, and the end is one that Stream knows.
ImplementsStream == S!Spec

\* What the main loop understands is what was meant: framing, delimiter,
\* encryption and the fields of the body undo what the other end has done, and
\* no packet is missing because it was too big to be sent.
HeardAsSaid == right

\* Only what encryption has made is decrypted: a failure would end the node.
DecryptsWhatIsEncrypted ==
  pipe # <<>> /\ key # <<>> /\ Head(pipe).Body # <<>> => CanDecrypt(key, Head(pipe).Body)

\* A connection that ends between two packets, or inside a size, is noticed:
\* the pipe is closed once everything that came has been taken.
EndIsNoticed == Stream.end = "eof" ~> reading = "closed" /\ pipe = <<>>

=============================================================================
