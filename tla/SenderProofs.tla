---------------------------- MODULE SenderProofs ----------------------------
(***************************************************************************)
(* Every step of the sender keeps the inductive invariant: from accepting  *)
(* the connection to BYE!.  The transfer section is proved once, for a     *)
(* sender that holds the turn (SectionStep), and cited by READY,           *)
(* ALREADYHAVE and ACCEPT.  So is, for both nodes, a step that only takes  *)
(* packets away (ShrunkStep): an exit, a death, a lost connection.  Before *)
(* them come the facts about the checksum, the packets and the streams.    *)
(***************************************************************************)
EXTENDS TransferInvariant, TLAPS, SequenceTheorems

-----------------------------------------------------------------------------
(* The checksum, the packets and the streams.                              *)

\* Every captured byte lies inside a file that is long enough to be sampled.
LEMMA SampledInside ==
  ASSUME NEW j \in 1 .. CapturedSize
  PROVE  SampledAt(j) \in 1 .. SampledSize
<1> DEFINE q == (j - 1) \div CHUNKSIZE
           r == (j - 1) % CHUNKSIZE
           stride == CHUNKSIZE + STEP
<1>1. CHUNKS \in Nat /\ CHUNKS > 0 /\ CHUNKSIZE \in Nat /\ CHUNKSIZE > 0 /\ STEP \in Nat
  BY ChecksumAssumption
<1>2. q \in Nat /\ r \in Nat /\ r < CHUNKSIZE /\ j - 1 = CHUNKSIZE * q + r
  BY <1>1, SMTT(30) DEF CapturedSize
<1>3. q <= CHUNKS - 1
  <2>1. SUFFICES ASSUME q >= CHUNKS PROVE FALSE
    BY <1>1, <1>2
  <2>2. CHUNKSIZE * q >= CHUNKSIZE * CHUNKS
    BY <1>1, <1>2, <2>1, SMTT(30)
  <2>3. j <= CHUNKS * CHUNKSIZE
    BY DEF CapturedSize
  <2> QED
    BY <1>1, <1>2, <2>2, <2>3, SMTT(30)
<1>4. q * stride <= (CHUNKS - 1) * stride /\ q * stride >= 0
  BY <1>1, <1>2, <1>3, SMTT(30)
<1>5. (CHUNKS - 1) * stride = CHUNKS * CHUNKSIZE - CHUNKSIZE + STEP * (CHUNKS - 1)
  BY <1>1, SMTT(30)
<1>6. SampledAt(j) = q * stride + r + 1
  BY DEF SampledAt
<1>7. q * stride \in Int /\ CHUNKS * CHUNKSIZE \in Int /\ STEP * (CHUNKS - 1) \in Int
  BY <1>1, <1>2, SMTT(30)
<1> HIDE DEF q, r, stride
<1> QED
  BY <1>1, <1>2, <1>4, <1>5, <1>6, <1>7 DEF SampledSize

\* How many bytes the checksum captures is a number.
LEMMA CapturedPositive == CapturedSize \in Nat
BY ChecksumAssumption, SMTT(30) DEF CapturedSize

\* And so is the size from which files are sampled.
LEMMA SampledPositive == SampledSize \in Nat
BY ChecksumAssumption, SMTT(30) DEF SampledSize

\* A checksum is a sequence of bytes.
LEMMA ChecksumType ==
  ASSUME NEW content \in Content
  PROVE  GetPartialCheckSum(content) \in Content
<1>1. CASE Len(content) < SampledSize
  BY <1>1 DEF GetPartialCheckSum
<1>2. CASE ~(Len(content) < SampledSize)
  <2>1. \A j \in 1 .. CapturedSize : SampledAt(j) \in 1 .. Len(content)
    BY <1>2, SampledInside, SampledPositive DEF Content
  <2>2. \A j \in 1 .. CapturedSize : content[SampledAt(j)] \in Nat
    BY <2>1 DEF Content
  <2>3. [j \in 1 .. CapturedSize |-> content[SampledAt(j)]] \in Seq(Nat)
    BY <2>2, CapturedPositive
  <2> QED
    BY <1>2, <2>3 DEF GetPartialCheckSum, Content
<1> QED
  BY <1>1, <1>2

\* Two files with the same checksum, one of them hashed whole and not just as
\* long as what is captured of a large file, are the same file.
LEMMA SmallChecksum ==
  ASSUME NEW a \in Content, NEW b \in Content,
         Len(b) < SampledSize, Len(b) # CapturedSize,
         GetPartialCheckSum(a) = GetPartialCheckSum(b)
  PROVE  a = b
<1>1. GetPartialCheckSum(b) = b
  BY SampledPositive DEF GetPartialCheckSum, Content
<1>2. CASE Len(a) < SampledSize
  BY <1>1, <1>2 DEF GetPartialCheckSum
<1>3. CASE ~(Len(a) < SampledSize)
  <2>1. GetPartialCheckSum(a) = [j \in 1 .. CapturedSize |-> a[SampledAt(j)]]
    BY <1>3 DEF GetPartialCheckSum
  <2>2. Len(GetPartialCheckSum(a)) = CapturedSize
    BY <2>1, CapturedPositive
  <2> QED
    BY <1>1, <2>2, CapturedPositive DEF Content
<1> QED
  BY <1>2, <1>3

-----------------------------------------------------------------------------
(* Packets.                                                                *)

\* A packet without a body is a packet.
LEMMA BareType ==
  ASSUME NEW h \in BareHeaders \cup {"TRANSFEROFFER"}
  PROVE  Bare(h) \in Packets /\ Bare(h).hdr = h
BY DEF Bare, Packets, IDsOf, Content, BareHeaders, EncryptedHeaders

\* So is one that names a file or a symlink.
LEMMA WithIDType ==
  ASSUME NEW h \in {"ENDFILE", "ALREADYHAVE", "SYMLINK"},
         NEW id \in IDsOf(h)
  PROVE  WithID(h, id) \in Packets /\ WithID(h, id).hdr = h /\ WithID(h, id).id = id
<1>1. id \in Nat
  BY ProtocolAssumption DEF IDsOf, FileIDs, SymlinkIDs
<1>2. WithID(h, id) = [hdr |-> h, id |-> id, size |-> 0, data |-> <<>>] /\ <<>> \in Content
  BY DEF WithID, Bare, Content
<1> QED
  BY <1>1, <1>2 DEF Packets, BareHeaders, EncryptedHeaders

\* So is the announcement of a file.
LEMMA FilePacketType ==
  ASSUME NEW id \in FileIDs, NEW content \in Content
  PROVE  FilePacket(id, content) \in Packets
<1>1. id \in Nat
  BY ProtocolAssumption DEF FileIDs
<1>2. GetPartialCheckSum(content) \in Content
  BY ChecksumType
<1>3. Len(content) \in Nat
  BY DEF Content
<1> QED
  BY <1>1, <1>2, <1>3 DEF FilePacket, Packets, IDsOf, BareHeaders, EncryptedHeaders

\* So is a piece of a file.
LEMMA FileBytesPacketType ==
  ASSUME NEW id \in FileIDs, NEW bytes \in Content
  PROVE  FileBytesPacket(id, bytes) \in Packets
<1>1. id \in Nat
  BY ProtocolAssumption DEF FileIDs
<1> QED
  BY <1>1 DEF FileBytesPacket, Packets, IDsOf, BareHeaders, EncryptedHeaders

-----------------------------------------------------------------------------
(* Streams.                                                                *)

\* What Push does to an open stream, and that it does nothing to another.
LEMMA PushOne ==
  ASSUME NEW s \in Streams, NEW p \in Packets
  PROVE  /\ Push(s, <<p>>) \in Streams
         /\ Push(s, <<p>>).end = s.end
         /\ s.end # "open" => Push(s, <<p>>) = s
         /\ s.end = "open" =>
              /\ Len(Push(s, <<p>>).queue) = Len(s.queue) + 1
              /\ Push(s, <<p>>).queue[Len(s.queue) + 1] = p
              /\ \A i \in 1 .. Len(s.queue) : Push(s, <<p>>).queue[i] = s.queue[i]
<1>1. s.queue \in Seq(Packets) /\ s = [queue |-> s.queue, end |-> s.end]
  BY DEF Streams
<1>2. CASE s.end # "open"
  BY <1>2 DEF Push
<1>3. CASE s.end = "open"
  <2>1. s.queue \o <<p>> \in Seq(Packets)
    BY <1>1
  <2>2. Push(s, <<p>>) = [queue |-> s.queue \o <<p>>, end |-> "open"]
    BY <1>1, <1>3 DEF Push
  <2>3. /\ Len(s.queue \o <<p>>) = Len(s.queue) + 1
        /\ (s.queue \o <<p>>)[Len(s.queue) + 1] = p
        /\ \A i \in 1 .. Len(s.queue) : (s.queue \o <<p>>)[i] = s.queue[i]
    BY <1>1
  <2> QED
    <3>1. Push(s, <<p>>).end = "open" /\ Push(s, <<p>>).queue = s.queue \o <<p>>
      BY <2>2
    <3>2. Push(s, <<p>>) \in Streams
      BY <2>1, <2>2 DEF Streams
    <3> QED
      BY <1>3, <2>3, <3>1, <3>2
<1> QED
  BY <1>2, <1>3

\* The one packet in a queue that was empty.
LEMMA PushedOnly ==
  ASSUME NEW q \in Streams, q.queue = <<>>, NEW p \in Packets
  PROVE  \A i \in 1 .. Len(Push(q, <<p>>).queue) : Push(q, <<p>>).queue[i] = p
<1> DEFINE r == Push(q, <<p>>)
<1>1. /\ q.end # "open" => r = q
      /\ q.end = "open" => Len(r.queue) = 0 + 1 /\ r.queue[0 + 1] = p
  BY PushOne
<1> HIDE DEF r
<1>2. \A i \in 1 .. Len(r.queue) : r.queue[i] = p
  BY <1>1
<1> QED
  BY <1>2 DEF r

\* Writing nothing changes nothing.
LEMMA PushNone ==
  ASSUME NEW s \in Streams
  PROVE  Push(s, <<>>) = s
BY DEF Push, Streams

\* What Pop takes, and what it leaves, one place further on.
LEMMA PopOne ==
  ASSUME NEW s \in Streams, s.queue # <<>>
  PROVE  /\ Pop(s) \in Streams
         /\ Pop(s).end = s.end
         /\ Len(s.queue) >= 1
         /\ Len(Pop(s).queue) = Len(s.queue) - 1
         /\ \A i \in 1 .. Len(Pop(s).queue) : Pop(s).queue[i] = s.queue[i + 1]
         /\ Head(s.queue) = s.queue[1] /\ Head(s.queue) \in Packets
BY DEF Pop, Streams

\* A closed stream keeps its packets.
LEMMA CloseOne ==
  ASSUME NEW s \in Streams
  PROVE  /\ Close(s) \in Streams /\ Close(s).end # "open" /\ Close(s).queue = s.queue
BY DEF Close, Streams

\* A cut leaves a beginning of what was in flight.
LEMMA CutOne ==
  ASSUME NEW s \in Streams, NEW c \in Cut(s)
  PROVE  /\ c \in Streams /\ c.end # "open"
         /\ Len(c.queue) <= Len(s.queue)
         /\ \A i \in 1 .. Len(c.queue) : c.queue[i] = s.queue[i]
<1>1. CASE s.end # "open"
  BY <1>1 DEF Cut, Streams
<1>2. CASE s.end = "open"
  <2>1. PICK k \in 0 .. Len(s.queue), e \in {"eof", "torn"} :
          c = [queue |-> SubSeq(s.queue, 1, k), end |-> e]
    BY <1>2 DEF Cut, Streams
  <2> QED
    BY <2>1 DEF Streams
<1> QED
  BY <1>1, <1>2

\* A queue of no packets is the empty one.
LEMMA EmptyQueue ==
  ASSUME NEW s \in Streams, Len(s.queue) = 0
  PROVE  s.queue = <<>>
BY DEF Streams

\* A queue of one packet has one place.
LEMMA SingleQueue ==
  ASSUME NEW queue, Len(queue) = 1
  PROVE  queue # <<>> /\ \A i \in 1 .. Len(queue) : i = 1
OBVIOUS

-----------------------------------------------------------------------------
(* The sender's list.                                                      *)

\* What remains from an ID on begins with that ID, and removing the first
\* element leaves what remains from the next one on.
LEMMA RemainingFacts ==
  ASSUME NEW id \in 0 .. NumFiles
  PROVE  /\ Remaining(id) \in Seq(FileIDs)
         /\ Remaining(id) = <<>> <=> id = NumFiles
         /\ id < NumFiles =>
              /\ Len(Remaining(id)) >= 1 /\ Remaining(id)[1] = id
              /\ RemoveAt(Remaining(id), 1) = Remaining(id + 1)
<1>1. NumFiles \in Nat
  BY ProtocolAssumption
<1>2. Remaining(id) \in Seq(FileIDs) /\ Len(Remaining(id)) = NumFiles - id
  BY <1>1 DEF Remaining, FileIDs
<1>3. ASSUME id < NumFiles
      PROVE  /\ Len(Remaining(id)) >= 1 /\ Remaining(id)[1] = id
             /\ RemoveAt(Remaining(id), 1) = Remaining(id + 1)
  <2>1. Len(Remaining(id)) >= 1 /\ Remaining(id)[1] = id
    BY <1>1, <1>2, <1>3 DEF Remaining
  <2>2. SubSeq(Remaining(id), 1, 0) = <<>>
    BY <1>2
  <2>3. SubSeq(Remaining(id), 2, NumFiles - id) = Remaining(id + 1)
    BY <1>1, <1>2, <1>3 DEF Remaining
  <2>4. Remaining(id + 1) \in Seq(FileIDs)
    BY <1>1, <1>3 DEF Remaining, FileIDs
  <2>5. <<>> \o Remaining(id + 1) = Remaining(id + 1)
    BY <2>4
  <2> QED
    BY <1>2, <2>1, <2>2, <2>3, <2>5 DEF RemoveAt
<1> QED
  BY <1>1, <1>2, <1>3

\* The search for the current file finds it at the head of the list.
LEMMA CurrentIsFirst ==
  ASSUME NEW s, s.CurrentFileID \in 0 .. NumFiles - 1,
         s.FilesToSend = Remaining(s.CurrentFileID)
  PROVE  CurrentFileIndex(s) = 1
<1> DEFINE hits == {i \in 1 .. Len(s.FilesToSend) : s.FilesToSend[i] = s.CurrentFileID}
<1>1. s.CurrentFileID \in 0 .. NumFiles /\ s.CurrentFileID < NumFiles
  BY ProtocolAssumption
<1>2. Len(s.FilesToSend) \in Nat /\ Len(s.FilesToSend) >= 1 /\ s.FilesToSend[1] = s.CurrentFileID
  BY <1>1, RemainingFacts
<1>3. 1 \in hits /\ \A k \in hits : k \in Nat /\ 1 <= k
  BY <1>2
<1>4. (CHOOSE i \in hits : \A k \in hits : i <= k) = 1
  <2>1. \A i \in hits : (\A k \in hits : i <= k) => i = 1
    BY <1>3
  <2>2. \E i \in hits : \A k \in hits : i <= k
    BY <1>3
  <2> QED
    BY <2>1, <2>2
<1> QED
  BY <1>3, <1>4 DEF CurrentFileIndex

\* What one pass of the transfer section may do once the offer is accepted.
LEMMA SectionOutcome ==
  ASSUME NEW s \in Sendings, ListsOf(s), Types,
         s.AllowedToTransfer, s.InTransfer => s.CanSendBytes, TransferSection(s)
  PROVE  \/ /\ s.CurrentFileID = NumFiles /\ s.CurrentSymlinkIndex < NumSymlinks
            /\ Continue([s EXCEPT !.CurrentSymlinkIndex = @ + 1],
                        <<WithID("SYMLINK", s.CurrentSymlinkIndex + 1)>>)
         \/ /\ s.CurrentFileID = NumFiles /\ s.CurrentSymlinkIndex = NumSymlinks
            /\ Continue([s EXCEPT !.stopped = TRUE], <<Bare("DONE")>>)
         \/ /\ s.CurrentFileID < NumFiles /\ ~s.InTransfer
            /\ Continue([s EXCEPT !.InTransfer = TRUE],
                        <<FilePacket(s.CurrentFileID, offered[s.CurrentFileID])>>)
         \/ /\ s.CurrentFileID < NumFiles /\ s.InTransfer
            /\ Unsent(s, s.CurrentFileID) = 0
            /\ Continue([s EXCEPT !.FilesToSend = Remaining(s.CurrentFileID + 1),
                                  !.CurrentFileID = @ + 1, !.InTransfer = FALSE],
                        <<WithID("ENDFILE", s.CurrentFileID)>>)
         \/ /\ s.CurrentFileID < NumFiles /\ s.InTransfer
            /\ Unsent(s, s.CurrentFileID) # 0 /\ Readable(s, s.CurrentFileID)
            /\ SendBytes(s, s.CurrentFileID)
         \/ Panic(s)
         \/ Panic([s EXCEPT !.stopped = TRUE])
<1> DEFINE c == s.CurrentFileID
<1>1. c \in 0 .. NumFiles /\ s.FilesToSend = Remaining(c)
  BY ProtocolAssumption DEF ListsOf, Sendings
<1>2. s.FilesToSend = <<>> <=> c = NumFiles
  BY <1>1, RemainingFacts
<1>3. CASE SendNextSymlink(s)
  <2>1. s.SymlinksToSend = AllSymlinks /\ Len(AllSymlinks) = NumSymlinks
    BY ProtocolAssumption DEF ListsOf, AllSymlinks
  <2>2. s.CurrentSymlinkIndex \in Nat
    BY DEF Sendings
  <2>3. s.CurrentSymlinkIndex < NumSymlinks
    BY <1>3, <2>1 DEF SendNextSymlink
  <2>4. s.SymlinksToSend[s.CurrentSymlinkIndex + 1] = s.CurrentSymlinkIndex + 1
    BY <2>1, <2>2, <2>3, ProtocolAssumption DEF AllSymlinks
  <2> QED
    BY <1>2, <1>3, <2>3, <2>4 DEF SendNextSymlink
<1>4. CASE SendDone(s)
  <2>1. s.SymlinksToSend = AllSymlinks /\ Len(AllSymlinks) = NumSymlinks
    BY ProtocolAssumption DEF ListsOf, AllSymlinks
  <2> QED
    BY <1>2, <1>4, <2>1 DEF SendDone
<1>5. CASE s.FilesToSend # <<>> /\ (AnnounceFile(s) \/ SendPiece(s) \/ Await(s))
  <2>1. c \in 0 .. NumFiles - 1 /\ c < NumFiles
    BY <1>1, <1>2, <1>5, ProtocolAssumption
  <2>2. CurrentFileIndex(s) = 1 /\ s.FilesToSend[1] = c
        /\ RemoveAt(s.FilesToSend, 1) = Remaining(c + 1)
    BY <1>1, <2>1, CurrentIsFirst, RemainingFacts
  <2>3. CASE AnnounceFile(s)
    BY <2>1, <2>2, <2>3 DEF AnnounceFile
  <2>4. CASE SendPiece(s)
    <3>1. CASE Unsent(s, c) = 0 /\ EndFile(s, 1)
      BY <2>1, <2>2, <2>4, <3>1 DEF SendPiece, EndFile
    <3> QED
      BY <2>1, <2>2, <2>4, <3>1 DEF SendPiece
  <2>5. CASE Await(s)
    BY <2>5 DEF Await
  <2> QED
    BY <1>5, <2>3, <2>4, <2>5
<1> QED
  BY <1>3, <1>4, <1>5 DEF TransferSection, AnnounceFile, SendPiece, Await

\* Whatever the transfer section does to a state, it only counts up.
Counted(s) ==
  /\ sending'.AllowedToTransfer = s.AllowedToTransfer
  /\ s.CurrentFileID <= sending'.CurrentFileID

\* All of its alternatives count so.
LEMMA SectionCounts ==
  ASSUME NEW s \in Sendings, TransferSection(s)
  PROVE  Counted(s)
<1>1. s.CurrentFileID \in Nat
  BY DEF Sendings
<1>2. CASE \/ sending' \in {s, [s EXCEPT !.CurrentSymlinkIndex = @ + 1],
                               [s EXCEPT !.stopped = TRUE], [s EXCEPT !.InTransfer = TRUE]}
           \/ \E index : EndFile(s, index)
           \/ \E id : SendBytes(s, id)
  <2>1. CASE sending' \in {s, [s EXCEPT !.CurrentSymlinkIndex = @ + 1],
                           [s EXCEPT !.stopped = TRUE], [s EXCEPT !.InTransfer = TRUE]}
    <3>1. CASE sending' = s
      BY <1>1, <3>1 DEF Counted
    <3>2. CASE sending' = [s EXCEPT !.CurrentSymlinkIndex = @ + 1]
      BY <1>1, <3>2 DEF Counted, Sendings
    <3>3. CASE sending' = [s EXCEPT !.stopped = TRUE]
      BY <1>1, <3>3 DEF Counted, Sendings
    <3>4. CASE sending' = [s EXCEPT !.InTransfer = TRUE]
      BY <1>1, <3>4 DEF Counted, Sendings
    <3> QED
      BY <2>1, <3>1, <3>2, <3>3, <3>4
  <2>2. ASSUME NEW index, EndFile(s, index) PROVE Counted(s)
    <3>1. sending' = [s EXCEPT !.FilesToSend = RemoveAt(@, index), !.CurrentFileID = @ + 1,
                               !.InTransfer = FALSE]
      BY <2>2 DEF EndFile, Continue
    <3> QED
      BY <1>1, <3>1 DEF Counted, Sendings
  <2>3. ASSUME NEW id, SendBytes(s, id) PROVE Counted(s)
    <3>1. sending' = [s EXCEPT !.fileSent[id] = @ + PieceLength(s, id),
                               !.SentBytes = @ + PieceLength(s, id), !.CanSendBytes = FALSE]
      BY <2>3 DEF SendBytes, Continue
    <3> QED
      BY <1>1, <3>1 DEF Counted, Sendings
  <2> QED
    BY <1>2, <2>1, <2>2, <2>3 DEF Counted
<1>3. CASE SendNextSymlink(s) \/ SendDone(s) \/ Await(s) \/ AnnounceFile(s)
  BY <1>2, <1>3 DEF SendNextSymlink, SendDone, Await, AnnounceFile, Continue, Panic
<1>4. CASE SendPiece(s)
  BY <1>2, <1>4 DEF SendPiece, Panic
<1> QED
  BY <1>3, <1>4 DEF TransferSection, Counted

-----------------------------------------------------------------------------
(* The sender's steps while the transfer is under way.                     *)

\* The sender has taken the one packet there was and is in state s.
HoldsToken(s) ==
  /\ s \in Sendings /\ s.AllowedToTransfer /\ ~s.stopped
  /\ ListsOf(s)
  /\ \A f \in FileIDs : s.fileSent[f] <= Len(offered[f])
  /\ toReceiver.queue = <<>> /\ toSender'.queue = <<>>
  /\ toSender' \in Streams /\ toSender'.end = toSender.end
  /\ prompt = "yes" /\ ~receiving.stopped
  /\ CheckedBelow(s.CurrentFileID)
  /\ s.InTransfer => s.CanSendBytes /\ AcceptedIs(s.CurrentFileID, s.fileSent[s.CurrentFileID])
  /\ ~s.InTransfer => NothingAccepted

\* What such a step leaves alone.
OnlySection ==
  /\ senderPc = "loop"
  /\ UNCHANGED <<offerPc, served, offered, receiverVars, session, edits>>

\* Everything but what the step changes.
LEMMA SectionFrame ==
  ASSUME IInv, OnlySection, NEW s, HoldsToken(s),
         sending' \in Sendings, sending'.AllowedToTransfer,
         toReceiver' \in Streams,
         ListsOf(sending'),
         \A f \in FileIDs : sending'.fileSent[f] <= Len(offered[f]),
         senderPc' \in {"loop", "panic"},
         senderPc' = "panic" => toReceiver'.end # "open",
         toReceiver.end # "open" => toReceiver' = toReceiver,
         Len(toReceiver'.queue) <= 1
  PROVE  Types' /\ Lists' /\ EndedStreams' /\ Unconnected' /\ KeyAhead'
           /\ Offering' /\ Asking' /\ Rejected'
<1> USE DEF OnlySection, HoldsToken, receiverVars
<1>0. Types /\ Lists /\ EndedStreams /\ Unconnected /\ KeyAhead
  BY DEF IInv
<1>1. Types'
  <2>1. senderPc' \in {"listen", "loop"} \cup Ended /\ toSender' \in Streams
    BY DEF Ended
  <2> QED
    BY <1>0, <2>1 DEF Types
<1>2. Lists'
  BY DEF Lists, ListsOf
<1>3. EndedStreams'
  BY <1>0 DEF EndedStreams, Ended
<1>4. Unconnected'
  BY <1>0 DEF Unconnected
<1>5. KeyAhead'
  BY <1>0 DEF KeyAhead
<1>6. Offering' /\ Asking' /\ Rejected'
  BY DEF Offering, Asking, Rejected
<1> QED
  BY <1>1, <1>2, <1>3, <1>4, <1>5, <1>6

\* The pushed packet is the one on its way.
LEMMA SectionPush ==
  ASSUME IInv, OnlySection, NEW s, HoldsToken(s), NEW p \in Packets,
         NEW t \in Sendings,
         t.AllowedToTransfer, ~t.stopped, ListsOf(t),
         \A f \in FileIDs : t.fileSent[f] <= Len(offered[f]),
         Continue(t, <<p>>),
         Outbound(p)'
  PROVE  IInv'
<1> USE DEF OnlySection, receiverVars
<1>1. toReceiver \in Streams /\ toReceiver.queue = <<>> /\ Len(toReceiver.queue) = 0
  BY DEF IInv, Types, HoldsToken
<1>2. /\ toReceiver' = Push(toReceiver, <<p>>) /\ sending' = t /\ senderPc' = "loop"
  BY DEF Continue
<1>3. /\ toReceiver' \in Streams /\ toReceiver'.end = toReceiver.end
      /\ toReceiver.end # "open" => toReceiver' = toReceiver
      /\ toReceiver.end = "open" => Len(toReceiver'.queue) = 1 /\ toReceiver'.queue[1] = p
  <2> DEFINE pushed == Push(toReceiver, <<p>>)
  <2>1. /\ pushed \in Streams /\ pushed.end = toReceiver.end
        /\ toReceiver.end # "open" => pushed = toReceiver
    BY <1>1, PushOne
  <2>2. toReceiver.end = "open" => Len(pushed.queue) = 0 + 1 /\ pushed.queue[0 + 1] = p
    BY <1>1, PushOne
  <2> HIDE DEF pushed
  <2>3. toReceiver' = pushed
    BY <1>2 DEF pushed
  <2> QED
    BY <2>1, <2>2, <2>3
<1>4. Len(toReceiver'.queue) <= 1 /\ \A i \in 1 .. Len(toReceiver'.queue) : toReceiver'.queue[i] = p
  <2>1. CASE toReceiver.end = "open"
    <3>1. Len(toReceiver'.queue) = 1 /\ toReceiver'.queue[1] = p
      BY <1>3, <2>1
    <3>2. \A i \in 1 .. Len(toReceiver'.queue) : i = 1
      BY <3>1
    <3> QED
      BY <3>1, <3>2
  <2>2. CASE toReceiver.end # "open"
    BY <1>1, <1>3, <2>2
  <2> QED
    BY <2>1, <2>2
<1>5. Types' /\ Lists' /\ EndedStreams' /\ Unconnected' /\ KeyAhead'
        /\ Offering' /\ Asking' /\ Rejected'
  BY <1>2, <1>3, <1>4, SectionFrame
<1>6. Len(toSender'.queue) = 0
  BY DEF HoldsToken
<1>7. UnderWay'
  BY <1>2, <1>4, <1>6, <1>3 DEF UnderWay, HoldsToken, Streams
<1>8. Over'
  BY <1>2 DEF Over
<1>9. StopAndWait'
  BY <1>1, <1>3, <1>6 DEF StopAndWait, Transferring
<1> QED
  BY <1>5, <1>7, <1>8, <1>9 DEF IInv

\* One pass of the transfer section by a sender that holds the token.
LEMMA SectionStep ==
  ASSUME IInv, OnlySection, NEW s, HoldsToken(s), TransferSection(s)
  PROVE  IInv'
<1> DEFINE c == s.CurrentFileID
<1> USE DEF OnlySection, receiverVars
<1>0. Types /\ s \in Sendings /\ ListsOf(s) /\ c \in 0 .. NumFiles /\ NumFiles \in Nat
  BY ProtocolAssumption DEF IInv, HoldsToken, ListsOf, Sendings
<1>b. s.AllowedToTransfer /\ ~s.stopped /\ \A f \in FileIDs : s.fileSent[f] <= Len(offered[f])
  BY DEF HoldsToken
<1>a. c < NumFiles => c \in FileIDs /\ c \in Nat /\ Len(offered[c]) \in Nat /\ offered[c] \in Content
                        /\ served[c] \in Content /\ s.fileSent[c] \in Nat /\ s.fileSent[c] <= Len(offered[c])
  <2>1. c < NumFiles => c \in FileIDs /\ c \in Nat
    BY <1>0 DEF FileIDs
  <2>2. \A f \in FileIDs : offered[f] \in Content /\ served[f] \in Content
    BY <1>0 DEF Types
  <2>3. \A f \in FileIDs : s.fileSent[f] \in Nat
    BY <1>0 DEF Sendings
  <2>4. \A b \in Content : Len(b) \in Nat
    BY DEF Content
  <2> QED
    BY <1>b, <2>1, <2>2, <2>3, <2>4
<1>1. CASE /\ c = NumFiles /\ s.CurrentSymlinkIndex < NumSymlinks
           /\ Continue([s EXCEPT !.CurrentSymlinkIndex = @ + 1],
                       <<WithID("SYMLINK", s.CurrentSymlinkIndex + 1)>>)
  <2> DEFINE t == [s EXCEPT !.CurrentSymlinkIndex = @ + 1]
             p == WithID("SYMLINK", s.CurrentSymlinkIndex + 1)
  <2>1. s.CurrentSymlinkIndex + 1 \in IDsOf("SYMLINK")
    BY <1>0, <1>1, ProtocolAssumption DEF IDsOf, SymlinkIDs, Sendings
  <2>2. p \in Packets /\ p.hdr = "SYMLINK"
    BY <2>1, WithIDType
  <2>3. t \in Sendings /\ t.AllowedToTransfer /\ ~t.stopped
        /\ \A f \in FileIDs : t.fileSent[f] <= Len(offered[f])
    <3>1. s.CurrentSymlinkIndex + 1 \in Nat
      BY <1>0 DEF Sendings
    <3>2. t \in Sendings
      BY <1>0, <3>1 DEF Sendings
    <3>3. /\ t.AllowedToTransfer = s.AllowedToTransfer /\ t.stopped = s.stopped
          /\ t.fileSent = s.fileSent
      BY <1>0 DEF Sendings
    <3> QED
      BY <1>b, <3>2, <3>3
  <2>4. ListsOf(t)
    BY <1>0, <1>1, ProtocolAssumption DEF ListsOf, Sendings
  <2>5. sending' = t
    BY <1>1 DEF Continue
  <2>6. Outbound(p)'
    BY <1>0, <1>1, <2>2, <2>5
    DEF Outbound, HoldsToken, ListsOf, NothingAccepted, CheckedBelow, Checked, SameChecksum, Present
  <2> HIDE DEF t, p
  <2> QED
    BY <1>1, <2>2, <2>3, <2>4, <2>6, SectionPush DEF t, p
<1>2. CASE c = NumFiles /\ Continue([s EXCEPT !.stopped = TRUE], <<Bare("DONE")>>)
  <2>1. Bare("DONE") \in Packets /\ Bare("DONE").hdr = "DONE"
    BY BareType DEF BareHeaders
  <2>2. toReceiver \in Streams /\ Len(toReceiver.queue) = 0
    BY DEF IInv, Types, HoldsToken
  <2>3. /\ toReceiver' = Push(toReceiver, <<Bare("DONE")>>) /\ senderPc' = "loop"
        /\ sending' = [s EXCEPT !.stopped = TRUE]
    BY <1>2 DEF Continue
  <2>4. /\ toReceiver' \in Streams
        /\ toReceiver.end # "open" => toReceiver' = toReceiver
        /\ Len(toReceiver'.queue) <= 1 /\ OnlyHeaders(toReceiver'.queue, {"DONE", "BYE!"})
    BY <2>1, <2>2, <2>3, PushOne DEF OnlyHeaders, Streams
  <2>5. sending' \in Sendings /\ sending'.AllowedToTransfer /\ sending'.stopped
        /\ \A f \in FileIDs : sending'.fileSent[f] <= Len(offered[f])
    BY <2>3 DEF HoldsToken, Sendings
  <2>6. ListsOf(sending')
    BY <1>0, <2>3 DEF ListsOf, Sendings
  <2>7. Types' /\ Lists' /\ EndedStreams' /\ Unconnected' /\ KeyAhead'
          /\ Offering' /\ Asking' /\ Rejected'
    BY <2>3, <2>4, <2>5, <2>6, SectionFrame
  <2>8. UnderWay' /\ StopAndWait'
    BY <2>5 DEF UnderWay, StopAndWait, Transferring
  <2>9. Over'
    BY <1>2, <2>4 DEF Over, HoldsToken, CheckedBelow, Checked, SameChecksum, Present
  <2> QED
    BY <2>7, <2>8, <2>9 DEF IInv
<1>3. CASE /\ c < NumFiles /\ ~s.InTransfer
           /\ Continue([s EXCEPT !.InTransfer = TRUE], <<FilePacket(c, offered[c])>>)
  <2> DEFINE t == [s EXCEPT !.InTransfer = TRUE]
             p == FilePacket(c, offered[c])
  <2>1. p \in Packets /\ p.hdr = "FILE" /\ p.id = c /\ p.size = Len(offered[c])
        /\ p.data = GetPartialCheckSum(offered[c])
    BY <1>a, <1>3, FilePacketType DEF FilePacket
  <2>2. t \in Sendings /\ t.AllowedToTransfer /\ ~t.stopped
        /\ \A f \in FileIDs : t.fileSent[f] <= Len(offered[f])
    BY <1>0, <1>b DEF Sendings
  <2>3. ListsOf(t) /\ t.fileSent[c] = 0
    BY <1>0, <1>a, <1>3 DEF ListsOf, Sendings
  <2>4. sending' = t
    BY <1>3 DEF Continue
  <2>5. Outbound(p)'
    <3>1. NothingAccepted' /\ CheckedBelow(c)'
      BY <1>3 DEF HoldsToken, NothingAccepted, CheckedBelow, Checked, SameChecksum, Present
    <3>2. sending'.CurrentFileID = c /\ sending'.InTransfer /\ sending'.fileSent[c] = 0
      BY <2>3, <2>4 DEF Sendings, HoldsToken
    <3> QED
      BY <2>1, <3>1, <3>2 DEF Outbound
  <2> HIDE DEF t, p
  <2> QED
    BY <1>3, <2>1, <2>2, <2>3, <2>5, SectionPush DEF t, p
<1>4. CASE /\ c < NumFiles /\ s.InTransfer /\ Unsent(s, c) = 0
           /\ Continue([s EXCEPT !.FilesToSend = Remaining(c + 1),
                                 !.CurrentFileID = @ + 1, !.InTransfer = FALSE],
                       <<WithID("ENDFILE", c)>>)
  <2> DEFINE t == [s EXCEPT !.FilesToSend = Remaining(c + 1),
                            !.CurrentFileID = @ + 1, !.InTransfer = FALSE]
             p == WithID("ENDFILE", c)
  <2>1. p \in Packets /\ p.hdr = "ENDFILE" /\ p.id = c
    BY <1>a, <1>4, WithIDType DEF IDsOf
  <2>2. Remaining(c + 1) \in Seq(FileIDs)
    BY <1>0, <1>4, RemainingFacts
  <2>3. t \in Sendings /\ t.AllowedToTransfer /\ ~t.stopped
        /\ \A f \in FileIDs : t.fileSent[f] <= Len(offered[f])
    <3>1. s.CurrentFileID + 1 \in Nat
      BY <1>0 DEF Sendings
    <3>2. t \in Sendings
      BY <1>0, <2>2, <3>1 DEF Sendings
    <3>3. /\ t.AllowedToTransfer = s.AllowedToTransfer /\ t.stopped = s.stopped
          /\ t.fileSent = s.fileSent
      BY <1>0 DEF Sendings
    <3> QED
      BY <1>b, <3>2, <3>3
  <2>4. ListsOf(t)
    <3>1. /\ t.CurrentFileID = c + 1 /\ ~t.InTransfer /\ t.FilesToSend = Remaining(c + 1)
          /\ t.SymlinksToSend = s.SymlinksToSend /\ t.fileSent = s.fileSent
          /\ t.CurrentSymlinkIndex = s.CurrentSymlinkIndex /\ s.CurrentSymlinkIndex \in Nat
      BY <1>0 DEF Sendings
    <3> HIDE DEF t
    <3> QED
      BY <1>0, <1>4, <3>1 DEF ListsOf, FileIDs
  <2>5. sending' = t
    BY <1>4 DEF Continue
  <2>6. Outbound(p)'
    <3>1. sending'.CurrentFileID = c + 1 /\ ~sending'.InTransfer
      BY <1>0, <2>5 DEF Sendings
    <3>2. s.fileSent[c] = Len(offered[c])
      BY <1>a, <1>4 DEF Unsent
    <3>3. AcceptedIs(c, Len(offered[c]))' /\ CheckedBelow(c)'
      BY <1>4, <3>2 DEF HoldsToken, AcceptedIs, CheckedBelow, Checked, SameChecksum, Present
    <3> QED
      BY <1>0, <2>1, <3>1, <3>3 DEF Outbound
  <2> HIDE DEF t, p
  <2> QED
    BY <1>4, <2>1, <2>3, <2>4, <2>6, SectionPush DEF t, p
<1>5. CASE /\ c < NumFiles /\ s.InTransfer
           /\ Unsent(s, c) # 0 /\ Readable(s, c) /\ SendBytes(s, c)
  <2> DEFINE n == PieceLength(s, c)
             t == [s EXCEPT !.fileSent[c] = @ + n, !.SentBytes = @ + n, !.CanSendBytes = FALSE]
  <2>0. PICK p : p = FileBytesPacket(c, NextPiece(s, c))
    OBVIOUS
  <2>1. n \in Nat /\ s.fileSent[c] + n <= Len(offered[c])
    BY <1>a, <1>5, ProtocolAssumption DEF PieceLength, Unsent
  <2>2. NextPiece(s, c) \in Content /\ Len(NextPiece(s, c)) = n
    <3>1. served[c] \in Seq(Nat) /\ s.fileSent[c] + n <= Len(served[c]) /\ s.fileSent[c] \in Nat
      BY <1>a, <1>5 DEF Readable, Content
    <3>2. NextPiece(s, c) = SubSeq(served[c], s.fileSent[c] + 1, s.fileSent[c] + n)
      BY DEF NextPiece
    <3> DEFINE a == s.fileSent[c]
               bytes == served[c]
    <3> HIDE DEF n, a, bytes
    <3>3. bytes \in Seq(Nat) /\ a \in Nat /\ n \in Nat /\ a + n <= Len(bytes)
      BY <2>1, <3>1 DEF a, bytes
    <3>4. SubSeq(bytes, a + 1, a + n) \in Seq(Nat) /\ Len(SubSeq(bytes, a + 1, a + n)) = n
      BY <3>3
    <3> QED
      BY <3>2, <3>4 DEF Content, a, bytes
  <2>3. p \in Packets /\ p.hdr = "FILEBYTES" /\ p.id = c /\ Len(p.data) = n
    BY <1>a, <1>5, <2>0, <2>2, FileBytesPacketType DEF FileBytesPacket
  <2>4. t \in Sendings /\ t.AllowedToTransfer /\ ~t.stopped /\ t.CurrentFileID = c /\ t.InTransfer
    <3>1. s.fileSent[c] + n \in Nat /\ s.SentBytes + n \in Nat
      BY <1>0, <1>5, <1>a, <2>1 DEF Sendings
    <3> HIDE DEF n
    <3>2. [s.fileSent EXCEPT ![c] = @ + n] \in [FileIDs -> Nat]
      BY <1>0, <3>1 DEF Sendings
    <3>3. t \in Sendings
      BY <1>0, <3>1, <3>2 DEF Sendings
    <3>4. /\ t.AllowedToTransfer = s.AllowedToTransfer /\ t.stopped = s.stopped
          /\ t.CurrentFileID = s.CurrentFileID /\ t.InTransfer = s.InTransfer
      BY <1>0 DEF Sendings
    <3> QED
      BY <1>b, <1>5, <3>3, <3>4
  <2>5. /\ t.fileSent[c] = s.fileSent[c] + n
        /\ \A f \in FileIDs : f # c => t.fileSent[f] = s.fileSent[f]
        /\ \A f \in FileIDs : t.fileSent[f] <= Len(offered[f])
    BY <1>a, <1>5, <2>1 DEF HoldsToken, Sendings
  <2>6. ListsOf(t)
    BY <1>0, <1>5, <2>5 DEF ListsOf, Sendings
  <2>7. Continue(t, <<p>>)
    BY <1>5, <2>0 DEF SendBytes
  <2>8. Outbound(p)'
    <3>0. sending' = t
      BY <2>7 DEF Continue
    <3>1. AcceptedIs(c, s.fileSent[c])' /\ CheckedBelow(c)'
      BY <1>5 DEF HoldsToken, AcceptedIs, CheckedBelow, Checked, SameChecksum, Present
    <3>2. sending'.fileSent[c] - Len(p.data) = s.fileSent[c] /\ Len(p.data) <= sending'.fileSent[c]
      BY <1>a, <1>5, <2>1, <2>3, <2>5, <3>0
    <3>3. sending'.CurrentFileID = c /\ sending'.InTransfer
      BY <2>4, <3>0
    <3> HIDE DEF t, n, c
    <3> QED
      BY <2>3, <3>1, <3>2, <3>3 DEF Outbound
  <2> HIDE DEF t, n
  <2> QED
    BY <2>3, <2>4, <2>5, <2>6, <2>7, <2>8, SectionPush
<1>6. CASE Panic(s) \/ Panic([s EXCEPT !.stopped = TRUE])
  <2>1. toReceiver \in Streams /\ Len(toReceiver.queue) = 0
    BY DEF IInv, Types, HoldsToken
  <2>2. /\ toReceiver' = Close(toReceiver) /\ senderPc' = "panic"
        /\ sending' = s \/ sending' = [s EXCEPT !.stopped = TRUE]
    BY <1>6 DEF Panic
  <2>3. /\ toReceiver' \in Streams /\ toReceiver'.end # "open" /\ Len(toReceiver'.queue) = 0
        /\ toReceiver.end # "open" => toReceiver' = toReceiver
    BY <2>1, <2>2, CloseOne DEF Close, Streams
  <2>4. sending' \in Sendings /\ sending'.AllowedToTransfer
        /\ \A f \in FileIDs : sending'.fileSent[f] <= Len(offered[f])
    BY <2>2 DEF HoldsToken, Sendings
  <2>5. ListsOf(sending')
    BY <1>0, <2>2 DEF ListsOf, Sendings
  <2>6. Types' /\ Lists' /\ EndedStreams' /\ Unconnected' /\ KeyAhead'
          /\ Offering' /\ Asking' /\ Rejected'
    BY <2>2, <2>3, <2>4, <2>5, SectionFrame
  <2>7. UnderWay'
    BY <2>3 DEF UnderWay, HoldsToken
  <2>8. Over' /\ StopAndWait'
    BY <2>2, <2>3 DEF Over, StopAndWait, Transferring, OnlyHeaders
  <2> QED
    BY <2>6, <2>7, <2>8 DEF IInv
<1> QED
  BY <1>0, <1>1, <1>2, <1>3, <1>4, <1>5, <1>6, SectionOutcome DEF HoldsToken

-----------------------------------------------------------------------------
(* The sender's actions.                                                   *)

\* What the sender can find at the head of its queue, and at which stage.
LEMMA SenderHead ==
  ASSUME IInv, NEW headers, SenderTakes(headers)
  PROVE  /\ toSender' \in Streams /\ toSender'.end = toSender.end
         /\ Len(toSender.queue) >= 1 /\ toSender.queue[1].hdr \in headers
         /\ Head(toSender.queue) = toSender.queue[1] /\ toSender.queue[1] \in Packets
         /\ Len(toSender'.queue) = Len(toSender.queue) - 1
         /\ \A i \in 1 .. Len(toSender'.queue) : toSender'.queue[i] = toSender.queue[i + 1]
         /\ prompt # "none" /\ prompt # "asking"
BY PopOne DEF IInv, Types, Offering, Asking, SenderTakes, Arrived, Lists

\* While the transfer is under way a taken answer was the only packet.
LEMMA TokenTaken ==
  ASSUME IInv, NEW headers, SenderTakes(headers), sending.AllowedToTransfer
  PROVE  /\ toReceiver.queue = <<>> /\ toSender'.queue = <<>>
         /\ Inbound(Head(toSender.queue))
         /\ ~receiving.stopped /\ ~sending.stopped /\ prompt = "yes"
<1>1. ~sending.stopped
  BY DEF SenderTakes
<1>2. /\ ~receiving.stopped
      /\ Len(toReceiver.queue) + Len(toSender.queue) <= 1
      /\ \A i \in 1 .. Len(toSender.queue) : Inbound(toSender.queue[i])
  BY <1>1 DEF IInv, UnderWay
<1>3. toReceiver \in Streams /\ Len(toReceiver.queue) \in Nat /\ Len(toSender.queue) \in Nat
  BY DEF IInv, Types, Streams
<1>4. Len(toReceiver.queue) = 0 /\ Len(toSender.queue) = 1 /\ Len(toSender'.queue) = 0
  <2>1. Len(toSender.queue) >= 1 /\ Len(toSender'.queue) = Len(toSender.queue) - 1
    BY SenderHead
  <2>2. Len(toReceiver.queue) + Len(toSender.queue) <= 1
    BY <1>2
  <2> DEFINE m == Len(toReceiver.queue)
             n == Len(toSender.queue)
  <2>3. m = 0 /\ n = 1
    <3>1. m \in Nat /\ n \in Nat /\ n >= 1 /\ m + n <= 1
      BY <1>3, <2>1, <2>2
    <3> HIDE DEF m, n
    <3> QED
      BY <3>1
  <2> QED
    BY <2>1, <2>3
<1>5. toReceiver.queue = <<>> /\ toSender'.queue = <<>>
  BY <1>3, <1>4, SenderHead, EmptyQueue
<1>6. Inbound(Head(toSender.queue))
  <2>1. 1 \in 1 .. Len(toSender.queue)
    BY <1>4
  <2> QED
    BY <1>2, <2>1, SenderHead
<1> QED
  BY <1>1, <1>2, <1>5, <1>6 DEF IInv, Lists

\* The sending record's facts that every handler starts from.
LEMMA SendingFacts ==
  ASSUME IInv
  PROVE  /\ Types /\ sending \in Sendings
         /\ \A f \in FileIDs : sending.fileSent[f] <= Len(offered[f])
         /\ sending.AllowedToTransfer => prompt = "yes" /\ ListsOf(sending)
         /\ sending.CurrentFileID \in Nat /\ NumFiles \in Nat
BY ProtocolAssumption DEF IInv, Types, Lists, Sendings

\* Who finds READY or ALREADYHAVE has been allowed to transfer.
LEMMA AnswerMeansAllowed ==
  ASSUME IInv, NEW headers, SenderTakes(headers), headers \subseteq {"READY", "ALREADYHAVE"}
  PROVE  sending.AllowedToTransfer
<1>1. SUFFICES ASSUME ~sending.AllowedToTransfer PROVE FALSE
  OBVIOUS
<1>2. prompt \in {"yes", "rejecting", "no"}
  BY SenderHead DEF IInv, Types
<1>3. 1 \in 1 .. Len(toSender.queue) /\ toSender.queue[1].hdr \in {"READY", "ALREADYHAVE"}
  <2>1. Len(toSender.queue) \in Nat
    BY DEF IInv, Types, Streams
  <2>2. Len(toSender.queue) >= 1 /\ toSender.queue[1].hdr \in headers
    BY SenderHead
  <2>3. 1 \in 1 .. Len(toSender.queue)
    BY <2>1, <2>2
  <2> QED
    BY <2>2, <2>3
<1>4. toSender.queue[1].hdr \in {"ACCEPT", "REJECT", "BYE!"}
  BY <1>1, <1>2, <1>3 DEF IInv, Asking, Rejected, OnlyHeaders
<1> QED
  BY <1>3, <1>4

\* Before ACCEPT nothing has been counted.
LEMMA Unallowed ==
  ASSUME IInv, ~sending.AllowedToTransfer
  PROVE  /\ sending.CurrentSymlinkIndex = 0 /\ sending.CurrentFileID = 0
         /\ sending.SentBytes = 0
<1>1. sending \in Sendings /\ prompt \in {"none", "asking", "yes", "rejecting", "no"}
  BY DEF IInv, Types
<1>2. sending = FreshSending \/ [sending EXCEPT !.stopped = FALSE] = FreshSending
  BY <1>1 DEF IInv, Offering, Asking, Rejected
<1>3. CASE sending = FreshSending
  BY <1>3 DEF FreshSending
<1>4. CASE [sending EXCEPT !.stopped = FALSE] = FreshSending
  <2>1. /\ [sending EXCEPT !.stopped = FALSE].CurrentSymlinkIndex = sending.CurrentSymlinkIndex
        /\ [sending EXCEPT !.stopped = FALSE].CurrentFileID = sending.CurrentFileID
        /\ [sending EXCEPT !.stopped = FALSE].SentBytes = sending.SentBytes
    BY <1>1 DEF Sendings
  <2> QED
    BY <1>4, <2>1 DEF FreshSending
<1> QED
  BY <1>2, <1>3, <1>4

\* The state s that a case of the switch leaves behind counts on from the one
\* before it: the bytes an ALREADYHAVE spares are taken to be sent.
Follows(s) ==
  /\ s.CurrentSymlinkIndex = sending.CurrentSymlinkIndex
  /\ sending.CurrentFileID <= s.CurrentFileID
  /\ s.SentBytes = sending.SentBytes + BytesOf(Head(toSender.queue), "ALREADYHAVE")

\* It is the sender's turn, and it takes it.
Turn == OnlySection /\ \E s : HoldsToken(s) /\ Follows(s) /\ TransferSection(s)

\* READY: the turn is the sender's.
LEMMA ReadyTurn ==
  ASSUME IInv, SenderOnReady, UNCHANGED <<receiverVars, session, edits>>
  PROVE  Turn
<1> DEFINE s == [sending EXCEPT !.CanSendBytes = TRUE]
<1>1. SenderTakes({"READY"}) /\ TransferSection(s)
  BY DEF SenderOnReady
<1>2. sending.AllowedToTransfer
  BY <1>1, AnswerMeansAllowed
<1>3. OnlySection
  BY <1>1 DEF OnlySection, SenderTakes
<1>4. Head(toSender.queue).hdr = "READY"
  BY <1>1, SenderHead
<1>5. CheckedBelow(sending.CurrentFileID)
      /\ IF sending.InTransfer
           THEN AcceptedIs(sending.CurrentFileID, sending.fileSent[sending.CurrentFileID])
           ELSE NothingAccepted
  BY <1>1, <1>2, <1>4, TokenTaken DEF Inbound
<1>6. s \in Sendings /\ s.AllowedToTransfer /\ s.CanSendBytes /\ s.InTransfer = sending.InTransfer
      /\ s.CurrentFileID = sending.CurrentFileID /\ s.fileSent = sending.fileSent
      /\ s.stopped = sending.stopped
  BY <1>2, SendingFacts DEF Sendings
<1>7. ListsOf(s)
  BY <1>2, SendingFacts DEF ListsOf, Sendings
<1>8. HoldsToken(s)
  <2> HIDE DEF s
  <2> QED
    BY <1>1, <1>2, <1>5, <1>6, <1>7, SendingFacts, TokenTaken, SenderHead DEF HoldsToken
<1>9. Follows(s)
  <2>1. BytesOf(Head(toSender.queue), "ALREADYHAVE") = 0
    BY <1>4 DEF BytesOf
  <2>2. s.SentBytes = sending.SentBytes /\ sending.SentBytes \in Nat
        /\ s.CurrentSymlinkIndex = sending.CurrentSymlinkIndex
    BY SendingFacts DEF Sendings
  <2> HIDE DEF s
  <2> QED
    BY <1>6, <2>1, <2>2, SendingFacts DEF Follows
<1> HIDE DEF s
<1> QED
  BY <1>1, <1>3, <1>8, <1>9 DEF Turn

\* ALREADYHAVE: the current file is dropped, and the turn is the sender's.
LEMMA AlreadyHaveTurn ==
  ASSUME IInv, SenderOnAlreadyHave, UNCHANGED <<receiverVars, session, edits>>
  PROVE  Turn
<1> DEFINE c == sending.CurrentFileID
           s == SkipFile(sending, 1)
           hits == {i \in 1 .. Len(sending.FilesToSend) :
                      sending.FilesToSend[i] = Head(toSender.queue).id}
<1>1. SenderTakes({"ALREADYHAVE"})
  BY DEF SenderOnAlreadyHave
<1>2. sending.AllowedToTransfer /\ ListsOf(sending)
  BY <1>1, AnswerMeansAllowed, SendingFacts
<1>3. OnlySection
  BY <1>1 DEF OnlySection, SenderTakes
<1>4. Head(toSender.queue).hdr = "ALREADYHAVE"
  BY <1>1, SenderHead
<1>5. CheckedBelow(c) /\ SameChecksum(c) /\ NothingAccepted
      /\ Head(toSender.queue).id = c /\ sending.InTransfer /\ sending.fileSent[c] = 0
  BY <1>1, <1>2, <1>4, TokenTaken DEF Inbound
<1>6. c \in 0 .. NumFiles /\ c < NumFiles /\ sending.FilesToSend = Remaining(c)
  BY <1>2, <1>5, SendingFacts DEF ListsOf
<1>7. Len(Remaining(c)) >= 1 /\ Remaining(c)[1] = c /\ RemoveAt(Remaining(c), 1) = Remaining(c + 1)
      /\ Remaining(c + 1) \in Seq(FileIDs)
  BY <1>6, SendingFacts, RemainingFacts
<1>8. hits = {1}
  <2>1. Len(Remaining(c)) = NumFiles - c
        /\ \A i \in 1 .. NumFiles - c : Remaining(c)[i] = c + i - 1
    BY <1>6, SendingFacts DEF Remaining
  <2>2. \A i \in 1 .. NumFiles - c : Remaining(c)[i] = c <=> i = 1
    BY <1>6, <2>1, SendingFacts
  <2>3. hits = {i \in 1 .. NumFiles - c : Remaining(c)[i] = c}
    BY <1>5, <1>6, <2>1
  <2>4. 1 \in 1 .. NumFiles - c
    BY <1>6, SendingFacts
  <2> QED
    BY <2>2, <2>3, <2>4
<1>9. TransferSection(s)
  BY <1>8 DEF SenderOnAlreadyHave
<1>10. s = [sending EXCEPT !.FilesToSend = Remaining(c + 1), !.CurrentFileID = c + 1,
                           !.SentBytes = @ + Len(offered[c]), !.InTransfer = FALSE]
  BY <1>6, <1>7 DEF SkipFile
<1>11. s \in Sendings
  <2>1. c + 1 \in Nat /\ c \in FileIDs
    BY <1>6, SendingFacts DEF FileIDs
  <2>2. Len(offered[c]) \in Nat
    BY <2>1, SendingFacts DEF Types, Content
  <2>3. sending.SentBytes + Len(offered[c]) \in Nat
    BY <2>2, SendingFacts DEF Sendings
  <2> QED
    BY <1>7, <1>10, <2>1, <2>3, SendingFacts DEF Sendings
<1>12. /\ s.AllowedToTransfer = sending.AllowedToTransfer /\ s.stopped = sending.stopped
       /\ s.fileSent = sending.fileSent /\ s.CurrentFileID = c + 1 /\ ~s.InTransfer
       /\ s.FilesToSend = Remaining(c + 1) /\ s.SymlinksToSend = sending.SymlinksToSend
       /\ s.CurrentSymlinkIndex = sending.CurrentSymlinkIndex
       /\ s.SentBytes = sending.SentBytes + Len(offered[c])
  BY <1>10, SendingFacts DEF Sendings
<1> HIDE DEF s
<1>13. ListsOf(s)
  BY <1>2, <1>6, <1>12, SendingFacts DEF ListsOf, FileIDs
<1>14. CheckedBelow(s.CurrentFileID)
  BY <1>5, <1>6, <1>12, SendingFacts DEF CheckedBelow, Checked, FileIDs
<1>15. HoldsToken(s)
  BY <1>1, <1>2, <1>5, <1>11, <1>12, <1>13, <1>14, SendingFacts, TokenTaken, SenderHead
  DEF HoldsToken
<1>16. Follows(s)
  <2>1. BytesOf(Head(toSender.queue), "ALREADYHAVE") = Len(offered[c])
    BY <1>4, <1>5 DEF BytesOf
  <2> QED
    BY <1>6, <1>12, <2>1, SendingFacts DEF Follows
<1> QED
  BY <1>3, <1>9, <1>15, <1>16 DEF Turn

\* ACCEPT: the lists are filled, and the turn is the sender's.
LEMMA AcceptTurn ==
  ASSUME IInv, SenderOnAccept, UNCHANGED <<receiverVars, session, edits>>
  PROVE  Turn
<1> DEFINE s == [sending EXCEPT !.AllowedToTransfer = TRUE, !.FilesToSend = @ \o AllFiles,
                                !.SymlinksToSend = AllSymlinks, !.CurrentFileID = 0]
<1>1. SenderTakes({"ACCEPT"}) /\ TransferSection(s)
  BY DEF SenderOnAccept
<1>2. OnlySection
  BY <1>1 DEF OnlySection, SenderTakes
<1>3. 1 \in 1 .. Len(toSender.queue) /\ toSender.queue[1].hdr = "ACCEPT"
  <2>1. Len(toSender.queue) \in Nat
    BY DEF IInv, Types, Streams
  <2> QED
    BY <1>1, <2>1, SenderHead
<1>4. ~sending.AllowedToTransfer
  <2>1. SUFFICES ASSUME sending.AllowedToTransfer PROVE FALSE
    OBVIOUS
  <2>2. Head(toSender.queue).hdr = "ACCEPT"
    BY <1>1, <1>3, SenderHead
  <2> QED
    BY <1>1, <2>1, <2>2, TokenTaken DEF Inbound
<1>5. prompt = "yes"
  BY <1>1, <1>3, SenderHead DEF IInv, Types, Rejected, OnlyHeaders
<1>6. /\ sending = FreshSending /\ NothingAccepted /\ ~receiving.stopped
      /\ toReceiver.queue = <<>> /\ Len(toSender.queue) <= 1
  BY <1>4, <1>5 DEF IInv, Asking
<1>7. toSender'.queue = <<>>
  <2>1. Len(toSender.queue) \in Nat /\ Len(toSender'.queue) = 0
    BY <1>1, <1>3, <1>6, SenderHead DEF IInv, Types, Streams
  <2> QED
    BY <1>1, <2>1, SenderHead, EmptyQueue
<1>8. /\ AllFiles = Remaining(0) /\ AllFiles \in Seq(FileIDs) /\ <<>> \o AllFiles = AllFiles
      /\ AllSymlinks \in Seq(SymlinkIDs)
  <2>1. AllFiles = Remaining(0)
    BY SendingFacts DEF AllFiles, Remaining
  <2>2. Remaining(0) \in Seq(FileIDs)
    BY RemainingFacts, SendingFacts
  <2>3. AllSymlinks \in Seq(SymlinkIDs)
    BY ProtocolAssumption DEF AllSymlinks, SymlinkIDs
  <2> QED
    BY <2>1, <2>2, <2>3
<1>9. s = [sending EXCEPT !.AllowedToTransfer = TRUE, !.FilesToSend = Remaining(0),
                          !.SymlinksToSend = AllSymlinks, !.CurrentFileID = 0]
  <2>1. sending.FilesToSend = <<>>
    BY <1>6 DEF FreshSending
  <2> QED
    BY <1>8, <2>1
<1>10. s \in Sendings
  <2>1. Remaining(0) \in Seq(FileIDs)
    BY <1>8
  <2> QED
    BY <1>8, <1>9, <2>1, SendingFacts DEF Sendings
<1>14. /\ s.AllowedToTransfer /\ ~s.stopped /\ ~s.InTransfer /\ s.CurrentFileID = 0
       /\ s.FilesToSend = Remaining(0) /\ s.SymlinksToSend = AllSymlinks
       /\ s.CurrentSymlinkIndex = 0 /\ s.fileSent = [f \in FileIDs |-> 0] /\ s.SentBytes = 0
  <2>1. sending \in Sendings
    BY SendingFacts
  <2>2. /\ ~sending.stopped /\ ~sending.InTransfer /\ sending.CurrentSymlinkIndex = 0
        /\ sending.fileSent = [f \in FileIDs |-> 0] /\ sending.SentBytes = 0
    BY <1>6 DEF FreshSending
  <2> QED
    BY <1>9, <2>1, <2>2 DEF Sendings
<1> HIDE DEF s
<1>11. ListsOf(s)
  BY <1>14, SendingFacts, ProtocolAssumption DEF ListsOf, FileIDs
<1>12. \A f \in FileIDs : s.fileSent[f] <= Len(offered[f])
  <2>1. \A f \in FileIDs : Len(offered[f]) \in Nat
    BY SendingFacts DEF Types, Content
  <2> QED
    BY <1>14, <2>1
<1>13. CheckedBelow(0)
  BY DEF CheckedBelow, FileIDs
<1>15. HoldsToken(s)
  BY <1>1, <1>5, <1>6, <1>7, <1>10, <1>11, <1>12, <1>13, <1>14, SenderHead DEF HoldsToken
<1>16. Follows(s)
  <2>1. BytesOf(Head(toSender.queue), "ALREADYHAVE") = 0
    BY <1>1, <1>3, SenderHead DEF BytesOf
  <2> QED
    BY <1>6, <1>14, <2>1 DEF Follows, FreshSending
<1> QED
  BY <1>1, <1>2, <1>15, <1>16 DEF Turn

\* The sender's turn keeps the invariant.
LEMMA TurnStep ==
  ASSUME IInv, Turn
  PROVE  IInv'
BY SectionStep DEF Turn

-----------------------------------------------------------------------------
(* The sender stops, connects, offers.                                     *)

\* Writing one more packet of a kind keeps a queue to that kind.
LEMMA PushHeaders ==
  ASSUME NEW s \in Streams, NEW p \in Packets, NEW headers,
         OnlyHeaders(s.queue, headers), p.hdr \in headers
  PROVE  OnlyHeaders(Push(s, <<p>>).queue, headers)
<1> DEFINE r == Push(s, <<p>>)
<1>1. /\ s.end # "open" => r = s
      /\ s.end = "open" =>
           /\ Len(r.queue) = Len(s.queue) + 1
           /\ r.queue[Len(s.queue) + 1] = p
           /\ \A i \in 1 .. Len(s.queue) : r.queue[i] = s.queue[i]
  BY PushOne
<1>2. Len(s.queue) \in Nat
  BY DEF Streams
<1> HIDE DEF r
<1>3. OnlyHeaders(r.queue, headers)
  BY <1>1, <1>2 DEF OnlyHeaders
<1> QED
  BY <1>3 DEF r

\* REJECT and BYE! come only to a sender that has not been allowed to transfer.
LEMMA StopUnallowed ==
  ASSUME IInv, SenderOnStop
  PROVE  ~sending.AllowedToTransfer
<1>1. SenderTakes({"REJECT", "BYE!"})
  BY DEF SenderOnStop
<1>2. Head(toSender.queue).hdr \in {"REJECT", "BYE!"}
  BY <1>1, SenderHead
<1> QED
  BY <1>1, <1>2, TokenTaken DEF Inbound

\* A rejecting or a parting receiver: nothing was accepted, the sender says DONE.
LEMMA StopStep ==
  ASSUME IInv, SenderOnStop, UNCHANGED <<receiverVars, session, edits>>
  PROVE  IInv'
<1> DEFINE s == [sending EXCEPT !.stopped = TRUE]
<1> USE DEF receiverVars
<1>1. SenderTakes({"REJECT", "BYE!"}) /\ TransferSection(s)
  BY DEF SenderOnStop
<1>2. 1 \in 1 .. Len(toSender.queue) /\ toSender.queue[1].hdr \in {"REJECT", "BYE!"}
      /\ Head(toSender.queue) = toSender.queue[1]
  <2>1. Len(toSender.queue) \in Nat
    BY DEF IInv, Types, Streams
  <2> QED
    BY <1>1, <2>1, SenderHead
<1>3. ~sending.AllowedToTransfer
  BY StopUnallowed
<1>4. prompt \in {"rejecting", "no"}
  <2>1. prompt \in {"yes", "rejecting", "no"}
    BY <1>1, SenderHead DEF IInv, Types
  <2>2. prompt # "yes"
    BY <1>2, <1>3 DEF IInv, Asking, OnlyHeaders
  <2> QED
    BY <2>1, <2>2
<1>5. /\ NothingAccepted
      /\ OnlyHeaders(toReceiver.queue, {"DONE", "BYE!"})
      /\ OnlyHeaders(toSender.queue, {"REJECT", "BYE!"})
      /\ [sending EXCEPT !.stopped = FALSE] = FreshSending
  BY <1>4 DEF IInv, Rejected
<1>6. /\ s.FilesToSend = <<>> /\ s.SymlinksToSend = <<>> /\ s.CurrentSymlinkIndex = 0
      /\ s \in Sendings /\ [s EXCEPT !.stopped = FALSE] = FreshSending
      /\ s.AllowedToTransfer = sending.AllowedToTransfer /\ s.fileSent = sending.fileSent
      /\ s.stopped /\ [s EXCEPT !.stopped = TRUE] = s
  <2>1. sending \in Sendings
    BY SendingFacts
  <2>2. [sending EXCEPT !.stopped = FALSE].FilesToSend = <<>>
        /\ [sending EXCEPT !.stopped = FALSE].SymlinksToSend = <<>>
        /\ [sending EXCEPT !.stopped = FALSE].CurrentSymlinkIndex = 0
    BY <1>5 DEF FreshSending
  <2>3. [s EXCEPT !.stopped = FALSE] = [sending EXCEPT !.stopped = FALSE]
    BY <2>1 DEF Sendings
  <2> QED
    BY <1>5, <2>1, <2>2, <2>3 DEF Sendings
<1> HIDE DEF s
<1>7. Continue(s, <<Bare("DONE")>>)
  <2>1. /\ s.FilesToSend = <<>> /\ Len(s.SymlinksToSend) = 0 /\ s.CurrentSymlinkIndex = 0
        /\ [s EXCEPT !.stopped = TRUE] = s
    BY <1>6
  <2>2. ~(s.CurrentSymlinkIndex < Len(s.SymlinksToSend))
    BY <2>1
  <2>3. SendDone(s)
    BY <1>1, <2>1, <2>2 DEF TransferSection, SendNextSymlink, AnnounceFile, SendPiece, Await
  <2>4. Continue([s EXCEPT !.stopped = TRUE], <<Bare("DONE")>>)
    BY <2>3 DEF SendDone
  <2> QED
    BY <2>1, <2>4
<1>8. Bare("DONE") \in Packets /\ Bare("DONE").hdr = "DONE"
  BY BareType DEF BareHeaders
<1>9. /\ toReceiver' = Push(toReceiver, <<Bare("DONE")>>) /\ sending' = s /\ senderPc' = "loop"
      /\ senderPc = "loop"
  BY <1>1, <1>7 DEF Continue, SenderTakes
<1>10. Types /\ toReceiver \in Streams /\ EndedStreams /\ Unconnected /\ KeyAhead
  BY DEF IInv, Types
<1>11. /\ toReceiver' \in Streams /\ toReceiver'.end = toReceiver.end
       /\ OnlyHeaders(toReceiver'.queue, {"DONE", "BYE!"})
  <2> DEFINE r == Push(toReceiver, <<Bare("DONE")>>)
  <2>1. /\ r \in Streams /\ r.end = toReceiver.end
        /\ toReceiver.end # "open" => r = toReceiver
        /\ toReceiver.end = "open" =>
             /\ Len(r.queue) = Len(toReceiver.queue) + 1
             /\ r.queue[Len(toReceiver.queue) + 1] = Bare("DONE")
             /\ \A i \in 1 .. Len(toReceiver.queue) : r.queue[i] = toReceiver.queue[i]
    BY <1>8, <1>10, PushOne
  <2> HIDE DEF r
  <2>2. Len(toReceiver.queue) \in Nat
    BY <1>10 DEF Streams
  <2>3. OnlyHeaders(r.queue, {"DONE", "BYE!"})
    BY <1>5, <1>8, <2>1, <2>2 DEF OnlyHeaders
  <2> QED
    BY <1>9, <2>1, <2>3 DEF r
<1>12. UNCHANGED <<offerPc, served, offered>> /\ toSender' \in Streams /\ toSender'.end = toSender.end
       /\ OnlyHeaders(toSender'.queue, {"REJECT", "BYE!"})
  <2>1. UNCHANGED <<offerPc, served, offered>>
    BY <1>1 DEF SenderTakes
  <2>2. /\ toSender' \in Streams /\ toSender'.end = toSender.end
        /\ Len(toSender'.queue) = Len(toSender.queue) - 1
        /\ \A i \in 1 .. Len(toSender'.queue) : toSender'.queue[i] = toSender.queue[i + 1]
    BY <1>1, SenderHead
  <2>3. Len(toSender.queue) \in Nat
    BY DEF IInv, Types, Streams
  <2>4. \A i \in 1 .. Len(toSender'.queue) : i + 1 \in 1 .. Len(toSender.queue)
    BY <2>2, <2>3
  <2> QED
    BY <1>5, <2>1, <2>2, <2>4 DEF OnlyHeaders
<1>13. Types'
  BY <1>6, <1>9, <1>10, <1>11, <1>12 DEF Types
<1>14. Lists'
  BY <1>3, <1>6, <1>9, <1>12, SendingFacts DEF Lists
<1>15. EndedStreams' /\ Unconnected'
  BY <1>4, <1>9, <1>10, <1>11, <1>12 DEF EndedStreams, Unconnected, Ended
<1>16. KeyAhead'
  BY <1>4, <1>9, <1>10, <1>11, <1>12 DEF KeyAhead, OnlyHeaders, EncryptedHeaders
<1>17. Offering' /\ Asking'
  BY <1>4 DEF Offering, Asking
<1>18. Rejected'
  BY <1>5, <1>6, <1>9, <1>11, <1>12 DEF Rejected, NothingAccepted
<1>19. UnderWay' /\ Over' /\ StopAndWait'
  BY <1>3, <1>6, <1>9 DEF UnderWay, Over, StopAndWait, Transferring
<1> QED
  BY <1>13, <1>14, <1>15, <1>16, <1>17, <1>18, <1>19 DEF IInv

\* The sender leaves its loop and says BYE!.
LEMMA DisconnectStep ==
  ASSUME IInv, SenderDisconnect, UNCHANGED <<receiverVars, session, edits>>
  PROVE  IInv'
<1> USE DEF SenderDisconnect, receiverVars
<1> DEFINE r == Push(toReceiver, <<Bare("BYE!")>>)
<1>1. Types /\ toReceiver \in Streams /\ EndedStreams /\ Unconnected /\ KeyAhead
  BY DEF IInv, Types
<1>2. Bare("BYE!") \in Packets /\ Bare("BYE!").hdr = "BYE!"
  BY BareType DEF BareHeaders
<1>3. /\ r \in Streams /\ r.end = toReceiver.end
      /\ toReceiver.end # "open" => r = toReceiver
      /\ toReceiver.end = "open" =>
           /\ Len(r.queue) = Len(toReceiver.queue) + 1
           /\ r.queue[Len(toReceiver.queue) + 1] = Bare("BYE!")
           /\ \A i \in 1 .. Len(toReceiver.queue) : r.queue[i] = toReceiver.queue[i]
  BY <1>1, <1>2, PushOne
<1>4. Len(toReceiver.queue) \in Nat
  BY <1>1 DEF Streams
<1> HIDE DEF r
<1>5. OnlyHeaders(toReceiver.queue, {"DONE", "BYE!"}) => OnlyHeaders(r.queue, {"DONE", "BYE!"})
  BY <1>2, <1>3, <1>4 DEF OnlyHeaders
<1>6. toReceiver' = Close(r)
  BY DEF r
<1>7. toReceiver' \in Streams /\ toReceiver'.end # "open" /\ toReceiver'.queue = r.queue
  BY <1>3, <1>6, CloseOne
<1>8. prompt # "none" /\ ~(prompt \in {"asking", "yes"} /\ ~sending.AllowedToTransfer)
  BY DEF IInv, Offering, Asking, FreshSending
<1>9. OnlyHeaders(toReceiver.queue, {"DONE", "BYE!"})
  BY <1>1, <1>8 DEF IInv, Over, Rejected, Types
<1>10. Types'
  BY <1>1, <1>7 DEF Types, Ended
<1>11. EndedStreams' /\ Unconnected'
  BY <1>1, <1>7, <1>8 DEF EndedStreams, Unconnected
<1>12. KeyAhead'
  BY <1>1, <1>5, <1>7, <1>8, <1>9 DEF KeyAhead, OnlyHeaders, EncryptedHeaders
<1>13. Lists' /\ Offering' /\ Asking' /\ UnderWay' /\ StopAndWait'
  BY <1>8 DEF IInv, Lists, ListsOf, Offering, Asking, UnderWay, StopAndWait, Transferring
<1>14. Rejected'
  BY <1>5, <1>7, <1>9 DEF IInv, Rejected, NothingAccepted
<1>15. Over'
  BY <1>5, <1>7, <1>9 DEF IInv, Over, CheckedBelow, Checked, SameChecksum, Present
<1> QED
  BY <1>10, <1>11, <1>12, <1>13, <1>14, <1>15 DEF IInv

\* The key is the first packet of a connection.
LEMMA ConnectStep ==
  ASSUME IInv, Connect
  PROVE  IInv'
<1> USE DEF Connect
<1>1. Types /\ EndedStreams /\ Unconnected /\ toReceiver = OpenStream /\ toSender = OpenStream
  BY DEF IInv, EndedStreams
<1>2. /\ offerPc = "idle" /\ prompt = "none" /\ sending = FreshSending /\ NothingAccepted
      /\ ~receiving.stopped
  BY <1>1 DEF Unconnected, IInv, Offering
<1>3. Bare("ENCRKEY") \in Packets /\ Bare("ENCRKEY").hdr = "ENCRKEY"
  BY BareType DEF BareHeaders
<1>4. OpenStream \in Streams /\ OpenStream.queue = <<>> /\ OpenStream.end = "open"
  BY DEF OpenStream, Streams
<1>5. /\ toReceiver' \in Streams /\ toReceiver'.end = "open"
      /\ Len(toReceiver'.queue) = 1 /\ toReceiver'.queue[1] = Bare("ENCRKEY")
  <2> DEFINE r == Push(OpenStream, <<Bare("ENCRKEY")>>)
  <2>1. Len(OpenStream.queue) = 0
    BY <1>4
  <2>2. /\ r \in Streams /\ r.end = "open"
        /\ Len(r.queue) = 0 + 1 /\ r.queue[0 + 1] = Bare("ENCRKEY")
    BY <1>3, <1>4, <2>1, PushOne
  <2> HIDE DEF r
  <2>3. toReceiver' = r
    BY <1>1 DEF r
  <2> QED
    BY <2>2, <2>3
<1>6. toReceiver'.queue # <<>> /\ \A i \in 1 .. Len(toReceiver'.queue) : i = 1
  BY <1>5, SingleQueue
<1>7. Types'
  BY <1>1, <1>5 DEF Types
<1>8. EndedStreams' /\ Unconnected'
  BY <1>1 DEF EndedStreams, Unconnected, Ended
<1>9. KeyAhead'
  BY <1>2, <1>3, <1>5, <1>6 DEF KeyAhead, EncryptedHeaders
<1>10. Offering'
  BY <1>1, <1>2, <1>3, <1>4, <1>5, <1>6 DEF Offering, OnlyHeaders, NothingAccepted
<1>11. ~sending.AllowedToTransfer
  BY <1>2 DEF FreshSending
<1>12. Lists' /\ Asking' /\ Rejected' /\ UnderWay' /\ Over' /\ StopAndWait'
  BY <1>2, <1>11 DEF IInv, Lists, Asking, Rejected, UnderWay, Over, StopAndWait, Transferring
<1> QED
  BY <1>7, <1>8, <1>9, <1>10, <1>12 DEF IInv

\* The offer follows the key, or is never written.
LEMMA OfferStepKeeps ==
  ASSUME IInv, OfferStep
  PROVE  IInv'
<1> USE DEF OfferStep, SendTransferOffer, receiverVars
<1>1. Types /\ toReceiver \in Streams /\ EndedStreams /\ Unconnected /\ KeyAhead
  BY DEF IInv, Types
<1>2. prompt = "none"
  BY <1>1 DEF KeyAhead
<1>3. /\ sending = FreshSending /\ NothingAccepted /\ ~receiving.stopped /\ toSender.queue = <<>>
      /\ OnlyHeaders(toReceiver.queue, {"ENCRKEY"})
  BY <1>2 DEF IInv, Offering, OnlyHeaders
<1>4. ~sending.AllowedToTransfer
  BY <1>3 DEF FreshSending
<1>5. Lists' /\ Asking' /\ Rejected' /\ UnderWay' /\ Over' /\ StopAndWait'
  BY <1>2, <1>4 DEF IInv, Lists, Asking, Rejected, UnderWay, Over, StopAndWait, Transferring
<1>6. CASE offerPc' = "sent" /\ toReceiver' = Push(toReceiver, <<Bare("TRANSFEROFFER")>>)
  <2> DEFINE r == Push(toReceiver, <<Bare("TRANSFEROFFER")>>)
  <2>1. Bare("TRANSFEROFFER") \in Packets /\ Bare("TRANSFEROFFER").hdr = "TRANSFEROFFER"
    BY BareType
  <2>2. /\ r \in Streams /\ r.end = toReceiver.end
        /\ toReceiver.end # "open" => r = toReceiver
        /\ toReceiver.end = "open" =>
             /\ Len(r.queue) = Len(toReceiver.queue) + 1
             /\ r.queue[Len(toReceiver.queue) + 1] = Bare("TRANSFEROFFER")
             /\ \A i \in 1 .. Len(toReceiver.queue) : r.queue[i] = toReceiver.queue[i]
    BY <1>1, <2>1, PushOne
  <2>3. Len(toReceiver.queue) \in Nat /\ (toReceiver.queue # <<>> => Len(toReceiver.queue) >= 1)
    BY <1>1 DEF Streams
  <2> HIDE DEF r
  <2>4. toReceiver' = r
    BY <1>6 DEF r
  <2>5. Types'
    BY <1>1, <1>6, <2>2, <2>4 DEF Types
  <2>6. EndedStreams' /\ Unconnected'
    BY <1>1, <1>6, <2>2, <2>4 DEF EndedStreams, Unconnected, Ended
  <2>7. CASE toReceiver.end = "open"
    <3>1. \A i \in 1 .. Len(r.queue) :
            \/ i \in 1 .. Len(toReceiver.queue) /\ r.queue[i] = toReceiver.queue[i]
            \/ i = Len(r.queue) /\ r.queue[i] = Bare("TRANSFEROFFER")
      BY <2>2, <2>3, <2>7
    <3>2. receiving.EncryptionKey \/ (Len(r.queue) # 1 /\ r.queue[1].hdr = "ENCRKEY")
      BY <1>1, <1>6, <2>2, <2>3, <2>7 DEF KeyAhead
    <3>3. KeyAhead'
      BY <1>2, <1>3, <1>6, <2>1, <2>4, <3>1, <3>2 DEF KeyAhead, OnlyHeaders, EncryptedHeaders
    <3>4. Offering'
      BY <1>3, <1>6, <2>1, <2>4, <3>1 DEF Offering, OnlyHeaders, NothingAccepted
    <3> QED
      BY <1>5, <2>5, <2>6, <3>3, <3>4 DEF IInv
  <2>8. CASE toReceiver.end # "open"
    <3>1. KeyAhead' /\ Offering'
      BY <1>1, <1>2, <1>3, <1>6, <2>2, <2>4, <2>8 DEF KeyAhead, Offering, OnlyHeaders, NothingAccepted
    <3> QED
      BY <1>5, <2>5, <2>6, <3>1 DEF IInv
  <2> QED
    BY <2>7, <2>8
<1>7. CASE offerPc' = "failed" /\ UNCHANGED toReceiver
  <2>1. Types' /\ EndedStreams' /\ Unconnected'
    BY <1>1, <1>7 DEF Types, EndedStreams, Unconnected
  <2>2. KeyAhead' /\ Offering'
    BY <1>1, <1>2, <1>3, <1>7 DEF KeyAhead, Offering, OnlyHeaders, NothingAccepted
  <2> QED
    BY <1>5, <2>1, <2>2 DEF IInv
<1> QED
  BY <1>6, <1>7

-----------------------------------------------------------------------------
(* Steps that take nothing but what is in flight.                          *)

\* What is left of a stream is a beginning of it, or it has not changed.
Beginning(new, old) ==
  /\ new \in Streams
  /\ Len(new.queue) <= Len(old.queue)
  /\ \A i \in 1 .. Len(new.queue) : new.queue[i] = old.queue[i]
  /\ new.end = "open" => new = old

\* A stream that is not touched is a beginning of itself.
LEMMA BeginningSame ==
  ASSUME NEW s \in Streams
  PROVE  Beginning(s, s)
BY DEF Beginning, Streams

\* What a failure leaves of a stream is a beginning of it.
LEMMA BeginningCut ==
  ASSUME NEW s \in Streams, NEW c \in Cut(s)
  PROVE  Beginning(c, s) /\ c.end # "open"
BY CutOne DEF Beginning

\* A stream that its writer closes is a beginning of itself.
LEMMA BeginningClose ==
  ASSUME NEW s \in Streams
  PROVE  Beginning(Close(s), s) /\ Close(s).end # "open"
BY CloseOne DEF Beginning, Streams

\* Of two queues with one packet in all at most one is not empty.
LEMMA SmallSum ==
  ASSUME NEW a \in Nat, NEW b \in Nat, NEW c \in Nat, NEW d \in Nat,
         a + b <= 1, c <= a, d <= b
  PROVE  /\ c + d <= 1
         /\ \A i \in 1 .. c : i = 1 /\ a = 1
         /\ \A i \in 1 .. d : a = 0
OBVIOUS

\* The bytes of the current file are on their way.
BytesComing ==
  /\ sending.AllowedToTransfer /\ ~sending.stopped
  /\ Len(toReceiver.queue) = 1 /\ toReceiver.queue[1].hdr = "FILEBYTES"

\* At most the file whose bytes are on their way is written.
LEMMA Shrunk ==
  ASSUME IInv,
         UNCHANGED <<offerPc, sending, offered, prompt, receiving, corrupted>>,
         Beginning(toReceiver', toReceiver), Beginning(toSender', toSender),
         senderPc = "panic" => senderPc' = "panic",
         \A f \in FileIDs : disk'[f] = disk[f] \/ (BytesComing /\ f = sending.CurrentFileID)
  PROVE  Lists' /\ KeyAhead' /\ Offering' /\ Asking' /\ Rejected' /\ UnderWay' /\ Over'
<1>1. Lists'
  BY DEF IInv, Lists, ListsOf
<1>2. /\ toReceiver \in Streams /\ toReceiver' \in Streams
      /\ toSender \in Streams /\ toSender' \in Streams
  BY DEF IInv, Types, Beginning
<1>3. /\ Len(toReceiver'.queue) \in Nat /\ Len(toReceiver.queue) \in Nat
      /\ Len(toSender'.queue) \in Nat /\ Len(toSender.queue) \in Nat
      /\ Len(toReceiver'.queue) <= Len(toReceiver.queue)
      /\ Len(toSender'.queue) <= Len(toSender.queue)
  BY <1>2 DEF Beginning, Streams
<1>4. /\ \A i \in 1 .. Len(toReceiver'.queue) :
           i \in 1 .. Len(toReceiver.queue) /\ toReceiver'.queue[i] = toReceiver.queue[i]
      /\ \A i \in 1 .. Len(toSender'.queue) :
           i \in 1 .. Len(toSender.queue) /\ toSender'.queue[i] = toSender.queue[i]
  BY <1>3 DEF Beginning
<1>5. /\ Len(toReceiver.queue) = 0 => toReceiver'.queue = <<>>
      /\ Len(toSender.queue) = 0 => toSender'.queue = <<>>
  BY <1>2, <1>3, EmptyQueue
<1>6. KeyAhead'
  <2>1. \A i \in 1 .. Len(toReceiver'.queue) : toReceiver'.queue[1] = toReceiver.queue[1]
    BY <1>3, <1>4
  <2>2. toReceiver'.end = "open" => toReceiver' = toReceiver
    BY DEF Beginning
  <2> QED
    BY <1>4, <2>1, <2>2 DEF IInv, KeyAhead
<1>7. prompt = "none" \/ (prompt \in {"asking", "yes"} /\ ~sending.AllowedToTransfer)
        \/ prompt \in {"rejecting", "no"} => ~BytesComing
  BY DEF BytesComing, IInv, Offering, Rejected, FreshSending
<1>8. Offering'
  <2>1. SUFFICES ASSUME prompt = "none" PROVE Offering'
    BY DEF Offering
  <2>3. toSender'.queue = <<>>
    BY <1>5, <2>1 DEF IInv, Offering
  <2>4. \A i \in 1 .. Len(toReceiver'.queue) : toReceiver'.queue[i].hdr = "TRANSFEROFFER" =>
          i = Len(toReceiver'.queue) /\ offerPc = "sent"
    BY <1>3, <1>4, <2>1 DEF IInv, Offering
  <2> QED
    BY <1>4, <2>1, <2>3, <2>4 DEF IInv, Offering, OnlyHeaders, NothingAccepted
<1>9. Asking'
  <2>1. SUFFICES ASSUME prompt \in {"asking", "yes"}, ~sending.AllowedToTransfer PROVE Asking'
    BY DEF Asking
  <2>2. toReceiver'.queue = <<>> /\ (prompt = "asking" => toSender'.queue = <<>>)
    BY <1>5, <2>1 DEF IInv, Asking
  <2>3. prompt = "yes" => Len(toSender'.queue) <= 1 /\ OnlyHeaders(toSender'.queue, {"ACCEPT"})
    BY <1>3, <1>4, <2>1 DEF IInv, Asking, OnlyHeaders
  <2> QED
    BY <2>1, <2>2, <2>3 DEF IInv, Asking, NothingAccepted
<1>10. Rejected'
  BY <1>4 DEF IInv, Rejected, OnlyHeaders, NothingAccepted
<1>11. \A f \in FileIDs :
         ~BytesComing \/ f # sending.CurrentFileID => (Checked(f) => Checked(f)')
  BY DEF Checked, SameChecksum, Present
<1>12. UnderWay'
  <2>1. SUFFICES ASSUME sending.AllowedToTransfer, ~sending.stopped PROVE UnderWay'
    BY DEF UnderWay
  <2>2. /\ ~receiving.stopped
        /\ Len(toReceiver.queue) + Len(toSender.queue) <= 1
        /\ \A i \in 1 .. Len(toReceiver.queue) : Outbound(toReceiver.queue[i])
        /\ \A i \in 1 .. Len(toSender.queue) : Inbound(toSender.queue[i])
    BY <2>1 DEF IInv, UnderWay
  <2>3. /\ Len(toReceiver'.queue) + Len(toSender'.queue) <= 1
        /\ \A i \in 1 .. Len(toReceiver'.queue) : i = 1 /\ Len(toReceiver.queue) = 1
        /\ \A i \in 1 .. Len(toSender'.queue) : Len(toReceiver.queue) = 0
    <3>1. Len(toReceiver.queue) + Len(toSender.queue) <= 1
      BY <2>2
    <3>2. ASSUME NEW a \in Nat, NEW b \in Nat, NEW c \in Nat, NEW d \in Nat,
                 a = Len(toReceiver.queue), b = Len(toSender.queue),
                 c = Len(toReceiver'.queue), d = Len(toSender'.queue)
          PROVE  c + d <= 1 /\ (\A i \in 1 .. c : i = 1 /\ a = 1) /\ \A i \in 1 .. d : a = 0
      <4>1. a + b <= 1 /\ c <= a /\ d <= b
        BY <1>3, <3>1, <3>2
      <4> HIDE <3>2
      <4> QED
        BY <4>1, SmallSum
    <3> QED
      BY <1>3, <3>2
  <2>4. ASSUME NEW i \in 1 .. Len(toReceiver'.queue)
        PROVE  Outbound(toReceiver.queue[i])'
    <3>1. i = 1 /\ Outbound(toReceiver.queue[i]) /\ toReceiver'.queue[i] = toReceiver.queue[i]
          /\ Len(toReceiver.queue) = 1
      BY <1>4, <2>2, <2>3
    <3>2. CASE toReceiver.queue[i].hdr = "FILEBYTES"
      <4>1. sending.CurrentFileID \in Nat /\ CheckedBelow(sending.CurrentFileID)
        BY <3>1, <3>2, SendingFacts DEF Outbound
      <4>2. CheckedBelow(sending.CurrentFileID)'
        BY <1>11, <4>1 DEF CheckedBelow, FileIDs
      <4> QED
        BY <3>1, <3>2, <4>2 DEF Outbound, AcceptedIs
    <3>3. CASE toReceiver.queue[i].hdr # "FILEBYTES"
      <4>1. ~BytesComing
        BY <3>1, <3>3 DEF BytesComing
      <4>2. \A n : CheckedBelow(n) => CheckedBelow(n)'
        BY <1>11, <4>1 DEF CheckedBelow
      <4> QED
        BY <3>1, <3>3, <4>2 DEF Outbound, AcceptedIs, NothingAccepted
    <3> QED
      BY <3>2, <3>3
  <2>5. ASSUME NEW i \in 1 .. Len(toSender'.queue)
        PROVE  Inbound(toSender.queue[i])'
    <3>1. Inbound(toSender.queue[i]) /\ toSender'.queue[i] = toSender.queue[i]
          /\ Len(toReceiver.queue) = 0
      BY <1>4, <2>2, <2>3
    <3>2. ~BytesComing
      BY <3>1 DEF BytesComing
    <3>3. \A n : CheckedBelow(n) => CheckedBelow(n)'
      BY <1>11, <3>2 DEF CheckedBelow
    <3>4. SameChecksum(sending.CurrentFileID) /\ sending.CurrentFileID \in FileIDs
            => SameChecksum(sending.CurrentFileID)'
      BY <3>2 DEF SameChecksum, Present
    <3>5. sending.InTransfer => sending.CurrentFileID \in FileIDs
      BY <2>1, SendingFacts DEF ListsOf, FileIDs
    <3> QED
      BY <3>1, <3>3, <3>4, <3>5 DEF Inbound, AcceptedIs, NothingAccepted
  <2> QED
    BY <2>2, <2>3, <2>4, <2>5 DEF UnderWay
<1>13. Over'
  <2>1. SUFFICES ASSUME sending.AllowedToTransfer, sending.stopped PROVE Over'
    BY DEF Over
  <2>2. ~BytesComing
    BY <2>1 DEF BytesComing
  <2>3. CheckedBelow(NumFiles) => CheckedBelow(NumFiles)'
    BY <1>11, <2>2 DEF CheckedBelow
  <2> QED
    BY <1>4, <2>1, <2>3 DEF IInv, Over, OnlyHeaders
<1> QED
  BY <1>1, <1>6, <1>8, <1>9, <1>10, <1>12, <1>13

\* Such a step, if it ends a stream or changes neither of them nor who is alive.
LEMMA ShrunkStep ==
  ASSUME IInv, Types', EndedStreams', Unconnected',
         UNCHANGED <<offerPc, sending, offered, prompt, receiving, corrupted>>,
         Beginning(toReceiver', toReceiver), Beginning(toSender', toSender),
         senderPc = "panic" => senderPc' = "panic",
         \A f \in FileIDs : disk'[f] = disk[f] \/ (BytesComing /\ f = sending.CurrentFileID),
         \/ toReceiver'.end # "open" \/ toSender'.end # "open"
         \/ UNCHANGED <<senderPc, receiverPc, streams>>
  PROVE  IInv'
<1>1. Lists' /\ KeyAhead' /\ Offering' /\ Asking' /\ Rejected' /\ UnderWay' /\ Over'
  BY Shrunk
<1>2. StopAndWait'
  BY DEF IInv, StopAndWait, Transferring, ReceiverAlive, streams
<1> QED
  BY <1>1, <1>2 DEF IInv

=============================================================================
