--------------------------- MODULE DeliveryProofs ---------------------------
(***************************************************************************)
(* Transfer implements Delivery as long as os.Remove works: for every      *)
(* number of files and symlinks, any contents, edits, faults and attempts. *)
(* And what stands in the downloads folder, byte for byte: files that have *)
(* arrived stay, and as long as nobody edits a served file, every file     *)
(* that DONE speaks of is the served one.                                  *)
(***************************************************************************)
EXTENDS TransferProofs, TransferDelivery

-----------------------------------------------------------------------------
(* What the refinement needs beyond IInv and HoldsWhatCame.                *)

\* A file that was found to be corrupted lies behind the sender.
CorruptedPast == \A f \in corrupted : f < sending.CurrentFileID

LinkedBelow(n) == \A l \in SymlinkIDs : l <= n => links[l] # "absent"

\* While a packet is under way something stands in the place of every symlink
\* that was sent before, but for the one that the packet brings.
LinksKept ==
  sending.AllowedToTransfer /\ ~sending.stopped =>
    /\ \A i \in 1 .. Len(toReceiver.queue) :
         IF toReceiver.queue[i].hdr = "SYMLINK"
           THEN /\ toReceiver.queue[i].id = sending.CurrentSymlinkIndex
                /\ LinkedBelow(sending.CurrentSymlinkIndex - 1)
           ELSE LinkedBelow(sending.CurrentSymlinkIndex)
    /\ toSender.queue # <<>> => LinkedBelow(sending.CurrentSymlinkIndex)

RInv == IInv /\ HoldsWhatCame /\ CorruptedPast /\ LinksKept

-----------------------------------------------------------------------------
(* The sender's turn.                                                      *)

\* What the sender's turn keeps, and when it is DONE.
LEMMA TurnKeeps ==
  ASSUME IInv, Turn, LinksKept, toSender.queue # <<>>, ~sending.stopped
  PROVE  /\ LinksKept'
         /\ sending.CurrentFileID <= sending'.CurrentFileID
         /\ SentDone' => /\ prompt = "yes" /\ NothingAccepted
                         /\ CheckedBelow(NumFiles) /\ LinkedBelow(NumSymlinks)
<1>1. PICK s : HoldsToken(s) /\ Follows(s) /\ TransferSection(s)
  BY DEF Turn
<1>2. /\ s \in Sendings /\ ListsOf(s) /\ Types /\ s.AllowedToTransfer /\ ~s.stopped
      /\ s.InTransfer => s.CanSendBytes
      /\ toReceiver.queue = <<>> /\ toReceiver \in Streams /\ toSender'.queue = <<>>
      /\ s.CurrentFileID \in Nat /\ sending.CurrentFileID \in Nat /\ s.CurrentSymlinkIndex \in Nat
      /\ prompt = "yes" /\ CheckedBelow(s.CurrentFileID)
      /\ ~s.InTransfer => NothingAccepted
  BY <1>1 DEF HoldsToken, IInv, Types, Sendings
<1>3. UNCHANGED <<offered, links>> /\ NumFiles \in Nat /\ NumSymlinks \in Nat
  BY ProtocolAssumption DEF Turn, OnlySection, receiverVars
<1>4. LinkedBelow(s.CurrentSymlinkIndex)
  <2>1. CASE sending.AllowedToTransfer
    BY <1>1, <2>1 DEF LinksKept, Follows
  <2>2. CASE ~sending.AllowedToTransfer
    BY <1>1, <2>2, Unallowed DEF Follows, LinkedBelow, SymlinkIDs
  <2> QED
    BY <2>1, <2>2
<1>5. sending.CurrentFileID <= sending'.CurrentFileID
  <2>1. sending'.CurrentFileID \in Nat /\ s.CurrentFileID <= sending'.CurrentFileID
    <3>1. IInv'
      BY TurnStep
    <3> QED
      BY <1>1, <1>2, <3>1, SectionCounts DEF Counted, IInv, Types, Sendings
  <2> QED
    BY <1>1, <1>2, <2>1 DEF Follows
<1>6. ASSUME NEW t, NEW p \in Packets, Continue(t, <<p>>),
             IF p.hdr = "SYMLINK"
               THEN p.id = t.CurrentSymlinkIndex /\ LinkedBelow(t.CurrentSymlinkIndex - 1)
               ELSE LinkedBelow(t.CurrentSymlinkIndex)
      PROVE  LinksKept'
  <2>1. sending' = t /\ toReceiver' = Push(toReceiver, <<p>>)
    BY <1>6 DEF Continue
  <2>2. \A i \in 1 .. Len(toReceiver'.queue) : toReceiver'.queue[i] = p
    BY <1>2, <2>1, PushedOnly
  <2> QED
    BY <1>2, <1>3, <1>6, <2>1, <2>2 DEF LinksKept, LinkedBelow
<1>7. CASE /\ s.CurrentFileID = NumFiles /\ s.CurrentSymlinkIndex < NumSymlinks
           /\ Continue([s EXCEPT !.CurrentSymlinkIndex = @ + 1],
                       <<WithID("SYMLINK", s.CurrentSymlinkIndex + 1)>>)
  <2> DEFINE t == [s EXCEPT !.CurrentSymlinkIndex = @ + 1]
             p == WithID("SYMLINK", s.CurrentSymlinkIndex + 1)
  <2>1. s.CurrentSymlinkIndex + 1 \in IDsOf("SYMLINK")
    BY <1>2, <1>3, <1>7 DEF IDsOf, SymlinkIDs
  <2>2. p \in Packets /\ p.hdr = "SYMLINK" /\ p.id = s.CurrentSymlinkIndex + 1
    BY <2>1, WithIDType
  <2>3. t.CurrentSymlinkIndex = s.CurrentSymlinkIndex + 1 /\ ~t.stopped
    BY <1>2 DEF Sendings
  <2>4. sending' = t
    BY <1>7 DEF Continue
  <2> HIDE DEF t, p
  <2>5. LinkedBelow(t.CurrentSymlinkIndex - 1)
    BY <1>2, <1>4, <2>3
  <2>6. Continue(t, <<p>>)
    BY <1>7 DEF t, p
  <2> QED
    BY <1>5, <1>6, <2>2, <2>3, <2>4, <2>5, <2>6 DEF SentDone
<1>8. CASE /\ s.CurrentFileID = NumFiles /\ s.CurrentSymlinkIndex = NumSymlinks
           /\ Continue([s EXCEPT !.stopped = TRUE], <<Bare("DONE")>>)
  <2>1. sending' = [s EXCEPT !.stopped = TRUE]
    BY <1>8 DEF Continue
  <2>2. sending'.stopped
    BY <1>2, <2>1 DEF Sendings
  <2>3. LinkedBelow(NumSymlinks)
    BY <1>4, <1>8
  <2>4. NothingAccepted
    BY <1>2, <1>3, <1>8 DEF ListsOf
  <2>5. LinksKept'
    BY <2>2 DEF LinksKept
  <2> QED
    BY <1>2, <1>5, <1>8, <2>3, <2>4, <2>5
<1>9. CASE s.CurrentFileID < NumFiles /\ ~s.InTransfer
           /\ Continue([s EXCEPT !.InTransfer = TRUE],
                       <<FilePacket(s.CurrentFileID, offered[s.CurrentFileID])>>)
  <2> DEFINE t == [s EXCEPT !.InTransfer = TRUE]
             p == FilePacket(s.CurrentFileID, offered[s.CurrentFileID])
  <2>1. s.CurrentFileID \in FileIDs /\ offered[s.CurrentFileID] \in Content
    BY <1>2, <1>3, <1>9 DEF FileIDs, Types
  <2>2. p \in Packets /\ p.hdr # "SYMLINK"
    BY <2>1, FilePacketType DEF FilePacket
  <2>3. t.CurrentSymlinkIndex = s.CurrentSymlinkIndex /\ ~t.stopped
    BY <1>2 DEF Sendings
  <2>4. sending' = t
    BY <1>9 DEF Continue
  <2> HIDE DEF t, p
  <2>5. Continue(t, <<p>>)
    BY <1>9 DEF t, p
  <2> QED
    BY <1>4, <1>5, <1>6, <2>2, <2>3, <2>4, <2>5 DEF SentDone
<1>10. CASE s.CurrentFileID < NumFiles /\ s.InTransfer
            /\ Continue([s EXCEPT !.FilesToSend = Remaining(s.CurrentFileID + 1),
                                  !.CurrentFileID = @ + 1, !.InTransfer = FALSE],
                        <<WithID("ENDFILE", s.CurrentFileID)>>)
  <2> DEFINE t == [s EXCEPT !.FilesToSend = Remaining(s.CurrentFileID + 1),
                            !.CurrentFileID = @ + 1, !.InTransfer = FALSE]
             p == WithID("ENDFILE", s.CurrentFileID)
  <2>1. s.CurrentFileID \in IDsOf("ENDFILE")
    BY <1>2, <1>3, <1>10 DEF IDsOf, FileIDs
  <2>2. p \in Packets /\ p.hdr # "SYMLINK"
    BY <2>1, WithIDType
  <2>3. t.CurrentSymlinkIndex = s.CurrentSymlinkIndex /\ ~t.stopped
    BY <1>2 DEF Sendings
  <2>4. sending' = t
    BY <1>10 DEF Continue
  <2> HIDE DEF t, p
  <2>5. Continue(t, <<p>>)
    BY <1>10 DEF t, p
  <2> QED
    BY <1>4, <1>5, <1>6, <2>2, <2>3, <2>4, <2>5 DEF SentDone
<1>11. CASE s.CurrentFileID < NumFiles /\ Readable(s, s.CurrentFileID)
            /\ SendBytes(s, s.CurrentFileID)
  <2> DEFINE c == s.CurrentFileID
             t == [s EXCEPT !.fileSent[c] = @ + PieceLength(s, c),
                            !.SentBytes = @ + PieceLength(s, c), !.CanSendBytes = FALSE]
             p == FileBytesPacket(c, NextPiece(s, c))
  <2>1. sending' = t /\ toReceiver' = Push(toReceiver, <<p>>)
    BY <1>11 DEF SendBytes, Continue
  <2>2. t.CurrentSymlinkIndex = s.CurrentSymlinkIndex /\ ~t.stopped /\ p.hdr # "SYMLINK"
    BY <1>2 DEF Sendings, FileBytesPacket
  <2> HIDE DEF t, p
  <2>3. \A l \in SymlinkIDs : l <= sending'.CurrentSymlinkIndex => links'[l] # "absent"
    BY <1>3, <1>4, <2>1, <2>2 DEF LinkedBelow
  <2>4. \A i \in 1 .. Len(toReceiver'.queue) : toReceiver'.queue[i] = p
    <3>1. toReceiver'.queue = <<p>> \/ toReceiver'.queue = <<>>
      BY <1>2, <2>1 DEF Push, Streams
    <3> QED
      BY <3>1, SingleQueue
  <2>5. LinksKept'
    BY <1>2, <2>2, <2>3, <2>4 DEF LinksKept, LinkedBelow
  <2> QED
    BY <1>5, <2>1, <2>2, <2>5 DEF SentDone
<1>12. CASE Panic(s) \/ Panic([s EXCEPT !.stopped = TRUE])
  <2>1. senderPc' = "panic" /\ toReceiver' = Close(toReceiver)
    BY <1>12 DEF Panic
  <2>2. toReceiver'.queue = <<>>
    BY <1>2, <2>1, CloseOne
  <2> QED
    BY <1>2, <1>5, <2>1, <2>2 DEF LinksKept, SentDone
<1> QED
  BY <1>1, <1>2, <1>7, <1>8, <1>9, <1>10, <1>11, <1>12, SectionOutcome

\* A step of the sender's main loop, as the refinement sees it.
LEMMA SenderCounts ==
  ASSUME IInv, LinksKept, SenderStep
  PROVE  /\ LinksKept'
         /\ sending.CurrentFileID <= sending'.CurrentFileID
         /\ SentDone => SentDone'
         /\ ~SentDone /\ SentDone' =>
              prompt = "yes" /\ NothingAccepted /\ CheckedBelow(NumFiles) /\ LinkedBelow(NumSymlinks)
<1>1. UNCHANGED <<receiverVars, session, edits>> /\ SenderLoop
  BY DEF SenderStep
<1>2. CASE SenderOnReady \/ SenderOnAlreadyHave \/ SenderOnAccept
  <2>1. Turn
    BY <1>1, <1>2, ReadyTurn, AlreadyHaveTurn, AcceptTurn
  <2>2. toSender.queue # <<>> /\ ~sending.stopped
    BY <1>2 DEF SenderOnReady, SenderOnAlreadyHave, SenderOnAccept, SenderTakes, Arrived
  <2> QED
    BY <2>1, <2>2, TurnKeeps DEF SentDone
<1>3. CASE SenderOnStop
  <2> DEFINE s == [sending EXCEPT !.stopped = TRUE]
  <2>1. ~sending.AllowedToTransfer
    BY <1>3, StopUnallowed
  <2>2. /\ s \in Sendings /\ s.AllowedToTransfer = sending.AllowedToTransfer
        /\ s.CurrentFileID = sending.CurrentFileID
    BY SendingFacts DEF Sendings
  <2>3. TransferSection(s)
    BY <1>3 DEF SenderOnStop
  <2> HIDE DEF s
  <2>4. Counted(s)
    BY <2>2, <2>3, SectionCounts
  <2>5. ~sending'.AllowedToTransfer /\ sending.CurrentFileID <= sending'.CurrentFileID
    BY <2>1, <2>2, <2>4 DEF Counted
  <2> QED
    BY <2>1, <2>5 DEF LinksKept, SentDone
<1>4. CASE SenderDisconnect
  <2>1. sending' = sending /\ sending.stopped /\ senderPc = "loop" /\ senderPc' = "done"
    BY <1>4 DEF SenderDisconnect
  <2> QED
    BY <2>1, SendingFacts DEF LinksKept, SentDone
<1>5. CASE SenderExit
  <2>1. /\ sending' = sending /\ ~sending.stopped
        /\ toReceiver' = Close(toReceiver) /\ toSender' = toSender /\ links' = links
    BY <1>1, <1>5 DEF SenderExit, receiverVars
  <2>2. toReceiver'.queue = toReceiver.queue
    BY <2>1, CloseOne DEF IInv, Types
  <2> QED
    BY <2>1, <2>2, SendingFacts DEF LinksKept, LinkedBelow, SentDone
<1> QED
  BY <1>1, <1>2, <1>3, <1>4, <1>5 DEF SenderLoop

-----------------------------------------------------------------------------
(* The invariant is inductive.                                             *)

\* Steps that take nothing from the streams but their ends.
LEMMA QuietKeeps ==
  ASSUME LinksKept, CorruptedPast, UNCHANGED <<sending, links, corrupted>>,
         Beginning(toReceiver', toReceiver), Beginning(toSender', toSender),
         toSender \in Streams, toReceiver \in Streams
  PROVE  LinksKept' /\ CorruptedPast'
<1>1. /\ Len(toReceiver'.queue) \in Nat /\ Len(toReceiver.queue) \in Nat
      /\ Len(toReceiver'.queue) <= Len(toReceiver.queue)
      /\ \A i \in 1 .. Len(toReceiver'.queue) :
           i \in 1 .. Len(toReceiver.queue) /\ toReceiver'.queue[i] = toReceiver.queue[i]
  BY DEF Beginning, Streams
<1>2. toSender'.queue # <<>> => toSender.queue # <<>>
  BY EmptyQueue DEF Beginning, Streams
<1> QED
  BY <1>1, <1>2 DEF LinksKept, LinkedBelow, CorruptedPast

\* Steps before ACCEPT and after DONE.
LEMMA IdleKeeps ==
  ASSUME CorruptedPast, UNCHANGED <<sending, corrupted>>,
         ~sending.AllowedToTransfer \/ sending.stopped
  PROVE  LinksKept' /\ CorruptedPast'
BY DEF LinksKept, CorruptedPast

\* The receiver's main loop.
LEMMA ReceiverKeeps ==
  ASSUME IInv, LinksKept, CorruptedPast, ReceiverStep
  PROVE  LinksKept' /\ CorruptedPast'
<1>1. UNCHANGED sending /\ ReceiverLoop /\ toReceiver \in Streams /\ toSender \in Streams
  BY DEF ReceiverStep, senderVars, IInv, Types
<1>2. CASE ReceiverOnKey \/ ReceiverOnOffer
  <2>1. ~sending.AllowedToTransfer
    BY <1>2, OpeningTaken DEF ReceiverOnKey, ReceiverOnOffer
  <2> QED
    BY <1>1, <1>2, <2>1, IdleKeeps DEF ReceiverOnKey, ReceiverOnOffer
<1>3. CASE ReceiverOnStop
  <2>1. sending.AllowedToTransfer => sending.stopped
    BY <1>3, StopTaken DEF ReceiverOnStop
  <2> QED
    BY <1>1, <1>3, <2>1, IdleKeeps DEF ReceiverOnStop
<1>4. CASE LoopTop
  <2>1. CASE receiving.stopped
    <3>1. sending.AllowedToTransfer => sending.stopped
      BY <2>1 DEF IInv, UnderWay
    <3> QED
      BY <1>1, <1>4, <3>1, IdleKeeps DEF LoopTop
  <2>2. CASE ~receiving.stopped
    <3>1. UNCHANGED <<links, corrupted, toReceiver, toSender>>
      BY <1>4, <2>2 DEF LoopTop
    <3> QED
      BY <1>1, <3>1, BeginningSame, QuietKeeps
  <2> QED
    BY <2>1, <2>2
<1>5. CASE ReceiverExit
  <2>1. UNCHANGED <<links, corrupted, toReceiver>> /\ toSender' = Close(toSender)
    BY <1>5 DEF ReceiverExit
  <2> QED
    BY <1>1, <2>1, BeginningSame, BeginningClose, QuietKeeps
<1>6. ASSUME NEW headers, ReceiverTakes(headers), headers \subseteq Bodies,
             \A l \in SymlinkIDs : links[l] # "absent" => links'[l] # "absent",
             Packet.hdr = "SYMLINK" => links'[Packet.id] # "absent"
      PROVE  LinksKept'
  <2> DEFINE n == sending.CurrentSymlinkIndex
  <2>1. sending.AllowedToTransfer /\ ~sending.stopped /\ toReceiver'.queue = <<>> /\ n \in Nat
    BY <1>6, BodyTaken, SendingFacts DEF Sendings
  <2>2. 1 \in 1 .. Len(toReceiver.queue) /\ Packet = toReceiver.queue[1]
    BY <1>6, ReceiverHead
  <2>3. IF Packet.hdr = "SYMLINK" THEN Packet.id = n /\ LinkedBelow(n - 1) ELSE LinkedBelow(n)
    BY <2>1, <2>2 DEF LinksKept
  <2> HIDE DEF n
  <2>4. \A l \in SymlinkIDs : l <= n => l <= n - 1 \/ l = n
    BY <2>1, ProtocolAssumption DEF SymlinkIDs
  <2>5. \A l \in SymlinkIDs : l <= n => links'[l] # "absent"
    BY <1>6, <2>3, <2>4 DEF LinkedBelow
  <2>6. \A l \in SymlinkIDs : l <= sending'.CurrentSymlinkIndex => links'[l] # "absent"
    BY <1>1, <2>5 DEF n
  <2> QED
    BY <2>1, <2>6 DEF LinksKept, LinkedBelow
<1>7. CASE ReceiverOnFile \/ ReceiverOnFileBytes
  <2>1. PICK headers \in {{"FILE"}, {"FILEBYTES"}} : ReceiverTakes(headers)
    BY <1>7 DEF ReceiverOnFile, ReceiverOnFileBytes
  <2>2. UNCHANGED <<links, corrupted>> /\ Packet.hdr # "SYMLINK"
    BY <1>7, ReceiverHead DEF ReceiverOnFile, ReceiverOnFileBytes
  <2>3. LinksKept'
    BY <1>6, <2>1, <2>2 DEF Bodies
  <2> QED
    BY <1>1, <2>2, <2>3 DEF CorruptedPast
<1>8. CASE ReceiverOnSymlink
  <2>1. ReceiverTakes({"SYMLINK"}) /\ UNCHANGED corrupted
        /\ links' = [links EXCEPT ![Packet.id] = IF @ = "absent" THEN "made" ELSE @]
    BY <1>8 DEF ReceiverOnSymlink
  <2>2. Packet.id \in SymlinkIDs
    BY <2>1, ReceiverHead DEF Packets, IDsOf
  <2>3. LinksKept'
    BY <1>6, <2>1, <2>2, ReceivingFacts DEF Bodies
  <2> QED
    BY <1>1, <2>1, <2>3 DEF CorruptedPast
<1>9. CASE ReceiverOnEndfile
  <2>1. ReceiverTakes({"ENDFILE"}) /\ UNCHANGED links
    BY <1>9 DEF ReceiverOnEndfile
  <2>2. Packet.hdr = "ENDFILE" /\ Packet \in Packets /\ Outbound(Packet)
    BY <2>1, BodyTaken DEF Bodies
  <2>3. LinksKept'
    BY <1>6, <2>1, <2>2 DEF Bodies
  <2>4. Packet.id = sending.CurrentFileID - 1 /\ sending.CurrentFileID \in Nat
    BY <2>2, SendingFacts DEF Outbound
  <2>5. corrupted' \subseteq corrupted \cup {Packet.id}
    BY <1>9 DEF ReceiverOnEndfile, FinishFile
  <2> QED
    BY <1>1, <2>3, <2>4, <2>5 DEF CorruptedPast
<1> QED
  BY <1>1, <1>2, <1>3, <1>4, <1>5, <1>7, <1>8, <1>9 DEF ReceiverLoop

\* Every step keeps it, as long as os.Remove works.
LEMMA NextRInv ==
  ASSUME "remove" \notin Faults, RInv, [Next]_vars
  PROVE  RInv'
<1>1. IInv' /\ HoldsWhatCame'
  BY NextIInv, HoldsStep DEF RInv
<1>2. IInv /\ LinksKept /\ CorruptedPast /\ toReceiver \in Streams /\ toSender \in Streams
  BY DEF RInv, IInv, Types
<1>3. Beginning(toReceiver, toReceiver) /\ Beginning(toSender, toSender)
  BY <1>2, BeginningSame
<1>4. CASE SenderStep
  <2>1. LinksKept' /\ sending.CurrentFileID <= sending'.CurrentFileID /\ corrupted' = corrupted
    BY <1>2, <1>4, SenderCounts DEF SenderStep, receiverVars
  <2>2. /\ sending.CurrentFileID \in Nat /\ sending'.CurrentFileID \in Nat
        /\ \A f \in corrupted : f \in Nat
    BY <1>1, <1>2, ProtocolAssumption DEF IInv, Types, Sendings, FileIDs
  <2>3. CorruptedPast'
    BY <1>2, <2>1, <2>2 DEF CorruptedPast
  <2> QED
    BY <1>1, <2>1, <2>3 DEF RInv
<1>5. CASE ReceiverStep
  BY <1>1, <1>2, <1>5, ReceiverKeeps DEF RInv
<1>6. CASE KillSender \/ KillReceiver \/ LoseConnection
  <2>1. UNCHANGED <<sending, links, corrupted>>
    BY <1>6 DEF KillSender, KillReceiver, LoseConnection, receiverVars, senderVars
  <2>2. Beginning(toReceiver', toReceiver) /\ Beginning(toSender', toSender)
    BY <1>2, <1>3, <1>6, BeginningCut DEF KillSender, KillReceiver, LoseConnection
  <2> QED
    BY <1>1, <1>2, <2>1, <2>2, QuietKeeps DEF RInv
<1>7. CASE DialFails \/ RejectStep \/ EditServed \/ Finished \/ UNCHANGED vars
  <2>1. UNCHANGED <<sending, links, corrupted, toReceiver, toSender>>
    BY <1>7 DEF DialFails, RejectStep, RejectStop, EditServed, Finished, vars, receiverVars,
                senderVars, streams
  <2> QED
    BY <1>1, <1>2, <1>3, <2>1, QuietKeeps DEF RInv
<1>8. CASE Connect \/ OfferStep \/ AnswerStep
  <2>1. UNCHANGED <<sending, corrupted>>
    BY <1>8 DEF Connect, OfferStep, SendTransferOffer, AnswerStep, AnswerYes, AnswerNo, senderVars,
                receiverVars
  <2>2. ~sending.AllowedToTransfer
    <3>1. CASE Connect
      BY <1>2, <3>1 DEF Connect, IInv, Unconnected, Lists
    <3>2. CASE OfferStep
      BY <1>2, <3>2 DEF OfferStep, SendTransferOffer, IInv, KeyAhead, Lists
    <3>3. CASE AnswerStep
      BY <1>2, <3>3 DEF AnswerStep, AnswerYes, AnswerNo, IInv, Lists
    <3> QED
      BY <1>8, <3>1, <3>2, <3>3
  <2> QED
    BY <1>1, <1>2, <2>1, <2>2, IdleKeeps DEF RInv
<1>9. CASE NewSession
  BY <1>1, <1>9 DEF NewSession, RInv, LinksKept, CorruptedPast, FreshSending
<1> QED
  BY <1>4, <1>5, <1>6, <1>7, <1>8, <1>9 DEF Next

\* What the refinement rests on holds always.
LEMMA RefinementInvariant ==
  ASSUME "remove" \notin Faults
  PROVE  Spec => []RInv
<1>1. Init => RInv
  <2>1. SUFFICES ASSUME Init PROVE RInv
    OBVIOUS
  <2>2. IInv
    BY <2>1, InitIInv
  <2>3. HoldsWhatCame /\ CorruptedPast /\ LinksKept
    BY <2>1 DEF Init, HoldsWhatCame, ReceiverAlive, CorruptedPast, LinksKept, FreshSending
  <2> QED
    BY <2>2, <2>3 DEF RInv
<1>2. RInv /\ [Next]_vars => RInv'
  BY NextRInv
<1> QED
  BY <1>1, <1>2, PTL DEF Spec

-----------------------------------------------------------------------------
(* The abstract state, as it is read off the concrete one.                 *)

\* A file has been dealt with exactly when it is in place with the offered
\* checksum, or was found to be corrupted.
LEMMA DealtIs ==
  ASSUME NEW f
  PROVE  D!Dealt(f) <=> Checked(f)
BY DEF D!Dealt, D!GetPartialCheckSum, D!SampledSize, D!CapturedSize, D!SampledAt, Checked,
       SameChecksum, Present, GetPartialCheckSum, SampledSize, CapturedSize, SampledAt

\* Contents, checksums and opened files are the same on both levels.
LEMMA ContentIs ==
  /\ D!Content = Content
  /\ \A content : D!GetPartialCheckSum(content) = GetPartialCheckSum(content)
  /\ \A content : D!Made(content) = Opened(content)
BY DEF D!Content, D!GetPartialCheckSum, D!SampledSize, D!CapturedSize, D!SampledAt, D!Made,
       Content, GetPartialCheckSum, SampledSize, CapturedSize, SampledAt, Opened

\* The file that is being received, or none.
LEMMA ArrivingIs ==
  /\ receiving.AcceptedFiles = <<>> => Arriving = {}
  /\ \A file : receiving.AcceptedFiles = <<file>> => Arriving = {file.id}
  /\ receiving'.AcceptedFiles = <<>> => Arriving' = {}
  /\ \A file : receiving'.AcceptedFiles = <<file>> => Arriving' = {file.id}
<1> DEFINE IDs(files) == {files[i].id : i \in 1 .. Len(files)}
<1>1. IDs(<<>>) = {}
  <2>1. Len(<<>>) = 0
    OBVIOUS
  <2> QED
    BY <2>1
<1>2. \A file : IDs(<<file>>) = {file.id}
  <2>1. ASSUME NEW file PROVE IDs(<<file>>) = {file.id}
    <3>1. Len(<<file>>) = 1 /\ <<file>>[1] = file
      OBVIOUS
    <3>2. PICK files : files = <<file>>
      OBVIOUS
    <3>3. 1 .. Len(files) = {1} /\ files[1] = file
      BY <3>1, <3>2
    <3>4. IDs(files) = {file.id}
      BY <3>3
    <3> QED
      BY <3>2, <3>4
  <2> QED
    BY <2>1
<1>3. Arriving = IDs(receiving.AcceptedFiles) /\ Arriving' = IDs(receiving'.AcceptedFiles)
  BY DEF Arriving
<1> HIDE DEF IDs
<1> QED
  BY <1>1, <1>2, <1>3

\* What the goroutine that asks is at, and the user's answer.
LEMMA ConsentIs ==
  /\ prompt = "none" => Consent = "none"
  /\ prompt = "asking" => Consent = "asked"
  /\ prompt = "yes" => Consent = "yes"
  /\ prompt \in {"rejecting", "no"} => Consent = "no"
BY DEF Consent

\* As long as the receiver runs and the sender is not DONE the attempt is open.
LEMMA OutcomeIs ==
  /\ SentDone => Outcome = "complete"
  /\ ~SentDone /\ receiverPc \in Ended => Outcome = "over"
  /\ ~SentDone /\ receiverPc \notin Ended => Outcome = "open"
BY DEF Outcome

\* A piece that is written at the end of a file leaves the rest as it is.
LEMMA WrittenAtEnd ==
  ASSUME NEW content \in Content, NEW bytes \in Content
  PROVE  D!IsPrefix(content, WriteAt(content, bytes, Len(content)))
<1> DEFINE n == Len(content)
           written == WriteAt(content, bytes, n)
<1>0. n \in Nat /\ Len(bytes) \in Nat
  BY DEF Content
<1>1. written \in Seq(Nat) /\ Len(written) = n + Len(bytes)
  <2>1. written \in Content /\ Len(written) = n + Len(bytes)
    BY <1>0, WriteAtFacts
  <2> QED
    BY <2>1 DEF Content
<1>2. \A j \in 1 .. n : written[j] = content[j]
  BY <1>0, <1>1 DEF WriteAt
<1> HIDE DEF written
<1>3. SubSeq(content, 1, n) = SubSeq(written, 1, n)
  <2>1. content \in Seq(Nat)
    BY DEF Content
  <2> HIDE DEF n
  <2>2. SubSeq(content, 1, n) = [j \in 1 .. n |-> content[j]]
    BY <1>0, <2>1 DEF n
  <2>3. SubSeq(written, 1, n) = [j \in 1 .. n |-> written[j]]
    BY <1>0, <1>1
  <2> QED
    BY <1>2, <2>2, <2>3
<1> QED
  BY <1>0, <1>1, <1>3 DEF D!IsPrefix, written

-----------------------------------------------------------------------------
(* Every step is one of Delivery's, or none.                               *)

\* Steps that touch nothing that Delivery speaks of.
LEMMA Hidden ==
  ASSUME UNCHANGED <<offered, disk, links, corrupted>>, Consent' = Consent,
         receiving'.AcceptedFiles = receiving.AcceptedFiles,
         SentDone' = SentDone, SentDone \/ (receiverPc' \in Ended <=> receiverPc \in Ended)
  PROVE  UNCHANGED D!deliveryVars
BY DEF D!deliveryVars, Arriving, Outcome

\* The receiver ends: the attempt is given up, if it was not complete.
LEMMA ReceiverEnds ==
  ASSUME UNCHANGED <<senderVars, prompt, receiving, links, corrupted>>,
         receiverPc \notin Ended, receiverPc' \in Ended,
         UNCHANGED disk \/ (~SentDone /\ \E f \in Arriving : D!Grows(f))
  PROVE  [D!Next]_(D!deliveryVars)
<1>1. /\ offered' = offered /\ SentDone' = SentDone /\ Consent' = Consent /\ Arriving' = Arriving
      /\ links' = links /\ corrupted' = corrupted
  BY DEF senderVars, SentDone, Consent, Arriving
<1>2. CASE SentDone
  BY <1>1, <1>2, Hidden DEF senderVars
<1>3. CASE ~SentDone
  <2>1. Outcome = "open" /\ Outcome' = "over"
    BY <1>1, <1>3 DEF Outcome
  <2>2. D!GiveUp
    BY <1>1, <2>1 DEF D!GiveUp
  <2> QED
    BY <2>2 DEF D!Next
<1> QED
  BY <1>2, <1>3

\* The sender's steps: Complete when DONE is sent.
LEMMA SenderMaps ==
  ASSUME RInv, SenderStep
  PROVE  [D!Next]_(D!deliveryVars)
<1>1. /\ SentDone => SentDone'
      /\ ~SentDone /\ SentDone' =>
           prompt = "yes" /\ NothingAccepted /\ CheckedBelow(NumFiles) /\ LinkedBelow(NumSymlinks)
  BY SenderCounts DEF RInv
<1>2. UNCHANGED <<offered, receiverPc, prompt, receiving, disk, links, corrupted>>
  BY DEF SenderStep, SenderLoop, receiverVars, SenderOnReady, SenderOnAccept, SenderOnStop,
         SenderOnAlreadyHave, SenderTakes, SenderDisconnect, SenderExit
<1>3. Consent' = Consent /\ Arriving' = Arriving
  BY <1>2 DEF Consent, Arriving
<1>4. CASE SentDone' = SentDone
  BY <1>2, <1>3, <1>4, Hidden
<1>5. CASE ~SentDone /\ SentDone'
  <2>1. Outcome \in {"open", "over"} /\ Outcome' = "complete"
    BY <1>5 DEF Outcome
  <2>2. Consent = "yes" /\ Arriving = {}
    BY <1>1, <1>5, ConsentIs, ArrivingIs DEF NothingAccepted
  <2>3. \A f \in FileIDs : D!Dealt(f)
    <3>1. \A f \in FileIDs : Checked(f)
      BY <1>1, <1>5, ProtocolAssumption DEF CheckedBelow, FileIDs
    <3> QED
      BY <3>1, DealtIs
  <2>4. \A l \in SymlinkIDs : links[l] # "absent"
    BY <1>1, <1>5, ProtocolAssumption DEF LinkedBelow, SymlinkIDs
  <2>5. D!Complete
    BY <1>2, <1>3, <2>1, <2>2, <2>3, <2>4 DEF D!Complete
  <2> QED
    BY <2>5 DEF D!Next
<1> QED
  BY <1>1, <1>4, <1>5 DEF SentDone

\* While a packet of the transfer itself is taken the attempt is open.
LEMMA OpenWhenTaken ==
  ASSUME IInv, NEW headers, ReceiverTakes(headers), headers \subseteq Bodies,
         UNCHANGED senderVars
  PROVE  Outcome = "open" /\ Outcome' = "open" /\ ~SentDone
<1>1. ~sending.stopped
  BY BodyTaken
<1>2. receiverPc \notin Ended /\ receiverPc' \notin Ended
  BY DEF ReceiverTakes, Ended
<1> QED
  BY <1>1, <1>2 DEF Outcome, SentDone, senderVars

\* FILE: a file that is not there begins, one that is changes nothing.
LEMMA FileMaps ==
  ASSUME "remove" \notin Faults, RInv, ReceiverOnFile, UNCHANGED senderVars
  PROVE  [D!Next]_(D!deliveryVars)
<1>1. ReceiverTakes({"FILE"}) /\ UNCHANGED <<prompt, links, corrupted, offered>> /\ IInv
  BY DEF ReceiverOnFile, RInv, senderVars
<1>2. Outcome = "open" /\ Outcome' = "open" /\ ~SentDone
  BY <1>1, OpenWhenTaken DEF Bodies
<1>3. prompt = "yes" /\ Outbound(Packet) /\ Packet \in Packets /\ Packet.hdr = "FILE"
  BY <1>1, BodyTaken DEF Bodies
<1>4. /\ Packet.id \in FileIDs /\ Packet.id = sending.CurrentFileID /\ NothingAccepted
      /\ Packet.data = GetPartialCheckSum(offered[Packet.id])
  BY <1>3 DEF Outbound, Packets, IDsOf
<1>5. Consent = "yes" /\ Consent' = "yes" /\ Arriving = {}
  <2>1. Consent' = Consent
    BY <1>1 DEF Consent
  <2> QED
    BY <1>3, <1>4, <2>1, ConsentIs, ArrivingIs DEF NothingAccepted
<1>6. CASE AlreadyHave
  <2>1. receiving'.AcceptedFiles = receiving.AcceptedFiles /\ UNCHANGED disk
    BY <1>1, <1>6, ReceivingFacts DEF AlreadyHave, Receivings
  <2> QED
    BY <1>1, <1>2, <1>5, <2>1 DEF D!deliveryVars, Arriving
<1>7. CASE AcceptFile
  <2> DEFINE file == [id |-> Packet.id, size |-> Packet.size, sum |-> Packet.data, sent |-> 0]
  <2>1. /\ disk' = [disk EXCEPT ![Packet.id] = NoFile] /\ ~IsExactFile(Packet)
        /\ receiving' = [receiving EXCEPT !.AcceptedFiles = Append(@, file)]
    BY <1>7 DEF AcceptFile
  <2>2. file.id = Packet.id
    OBVIOUS
  <2> HIDE DEF file
  <2>3. receiving'.AcceptedFiles = <<file>>
    BY <1>1, <1>4, <2>1, ReceivingFacts DEF Receivings, NothingAccepted
  <2>4. Arriving' = {Packet.id}
    BY <2>2, <2>3, ArrivingIs
  <2>5. ~Checked(Packet.id)
    <3>1. Packet.id \notin corrupted
      BY <1>4, SendingFacts, <1>1, ProtocolAssumption DEF RInv, CorruptedPast, FileIDs
    <3> QED
      BY <1>4, <2>1, <3>1 DEF Checked, SameChecksum, Present, IsExactFile
  <2>6. ~D!Dealt(Packet.id)
    BY <2>5, DealtIs
  <2>7. D!Begin(Packet.id)
    BY <1>1, <1>2, <1>5, <2>1, <2>4, <2>6 DEF D!Begin
  <2> QED
    BY <1>4, <2>7 DEF D!Next
<1> QED
  BY <1>6, <1>7 DEF ReceiverOnFile

\* The one file that is being received holds as many bytes as came.
LEMMA HeldLength ==
  ASSUME RInv, ReceiverAlive, NEW file, receiving.AcceptedFiles = <<file>>
  PROVE  Len(Opened(disk[file.id])) = file.sent
<1>1. Len(<<file>>) = 1 /\ <<file>>[1] = file /\ 1 \in 1 .. 1
  OBVIOUS
<1> QED
  BY <1>1 DEF RInv, HoldsWhatCame

\* A piece of the current file, or the beginning of one, is written at its end.
LEMMA PieceGrows ==
  ASSUME RInv, ReceiverAlive, NEW c \in FileIDs, NEW sent \in Nat, NEW bytes \in Content,
         receiving.AcceptedFiles = <<IncomingFile(c, sent)>>,
         disk' = [disk EXCEPT ![c] = WriteAt(Opened(@), bytes, sent)]
  PROVE  Arriving = {c} /\ D!Grows(c)
<1> DEFINE file == IncomingFile(c, sent)
<1>1. file.id = c /\ file.sent = sent
  BY DEF IncomingFile
<1> HIDE DEF file
<1>2. Arriving = {c} /\ Len(Opened(disk[c])) = sent
  BY <1>1, ArrivingIs, HeldLength DEF file
<1>3. Opened(disk[c]) \in Content /\ disk \in [FileIDs -> Content \cup {NoFile}]
  BY ReceivingFacts, OpenedType DEF RInv
<1>4. /\ disk'[c] = WriteAt(Opened(disk[c]), bytes, sent)
      /\ disk'[c] \in Content
      /\ D!IsPrefix(Opened(disk[c]), disk'[c])
  <2>1. disk'[c] = WriteAt(Opened(disk[c]), bytes, sent)
    BY <1>3
  <2> QED
    BY <1>2, <1>3, <2>1, WriteAtFacts, WrittenAtEnd
<1>5. disk' = [disk EXCEPT ![c] = disk'[c]]
  BY <1>3
<1> QED
  BY <1>2, <1>4, <1>5, ContentIs DEF D!Grows

\* A torn write leaves the beginning of the piece that has arrived.
LEMMA TornWritten ==
  ASSUME IInv, TornWrite
  PROVE  LET c == sending.CurrentFileID
             start == sending.fileSent[c] - Len(Packet.data)
         IN  /\ ~sending.stopped /\ c \in FileIDs /\ Packet.data \in Content /\ start \in Nat
             /\ receiving.AcceptedFiles = <<IncomingFile(c, start)>>
             /\ \E bytes \in Content :
                  /\ Len(bytes) <= Len(Packet.data)
                  /\ disk' = [disk EXCEPT ![c] = WriteAt(Opened(@), bytes, start)]
<1> DEFINE c == sending.CurrentFileID
           data == Packet.data
           start == sending.fileSent[c] - Len(data)
<1>1. PICK i \in Accepted(Packet.id), k \in 0 .. Len(data) :
        disk' = [disk EXCEPT ![Packet.id] =
                   WriteAt(Opened(@), SubSeq(data, 1, k), receiving.AcceptedFiles[i].sent)]
  BY DEF TornWrite
<1>2. /\ ~sending.stopped /\ Packet \in Packets /\ Packet.hdr = "FILEBYTES" /\ Outbound(Packet)
  BY BodyArrived DEF TornWrite, Bodies
<1>3. /\ Packet.id = c /\ c \in FileIDs /\ data \in Seq(Nat) /\ Len(data) \in Nat
      /\ Len(data) <= sending.fileSent[c] /\ AcceptedIs(c, start)
  BY <1>2 DEF Outbound, Packets, IDsOf, Content
<1>4. start \in Nat
  BY <1>3, SendingFacts DEF Sendings
<1>5. /\ receiving.AcceptedFiles = <<IncomingFile(c, start)>>
      /\ IncomingFile(c, start).id = c /\ IncomingFile(c, start).sent = start
  BY <1>3 DEF AcceptedIs, IncomingFile
<1>6. Accepted(c) = {1} /\ receiving.AcceptedFiles[1] = IncomingFile(c, start)
  BY <1>5, AcceptedOne
<1>7. disk' = [disk EXCEPT ![c] = WriteAt(Opened(@), SubSeq(data, 1, k), start)]
  <2>1. i = 1
    BY <1>3, <1>6
  <2> QED
    BY <1>1, <1>3, <1>5, <1>6, <2>1
<1> HIDE DEF c, start, data
<1>8. SubSeq(data, 1, k) \in Seq(Nat) /\ Len(SubSeq(data, 1, k)) <= Len(data)
  BY <1>3
<1> QED
  BY <1>2, <1>3, <1>4, <1>5, <1>7, <1>8 DEF c, start, data, Content

\* FILEBYTES: the file grows.
LEMMA FileBytesMaps ==
  ASSUME RInv, ReceiverOnFileBytes, UNCHANGED senderVars
  PROVE  [D!Next]_(D!deliveryVars)
<1> DEFINE c == sending.CurrentFileID
           n == Len(Packet.data)
           start == sending.fileSent[c] - n
<1>1. ReceiverTakes({"FILEBYTES"}) /\ UNCHANGED <<prompt, links, corrupted, offered>> /\ IInv
  BY DEF ReceiverOnFileBytes, RInv, senderVars
<1>2. Outcome = "open" /\ Outcome' = "open" /\ ~SentDone /\ prompt = "yes"
  BY <1>1, OpenWhenTaken, BodyTaken DEF Bodies
<1>3. /\ c \in FileIDs /\ start \in Nat /\ n \in Nat /\ Packet.data \in Content
      /\ receiving.AcceptedFiles = <<IncomingFile(c, start)>>
      /\ disk' = [disk EXCEPT ![c] = WriteAt(Opened(@), Packet.data, start)]
      /\ receiving'.AcceptedFiles = <<IncomingFile(c, start + n)>>
  BY <1>1, BytesStored
<1> HIDE DEF c, n, start
<1>4. ReceiverAlive
  BY <1>1 DEF ReceiverTakes, ReceiverAlive
<1>5. Arriving = {c} /\ D!Grows(c)
  BY <1>1, <1>3, <1>4, PieceGrows
<1>6. Arriving' = {c}
  <2>1. IncomingFile(c, start + n).id = c
    BY DEF IncomingFile
  <2> QED
    BY <1>3, <2>1, ArrivingIs
<1>7. Consent = "yes" /\ Consent' = Consent
  BY <1>1, <1>2, ConsentIs DEF Consent
<1>8. D!Receive(c)
  BY <1>1, <1>2, <1>5, <1>6, <1>7 DEF D!Receive
<1> QED
  BY <1>3, <1>8 DEF D!Next

\* ENDFILE: the file is compared, and is dealt with.
LEMMA EndfileMaps ==
  ASSUME RInv, ReceiverOnEndfile, UNCHANGED senderVars
  PROVE  [D!Next]_(D!deliveryVars)
<1>1. ReceiverTakes({"ENDFILE"}) /\ UNCHANGED <<prompt, links, offered>> /\ IInv
  BY DEF ReceiverOnEndfile, RInv, senderVars
<1>2. Outcome = "open" /\ Outcome' = "open" /\ ~SentDone /\ prompt = "yes"
  BY <1>1, OpenWhenTaken, BodyTaken DEF Bodies
<1>3. Outbound(Packet) /\ Packet.hdr = "ENDFILE" /\ Packet \in Packets
  BY <1>1, BodyTaken DEF Bodies
<1> DEFINE file == IncomingFile(Packet.id, Len(offered[Packet.id]))
<1>4. /\ receiving.AcceptedFiles = <<file>> /\ file.id = Packet.id /\ Packet.id \in FileIDs
      /\ file.sum = GetPartialCheckSum(offered[Packet.id])
  BY <1>3 DEF Outbound, AcceptedIs, IncomingFile, Packets, IDsOf
<1> HIDE DEF file
<1>5. Accepted(Packet.id) = {1} /\ receiving.AcceptedFiles[1] = file
      /\ RemoveAt(receiving.AcceptedFiles, 1) = <<>>
  BY <1>4, AcceptedOne
<1>6. /\ disk' = [disk EXCEPT ![Packet.id] = Opened(@)]
      /\ receiving' = [receiving EXCEPT !.AcceptedFiles = <<>>]
      /\ corrupted' = IF GetPartialCheckSum(Opened(disk[Packet.id]))
                           = GetPartialCheckSum(offered[Packet.id])
                        THEN corrupted ELSE corrupted \cup {Packet.id}
  BY <1>4, <1>5 DEF ReceiverOnEndfile, FinishFile
<1>7. receiving'.AcceptedFiles = <<>>
  BY <1>1, <1>6, ReceivingFacts DEF Receivings
<1>8. Arriving = {Packet.id} /\ Arriving' = {}
  BY <1>4, <1>7, ArrivingIs
<1>9. Consent = "yes" /\ Consent' = Consent
  BY <1>1, <1>2, ConsentIs DEF Consent
<1>10. D!End(Packet.id)
  BY <1>1, <1>2, <1>6, <1>8, <1>9, ContentIs DEF D!End
<1> QED
  BY <1>4, <1>10 DEF D!Next

\* SYMLINK: a symlink is made where nothing stands.
LEMMA SymlinkMaps ==
  ASSUME RInv, ReceiverOnSymlink, UNCHANGED senderVars
  PROVE  [D!Next]_(D!deliveryVars)
<1>1. /\ ReceiverTakes({"SYMLINK"}) /\ UNCHANGED <<prompt, receiving, disk, corrupted, offered>>
      /\ IInv
      /\ links' = [links EXCEPT ![Packet.id] = IF @ = "absent" THEN "made" ELSE @]
  BY DEF ReceiverOnSymlink, RInv, senderVars
<1>2. Outcome = "open" /\ Outcome' = "open" /\ ~SentDone /\ prompt = "yes"
  BY <1>1, OpenWhenTaken, BodyTaken DEF Bodies
<1>3. Outbound(Packet) /\ Packet.hdr = "SYMLINK" /\ Packet \in Packets
  BY <1>1, BodyTaken DEF Bodies
<1>4. Packet.id \in SymlinkIDs /\ NothingAccepted /\ CheckedBelow(NumFiles)
  BY <1>3 DEF Outbound, Packets, IDsOf
<1>5. Arriving = {} /\ Arriving' = Arriving /\ Consent = "yes" /\ Consent' = Consent
  BY <1>1, <1>2, <1>4, ArrivingIs, ConsentIs DEF NothingAccepted, Arriving, Consent
<1>6. CASE links[Packet.id] = "absent"
  <2>1. \A f \in FileIDs : D!Dealt(f)
    <3>1. \A f \in FileIDs : Checked(f)
      BY <1>4, ProtocolAssumption DEF CheckedBelow, FileIDs
    <3> QED
      BY <3>1, DealtIs
  <2>2. links' = [links EXCEPT ![Packet.id] = "made"]
    BY <1>1, <1>6
  <2>3. D!Link(Packet.id)
    BY <1>1, <1>2, <1>5, <1>6, <2>1, <2>2 DEF D!Link
  <2> QED
    BY <1>4, <2>3 DEF D!Next
<1>7. CASE links[Packet.id] # "absent"
  <2>1. links' = links
    BY <1>1, <1>4, <1>7, ReceivingFacts
  <2> QED
    BY <1>1, <1>2, <1>5, <2>1 DEF D!deliveryVars
<1> QED
  BY <1>6, <1>7

\* The receiver's main loop.
LEMMA ReceiverMaps ==
  ASSUME "remove" \notin Faults, RInv, ReceiverStep
  PROVE  [D!Next]_(D!deliveryVars)
<1>1. UNCHANGED senderVars /\ ReceiverLoop /\ IInv /\ SentDone' = SentDone /\ offered' = offered
  BY DEF ReceiverStep, RInv, senderVars, SentDone
<1>2. CASE LoopTop
  <2>1. receiverPc \notin Ended /\ UNCHANGED <<prompt, receiving, disk, links, corrupted>>
    BY <1>2 DEF LoopTop, Ended
  <2>2. CASE receiving.stopped
    BY <1>1, <1>2, <2>1, <2>2, ReceiverEnds DEF LoopTop, Ended
  <2>3. CASE ~receiving.stopped
    <3>1. receiverPc' \notin Ended
      BY <1>2, <2>3 DEF LoopTop, Ended
    <3>2. Consent' = Consent
      BY <2>1 DEF Consent
    <3> QED
      BY <1>1, <2>1, <3>1, <3>2, Hidden
  <2> QED
    BY <2>2, <2>3
<1>3. CASE ReceiverExit
  <2>1. /\ receiverPc \notin Ended /\ receiverPc' \in Ended
        /\ UNCHANGED <<prompt, receiving, disk, links, corrupted>>
    BY <1>3 DEF ReceiverExit, Ended
  <2> QED
    BY <1>1, <2>1, ReceiverEnds
<1>4. CASE ReceiverOnKey \/ ReceiverOnStop
  <2>1. /\ receiverPc \notin Ended /\ receiverPc' \notin Ended
        /\ UNCHANGED <<prompt, disk, links, corrupted>>
    BY <1>4 DEF ReceiverOnKey, ReceiverOnStop, ReceiverTakes, Ended
  <2>2. receiving'.AcceptedFiles = receiving.AcceptedFiles
    BY <1>1, <1>4, ReceivingFacts DEF ReceiverOnKey, ReceiverOnStop, Receivings
  <2>3. Consent' = Consent
    BY <2>1 DEF Consent
  <2> QED
    BY <1>1, <2>1, <2>2, <2>3, Hidden
<1>5. CASE ReceiverOnOffer
  <2>1. /\ ReceiverTakes({"TRANSFEROFFER"}) /\ prompt' = "asking"
        /\ UNCHANGED <<receiving, disk, links, corrupted>>
    BY <1>5 DEF ReceiverOnOffer
  <2>2. prompt = "none" /\ ~SentDone
    BY <1>1, <2>1, OpeningTaken DEF SentDone
  <2>3. receiverPc \notin Ended /\ receiverPc' \notin Ended
    BY <2>1 DEF ReceiverTakes, Ended
  <2>4. Outcome = "open" /\ Outcome' = "open"
    BY <1>1, <2>2, <2>3 DEF Outcome
  <2>5. Consent = "none" /\ Consent' = "asked" /\ Arriving' = Arriving
    BY <2>1, <2>2 DEF Consent, Arriving
  <2>6. D!Ask
    BY <1>1, <2>1, <2>4, <2>5 DEF D!Ask
  <2> QED
    BY <2>6 DEF D!Next
<1> QED
  BY <1>1, <1>2, <1>3, <1>4, <1>5, FileMaps, FileBytesMaps, EndfileMaps, SymlinkMaps DEF ReceiverLoop

\* Death of the receiver, which may strike inside a write.
LEMMA KillReceiverMaps ==
  ASSUME RInv, KillReceiver
  PROVE  [D!Next]_(D!deliveryVars)
<1>1. /\ ReceiverAlive /\ receiverPc \notin Ended /\ receiverPc' \in Ended
      /\ UNCHANGED <<senderVars, prompt, receiving, links, corrupted>> /\ IInv
  BY DEF KillReceiver, RInv, ReceiverAlive, Ended
<1>2. CASE UNCHANGED disk
  BY <1>1, <1>2, ReceiverEnds
<1>3. CASE TornWrite
  <2> DEFINE c == sending.CurrentFileID
             start == sending.fileSent[c] - Len(Packet.data)
  <2>1. /\ ~sending.stopped /\ c \in FileIDs /\ start \in Nat
        /\ receiving.AcceptedFiles = <<IncomingFile(c, start)>>
        /\ \E bytes \in Content : disk' = [disk EXCEPT ![c] = WriteAt(Opened(@), bytes, start)]
    BY <1>1, <1>3, TornWritten
  <2> HIDE DEF c, start
  <2>2. Arriving = {c} /\ D!Grows(c)
    BY <1>1, <2>1, PieceGrows
  <2>3. ~SentDone
    BY <2>1 DEF SentDone
  <2> QED
    BY <1>1, <2>2, <2>3, ReceiverEnds
<1> QED
  BY <1>2, <1>3 DEF KillReceiver

\* The answer of the user.
LEMMA AnswerMaps ==
  ASSUME RInv, AnswerStep
  PROVE  [D!Next]_(D!deliveryVars)
<1>1. /\ ReceiverAlive /\ prompt = "asking" /\ prompt' \in {"yes", "rejecting"} /\ IInv
      /\ UNCHANGED <<senderVars, receiverPc, receiving, disk, links, corrupted>>
  BY DEF AnswerStep, AnswerYes, AnswerNo, RInv
<1>2. ~SentDone /\ SentDone' = SentDone
  BY <1>1, AskingFacts DEF SentDone, senderVars
<1>3. Outcome = "open" /\ Outcome' = "open" /\ Arriving' = Arriving
  BY <1>1, <1>2 DEF Outcome, ReceiverAlive, Ended, Arriving
<1>4. Consent = "asked" /\ Consent' \in {"yes", "no"}
  BY <1>1 DEF Consent
<1>5. D!Answer
  BY <1>1, <1>3, <1>4 DEF D!Answer, senderVars
<1> QED
  BY <1>5 DEF D!Next

\* Every step of Transfer is a step of Delivery, or none of its.
LEMMA NextMaps ==
  ASSUME "remove" \notin Faults, RInv, [Next]_vars
  PROVE  [D!Next]_(D!deliveryVars)
<1>1. IInv /\ Types
  BY DEF RInv, IInv
<1>2. CASE Connect \/ OfferStep \/ KillSender \/ LoseConnection \/ EditServed
             \/ Finished \/ UNCHANGED vars
  <2> USE DEF senderVars, receiverVars, vars
  <2>1. UNCHANGED <<sending, offered, prompt, receiving, disk, links, corrupted>>
    BY <1>2 DEF Connect, OfferStep, SendTransferOffer, KillSender, LoseConnection, EditServed, Finished
  <2>2. senderPc' = "panic" <=> senderPc = "panic"
    BY <1>2 DEF Connect, OfferStep, SendTransferOffer, KillSender, LoseConnection, EditServed, Finished
  <2>3. receiverPc' \in Ended <=> receiverPc \in Ended
    BY <1>2 DEF Connect, OfferStep, SendTransferOffer, KillSender, LoseConnection, EditServed,
                Finished, Ended
  <2>4. Consent' = Consent /\ SentDone' = SentDone
    BY <2>1, <2>2 DEF Consent, SentDone
  <2> QED
    BY <2>1, <2>3, <2>4, Hidden
<1>3. CASE RejectStep
  <2>1. /\ prompt = "rejecting" /\ prompt' = "no"
        /\ UNCHANGED <<senderVars, receiverPc, disk, links, corrupted>>
    BY <1>3 DEF RejectStep, RejectStop
  <2>2. receiving'.AcceptedFiles = receiving.AcceptedFiles
    BY <1>1, <1>3, ReceivingFacts DEF RejectStep, RejectStop, Receivings
  <2>3. Consent' = Consent /\ SentDone' = SentDone /\ offered' = offered
    BY <2>1 DEF Consent, SentDone, senderVars
  <2> QED
    BY <2>1, <2>2, <2>3, Hidden
<1>4. CASE DialFails
  BY <1>4, ReceiverEnds DEF DialFails, Ended
<1>5. CASE NewSession
  <2>1. /\ senderPc \in Ended /\ receiverPc \in Ended
        /\ sending' = FreshSending /\ offered' = served
        /\ receiverPc' = "dial" /\ prompt' = "none" /\ receiving' = FreshReceiving
        /\ corrupted' = {} /\ UNCHANGED <<disk, links>>
    BY <1>5 DEF NewSession
  <2>2. ~SentDone'
    BY <2>1 DEF SentDone, FreshSending
  <2>3. Outcome # "open" /\ Outcome' = "open"
    BY <2>1, <2>2 DEF Outcome, Ended
  <2>4. Consent' = "none"
    BY <2>1 DEF Consent
  <2>5. Arriving' = {}
    BY <2>1, ArrivingIs DEF FreshReceiving
  <2>6. offered' \in [FileIDs -> D!Content]
    BY <1>1, <2>1, ContentIs DEF Types
  <2>7. D!TryAgain
    BY <2>1, <2>3, <2>4, <2>5, <2>6 DEF D!TryAgain
  <2> QED
    BY <2>7 DEF D!Next
<1> QED
  BY <1>2, <1>3, <1>4, <1>5, SenderMaps, ReceiverMaps, KillReceiverMaps, AnswerMaps DEF Next

\* The first state is one of Delivery's.
LEMMA InitMaps == Init => D!Init
<1>1. SUFFICES ASSUME Init PROVE D!Init
  OBVIOUS
<1>2. /\ sending = FreshSending /\ receiverPc = "dial" /\ prompt = "none"
      /\ receiving = FreshReceiving /\ corrupted = {}
  BY <1>1 DEF Init
<1>3. Types
  BY <1>1, InitIInv DEF IInv
<1>4. Consent = "none"
  BY <1>2 DEF Consent
<1>5. Arriving = {}
  BY <1>2, ArrivingIs DEF FreshReceiving
<1>6. Outcome = "open"
  BY <1>2 DEF Outcome, SentDone, FreshSending, Ended
<1> QED
  BY <1>2, <1>3, <1>4, <1>5, <1>6, ContentIs DEF D!Init, Types

\* As long as os.Remove works, a transfer is a delivery: whatever dies, breaks,
\* is edited or is tried again, the downloads folder only goes through the steps
\* of Delivery, and a sender that takes the transfer to be over is right.
THEOREM TransferImplementsDelivery ==
  ASSUME "remove" \notin Faults
  PROVE  Spec => ImplementsDelivery
<1>1. Init => D!Init
  BY InitMaps
<1>2. RInv /\ [Next]_vars => [D!Next]_(D!deliveryVars)
  BY NextMaps
<1> QED
  BY <1>1, <1>2, RefinementInvariant, PTL DEF Spec, ImplementsDelivery, D!Spec

-----------------------------------------------------------------------------
(* Files that have arrived stay.                                           *)

\* Writing nothing at the end of a file changes nothing.
LEMMA NothingWritten ==
  ASSUME NEW content \in Content, NEW bytes \in Content, Len(bytes) = 0
  PROVE  WriteAt(content, bytes, Len(content)) = content
<1>1. content \in Seq(Nat) /\ Len(content) \in Nat
  BY DEF Content
<1>2. WriteAt(content, bytes, Len(content)) = [j \in 1 .. Len(content) |-> content[j]]
  BY <1>1 DEF WriteAt
<1> QED
  BY <1>1, <1>2

\* A piece, or the beginning of one, does not touch a file that is complete.
LEMMA PieceSpares ==
  ASSUME RInv, ReceiverAlive, NEW c \in FileIDs, NEW start \in Nat, NEW bytes \in Content,
         receiving.AcceptedFiles = <<IncomingFile(c, start)>>,
         disk' = [disk EXCEPT ![c] = WriteAt(Opened(@), bytes, start)],
         start + Len(bytes) <= Len(offered[c]),
         NEW f \in FileIDs, Delivered(f)
  PROVE  disk'[f] = disk[f]
<1>1. CASE f # c
  BY <1>1, ReceivingFacts DEF RInv
<1>2. CASE f = c
  <2>1. disk[c] = offered[c] /\ offered[c] \in Content /\ disk \in [FileIDs -> Content \cup {NoFile}]
    BY <1>2 DEF Delivered, RInv, IInv, Types
  <2>2. Opened(disk[c]) = disk[c]
    BY <2>1, ProtocolAssumption DEF Opened
  <2>3. Len(disk[c]) = start
    <3> DEFINE file == IncomingFile(c, start)
    <3>1. file.id = c /\ file.sent = start
      BY DEF IncomingFile
    <3> HIDE DEF file
    <3>2. Len(Opened(disk[file.id])) = file.sent
      BY HeldLength DEF file
    <3> QED
      BY <2>2, <3>1, <3>2
  <2>4. Len(bytes) = 0
    <3>1. Len(bytes) \in Nat
      BY DEF Content
    <3> QED
      BY <2>1, <2>3, <3>1
  <2>5. WriteAt(disk[c], bytes, start) = disk[c]
    BY <2>1, <2>3, <2>4, NothingWritten
  <2> QED
    BY <1>2, <2>1, <2>2, <2>5
<1> QED
  BY <1>1, <1>2

\* One step, of whichever kind, spares a file that has arrived.
LEMMA ArrivedSpared ==
  ASSUME RInv, [Next]_vars, NEW f \in FileIDs, Delivered(f)
  PROVE  disk'[f] = disk[f]
<1>1. /\ IInv /\ disk \in [FileIDs -> Content \cup {NoFile}] /\ offered[f] \in Content
      /\ disk[f] = offered[f] /\ disk[f] # NoFile
  BY ProtocolAssumption DEF RInv, IInv, Types, Delivered
<1>2. \A i \in FileIDs : sending.fileSent[i] \in Nat /\ sending.fileSent[i] <= Len(offered[i])
  BY <1>1, SendingFacts DEF Sendings
<1>3. CASE ReceiverStep /\ ReceiverOnFile
  <2>1. CASE AlreadyHave
    BY <2>1 DEF AlreadyHave
  <2>2. CASE AcceptFile
    <3>1. Outbound(Packet) /\ Packet.hdr = "FILE" /\ Packet \in Packets
      BY <1>1, <1>3, BodyArrived DEF ReceiverOnFile, ReceiverTakes, Bodies
    <3>2. Packet.id \in FileIDs /\ Packet.data = GetPartialCheckSum(offered[Packet.id])
      BY <3>1 DEF Outbound, Packets, IDsOf
    <3>3. Packet.id # f
      BY <1>1, <2>2, <3>2 DEF AcceptFile, IsExactFile
    <3> QED
      BY <1>1, <2>2, <3>2, <3>3 DEF AcceptFile
  <2> QED
    BY <1>3, <2>1, <2>2 DEF ReceiverOnFile
<1>4. CASE ReceiverStep /\ ReceiverOnFileBytes
  <2> DEFINE c == sending.CurrentFileID
             n == Len(Packet.data)
             start == sending.fileSent[c] - n
  <2>1. /\ c \in FileIDs /\ start \in Nat /\ n \in Nat /\ Packet.data \in Content
        /\ start + n = sending.fileSent[c]
        /\ receiving.AcceptedFiles = <<IncomingFile(c, start)>>
        /\ disk' = [disk EXCEPT ![c] = WriteAt(Opened(@), Packet.data, start)]
    BY <1>1, <1>4, BytesStored
  <2>2. start + Len(Packet.data) <= Len(offered[c])
    BY <1>2, <2>1
  <2>3. ReceiverAlive
    BY <1>4 DEF ReceiverOnFileBytes, ReceiverTakes, ReceiverAlive
  <2> HIDE DEF c, n, start
  <2> QED
    BY <2>1, <2>2, <2>3, PieceSpares
<1>5. CASE ReceiverStep /\ ReceiverOnEndfile
  <2>1. disk' = disk \/ \E id : disk' = [disk EXCEPT ![id] = Opened(@)]
    BY <1>5 DEF ReceiverOnEndfile, FinishFile
  <2> QED
    BY <1>1, <2>1 DEF Opened
<1>6. CASE KillReceiver /\ TornWrite
  <2> DEFINE c == sending.CurrentFileID
             n == Len(Packet.data)
             start == sending.fileSent[c] - n
  <2>1. /\ c \in FileIDs /\ Packet.data \in Content /\ start \in Nat
        /\ receiving.AcceptedFiles = <<IncomingFile(c, start)>>
    BY <1>1, <1>6, TornWritten
  <2>2. PICK bytes \in Content :
          Len(bytes) <= n /\ disk' = [disk EXCEPT ![c] = WriteAt(Opened(@), bytes, start)]
    BY <1>1, <1>6, TornWritten
  <2>3. start + Len(bytes) <= Len(offered[c])
    <3>1. n \in Nat /\ Len(bytes) \in Nat /\ Len(offered[c]) \in Nat
      BY <1>1, <2>1 DEF Content, IInv, Types
    <3> QED
      BY <1>2, <2>1, <2>2, <3>1
  <2>4. ReceiverAlive
    BY <1>6 DEF KillReceiver
  <2> HIDE DEF c, n, start
  <2> QED
    BY <2>1, <2>2, <2>3, <2>4, PieceSpares
<1>7. CASE UNCHANGED disk
  BY <1>7
<1>8. CASE ReceiverStep /\ ~(ReceiverOnFile \/ ReceiverOnFileBytes \/ ReceiverOnEndfile)
  BY <1>7, <1>8 DEF ReceiverStep, ReceiverLoop, LoopTop, ReceiverOnKey, ReceiverOnOffer,
                    ReceiverOnSymlink, ReceiverOnStop, ReceiverExit
<1>9. CASE \/ Connect \/ DialFails \/ SenderStep \/ OfferStep \/ AnswerStep \/ RejectStep
           \/ KillSender \/ LoseConnection \/ EditServed \/ NewSession \/ Finished \/ UNCHANGED vars
  BY <1>7, <1>9 DEF Connect, DialFails, SenderStep, OfferStep, AnswerStep, AnswerYes, AnswerNo,
                    RejectStep, RejectStop, KillSender, LoseConnection, EditServed, NewSession,
                    Finished, vars, receiverVars
<1> QED
  BY <1>3, <1>4, <1>5, <1>6, <1>7, <1>8, <1>9 DEF Next, KillReceiver

\* As long as os.Remove works, a file that has arrived is never written, cut or
\* removed again while the offer stays the same: not by a later attempt, not by
\* an empty piece, not by a process that dies.
THEOREM ArrivedStaysHolds ==
  ASSUME "remove" \notin Faults
  PROVE  Spec => ArrivedStays
<1>1. RInv /\ [Next]_vars => \A f \in FileIDs : Delivered(f) => disk'[f] = disk[f]
  BY ArrivedSpared
<1> QED
  BY <1>1, RefinementInvariant, PTL DEF Spec, ArrivedStays

-----------------------------------------------------------------------------
(* What arrives is what is served, as long as nobody edits it.             *)

\* What the served files were at first they are, and so they were offered.
Unedited == served = offered /\ served \in Served

Exact(files, d, o) ==
  \A i \in 1 .. Len(files) : Opened(d[files[i].id]) = SubSeq(o[files[i].id], 1, files[i].sent)

\* A file that is being received is the beginning of the one that is offered.
ExactBytes == ReceiverAlive => Exact(receiving.AcceptedFiles, disk, offered)

\* A piece on its way is what comes next of it.
PieceIsNext ==
  sending.AllowedToTransfer /\ ~sending.stopped =>
    \A i \in 1 .. Len(toReceiver.queue) :
      LET packet == toReceiver.queue[i]
          sent == sending.fileSent[packet.id]
      IN  packet.hdr = "FILEBYTES" =>
            packet.data = SubSeq(offered[packet.id], sent - Len(packet.data) + 1, sent)

\* After DONE the receiver says nothing but BYE!.
SilentAfterDone ==
  sending.AllowedToTransfer /\ sending.stopped => OnlyHeaders(toSender.queue, {"BYE!"})

LinksDone == SentDone => LinkedBelow(NumSymlinks)

EInv ==
  /\ RInv /\ Unedited /\ NothingCorrupted /\ ExactBytes
  /\ PieceIsNext /\ SilentAfterDone /\ LinksDone

\* Bytes that are next to the beginning of a sequence make it a longer one.
LEMMA WriteNext ==
  ASSUME NEW content \in Content, NEW at \in Nat, NEW n \in Nat, at + n <= Len(content)
  PROVE  WriteAt(SubSeq(content, 1, at), SubSeq(content, at + 1, at + n), at)
           = SubSeq(content, 1, at + n)
<1> DEFINE first == SubSeq(content, 1, at)
           next == SubSeq(content, at + 1, at + n)
           both == SubSeq(content, 1, at + n)
<1>1. content \in Seq(Nat) /\ Len(content) \in Nat
  BY DEF Content
<1>2. /\ Len(first) = at /\ \A j \in 1 .. at : first[j] = content[j]
      /\ Len(next) = n /\ \A j \in 1 .. n : next[j] = content[at + j]
      /\ both = [j \in 1 .. at + n |-> content[j]]
  BY <1>1
<1> HIDE DEF first, next, both
<1>3. WriteAt(first, next, at)
        = [j \in 1 .. at + n |-> IF j \in at + 1 .. at + n THEN next[j - at]
                                 ELSE IF j <= at THEN first[j] ELSE 0]
  BY <1>2 DEF WriteAt
<1>4. \A j \in 1 .. at + n :
        (IF j \in at + 1 .. at + n THEN next[j - at] ELSE IF j <= at THEN first[j] ELSE 0) = content[j]
  <2>1. ASSUME NEW j \in at + 1 .. at + n PROVE next[j - at] = content[j]
    <3>1. j - at \in 1 .. n /\ at + (j - at) = j
      OBVIOUS
    <3> QED
      BY <1>2, <3>1
  <2> QED
    BY <1>2, <2>1
<1>5. WriteAt(first, next, at) = both
  BY <1>2, <1>3, <1>4
<1> QED
  BY <1>5 DEF first, next, both

\* Exact, of a single file.
LEMMA ExactOne ==
  ASSUME NEW file, NEW d, NEW o, Opened(d[file.id]) = SubSeq(o[file.id], 1, file.sent)
  PROVE  Exact(<<file>>, d, o)
<1>1. Len(<<file>>) = 1 /\ <<file>>[1] = file
  OBVIOUS
<1> QED
  BY <1>1, SingleQueue DEF Exact

\* Exact, of no file.
LEMMA ExactNone ==
  ASSUME NEW d, NEW o
  PROVE  Exact(<<>>, d, o)
<1>1. Len(<<>>) = 0
  OBVIOUS
<1> QED
  BY <1>1 DEF Exact

\* The one file that is being received is the beginning of the offered one.
LEMMA ExactHead ==
  ASSUME ExactBytes, ReceiverAlive, NEW file, receiving.AcceptedFiles = <<file>>
  PROVE  Opened(disk[file.id]) = SubSeq(offered[file.id], 1, file.sent)
<1>1. Len(<<file>>) = 1 /\ <<file>>[1] = file /\ 1 \in 1 .. 1
  OBVIOUS
<1> QED
  BY <1>1 DEF ExactBytes, Exact

-----------------------------------------------------------------------------
(* The sender's turn.                                                      *)

\* The piece that is sent is the next one of the offered file.
LEMMA TurnSendsNext ==
  ASSUME IInv, Turn, Unedited
  PROVE  PieceIsNext'
<1>1. PICK s : HoldsToken(s) /\ TransferSection(s)
  BY DEF Turn
<1>2. /\ s \in Sendings /\ ListsOf(s) /\ Types /\ s.AllowedToTransfer /\ ~s.stopped
      /\ s.InTransfer => s.CanSendBytes
      /\ toReceiver.queue = <<>> /\ toReceiver \in Streams
      /\ s.CurrentFileID \in Nat
      /\ \A f \in FileIDs : s.fileSent[f] <= Len(offered[f])
  BY <1>1 DEF HoldsToken, IInv, Types, Sendings
<1>3. offered' = offered /\ NumFiles \in Nat
  BY ProtocolAssumption DEF Turn, OnlySection
<1>4. ASSUME NEW p, NEW t, p.hdr # "FILEBYTES", Continue(t, <<p>>)
      PROVE  PieceIsNext'
  <2>1. toReceiver' = Push(toReceiver, <<p>>)
    BY <1>4 DEF Continue
  <2>2. toReceiver'.queue = <<p>> \/ toReceiver'.queue = <<>>
    BY <1>2, <2>1 DEF Push, Streams
  <2>3. \A i \in 1 .. Len(toReceiver'.queue) : toReceiver'.queue[i] = p
    BY <2>2, SingleQueue
  <2> QED
    BY <1>4, <2>3 DEF PieceIsNext
<1>5. CASE Continue([s EXCEPT !.CurrentSymlinkIndex = @ + 1],
                    <<WithID("SYMLINK", s.CurrentSymlinkIndex + 1)>>)
  BY <1>4, <1>5 DEF WithID, Bare
<1>6. CASE Continue([s EXCEPT !.stopped = TRUE], <<Bare("DONE")>>)
  BY <1>4, <1>6 DEF Bare
<1>7. CASE Continue([s EXCEPT !.InTransfer = TRUE],
                    <<FilePacket(s.CurrentFileID, offered[s.CurrentFileID])>>)
  BY <1>4, <1>7 DEF FilePacket
<1>8. CASE Continue([s EXCEPT !.FilesToSend = Remaining(s.CurrentFileID + 1),
                              !.CurrentFileID = @ + 1, !.InTransfer = FALSE],
                    <<WithID("ENDFILE", s.CurrentFileID)>>)
  BY <1>4, <1>8 DEF WithID, Bare
<1>9. CASE s.CurrentFileID < NumFiles /\ Readable(s, s.CurrentFileID)
           /\ SendBytes(s, s.CurrentFileID)
  <2> DEFINE c == s.CurrentFileID
             from == s.fileSent[c]
             n == PieceLength(s, c)
             data == SubSeq(offered[c], from + 1, from + n)
             p == FileBytesPacket(c, data)
             t == [s EXCEPT !.fileSent[c] = @ + n, !.SentBytes = @ + n, !.CanSendBytes = FALSE]
  <2>1. c \in FileIDs /\ from \in Nat /\ offered[c] \in Seq(Nat) /\ Len(offered[c]) \in Nat
    <3>1. c \in FileIDs
      BY <1>2, <1>3, <1>9 DEF FileIDs
    <3>2. s.fileSent \in [FileIDs -> Nat] /\ offered \in [FileIDs -> Seq(Nat)]
      BY <1>2 DEF Types, Content, Sendings
    <3>3. from \in Nat /\ offered[c] \in Seq(Nat)
      BY <3>1, <3>2
    <3> QED
      BY <3>1, <3>3, LenProperties
  <2>2. n \in Nat /\ from + n <= Len(offered[c])
    <3>1. from <= Len(offered[c]) /\ PieceSize \in Nat
      BY <1>2, <2>1, ProtocolAssumption
    <3>2. n = IF Len(offered[c]) - from < PieceSize THEN Len(offered[c]) - from ELSE PieceSize
      BY DEF PieceLength, Unsent
    <3> QED
      BY <2>1, <3>1, <3>2
  <2>3. sending' = t /\ toReceiver' = Push(toReceiver, <<p>>)
    BY <1>9 DEF SendBytes, Continue, NextPiece, Unedited
  <2>4. toReceiver'.queue = <<p>> \/ toReceiver'.queue = <<>>
    BY <1>2, <2>3 DEF Push, Streams
  <2>5. t.fileSent[c] = from + n
    BY <1>2, <2>1 DEF Sendings
  <2> HIDE DEF n, from, t, c
  <2>6. Len(data) = n
    BY <2>1, <2>2
  <2>7. p.id = c /\ p.data = data
    BY DEF FileBytesPacket
  <2> HIDE DEF data, p
  <2>8. \A i \in 1 .. Len(toReceiver'.queue) : toReceiver'.queue[i] = p
    BY <2>4, SingleQueue
  <2>9. sending'.fileSent[p.id] = from + n
    BY <2>3, <2>5, <2>7
  <2>10. sending'.fileSent[p.id] - Len(p.data) + 1 = from + 1
    <3>1. Len(p.data) = n
      BY <2>6, <2>7
    <3> QED
      BY <2>1, <2>2, <2>9, <3>1
  <2>11. p.data = SubSeq(offered'[p.id], from + 1, from + n)
    BY <1>3, <2>7 DEF data
  <2>12. p.data = SubSeq(offered'[p.id], sending'.fileSent[p.id] - Len(p.data) + 1,
                         sending'.fileSent[p.id])
    BY <2>9, <2>10, <2>11
  <2>13. ASSUME NEW i \in 1 .. Len(toReceiver'.queue)
         PROVE  LET packet == toReceiver'.queue[i]
                    sent == sending'.fileSent[packet.id]
                IN  packet.data = SubSeq(offered'[packet.id], sent - Len(packet.data) + 1, sent)
    <3>1. toReceiver'.queue[i] = p
      BY <2>8
    <3> QED
      BY <2>12, <3>1
  <2> QED
    BY <2>13 DEF PieceIsNext
<1>10. CASE Panic(s) \/ Panic([s EXCEPT !.stopped = TRUE])
  <2>1. toReceiver' = Close(toReceiver)
    BY <1>10 DEF Panic
  <2>2. toReceiver'.queue = <<>>
    BY <1>2, <2>1, CloseOne
  <2> QED
    BY <2>2 DEF PieceIsNext
<1> QED
  BY <1>1, <1>2, <1>5, <1>6, <1>7, <1>8, <1>9, <1>10, SectionOutcome

\* A step of the sender's main loop.
LEMMA SenderExact ==
  ASSUME EInv, SenderStep
  PROVE  PieceIsNext' /\ SilentAfterDone' /\ LinksDone'
<1>1. UNCHANGED <<receiverVars, session, edits>> /\ SenderLoop /\ RInv /\ IInv /\ LinksKept
  BY DEF SenderStep, EInv, RInv
<1>2. LinksDone'
  <2>1. ~SentDone /\ SentDone' => LinkedBelow(NumSymlinks)
    BY <1>1, SenderCounts
  <2>2. links' = links
    BY <1>1 DEF receiverVars
  <2> QED
    BY <2>1, <2>2 DEF EInv, LinksDone, LinkedBelow
<1>3. CASE SenderOnReady \/ SenderOnAlreadyHave \/ SenderOnAccept
  <2>1. Turn
    BY <1>1, <1>3, ReadyTurn, AlreadyHaveTurn, AcceptTurn
  <2>2. PieceIsNext'
    BY <1>1, <2>1, TurnSendsNext DEF EInv
  <2>3. toSender'.queue = <<>>
    BY <2>1 DEF Turn, HoldsToken
  <2>4. SilentAfterDone'
    BY <2>3 DEF SilentAfterDone, OnlyHeaders
  <2> QED
    BY <1>2, <2>2, <2>4
<1>4. CASE SenderOnStop
  <2> DEFINE s == [sending EXCEPT !.stopped = TRUE]
  <2>1. ~sending.AllowedToTransfer
    BY <1>1, <1>4, StopUnallowed
  <2>2. s \in Sendings /\ s.AllowedToTransfer = sending.AllowedToTransfer
    BY <1>1, SendingFacts DEF Sendings
  <2>3. TransferSection(s)
    BY <1>4 DEF SenderOnStop
  <2> HIDE DEF s
  <2>4. ~sending'.AllowedToTransfer
    BY <2>1, <2>2, <2>3, SectionCounts DEF Counted
  <2> QED
    BY <1>2, <2>4 DEF PieceIsNext, SilentAfterDone
<1>5. CASE SenderDisconnect
  <2>1. UNCHANGED <<sending, toSender>> /\ sending.stopped
    BY <1>5 DEF SenderDisconnect
  <2> QED
    BY <1>2, <2>1 DEF EInv, PieceIsNext, SilentAfterDone, OnlyHeaders
<1>6. CASE SenderExit
  <2>1. /\ sending' = sending /\ offered' = offered /\ toSender' = toSender
        /\ toReceiver' = Close(toReceiver)
    BY <1>6 DEF SenderExit
  <2>2. toReceiver'.queue = toReceiver.queue
    BY <1>1, <2>1, CloseOne DEF IInv, Types
  <2> QED
    BY <1>2, <2>1, <2>2 DEF EInv, PieceIsNext, SilentAfterDone, OnlyHeaders
<1> QED
  BY <1>1, <1>3, <1>4, <1>5, <1>6 DEF SenderLoop

-----------------------------------------------------------------------------
(* The receiver, and all the rest.                                         *)

\* Steps that take nothing from the streams but their ends.
LEMMA QuietExact ==
  ASSUME EInv, UNCHANGED <<sending, offered, links>>,
         senderPc' = "panic" <=> senderPc = "panic",
         Beginning(toReceiver', toReceiver), Beginning(toSender', toSender)
  PROVE  PieceIsNext' /\ SilentAfterDone' /\ LinksDone'
<1>1. toReceiver \in Streams /\ toSender \in Streams
  BY DEF EInv, RInv, IInv, Types
<1>2. /\ \A i \in 1 .. Len(toReceiver'.queue) :
           i \in 1 .. Len(toReceiver.queue) /\ toReceiver'.queue[i] = toReceiver.queue[i]
      /\ \A i \in 1 .. Len(toSender'.queue) :
           i \in 1 .. Len(toSender.queue) /\ toSender'.queue[i] = toSender.queue[i]
  BY <1>1 DEF Beginning, Streams
<1>3. LinksDone'
  BY DEF EInv, LinksDone, SentDone, LinkedBelow
<1>4. PieceIsNext'
  BY <1>2 DEF EInv, PieceIsNext
<1>5. SilentAfterDone'
  BY <1>2 DEF EInv, SilentAfterDone, OnlyHeaders
<1> QED
  BY <1>3, <1>4, <1>5

\* The receiver's main loop.
LEMMA ReceiverSilent ==
  ASSUME EInv, ReceiverStep
  PROVE  PieceIsNext' /\ SilentAfterDone' /\ LinksDone'
<1>1. /\ UNCHANGED senderVars /\ ReceiverLoop /\ IInv
      /\ toReceiver \in Streams /\ toSender \in Streams
  BY DEF ReceiverStep, EInv, RInv, IInv, Types
<1>2. CASE ReceiverOnKey \/ ReceiverOnOffer
  <2>1. ~sending.AllowedToTransfer
    BY <1>1, <1>2, OpeningTaken DEF ReceiverOnKey, ReceiverOnOffer
  <2> QED
    BY <1>1, <2>1 DEF senderVars, PieceIsNext, SilentAfterDone, LinksDone, SentDone
<1>3. CASE LoopTop
  <2>1. UNCHANGED <<sending, offered, senderPc, links, toReceiver>>
    BY <1>1, <1>3 DEF LoopTop, senderVars
  <2>2. PieceIsNext' /\ LinksDone'
    BY <2>1 DEF EInv, PieceIsNext, LinksDone, SentDone, LinkedBelow
  <2>3. CASE ~receiving.stopped
    BY <1>1, <1>3, <2>1, <2>3, BeginningSame, QuietExact DEF LoopTop
  <2>4. CASE receiving.stopped
    <3>1. toSender' = Close(Push(toSender, <<Bare("BYE!")>>))
      BY <1>3, <2>4 DEF LoopTop
    <3>2. Bare("BYE!") \in Packets /\ Bare("BYE!").hdr \in {"BYE!"}
      BY BareType DEF BareHeaders
    <3> DEFINE pushed == Push(toSender, <<Bare("BYE!")>>)
    <3>3. pushed \in Streams
      BY <1>1, <3>2, PushOne
    <3>4. OnlyHeaders(toSender.queue, {"BYE!"}) => OnlyHeaders(pushed.queue, {"BYE!"})
      BY <1>1, <3>2, PushHeaders
    <3> HIDE DEF pushed
    <3>5. toSender'.queue = pushed.queue
      BY <3>1, <3>3, CloseOne DEF pushed
    <3>6. OnlyHeaders(toSender.queue, {"BYE!"}) => OnlyHeaders(toSender'.queue, {"BYE!"})
      BY <3>4, <3>5
    <3>7. SilentAfterDone'
      BY <2>1, <3>6 DEF EInv, SilentAfterDone, OnlyHeaders
    <3> QED
      BY <2>2, <3>7
  <2> QED
    BY <2>3, <2>4
<1>4. CASE ReceiverExit
  <2>1. UNCHANGED <<links, toReceiver>> /\ toSender' = Close(toSender)
    BY <1>4 DEF ReceiverExit
  <2> QED
    BY <1>1, <2>1, BeginningSame, BeginningClose, QuietExact DEF senderVars
<1>5. CASE ReceiverOnStop
  <2>1. sending.AllowedToTransfer => sending.stopped
    BY <1>1, <1>5, StopTaken DEF ReceiverOnStop
  <2>2. UNCHANGED <<sending, senderPc, links, toSender>>
    BY <1>1, <1>5 DEF ReceiverOnStop, senderVars
  <2> QED
    BY <2>1, <2>2 DEF EInv, PieceIsNext, SilentAfterDone, OnlyHeaders, LinksDone, SentDone, LinkedBelow
<1>6. CASE ReceiverOnFile \/ ReceiverOnFileBytes \/ ReceiverOnEndfile \/ ReceiverOnSymlink
  <2>1. PICK headers \in {{"FILE"}, {"FILEBYTES"}, {"ENDFILE"}, {"SYMLINK"}} : ReceiverTakes(headers)
    BY <1>6 DEF ReceiverOnFile, ReceiverOnFileBytes, ReceiverOnEndfile, ReceiverOnSymlink
  <2>2. ~sending.stopped /\ toReceiver'.queue = <<>>
    BY <1>1, <2>1, BodyTaken DEF Bodies
  <2> QED
    BY <1>1, <2>2 DEF senderVars, PieceIsNext, SilentAfterDone, LinksDone, SentDone
<1> QED
  BY <1>1, <1>2, <1>3, <1>4, <1>5, <1>6 DEF ReceiverLoop

-----------------------------------------------------------------------------
(* The bytes on disk.                                                      *)

\* FILE: nothing of the file has come, and nothing is there.
LEMMA FileExact ==
  ASSUME "remove" \notin Faults, EInv, ReceiverOnFile, offered' = offered
  PROVE  Exact(receiving'.AcceptedFiles, disk', offered') /\ corrupted' = corrupted
<1>1. IInv /\ corrupted' = corrupted
  BY DEF EInv, RInv, ReceiverOnFile
<1>2. NothingAccepted /\ Packet.id \in FileIDs
  <2>1. Outbound(Packet) /\ Packet.hdr = "FILE" /\ Packet \in Packets
    BY <1>1, BodyArrived DEF ReceiverOnFile, ReceiverTakes, Bodies
  <2> QED
    BY <2>1 DEF Outbound, Packets, IDsOf
<1>3. CASE AlreadyHave
  <2>1. receiving'.AcceptedFiles = receiving.AcceptedFiles
    BY <1>1, <1>3, ReceivingFacts DEF AlreadyHave, Receivings
  <2> QED
    BY <1>1, <1>2, <2>1, ExactNone DEF NothingAccepted
<1>4. CASE AcceptFile
  <2> DEFINE file == [id |-> Packet.id, size |-> Packet.size, sum |-> Packet.data, sent |-> 0]
  <2>1. disk' = [disk EXCEPT ![Packet.id] = NoFile]
        /\ receiving' = [receiving EXCEPT !.AcceptedFiles = Append(@, file)]
    BY <1>4 DEF AcceptFile
  <2>2. file.id = Packet.id /\ file.sent = 0
    OBVIOUS
  <2> HIDE DEF file
  <2>3. receiving'.AcceptedFiles = <<file>>
    BY <1>1, <1>2, <2>1, ReceivingFacts DEF Receivings, NothingAccepted
  <2>4. Opened(disk'[file.id]) = <<>>
    BY <1>1, <1>2, <2>1, <2>2, ReceivingFacts DEF Opened
  <2>5. SubSeq(offered'[file.id], 1, file.sent) = <<>>
    <3>1. offered'[file.id] \in Seq(Nat)
      BY <1>1, <1>2, <2>2 DEF IInv, Types, Content
    <3> QED
      BY <2>2, <3>1
  <2> QED
    BY <1>1, <2>3, <2>4, <2>5, ExactOne
<1> QED
  BY <1>3, <1>4 DEF ReceiverOnFile

\* FILEBYTES: the piece that comes next.
LEMMA FileBytesExact ==
  ASSUME EInv, ReceiverOnFileBytes, UNCHANGED senderVars
  PROVE  Exact(receiving'.AcceptedFiles, disk', offered') /\ corrupted' = corrupted
<1> DEFINE c == sending.CurrentFileID
           n == Len(Packet.data)
           start == sending.fileSent[c] - n
           file == IncomingFile(c, start)
           next == IncomingFile(c, start + n)
<1>1. IInv /\ ReceiverTakes({"FILEBYTES"}) /\ corrupted' = corrupted /\ offered' = offered
  BY DEF EInv, RInv, ReceiverOnFileBytes, senderVars
<1>2. /\ c \in FileIDs /\ start \in Nat /\ n \in Nat /\ Packet.data \in Content
      /\ start + n = sending.fileSent[c]
      /\ receiving.AcceptedFiles = <<file>> /\ receiving'.AcceptedFiles = <<next>>
      /\ disk' = [disk EXCEPT ![c] = WriteAt(Opened(@), Packet.data, start)]
  BY <1>1, BytesStored
<1>3. file.id = c /\ next.id = c /\ file.sent = start /\ next.sent = start + n
  BY DEF IncomingFile
<1>4. Packet.data = SubSeq(offered[c], start + 1, start + n)
  <2>1. /\ sending.AllowedToTransfer /\ ~sending.stopped
        /\ Outbound(Packet) /\ Packet \in Packets /\ Packet.hdr = "FILEBYTES"
    BY <1>1, BodyTaken DEF Bodies
  <2>2. 1 \in 1 .. Len(toReceiver.queue) /\ Packet = toReceiver.queue[1]
    BY <1>1, ReceiverHead
  <2>3. Packet.data = SubSeq(offered[Packet.id], sending.fileSent[Packet.id] - Len(Packet.data) + 1,
                             sending.fileSent[Packet.id])
    BY <2>1, <2>2 DEF EInv, PieceIsNext
  <2>4. Packet.id = c
    BY <2>1 DEF Outbound
  <2> QED
    BY <1>2, <2>3, <2>4
<1>5. offered[c] \in Content /\ start + n <= Len(offered[c])
  BY <1>1, <1>2, SendingFacts DEF Types
<1>6. ReceiverAlive
  BY <1>1 DEF ReceiverTakes, ReceiverAlive
<1> HIDE DEF n, start, c, file, next
<1>7. Opened(disk[c]) = SubSeq(offered[c], 1, start)
  <2>1. Opened(disk[file.id]) = SubSeq(offered[file.id], 1, file.sent)
    BY <1>2, <1>6, ExactHead DEF EInv
  <2> QED
    BY <1>3, <2>1
<1>8. disk'[c] = SubSeq(offered[c], 1, start + n)
  <2>1. disk'[c] = WriteAt(SubSeq(offered[c], 1, start), SubSeq(offered[c], start + 1, start + n), start)
    BY <1>1, <1>2, <1>4, <1>7, ReceivingFacts
  <2> QED
    BY <1>2, <1>5, <2>1, WriteNext
<1>9. Opened(disk'[c]) = disk'[c]
  <2>1. Opened(disk[c]) \in Content /\ disk'[c] = WriteAt(Opened(disk[c]), Packet.data, start)
    BY <1>1, <1>2, ReceivingFacts, OpenedType
  <2>2. disk'[c] \in Content
    BY <1>2, <2>1, WriteAtFacts
  <2> QED
    BY <2>2, ProtocolAssumption DEF Opened
<1>10. Opened(disk'[next.id]) = SubSeq(offered'[next.id], 1, next.sent)
  BY <1>1, <1>3, <1>8, <1>9
<1> QED
  BY <1>1, <1>2, <1>10, ExactOne

\* ENDFILE: all of it has come, and the checksum agrees.
LEMMA EndfileExact ==
  ASSUME EInv, ReceiverOnEndfile
  PROVE  Exact(receiving'.AcceptedFiles, disk', offered') /\ corrupted' = corrupted
<1>1. IInv /\ ReceiverTakes({"ENDFILE"})
  BY DEF EInv, RInv, ReceiverOnEndfile
<1>2. Outbound(Packet) /\ Packet.hdr = "ENDFILE" /\ Packet \in Packets
  BY <1>1, BodyTaken DEF Bodies
<1> DEFINE e == Packet.id
           file == IncomingFile(e, Len(offered[e]))
<1>3. /\ receiving.AcceptedFiles = <<file>> /\ file.id = e /\ e \in FileIDs
      /\ file.sum = GetPartialCheckSum(offered[e]) /\ file.sent = Len(offered[e])
  BY <1>2 DEF Outbound, AcceptedIs, IncomingFile, Packets, IDsOf
<1> HIDE DEF e, file
<1>4. Accepted(e) = {1} /\ receiving.AcceptedFiles[1] = file
      /\ RemoveAt(receiving.AcceptedFiles, 1) = <<>>
  BY <1>3, AcceptedOne
<1>5. /\ receiving' = [receiving EXCEPT !.AcceptedFiles = <<>>]
      /\ corrupted' = IF GetPartialCheckSum(Opened(disk[e])) = GetPartialCheckSum(offered[e])
                        THEN corrupted ELSE corrupted \cup {e}
  BY <1>3, <1>4 DEF ReceiverOnEndfile, FinishFile, e
<1>6. receiving'.AcceptedFiles = <<>>
  BY <1>1, <1>5, ReceivingFacts DEF Receivings
<1>7. Opened(disk[e]) = offered[e]
  <2>1. ReceiverAlive
    BY <1>1 DEF ReceiverTakes, ReceiverAlive
  <2>2. Opened(disk[file.id]) = SubSeq(offered[file.id], 1, file.sent)
    BY <1>3, <2>1, ExactHead DEF EInv
  <2>3. offered[e] \in Seq(Nat)
    BY <1>1, <1>3 DEF IInv, Types, Content
  <2>4. SubSeq(offered[e], 1, Len(offered[e])) = offered[e]
    BY <2>3
  <2> QED
    BY <1>3, <2>2, <2>4
<1> QED
  BY <1>5, <1>6, <1>7, ExactNone

\* Every step keeps what is on disk in step with what is offered.
LEMMA DiskExact ==
  ASSUME "remove" \notin Faults, EInv, [Next]_vars
  PROVE  ExactBytes' /\ NothingCorrupted'
<1>1. IInv /\ NothingCorrupted /\ ExactBytes
  BY DEF EInv, RInv
<1>2. CASE /\ ReceiverAlive' => ReceiverAlive \/ NothingAccepted
           /\ receiving'.AcceptedFiles = receiving.AcceptedFiles
           /\ UNCHANGED <<disk, offered, corrupted>>
  BY <1>1, <1>2, ExactNone DEF ExactBytes, NothingCorrupted, NothingAccepted
<1>3. CASE ~ReceiverAlive' /\ corrupted' \in {corrupted, {}}
  BY <1>1, <1>3 DEF ExactBytes, NothingCorrupted
<1>4. CASE ReceiverStep
  <2>1. UNCHANGED senderVars /\ offered' = offered
    BY <1>4 DEF ReceiverStep, senderVars
  <2>2. CASE ReceiverOnFile
    BY <1>1, <2>1, <2>2, FileExact DEF ExactBytes, NothingCorrupted
  <2>3. CASE ReceiverOnFileBytes
    BY <1>1, <2>1, <2>3, FileBytesExact DEF ExactBytes, NothingCorrupted
  <2>4. CASE ReceiverOnEndfile
    BY <1>1, <2>1, <2>4, EndfileExact DEF ExactBytes, NothingCorrupted
  <2>5. CASE ReceiverExit
    BY <1>3, <2>5 DEF ReceiverExit, ReceiverAlive
  <2>6. CASE LoopTop \/ ReceiverOnKey \/ ReceiverOnOffer \/ ReceiverOnSymlink \/ ReceiverOnStop
    <3>1. ReceiverAlive /\ UNCHANGED <<disk, corrupted>>
      BY <2>6 DEF LoopTop, ReceiverOnKey, ReceiverOnOffer, ReceiverOnSymlink, ReceiverOnStop,
                  ReceiverTakes, ReceiverAlive
    <3>2. receiving'.AcceptedFiles = receiving.AcceptedFiles
      BY <1>1, <2>6, ReceivingFacts DEF LoopTop, ReceiverOnKey, ReceiverOnOffer, ReceiverOnSymlink,
                                        ReceiverOnStop, Receivings
    <3> QED
      BY <1>2, <2>1, <3>1, <3>2
  <2> QED
    BY <1>4, <2>2, <2>3, <2>4, <2>5, <2>6 DEF ReceiverStep, ReceiverLoop
<1>5. CASE RejectStep
  <2>1. receiving'.AcceptedFiles = receiving.AcceptedFiles
    BY <1>1, <1>5, ReceivingFacts DEF RejectStep, RejectStop, Receivings
  <2> QED
    BY <1>2, <1>5, <2>1 DEF RejectStep, RejectStop, senderVars
<1>6. CASE Connect
  <2>1. NothingAccepted
    BY <1>1, <1>6 DEF Connect, IInv, Unconnected, Offering
  <2> QED
    BY <1>2, <1>6, <2>1 DEF Connect
<1>7. CASE DialFails \/ KillReceiver \/ NewSession
  BY <1>3, <1>7 DEF DialFails, KillReceiver, NewSession, ReceiverAlive
<1>8. CASE SenderStep \/ OfferStep \/ AnswerStep \/ KillSender \/ LoseConnection \/ EditServed
              \/ Finished \/ UNCHANGED vars
  <2>1. UNCHANGED <<disk, receiving, corrupted, offered>>
    BY <1>8 DEF SenderStep, SenderLoop, SenderOnReady, SenderOnAccept, SenderOnStop,
                SenderOnAlreadyHave, SenderTakes, SenderDisconnect, SenderExit, OfferStep,
                SendTransferOffer, AnswerStep, AnswerYes, AnswerNo, KillSender, LoseConnection,
                EditServed, Finished, vars, receiverVars, senderVars
  <2>2. receiverPc' = receiverPc
    BY <1>8 DEF SenderStep, OfferStep, AnswerStep, AnswerYes, AnswerNo, KillSender,
                LoseConnection, EditServed, Finished, vars, receiverVars
  <2> QED
    BY <1>2, <2>1, <2>2 DEF ReceiverAlive
<1> QED
  BY <1>4, <1>5, <1>6, <1>7, <1>8 DEF Next

\* The invariant is inductive.
LEMMA NextEInv ==
  ASSUME "remove" \notin Faults, MaxEdits = 0, EInv, [Next]_vars
  PROVE  EInv'
<1>1. /\ RInv /\ IInv /\ Unedited /\ edits \in Nat
      /\ toReceiver \in Streams /\ toSender \in Streams
  BY DEF EInv, RInv, IInv, Types
<1>2. RInv'
  BY <1>1, NextRInv
<1>3. ExactBytes' /\ NothingCorrupted'
  BY DiskExact
<1>4. Unedited'
  <2>1. ~EditServed
    BY <1>1 DEF EditServed
  <2>2. UNCHANGED <<served, offered>> \/ (served' = served /\ offered' = served)
    BY <2>1 DEF Next, Connect, DialFails, SenderStep, SenderLoop, SenderOnReady, SenderOnAccept,
                SenderOnStop, SenderOnAlreadyHave, SenderTakes, SenderDisconnect, SenderExit,
                OfferStep, SendTransferOffer, ReceiverStep, AnswerStep, RejectStep, KillSender,
                KillReceiver, LoseConnection, NewSession, Finished, vars, senderVars
  <2> QED
    BY <1>1, <2>2 DEF Unedited
<1>5. Beginning(toReceiver, toReceiver) /\ Beginning(toSender, toSender)
  BY <1>1, BeginningSame
<1>6. CASE SenderStep
  BY <1>2, <1>3, <1>4, <1>6, SenderExact DEF EInv
<1>7. CASE ReceiverStep
  BY <1>2, <1>3, <1>4, <1>7, ReceiverSilent DEF EInv
<1>8. CASE Connect \/ OfferStep \/ AnswerStep \/ NewSession
  <2>1. ~sending'.AllowedToTransfer
    <3>1. CASE Connect
      BY <1>1, <3>1 DEF Connect, IInv, Unconnected, Lists
    <3>2. CASE OfferStep
      BY <1>1, <3>2 DEF OfferStep, SendTransferOffer, IInv, KeyAhead, Lists
    <3>3. CASE AnswerStep
      BY <1>1, <3>3 DEF AnswerStep, AnswerYes, AnswerNo, IInv, Lists, senderVars
    <3>4. CASE NewSession
      BY <3>4 DEF NewSession, FreshSending
    <3> QED
      BY <1>8, <3>1, <3>2, <3>3, <3>4
  <2>2. PieceIsNext' /\ SilentAfterDone' /\ LinksDone'
    BY <2>1 DEF PieceIsNext, SilentAfterDone, LinksDone, SentDone
  <2> QED
    BY <1>2, <1>3, <1>4, <2>2 DEF EInv
<1>9. CASE KillSender \/ KillReceiver \/ LoseConnection
  <2>1. UNCHANGED <<sending, offered, links>> /\ (senderPc' = "panic" <=> senderPc = "panic")
    BY <1>9 DEF KillSender, KillReceiver, LoseConnection, receiverVars, senderVars
  <2>2. Beginning(toReceiver', toReceiver) /\ Beginning(toSender', toSender)
    BY <1>1, <1>5, <1>9, BeginningCut DEF KillSender, KillReceiver, LoseConnection
  <2> QED
    BY <1>2, <1>3, <1>4, <2>1, <2>2, QuietExact DEF EInv
<1>10. CASE DialFails \/ RejectStep \/ EditServed \/ Finished \/ UNCHANGED vars
  <2>1. UNCHANGED <<sending, offered, senderPc, links, toReceiver, toSender>>
    BY <1>10 DEF DialFails, RejectStep, RejectStop, EditServed, Finished, vars, receiverVars,
                 senderVars, streams
  <2> QED
    BY <1>2, <1>3, <1>4, <1>5, <2>1, QuietExact DEF EInv
<1> QED
  BY <1>6, <1>7, <1>8, <1>9, <1>10 DEF Next

\* It holds always, when nothing is edited and os.Remove works.
LEMMA ExactInvariant ==
  ASSUME "remove" \notin Faults, MaxEdits = 0
  PROVE  Spec => []EInv
<1>1. Init /\ RInv => EInv
  <2>1. SUFFICES ASSUME Init, RInv PROVE EInv
    OBVIOUS
  <2>2. Unedited /\ NothingCorrupted
    BY <2>1 DEF Init, Unedited, NothingCorrupted
  <2>3. ExactBytes /\ PieceIsNext /\ SilentAfterDone /\ LinksDone
    BY <2>1 DEF Init, ExactBytes, ReceiverAlive, PieceIsNext, SilentAfterDone, LinksDone, SentDone,
                FreshSending
  <2> QED
    BY <2>1, <2>2, <2>3 DEF EInv
<1>2. EInv /\ [Next]_vars => EInv'
  BY NextEInv
<1> QED
  BY <1>1, <1>2, RefinementInvariant, PTL DEF Spec

-----------------------------------------------------------------------------
(* What follows for the user.                                              *)

\* Every file that is served is hashed whole, and none is just as long as what
\* is captured of a large one.
HashedWhole ==
  \A s \in Served : \A f \in FileIDs : Len(s[f]) < SampledSize /\ Len(s[f]) # CapturedSize

\* Then a file with the offered checksum is the offered file.
LEMMA ChecksumTells ==
  ASSUME EInv, HashedWhole, NEW f \in FileIDs, SameChecksum(f)
  PROVE  Delivered(f)
<1>1. /\ offered[f] \in Content /\ disk[f] \in Content \cup {NoFile} /\ disk[f] # NoFile
      /\ GetPartialCheckSum(disk[f]) = GetPartialCheckSum(offered[f])
  BY DEF EInv, RInv, IInv, Types, SameChecksum, Present
<1>2. Len(offered[f]) < SampledSize /\ Len(offered[f]) # CapturedSize
  BY DEF EInv, Unedited, HashedWhole
<1> QED
  BY <1>1, <1>2, SmallChecksum DEF Delivered

\* Unedited files are never found to be corrupted, whatever dies or is lost, and
\* whatever an earlier attempt has left in their places.
THEOREM NothingCorruptedHolds ==
  ASSUME "remove" \notin Faults, MaxEdits = 0
  PROVE  Spec => []NothingCorrupted
<1>1. EInv => NothingCorrupted
  BY DEF EInv
<1> QED
  BY <1>1, ExactInvariant, PTL

\* DONE means delivered: every unedited file that is hashed whole is in place,
\* byte for byte, and something stands in the place of every symlink.
THEOREM DoneMeansDeliveredHolds ==
  ASSUME "remove" \notin Faults, MaxEdits = 0, HashedWhole
  PROVE  Spec => []DoneMeansDelivered
<1>1. EInv => DoneMeansDelivered
  <2>1. SUFFICES ASSUME EInv, SentDone
                 PROVE  (\A f \in FileIDs : Delivered(f)) /\ \A l \in SymlinkIDs : links[l] # "absent"
    BY DEF DoneMeansDelivered, SentDone
  <2>2. \A f \in FileIDs : Checked(f)
    BY <2>1, ProtocolAssumption DEF EInv, RInv, IInv, Over, SentDone, CheckedBelow, FileIDs
  <2>3. \A f \in FileIDs : Delivered(f)
    BY <2>1, <2>2, ChecksumTells DEF EInv, NothingCorrupted, Checked
  <2>4. \A l \in SymlinkIDs : links[l] # "absent"
    BY <2>1, ProtocolAssumption DEF EInv, LinksDone, LinkedBelow, SymlinkIDs
  <2> QED
    BY <2>3, <2>4
<1> QED
  BY <1>1, ExactInvariant, PTL

\* And ALREADYHAVE is said only of a file that is the offered one.
THEOREM AlreadyHaveIsExactHolds ==
  ASSUME "remove" \notin Faults, MaxEdits = 0, HashedWhole
  PROVE  Spec => []AlreadyHaveIsExact
<1>1. EInv => AlreadyHaveIsExact
  <2>1. SUFFICES ASSUME EInv, NEW i \in 1 .. Len(toSender.queue),
                        toSender.queue[i].hdr = "ALREADYHAVE"
                 PROVE  Delivered(toSender.queue[i].id)
    BY DEF AlreadyHaveIsExact
  <2>2. IInv /\ toSender.queue # <<>>
    BY <2>1 DEF EInv, RInv
  <2>3. sending.AllowedToTransfer
    BY <2>1, <2>2 DEF IInv, Types, Offering, Asking, Rejected, OnlyHeaders
  <2>4. ~sending.stopped
    BY <2>1, <2>3 DEF EInv, SilentAfterDone, OnlyHeaders
  <2>5. Inbound(toSender.queue[i])
    BY <2>1, <2>2, <2>3, <2>4 DEF IInv, UnderWay
  <2>6. toSender.queue[i].id = sending.CurrentFileID /\ SameChecksum(sending.CurrentFileID)
    BY <2>1, <2>5 DEF Inbound
  <2>7. toSender.queue[i].id \in FileIDs
    BY <2>1, <2>2 DEF IInv, Types, Streams, Packets, IDsOf
  <2> QED
    BY <2>1, <2>6, <2>7, ChecksumTells
<1> QED
  BY <1>1, ExactInvariant, PTL

=============================================================================
