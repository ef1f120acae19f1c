------------------------------ MODULE Transfer ------------------------------
(***************************************************************************)
(* A sending and a receiving node, the connection between them, and the    *)
(* world around them: processes that die, connections that break, a user   *)
(* who edits a served file, and the next attempt over what the last one    *)
(* left in the downloads folder.                                           *)
(***************************************************************************)
EXTENDS Sender, Receiver

CONSTANTS
  Served,      \* what the files under ServingPath may be at first
  Leftovers,   \* what their places in the downloads folder may hold at first
  LinkPlaces,  \* what a symlink's place may hold at first
  Edits,       \* what a user may make of each served file
  MaxEdits,    \* bound on the edits of a behaviour
  MaxSessions  \* bound on the attempts of a behaviour

ASSUME TransferAssumption ==
  /\ Served \subseteq [FileIDs -> Content]
  /\ Leftovers \subseteq [FileIDs -> Content \cup {NoFile}]
  /\ LinkPlaces \subseteq {"absent", "other"}
  /\ Edits \in [FileIDs -> SUBSET Content]
  /\ MaxEdits \in Nat
  /\ MaxSessions \in Nat

VARIABLES
  session,  \* how many times the nodes have been started
  edits     \* how many edits there have been

streams == <<toReceiver, toSender>>
vars == <<senderVars, receiverVars, streams, session, edits>>

\* What the variables of both nodes hold, and the packets in flight.
Types ==
  /\ senderPc \in {"listen", "loop"} \cup Ended
  /\ offerPc \in {"idle", "pending", "sent", "failed"}
  /\ sending \in Sendings
  /\ served \in [FileIDs -> Content]
  /\ offered \in [FileIDs -> Content]
  /\ receiverPc \in {"dial", "top", "wait"} \cup Ended
  /\ prompt \in {"none", "asking", "yes", "rejecting", "no"}
  /\ receiving \in Receivings
  /\ disk \in [FileIDs -> Content \cup {NoFile}]
  /\ links \in [SymlinkIDs -> {"absent", "other", "made"}]
  /\ corrupted \subseteq FileIDs
  /\ toReceiver \in Streams
  /\ toSender \in Streams
  /\ session \in Nat
  /\ edits \in Nat

\* What the code indexes and subtracts with: CurrentFileID and
\* CurrentSymlinkIndex count no further than the lists go, there is a current
\* file while one is in transfer, and file.Size - file.SentBytes, which are
\* uint64, never goes below zero.
InBounds ==
  /\ sending.CurrentFileID <= NumFiles
  /\ sending.CurrentSymlinkIndex <= Len(sending.SymlinksToSend)
  /\ sending.InTransfer => sending.CurrentFileID < NumFiles
  /\ \A f \in FileIDs : sending.fileSent[f] <= Len(offered[f])

\* Every variable is of its type, no packet names a file or a symlink that is not
\* there, and the sender's counters stay within the bounds of the lists and files
\* they count.
TypeOK == Types /\ InBounds

Init ==
  /\ senderPc = "listen" /\ offerPc = "idle" /\ sending = FreshSending
  /\ served \in Served /\ offered = served
  /\ receiverPc = "dial" /\ prompt = "none" /\ receiving = FreshReceiving
  /\ disk \in Leftovers /\ links \in [SymlinkIDs -> LinkPlaces] /\ corrupted = {}
  /\ toReceiver = OpenStream /\ toSender = OpenStream
  /\ session = 1 /\ edits = 0

-----------------------------------------------------------------------------
(* The steps of the two nodes.                                             *)

\* Mutant of Connect: the key is not written.
ConnectNoKey ==
  /\ senderPc = "listen" /\ receiverPc = "dial"
  /\ senderPc' = "loop" /\ offerPc' = "pending"
  /\ receiverPc' = "top"
  /\ UNCHANGED <<sending, served, offered, prompt, receiving, disk, links, corrupted,
                 streams, session, edits>>

\* The receiver dials and the listening sender accepts; the sender writes the
\* key, and both start to read.
Connect ==
  /\ senderPc = "listen" /\ receiverPc = "dial"
  /\ senderPc' = "loop" /\ offerPc' = "pending"
  /\ receiverPc' = "top"
  /\ toReceiver' = Push(toReceiver, <<Bare("ENCRKEY")>>)
  /\ UNCHANGED <<sending, served, offered, prompt, receiving, disk, links, corrupted,
                 toSender, session, edits>>

\* net.DialTimeout gives up on a sender that no longer listens: os.Exit.
DialFails ==
  /\ receiverPc = "dial" /\ senderPc = "killed"
  /\ receiverPc' = "exit"
  /\ UNCHANGED <<senderVars, prompt, receiving, disk, links, corrupted, streams, session, edits>>

SenderStep == SenderLoop /\ UNCHANGED <<receiverVars, session, edits>>
OfferStep == SendTransferOffer /\ UNCHANGED <<receiverVars, session, edits>>
ReceiverStep == ReceiverLoop /\ UNCHANGED <<senderVars, session, edits>>
AnswerStep == (AnswerYes \/ AnswerNo) /\ UNCHANGED <<senderVars, session, edits>>
RejectStep == RejectStop /\ UNCHANGED <<senderVars, session, edits>>

-----------------------------------------------------------------------------
(* The world around them.                                                  *)

\* A process dies.  Its side of the connection ends, a packet being written
\* may be cut in two, and a reset may take what was still in flight.
KillSender ==
  /\ "kill" \in Faults
  /\ senderPc \in {"listen", "loop"}
  /\ senderPc' = "killed"
  /\ toReceiver' \in Cut(toReceiver)
  /\ UNCHANGED <<offerPc, sending, served, offered, receiverVars, toSender, session, edits>>

\* Death may strike inside WriteAt, some of the bytes written.
TornWrite ==
  /\ receiverPc = "wait" /\ Arrived(toReceiver, {"FILEBYTES"})
  /\ \E i \in Accepted(Packet.id), k \in 0 .. Len(Packet.data) :
       disk' = [disk EXCEPT ![Packet.id] =
                  WriteAt(Opened(@), SubSeq(Packet.data, 1, k), receiving.AcceptedFiles[i].sent)]

KillReceiver ==
  /\ "kill" \in Faults
  /\ ReceiverAlive
  /\ receiverPc' = "killed"
  /\ toSender' \in Cut(toSender)
  /\ TornWrite \/ UNCHANGED disk
  /\ UNCHANGED <<senderVars, prompt, receiving, links, corrupted, toReceiver, session, edits>>

LoseConnection ==
  /\ "link" \in Faults
  /\ senderPc = "loop" /\ ReceiverAlive
  /\ toReceiver.end = "open" /\ toSender.end = "open"
  /\ toReceiver' \in Cut(toReceiver)
  /\ toSender' \in Cut(toSender)
  /\ UNCHANGED <<senderVars, receiverVars, session, edits>>

EditServed ==
  /\ edits < MaxEdits
  /\ edits' = edits + 1
  /\ \E f \in FileIDs : \E content \in Edits[f] : served' = [served EXCEPT ![f] = content]
  /\ UNCHANGED <<senderPc, offerPc, sending, offered, receiverVars, streams, session>>

\* Both nodes are started again: GetFile looks at the served files anew, the
\* downloads folder is as the last attempt left it.
NewSession ==
  /\ senderPc \in Ended /\ receiverPc \in Ended
  /\ session < MaxSessions
  /\ session' = session + 1
  /\ senderPc' = "listen" /\ offerPc' = "idle" /\ sending' = FreshSending
  /\ offered' = served
  /\ receiverPc' = "dial" /\ prompt' = "none" /\ receiving' = FreshReceiving
  /\ corrupted' = {}
  /\ toReceiver' = OpenStream /\ toSender' = OpenStream
  /\ UNCHANGED <<served, disk, links, edits>>

\* The only place where everything may stop.
Finished ==
  /\ senderPc \in Ended /\ receiverPc \in Ended
  /\ UNCHANGED vars

Next ==
  \/ Connect
  \/ DialFails
  \/ SenderStep
  \/ OfferStep
  \/ ReceiverStep
  \/ AnswerStep
  \/ RejectStep
  \/ KillSender
  \/ KillReceiver
  \/ LoseConnection
  \/ EditServed
  \/ NewSession
  \/ Finished

Spec == Init /\ [][Next]_vars

\* Each goroutine runs when it can, and dialling times out.  A person need not
\* answer the question.
Fairness ==
  /\ WF_vars(DialFails)
  /\ WF_vars(SenderStep)
  /\ WF_vars(OfferStep)
  /\ WF_vars(ReceiverStep)
  /\ WF_vars(RejectStep)

FairSpec == Spec /\ Fairness

-----------------------------------------------------------------------------
(* Properties.                                                             *)

Transferring ==
  /\ senderPc = "loop" /\ ReceiverAlive
  /\ toReceiver.end = "open" /\ toSender.end = "open"
  /\ sending.AllowedToTransfer /\ ~sending.stopped

\* From ACCEPT to DONE exactly one packet is under way, in one direction or
\* the other: the sender never runs ahead of READY or ALREADYHAVE (headers.go
\* promises no "spam"), and never do both nodes wait for each other.
StopAndWait ==
  Transferring => Len(toReceiver.queue) + Len(toSender.queue) = 1

\* CurrentFileID, which counts up, and FilesToSend, from which files are taken
\* by index, stay in step through ENDFILE and ALREADYHAVE: the list is what
\* remains from the current file on, so the index search never falls back to 0.
ListFollowsCounter ==
  sending.AllowedToTransfer =>
    sending.FilesToSend = [i \in 1 .. NumFiles - sending.CurrentFileID |-> sending.CurrentFileID + i - 1]

\* On ALREADYHAVE node.send removes from the list it ranges over and goes on.
\* It removes the named file, counts it once and never meets the element that
\* the removal leaves behind at the end: the loop comes to what
\* SenderOnAlreadyHave does.
LoopSkipsOnce ==
  senderPc = "loop" /\ Arrived(toSender, {"ALREADYHAVE"}) =>
    LET id == Head(toSender.queue).id
        after == AlreadyHaveLoop(sending, id)
        hits == {i \in 1 .. Len(sending.FilesToSend) : sending.FilesToSend[i] = id}
    IN  ~after.panics /\ after.s \in {SkipFile(sending, i) : i \in hits}

\* No packet with an encrypted body is taken before the key is known: the key is
\* written before the goroutine that writes the offer is started.
KeyFirst ==
  receiverPc = "wait" /\ Arrived(toReceiver, EncryptedHeaders) => receiving.EncryptionKey

\* A file being received holds on disk exactly the bytes that came in this
\* attempt: nothing of the file that was there before is left.
HoldsWhatCame ==
  ReceiverAlive =>
    \A i \in 1 .. Len(receiving.AcceptedFiles) :
      LET file == receiving.AcceptedFiles[i]
      IN  Len(Opened(disk[file.id])) = file.sent

\* How many bytes of progress a packet with that header stands for.
BytesOf(packet, header) ==
  IF packet.hdr # header THEN 0
  ELSE CASE header = "FILEBYTES" -> Len(packet.data)
         [] header = "ALREADYHAVE" -> Len(offered[packet.id])

BytesIn(queue, header) ==
  FoldLeft(LAMBDA sum, packet : sum + BytesOf(packet, header), 0, queue)

\* The two progress counters agree but for the packet under way: SentBytes
\* leads by the bytes in flight and lags by the file an ALREADYHAVE spares.
CountersAgree ==
  Transferring =>
    sending.SentBytes + BytesIn(toSender.queue, "ALREADYHAVE")
      = receiving.ReceivedBytes + BytesIn(toReceiver.queue, "FILEBYTES")

Present(f) == disk[f] # NoFile
SameChecksum(f) == Present(f) /\ GetPartialCheckSum(disk[f]) = GetPartialCheckSum(offered[f])
Delivered(f) == disk[f] = offered[f]

\* When the first SYMLINK arrives every file has been received and checked.
SymlinksAfterFiles ==
  ReceiverAlive /\ Arrived(toReceiver, {"SYMLINK"}) =>
    receiving.AcceptedFiles = <<>> /\ \A f \in FileIDs : SameChecksum(f) \/ f \in corrupted

\* A transfer that both sides take to be over (DONE was sent after ACCEPT) left
\* every file in place with the checksum that was offered, or it was found to
\* be corrupted, whatever was edited, lost or left behind by an earlier attempt.
DoneMeansChecked ==
  sending.AllowedToTransfer /\ sending.stopped /\ senderPc # "panic" =>
    \A f \in FileIDs : SameChecksum(f) \/ f \in corrupted

\* Without edits each of them is the very file that was offered.
DoneMeansDelivered ==
  sending.AllowedToTransfer /\ sending.stopped /\ senderPc # "panic" =>
    /\ \A f \in FileIDs : Delivered(f)
    /\ \A l \in SymlinkIDs : links[l] # "absent"

\* ALREADYHAVE is said only of a file that is the offered one: "the exact same
\* file" (node.go).
AlreadyHaveIsExact ==
  \A i \in 1 .. Len(toSender.queue) :
    LET packet == toSender.queue[i]
    IN  packet.hdr = "ALREADYHAVE" => Delivered(packet.id)

\* Nothing in the downloads folder changes before the user has said yes.
OnlyAfterConsent ==
  [][disk' # disk \/ links' # links => prompt = "yes"]_vars

\* A file that has arrived is never written, cut or removed again, in this
\* attempt or a later one, while the offer stays the same.
ArrivedStays ==
  [][\A f \in FileIDs : Delivered(f) => disk'[f] = disk[f]]_vars

\* No edits, no corruption is ever found.
NothingCorrupted == corrupted = {}

BothEnded == senderPc \in Ended /\ receiverPc \in Ended

\* When one node is gone, or a link is, the other does not wait for ever.
OneEndsBothEnd ==
  (senderPc \in Ended \/ receiverPc \in Ended \/ toReceiver.end # "open") ~> BothEnded

\* Once the sender is connected the question is put to the user.
OfferArrives == senderPc = "loop" ~> prompt # "none" \/ BothEnded

\* A question that has been answered, either way, is followed by the end.
AnswerEnds == prompt \in {"yes", "rejecting"} ~> BothEnded

\* And an accepted transfer, nothing failing, by a complete delivery.
AcceptedArrives ==
  prompt = "yes" ~> /\ senderPc = "done" /\ receiverPc = "done"
                    /\ \A f \in FileIDs : Delivered(f)
                    /\ \A l \in SymlinkIDs : links[l] # "absent"

=============================================================================
