------------------------------ MODULE Receiver ------------------------------
(***************************************************************************)
(* The receiving node: Node.receive, the goroutine that asks the user, and *)
(* the downloads folder (node/node.go, fsys/file.go).                      *)
(*                                                                         *)
(* The main loop reads Node.stopped, then blocks on the pipe, then runs    *)
(* the case of the packet's header.  The goroutine that a rejecting user   *)
(* leaves behind sets stopped on its own, before or after that read, so    *)
(* the read is an action of its own (LoopTop).                             *)
(***************************************************************************)
EXTENDS Protocol

VARIABLES
  receiverPc,  \* "dial", "top", "wait", or how the process ended
  prompt,      \* the goroutine: "none", "asking", "yes", "rejecting" or "no"
  receiving,   \* Node.stopped, EncryptionKey and transferInfo.Receiving
  disk,        \* what stands where each served file is to be stored
  links,       \* what stands where each symlink is to be made
  corrupted    \* files whose checksum was found wrong when they ended

receiverVars == <<receiverPc, prompt, receiving, disk, links, corrupted>>

AcceptedFile == [id : FileIDs, size : Nat, sum : Content, sent : Nat]

Receivings ==
  [stopped : BOOLEAN, EncryptionKey : BOOLEAN, AcceptedFiles : Seq(AcceptedFile),
   ReceivedBytes : Nat]

FreshReceiving ==
  [stopped |-> FALSE, EncryptionKey |-> FALSE, AcceptedFiles |-> <<>>, ReceivedBytes |-> 0]

-----------------------------------------------------------------------------
(* Files of the downloads folder.                                          *)

\* File.Open creates a file that is not there.
Opened(content) == IF content = NoFile THEN <<>> ELSE content

\* What a file holds once bytes are written at an offset: what was there is
\* overwritten or extended, never cut.
WriteAt(content, bytes, at) ==
  LET end == at + Len(bytes)
      length == IF Len(content) < end THEN end ELSE Len(content)
  IN  [j \in 1 .. length |->
         IF j \in at + 1 .. end THEN bytes[j - at]
         ELSE IF j <= Len(content) THEN content[j] ELSE 0]

-----------------------------------------------------------------------------
(* The main loop: the check at its top, then one action per header.        *)

LoopTop ==
  /\ receiverPc = "top"
  /\ IF receiving.stopped
       THEN /\ receiverPc' = "done"
            /\ toSender' = Close(Push(toSender, <<Bare("BYE!")>>))
       ELSE /\ receiverPc' = "wait"
            /\ UNCHANGED toSender
  /\ UNCHANGED <<prompt, receiving, disk, links, corrupted, toReceiver>>

ReceiverTakes(headers) ==
  /\ receiverPc = "wait"
  /\ Arrived(toReceiver, headers)
  /\ toReceiver' = Pop(toReceiver)
  /\ receiverPc' = "top"

Packet == Head(toReceiver.queue)

Answer(packet) == toSender' = Push(toSender, <<packet>>)
Ready == Answer(Bare("READY"))

ReceiverOnKey ==
  /\ ReceiverTakes({"ENCRKEY"})
  /\ receiving' = [receiving EXCEPT !.EncryptionKey = TRUE]
  /\ UNCHANGED <<prompt, disk, links, corrupted, toSender>>

\* The goroutine is started; the loop goes on at once.
ReceiverOnOffer ==
  /\ ReceiverTakes({"TRANSFEROFFER"})
  /\ prompt' = "asking"
  /\ UNCHANGED <<receiving, disk, links, corrupted, toSender>>

\* Mutants of IsExactFile: the name is enough; the size is enough; never.
IsThere(packet) == disk[packet.id] # NoFile
IsOfThatSize(packet) == disk[packet.id] # NoFile /\ Len(disk[packet.id]) = packet.size
IsNever(packet) == FALSE

\* "It`s the exact same file": the checksums agree.
IsExactFile(packet) ==
  /\ disk[packet.id] # NoFile
  /\ GetPartialCheckSum(disk[packet.id]) = packet.data

\* Mutant of AlreadyHave: READY is sent as for any other file.
AlreadyHaveAndReady ==
  /\ IsExactFile(Packet)
  /\ toSender' = Push(toSender, <<WithID("ALREADYHAVE", Packet.id), Bare("READY")>>)
  /\ receiving' = [receiving EXCEPT !.ReceivedBytes = @ + Packet.size]
  /\ UNCHANGED disk

AlreadyHave ==
  /\ IsExactFile(Packet)
  /\ Answer(WithID("ALREADYHAVE", Packet.id))
  /\ receiving' = [receiving EXCEPT !.ReceivedBytes = @ + Packet.size]
  /\ UNCHANGED disk

\* Mutant of AcceptFile: the other file is not removed.
AcceptFileOver ==
  /\ ~IsExactFile(Packet)
  /\ UNCHANGED disk
  /\ receiving' = [receiving EXCEPT !.AcceptedFiles =
       Append(@, [id |-> Packet.id, size |-> Packet.size, sum |-> Packet.data, sent |-> 0])]
  /\ Ready

\* Another file of that name is removed; the error of os.Remove is dropped.
AcceptFile ==
  /\ ~IsExactFile(Packet)
  /\ \/ disk' = [disk EXCEPT ![Packet.id] = NoFile]
     \/ "remove" \in Faults /\ UNCHANGED disk
  /\ receiving' = [receiving EXCEPT !.AcceptedFiles =
       Append(@, [id |-> Packet.id, size |-> Packet.size, sum |-> Packet.data, sent |-> 0])]
  /\ Ready

ReceiverOnFile ==
  /\ ReceiverTakes({"FILE"})
  /\ AlreadyHave \/ AcceptFile
  /\ UNCHANGED <<prompt, links, corrupted>>

\* Where the file with this ID stands among the accepted ones, if it does; no
\* ID is accepted twice.
Accepted(id) ==
  {i \in 1 .. Len(receiving.AcceptedFiles) : receiving.AcceptedFiles[i].id = id}

\* Mutant of StoreBytes: the offset is taken from the total.
StoreBytesAtTotal(i, id, bytes) ==
  /\ disk' = [disk EXCEPT ![id] = WriteAt(Opened(@), bytes, receiving.ReceivedBytes)]
  /\ receiving' = [receiving EXCEPT !.AcceptedFiles[i].sent = @ + Len(bytes),
                                    !.ReceivedBytes = @ + Len(bytes)]

StoreBytes(i, id, bytes) ==
  /\ disk' = [disk EXCEPT ![id] = WriteAt(Opened(@), bytes, receiving.AcceptedFiles[i].sent)]
  /\ receiving' = [receiving EXCEPT !.AcceptedFiles[i].sent = @ + Len(bytes),
                                    !.ReceivedBytes = @ + Len(bytes)]

\* READY is sent whether or not the file was accepted.
ReceiverOnFileBytes ==
  /\ ReceiverTakes({"FILEBYTES"})
  /\ \/ Accepted(Packet.id) = {} /\ UNCHANGED <<disk, receiving>>
     \/ \E i \in Accepted(Packet.id) : StoreBytes(i, Packet.id, Packet.data)
  /\ Ready
  /\ UNCHANGED <<prompt, links, corrupted>>

\* Mutant of FinishFile: the checksum is not compared.
FinishFileUnchecked(i, id) ==
  /\ disk' = [disk EXCEPT ![id] = Opened(@)]
  /\ receiving' = [receiving EXCEPT !.AcceptedFiles = RemoveAt(@, i)]
  /\ UNCHANGED corrupted

\* A wrong checksum is at most printed: the file stays as it is.
FinishFile(i, id) ==
  /\ disk' = [disk EXCEPT ![id] = Opened(@)]
  /\ receiving' = [receiving EXCEPT !.AcceptedFiles = RemoveAt(@, i)]
  /\ corrupted' =
       IF GetPartialCheckSum(Opened(disk[id])) = receiving.AcceptedFiles[i].sum
         THEN corrupted ELSE corrupted \cup {id}

ReceiverOnEndfile ==
  /\ ReceiverTakes({"ENDFILE"})
  /\ \/ Accepted(Packet.id) = {} /\ UNCHANGED <<disk, receiving, corrupted>>
     \/ \E i \in Accepted(Packet.id) : FinishFile(i, Packet.id)
  /\ Ready
  /\ UNCHANGED <<prompt, links>>

\* Mutant of ReceiverOnSymlink: READY is not sent.
ReceiverOnSymlinkSilent ==
  /\ ReceiverTakes({"SYMLINK"})
  /\ links' = [links EXCEPT ![Packet.id] = IF @ = "absent" THEN "made" ELSE @]
  /\ UNCHANGED <<prompt, receiving, disk, corrupted, toSender>>

\* os.Symlink does not replace what is there; its error is dropped.
ReceiverOnSymlink ==
  /\ ReceiverTakes({"SYMLINK"})
  /\ links' = [links EXCEPT ![Packet.id] = IF @ = "absent" THEN "made" ELSE @]
  /\ Ready
  /\ UNCHANGED <<prompt, receiving, disk, corrupted>>

ReceiverOnStop ==
  /\ ReceiverTakes({"DONE", "BYE!"})
  /\ receiving' = [receiving EXCEPT !.stopped = TRUE]
  /\ UNCHANGED <<prompt, disk, links, corrupted, toSender>>

\* The pipe is closed: os.Exit.
ReceiverExit ==
  /\ receiverPc = "wait" /\ PipeClosed(toReceiver)
  /\ receiverPc' = "exit"
  /\ toSender' = Close(toSender)
  /\ UNCHANGED <<prompt, receiving, disk, links, corrupted, toReceiver>>

ReceiverLoop ==
  LoopTop \/ ReceiverOnKey \/ ReceiverOnOffer \/ ReceiverOnFile \/ ReceiverOnFileBytes
    \/ ReceiverOnEndfile \/ ReceiverOnSymlink \/ ReceiverOnStop \/ ReceiverExit

-----------------------------------------------------------------------------
(* The goroutine that asks the user.                                       *)

ReceiverAlive == receiverPc \in {"top", "wait"}

AnswerYes ==
  /\ ReceiverAlive /\ prompt = "asking"
  /\ prompt' = "yes"
  /\ Answer(Bare("ACCEPT"))
  /\ UNCHANGED <<receiverPc, receiving, disk, links, corrupted, toReceiver>>

\* Mutants of AnswerNo: the wrong header; no packet at all.
AnswerNoAccepts ==
  /\ ReceiverAlive /\ prompt = "asking"
  /\ prompt' = "rejecting"
  /\ Answer(Bare("ACCEPT"))
  /\ UNCHANGED <<receiverPc, receiving, disk, links, corrupted, toReceiver>>
AnswerNoSilent ==
  /\ ReceiverAlive /\ prompt = "asking"
  /\ prompt' = "rejecting"
  /\ UNCHANGED <<receiverPc, receiving, disk, links, corrupted, toReceiver, toSender>>

AnswerNo ==
  /\ ReceiverAlive /\ prompt = "asking"
  /\ prompt' = "rejecting"
  /\ Answer(Bare("REJECT"))
  /\ UNCHANGED <<receiverPc, receiving, disk, links, corrupted, toReceiver>>

\* stopped is set under the mutex after REJECT has been written.
RejectStop ==
  /\ ReceiverAlive /\ prompt = "rejecting"
  /\ prompt' = "no"
  /\ receiving' = [receiving EXCEPT !.stopped = TRUE]
  /\ UNCHANGED <<receiverPc, disk, links, corrupted, toReceiver, toSender>>

=============================================================================
