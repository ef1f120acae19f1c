------------------------------- MODULE Sender -------------------------------
(***************************************************************************)
(* The sending node: Node.send, its goroutine SendTransferOffer, and what  *)
(* they call to cut files into packets (node/node.go, protocol/send.go,    *)
(* fsys/file.go).                                                          *)
(*                                                                         *)
(* One pass of the main loop is one action: a packet is taken from the     *)
(* pipe, its header's case runs, and then, whatever the header was, the    *)
(* transfer section runs once.  It may send something; every continue      *)
(* statement and the end of the loop lead back to the receive.             *)
(***************************************************************************)
EXTENDS Protocol

CONSTANT IsDirectory  \* a directory is served, and not a single file

ASSUME SenderAssumption ==
  /\ IsDirectory \in BOOLEAN
  /\ ~IsDirectory => NumFiles = 1 /\ NumSymlinks = 0

VARIABLES
  senderPc,  \* "listen", "loop", or how the process ended
  offerPc,   \* the goroutine: "idle", "pending", "sent" or "failed"
  sending,   \* Node.stopped and transferInfo.Sending
  served,    \* the files under ServingPath as they are now
  offered    \* the same files as GetFile found them: it took size and checksum

senderVars == <<senderPc, offerPc, sending, served, offered>>

Sendings ==
  [stopped : BOOLEAN, CanSendBytes : BOOLEAN, AllowedToTransfer : BOOLEAN,
   InTransfer : BOOLEAN, FilesToSend : Seq(FileIDs), SymlinksToSend : Seq(SymlinkIDs),
   CurrentFileID : Nat, SentBytes : Nat, CurrentSymlinkIndex : Nat,
   fileSent : [FileIDs -> Nat]]  \* File.SentBytes of each file

FreshSending ==
  [stopped |-> FALSE, CanSendBytes |-> FALSE, AllowedToTransfer |-> FALSE,
   InTransfer |-> FALSE, FilesToSend |-> <<>>, SymlinksToSend |-> <<>>,
   CurrentFileID |-> 0, SentBytes |-> 0, CurrentSymlinkIndex |-> 0,
   fileSent |-> [f \in FileIDs |-> 0]]

\* Mutant of AllFiles: the files are added to the list without an ID.
AllFilesZero == [i \in 1 .. NumFiles |-> 0]

\* What GetAllFiles and GetAllSymlinks return, the files numbered in order.
AllFiles == [i \in 1 .. NumFiles |-> i - 1]
AllSymlinks == [i \in 1 .. NumSymlinks |-> i]

MayFailToOpen == "open" \in Faults

-----------------------------------------------------------------------------
(* The goroutine that offers the transfer.                                 *)

\* Mutant of SendTransferOffer: the offer is made and not written.
MakeTransferOffer ==
  /\ senderPc = "loop" /\ offerPc = "pending"
  /\ offerPc' = "sent"
  /\ UNCHANGED <<senderPc, sending, served, offered, toReceiver, toSender>>

\* For a single file SendTransferOffer opens it; the error that may give is
\* returned to nobody.
SendTransferOffer ==
  /\ senderPc = "loop" /\ offerPc = "pending"
  /\ \/ /\ offerPc' = "sent"
        /\ toReceiver' = Push(toReceiver, <<Bare("TRANSFEROFFER")>>)
     \/ /\ MayFailToOpen /\ ~IsDirectory
        /\ offerPc' = "failed"
        /\ UNCHANGED toReceiver
  /\ UNCHANGED <<senderPc, sending, served, offered, toSender>>

-----------------------------------------------------------------------------
(* The transfer section.  Each alternative is given the state s that the   *)
(* case of the switch left behind.                                         *)

Continue(s, packets) ==
  /\ sending' = s
  /\ toReceiver' = Push(toReceiver, packets)
  /\ UNCHANGED senderPc

Panic(s) ==
  /\ senderPc' = "panic"
  /\ sending' = s
  /\ toReceiver' = Close(toReceiver)

\* Mutant of SendNextSymlink: it does not wait for the files.
SendSymlinkAtOnce(s) ==
  /\ s.CurrentSymlinkIndex < Len(s.SymlinksToSend)
  /\ Continue([s EXCEPT !.CurrentSymlinkIndex = @ + 1],
              <<WithID("SYMLINK", s.SymlinksToSend[s.CurrentSymlinkIndex + 1])>>)

SendNextSymlink(s) ==
  /\ s.FilesToSend = <<>> /\ s.CurrentSymlinkIndex < Len(s.SymlinksToSend)
  /\ Continue([s EXCEPT !.CurrentSymlinkIndex = @ + 1],
              <<WithID("SYMLINK", s.SymlinksToSend[s.CurrentSymlinkIndex + 1])>>)

SendDone(s) ==
  /\ s.FilesToSend = <<>> /\ s.CurrentSymlinkIndex = Len(s.SymlinksToSend)
  /\ Continue([s EXCEPT !.stopped = TRUE], <<Bare("DONE")>>)

\* Where the file with the current ID stands in the list; the first place if
\* it is nowhere.
CurrentFileIndex(s) ==
  LET hits == {i \in 1 .. Len(s.FilesToSend) : s.FilesToSend[i] = s.CurrentFileID}
  IN  IF hits = {} THEN 1 ELSE CHOOSE i \in hits : \A k \in hits : i <= k

AnnounceFile(s) ==
  /\ s.FilesToSend # <<>> /\ s.AllowedToTransfer /\ ~s.InTransfer
  /\ LET id == s.FilesToSend[CurrentFileIndex(s)]
     IN  \/ Continue([s EXCEPT !.InTransfer = TRUE], <<FilePacket(id, offered[id])>>)
         \/ MayFailToOpen /\ Panic(s)

\* SendPiece measures the file by the size taken when it was offered and reads
\* its bytes as they are now.
Unsent(s, id) == Len(offered[id]) - s.fileSent[id]
PieceLength(s, id) == IF Unsent(s, id) < PieceSize THEN Unsent(s, id) ELSE PieceSize
NextPiece(s, id) ==
  SubSeq(served[id], s.fileSent[id] + 1, s.fileSent[id] + PieceLength(s, id))

\* Mutant of EndFile: the transfer of a file is not taken to be over.
EndFileInTransfer(s, index) ==
  Continue([s EXCEPT !.FilesToSend = RemoveAt(@, index), !.CurrentFileID = @ + 1],
           <<WithID("ENDFILE", s.FilesToSend[index])>>)

EndFile(s, index) ==
  Continue([s EXCEPT !.FilesToSend = RemoveAt(@, index), !.CurrentFileID = @ + 1,
                     !.InTransfer = FALSE],
           <<WithID("ENDFILE", s.FilesToSend[index])>>)

\* Mutant of SendBytes: a last, shorter piece is counted as a whole one.
SendBytesCountWhole(s, id) ==
  Continue([s EXCEPT !.fileSent[id] = @ + PieceLength(s, id),
                     !.SentBytes = @ + PieceSize, !.CanSendBytes = FALSE],
           <<FileBytesPacket(id, NextPiece(s, id))>>)

\* Mutant of SendBytes: file.SentBytes advances by whole pieces.
SendBytesWholePieces(s, id) ==
  Continue([s EXCEPT !.fileSent[id] = @ + PieceSize,
                     !.SentBytes = @ + PieceLength(s, id), !.CanSendBytes = FALSE],
           <<FileBytesPacket(id, NextPiece(s, id))>>)

SendBytes(s, id) ==
  Continue([s EXCEPT !.fileSent[id] = @ + PieceLength(s, id),
                     !.SentBytes = @ + PieceLength(s, id), !.CanSendBytes = FALSE],
           <<FileBytesPacket(id, NextPiece(s, id))>>)

\* A read that meets the end of a file that has shrunk is an error.
Readable(s, id) == s.fileSent[id] + PieceLength(s, id) <= Len(served[id])

SendPiece(s) ==
  /\ s.FilesToSend # <<>> /\ s.AllowedToTransfer /\ s.InTransfer /\ s.CanSendBytes
  /\ LET index == CurrentFileIndex(s)
         id == s.FilesToSend[index]
     IN  \/ Unsent(s, id) = 0 /\ EndFile(s, index)
         \/ Unsent(s, id) # 0 /\ Readable(s, id) /\ SendBytes(s, id)
         \/ Unsent(s, id) # 0 /\ ~Readable(s, id) /\ Panic([s EXCEPT !.stopped = TRUE])
         \/ MayFailToOpen /\ Panic([s EXCEPT !.stopped = TRUE])

\* Nothing to send yet: not accepted, or the receiver is not ready for a piece.
Await(s) ==
  /\ s.FilesToSend # <<>>
  /\ ~s.AllowedToTransfer \/ (s.InTransfer /\ ~s.CanSendBytes)
  /\ Continue(s, <<>>)

TransferSection(s) ==
  \/ SendNextSymlink(s)
  \/ SendDone(s)
  \/ AnnounceFile(s)
  \/ SendPiece(s)
  \/ Await(s)

-----------------------------------------------------------------------------
(* The main loop: one action per header the receiver sends.                *)

SenderTakes(headers) ==
  /\ senderPc = "loop" /\ ~sending.stopped
  /\ Arrived(toSender, headers)
  /\ toSender' = Pop(toSender)
  /\ UNCHANGED <<offerPc, served, offered>>

SenderOnReady ==
  /\ SenderTakes({"READY"})
  /\ TransferSection([sending EXCEPT !.CanSendBytes = TRUE])

SenderOnAccept ==
  /\ SenderTakes({"ACCEPT"})
  /\ TransferSection([sending EXCEPT !.AllowedToTransfer = TRUE,
                                     !.FilesToSend = @ \o AllFiles,
                                     !.SymlinksToSend = AllSymlinks,
                                     !.CurrentFileID = 0])

\* The transfer section runs after this case too.
SenderOnStop ==
  /\ SenderTakes({"REJECT", "BYE!"})
  /\ TransferSection([sending EXCEPT !.stopped = TRUE])

\* Mutant of SkipFile: the ID is not advanced.
SkipFileSameID(s, index) ==
  [s EXCEPT !.FilesToSend = RemoveAt(@, index), !.InTransfer = FALSE,
            !.SentBytes = @ + Len(offered[s.FilesToSend[index]])]

SkipFile(s, index) ==
  [s EXCEPT !.FilesToSend = RemoveAt(@, index), !.CurrentFileID = @ + 1,
            !.SentBytes = @ + Len(offered[s.FilesToSend[index]]), !.InTransfer = FALSE]

\* The loop of the case ALREADYHAVE ranges over the array that FilesToSend began
\* with.  A removal moves what follows down in that array, one place of which
\* the shorter list no longer reaches, and the loop goes on to the next index.
AlreadyHaveLoop(s, id) ==
  LET Removed(loop, i) ==
        LET shorter == SkipFile(loop.s, i)
            Moved(j) == IF j <= Len(shorter.FilesToSend) THEN shorter.FilesToSend[j]
                                                         ELSE loop.array[j]
        IN  [loop EXCEPT !.s = shorter, !.array = [j \in DOMAIN @ |-> Moved(j)]]
      Pass(loop, i) ==
        IF loop.panics \/ loop.array[i] # id THEN loop
        ELSE IF i > Len(loop.s.FilesToSend) THEN [loop EXCEPT !.panics = TRUE]
        ELSE Removed(loop, i)
  IN  FoldLeft(Pass, [s |-> s, array |-> s.FilesToSend, panics |-> FALSE],
               [i \in DOMAIN s.FilesToSend |-> i])

\* FilesToSend holds an ID at most once, so one removal is what the loop comes
\* to (LoopSkipsOnce of Transfer).
SenderOnAlreadyHave ==
  /\ SenderTakes({"ALREADYHAVE"})
  /\ LET hits == {i \in 1 .. Len(sending.FilesToSend) :
                    sending.FilesToSend[i] = Head(toSender.queue).id}
     IN  \/ hits = {} /\ TransferSection(sending)
         \/ \E i \in hits : TransferSection(SkipFile(sending, i))

\* The loop is left: BYE! and the connection is closed.
SenderDisconnect ==
  /\ senderPc = "loop" /\ sending.stopped
  /\ senderPc' = "done"
  /\ toReceiver' = Close(Push(toReceiver, <<Bare("BYE!")>>))
  /\ UNCHANGED <<offerPc, sending, served, offered, toSender>>

\* The pipe is closed: os.Exit.
SenderExit ==
  /\ senderPc = "loop" /\ ~sending.stopped /\ PipeClosed(toSender)
  /\ senderPc' = "exit"
  /\ toReceiver' = Close(toReceiver)
  /\ UNCHANGED <<offerPc, sending, served, offered, toSender>>

SenderLoop ==
  SenderOnReady \/ SenderOnAccept \/ SenderOnStop \/ SenderOnAlreadyHave
    \/ SenderDisconnect \/ SenderExit

=============================================================================
