# FTU in TLA+

FTU ("File Transferring Utility") sends a file or a directory from one computer to another
over one TCP connection. This directory holds a TLA+ model of it, the TLC runs that check the
model on small instances, and TLAPS proofs of its main safety properties for every instance.
All of the code referred to below is under `src/src/`.

## 1. The system

| component | code | state it keeps | operations |
|---|---|---|---|
| sending node | `node/node.go` `send` (240-531), `protocol/send.go` | `stopped`, `transferInfo.Sending` (list of files and of symlinks still to send, current file ID and symlink index, `AllowedToTransfer`, `InTransfer`, `CanSendBytes`, bytes sent), `SentBytes` of each file | send key, offer (a goroutine), one loop pass per packet, each followed by the transfer section |
| receiving node | `node/node.go` `receive` (533-917) | `stopped`, key, `AcceptedFiles`, `ReceivedBytes`, the downloads folder on disk | one loop pass per packet, ask the user (a goroutine) |
| connection establishment | `node/node.go` `connect`, `waitForConnection` | the listener, the kernel's line of connections | listen, accept one, dial with a timeout |
| wire protocol | `protocol/headers.go`, `packet.go`, `send.go`, `recv.go` | what is in the TCP connection and in `packetPipe` | `SendPacket`, `ReceivePackets`, `ReadFromConn` |
| packet encoding | `protocol/packetConstruct.go`, `packetDecode.go` | none | bodies of all packets, both ways |
| encryption | `encryption/*.go` | the key | AES-GCM of bodies |
| checksum | `checksum/checksum.go` | none | checksum of samples, of the whole for small files |
| files | `fsys/file.go` | size and checksum as `GetFile` found them, handle, offset | `GetFile`, `Open` (creates, never truncates), `Close` |
| directories, symlinks | `fsys/dir.go`, `fsys/symlink.go` | tree of files and symlinks | `GetDir`, `GetAllFiles`, `GetAllSymlinks`, `SetRelativePaths` |
| start, options, display, address | `main.go`, `node/options.go`, `node.printTransferInfo`, `addr/local.go` | progress display | flags, printing |

How they interact. The sender walks what it serves, then listens; the receiver dials. Each node
has a goroutine (`ReceivePackets`) that feeds packets from the connection into `packetPipe`, and
a main loop that takes them out. The sender writes ENCRKEY from its main goroutine and
TRANSFEROFFER from another; the receiver answers ACCEPT or REJECT from a goroutine that waits
for the user. From then on sender and receiver take turns: FILE is answered by READY or
ALREADYHAVE, FILEBYTES, ENDFILE and SYMLINK by READY; DONE and BYE! end the transfer. The two
nodes share nothing but the connection. Within the receiver, `stopped` is shared by the main
loop and the user's goroutine, under a mutex. Nothing is persisted but the downloads folder, and
that is all a later attempt finds.

What is hard in it: goroutines that write to the same connection or set `stopped` while the
main loop is blocked; errors dropped in `go SendTransferOffer`, `connection.Read`,
`connection.Write` and `os.Remove`; a sender that advances a counter and removes list entries
by index in two different places; a death in the middle of a file and the next attempt over the
partial file; files edited while their checksum is taken or while they are sent; a walk over a
tree that changes; packets that arrive in pieces; no timeouts after the dial. `PROJECT.json`
lists these hazards line by line, with the properties that watch each.

What makes each part correct:

- sending node: never more than one packet ahead of the receiver; list and counter in step;
  symlinks after files; DONE only when everything was taken care of; it ends when its peer does.
- receiving node: nothing written before consent; a file holds what was sent of it and nothing
  else; "already have" only of the file that was offered; what has arrived is left alone.
- connection: one receiver per sender; whoever waits in the line, or for a peer that is gone, is let go, unless the
  connection ended inside a packet.
- protocol: key before anything encrypted; every packet is answered; nobody waits for ever;
  whole packets come out of the connection in order, whatever the reads.
- encoding, encryption: what is understood is what was meant; nothing is too big to be sent.
- checksum: equal checksums mean equal files, where the code relies on it; the loop takes the
  same samples at both ends.
- files, directories: the size offered is that of what is sent; every file once, in a place of its own.

## 2. Modules

| module | models |
|---|---|
| `Checksum` | which bytes of a file `GetPartialCheckSum` depends on, in closed form |
| `Stream` | one direction of the connection as a stream of packets, and the ways it can end |
| `Protocol` | the packets of a transfer, over two streams |
| `Sender` | `Node.send`, `SendTransferOffer`, `SendPiece`, `SendSymlink` |
| `Receiver` | `Node.receive`, the user's goroutine, the downloads folder |
| `Transfer` | both nodes, the connection, faults, edits, repeated attempts; the properties |
| `TransferInvariant` | the inductive invariants `IInv` and, with the progress counters, `CInv` |
| `Delivery` | abstract specification: what a transfer promises at the receiving end |
| `TransferDelivery` | the mapping under which `Transfer` implements `Delivery` |
| `PacketCodec` | packets as bytes: header, delimiter, bodies, encryption, sizes |
| `Wire` | one direction in bytes: `SendPacket`, `ReadFromConn`, `ReceivePackets`, the pipe, the main loop's decoding |
| `WireInvariant` | the inductive invariant `WInv` of `Wire` |
| `PacketStream` | a single `Stream` with a writer, a reader and an end: the abstract specification of `Wire` |
| `Snapshot` | `GetFile` and the loop of `GetPartialCheckSum`, one system call a step, while the file is edited |
| `FileTree` | `GetDir`, `GetAllFiles`, `GetAllSymlinks`, `SetRelativePaths`, and where the receiver puts things |
| `FileTreeInvariant` | the inductive invariant `TInv` of `FileTree` |
| `Listener` | several sending and receiving processes on one port |
| `MCTransfer`, `MCWire`, `MCSnapshot`, `MCFileTree`, `MCListener` | values for TLC |
| `GeneralProofs` | facts about numbers and sequences, induction and recursion, for the proofs below |
| `SenderProofs`, `TransferProofs`, `DeliveryProofs` | lemmas and theorems about `Transfer`, each module on top of the one before: the protocol and the sender, the receiver and the whole, what stands on disk and `Delivery` |
| `WireProofs` | theorems about `PacketCodec` and `Wire` |
| `SnapshotProofs`, `FileTreeProofs`, `ListenerProofs` | theorems about `Snapshot`, `FileTree` and `Listener` |

`Transfer` stands in the middle. What it takes for granted is what the other modules show:
its streams are what `Wire` makes of bytes (`ImplementsStream`, over the same module `Stream`);
its `offered` contents are what `Snapshot` finds and its checksum the closed form that the loop
computes; its numbered files in places of their own are what `FileTree` yields; its two nodes are
a pair that `Listener` has connected. `Delivery` is what it amounts to for the user.

### Transfer

**State.** `sending` and `receiving` are the Go structs `transferInfo.Sending` and
`.Receiving` with `stopped` (and the key) added; fields keep their names. `served` is what is
under `ServingPath` now, `offered` what `GetFile` recorded of it when the sender started (its
size and checksum are functions of that content). `disk[f]` is what stands where file `f` is to
be stored, `NoFile` if nothing; `links` likewise. A file is its ID: names and paths only select
the place, which differs from file to file. File contents are sequences of numbers.

**Steps.** One pass of the sender's loop is one action: receive, the header's case, then the
transfer section, which always runs, in the order of its `if`s (`SendNextSymlink`, `SendDone`,
`AnnounceFile`, `SendPiece`, `Await`). Only the sender's main goroutine writes the state this
uses, so nothing can come in between. The receiver's pass is two actions, because the user's
goroutine may set `stopped` between the check of it (`LoopTop`) and the receive. `AnswerNo`
(REJECT is written) and `RejectStop` (`stopped` is set) are two steps, for the main loop can run
in between. Everything a case does belongs to its action: the removal of the other file and READY
are part of FILE, the checksum and READY of ENDFILE.

**The connection.** `toReceiver` and `toSender` are the packets written and not yet taken from
the peer's pipe; TCP delivers in order. The buffers are unbounded here; `StopAndWait` shows that
one packet is all a transfer ever has under way, so `packetPipe`'s capacity of 100 is never felt
(`Wire` has a bounded pipe). A stream that ends on a packet boundary, or inside the eight bytes of a size, is
"eof": the pipe is closed and the node leaves through `os.Exit`. One that ends inside a packet is
"torn": see finding 3.

**The world.** `Faults` says what may go wrong: a process dies (`KillSender`, `KillReceiver`, also
in the middle of a write to disk), the connection is lost (`LoseConnection`), a loss cuts a packet in two,
a served file cannot be opened, `os.Remove` fails. `EditServed` changes a served file at any moment,
`NewSession` starts both nodes again over what the last attempt left in the downloads folder.

**Delivery.** The sender, the packets and the connection are hidden. An attempt asks, is answered,
receives files one at a time by appending bytes, compares checksums, makes symlinks, and is
complete or given up. `arriving` is the ID in `AcceptedFiles`; an attempt is `complete` when the sender has
sent DONE (it is the last to know), `over` when the receiver has ended without that.

### The other models

**Wire.** Bytes are numbers below `BASE`. The writer appends a packet's bytes; `ReadSize` takes
a size when all of it is there (`binary.Read`), `ReadBody` any number of bytes up to what is left
of the packet, the buffer and what has come (`connection.Read`), `FillPipe` waits for room.
`EndConnection` ends it and loses any number of bytes at the end. Encryption is an invertible
shift between a nonce and a tag: what the model needs of AES-GCM is its growth, that it gives back what it was
given, and that the delimiter may come up in its output. `owed` and `right` observe what was said and heard.

**Snapshot.** `Stat`, `Open`, `StatHandle`, then `ReadWhole` or `ReadChunk` until the end; between
any two of them the owner of the file may append, cut, overwrite or (before it is opened) remove
it. A chunk's short read leaves zeros in the buffer and advances the offset by what was read, as `ReadAt` does.

**FileTree.** When the user says yes, `AnswerYes` sets `DownloadsPath`: to a folder with the directory's name, or, when that cannot be
made, to the downloads folder itself. `stack` holds the running calls of `GetDir`; one entry is looked at (`Look`, the
`entry.Info()`) and then treated by its kind, so that it can be moved away in between. Paths are
sequences of names; `Rel` and `Join` do what `path/filepath` does with absolute paths. `IsTree` says what a file
system keeps true of a tree: every entry is in a directory that comes before it, and the entries of one directory
have different names.

**Listener.** A connection is a receiver in a sender's `line` (the kernel's backlog) or `served`. The transfer
is left out: one side of it ends at some moment, or dies. The other notices, as `OneEndsBothEnd` of `Transfer` shows,
unless the death cut a packet in two (`torn`): then it loops in `ReadFromConn` for ever (finding 3). Who waits in the line has been
written nothing, so that its connection always ends between packets.

**Scaled down.** `CHUNKS`, `CHUNKSIZE`, `STEP` are 50, 50, 250 in the code and 2, 1, 1 in the runs of
`Transfer` (3, 2, 2 in `snapshot`); `PieceSize` is 131006 bytes in the code and 3 in the runs. What
matters is kept: a file small enough to be hashed whole fits into one piece, a larger one is sampled
at its start only and needs more than one. In `wire`, `BASE` is 8 and `WORD` 2 for 256 and 8, and
`MAXPACKETSIZE` is small enough for a file to take two pieces. The proofs hold for any values.

**Assumed.** SHA-256 has no collisions (a checksum is represented by the bytes hashed). A
decrypted body is the encrypted one. Writes to disk of the receiver succeed unless it dies. Nothing
but ftu changes the places in the downloads folder during an attempt.

## 3. Properties

Each stands at the end of the module it belongs to, with a comment.

| property | module | kind | says |
|---|---|---|---|
| `TypeOK` | `Transfer`, `Snapshot`, `Wire` | invariant | types (`Types`), and counters, offsets and buffers within bounds (`InBounds`) |
| `StopAndWait` | `Transfer` | invariant | one packet under way between ACCEPT and DONE |
| `ListFollowsCounter` | | invariant | `FilesToSend` is what remains from `CurrentFileID` on |
| `LoopSkipsOnce` | | invariant | the loop of ALREADYHAVE, which removes from the list it ranges over, removes and counts one file and stays in range |
| `KeyFirst` | | invariant | no encrypted packet is taken before the key |
| `CountersAgree` | | invariant | `SentBytes` and `ReceivedBytes` differ by what is under way |
| `SymlinksAfterFiles` | | invariant | symlinks arrive after all files are checked |
| `NothingCorrupted` | | invariant | without edits no checksum is found wrong |
| `HoldsWhatCame` | | invariant | a file in progress is as long as what has come of it |
| `DoneMeansChecked` | | invariant | at DONE each file has the offered checksum or was found corrupted |
| `DoneMeansDelivered` | | invariant | at DONE each file is the offered one and each symlink's place taken |
| `AlreadyHaveIsExact` | | invariant | ALREADYHAVE is said of the offered file only |
| `OnlyAfterConsent` | | action | nothing on disk changes before a yes |
| `ArrivedStays` | | action | a delivered file is not touched again |
| `OneEndsBothEnd` | | liveness | a node does not outlive its peer or its connection |
| `OfferArrives` | | liveness | the question is put to the user |
| `AnswerEnds` | | liveness | after an answer, both nodes end |
| `AcceptedArrives` | | liveness | after a yes, complete delivery |
| `CInv` | `TransferInvariant` | invariant | the inductive invariant of the proofs: `IInv` and what the counters differ by |
| `ImplementsDelivery` | `TransferDelivery` | refinement | `Transfer` implements `Delivery` |
| `HeardAsSaid` | `Wire` | invariant | every packet is understood as it was meant, and none is left out |
| `DecryptsWhatIsEncrypted` | | invariant | the main loop never decrypts what was not encrypted |
| `WInv` | `WireInvariant` | invariant | the inductive invariant: what is owed is in the pipe as packets, behind it as their bytes |
| `ImplementsStream` | `Wire` | refinement | the bytes implement a stream of packets |
| `EndIsNoticed` | | liveness | an end between packets closes the pipe, and everything before it is taken |
| `UneditedIsExact` | `Snapshot` | invariant | the loop captures what the closed form says |
| `LargeMayGrow` | | invariant | a large file that only grows meanwhile is still offered with the right checksum |
| `TInv` | `FileTreeInvariant` | invariant | the inductive invariant: what each call has dealt with, what each finished directory holds |
| `EveryFileOnce` | `FileTree` | invariant | every file in reach that stays is found, once |
| `SizeIsSum` | | invariant | the size offered is the sum of the sizes of what is sent |
| `LinksLandOnFiles` | | invariant | a symlink points to the place where its target is put |
| `PlacesApart` | | invariant | no two entries arrive in the same place, and all below the folder downloaded to |
| `WalkStopsOnlyForDirs` | | invariant | only unreadable directories and vanished entries end the walk |
| `AcceptedIsSent` | | invariant | an accepted transfer is begun (violated: finding 5) |
| `ServesOne` | `Listener` | action | whom a sender serves does not change |
| `LineEndsWithSender` | | liveness | who waits in a sender's line is let go when its process ends |
| `GoneIsNoticed` | | liveness | of two connected nodes neither waits for one that is gone, but inside a packet; a sender that accepts the connection of a dead receiver ends |

## 4. Runs

| run | instance | shows |
|---|---|---|
| `clean` | an empty, a small and a large file, the last of just one piece or of two, 2 symlinks, each place empty or holding the same file, a shorter or a longer other one, 2 attempts, no faults, fairness | the discipline of the protocol, that it is a delivery, and that an accepted transfer arrives; 45070 states |
| `retry` | 2 small files, 1 symlink, any of 5 leftovers each, deaths, lost links, torn packets, 2 attempts | delivery and resumption for files that are hashed whole; `CInv`; 33234 states |
| `ends` | a small and a large file, 1 symlink, 2 edits (empty, other bytes, longer) at any moment, deaths, lost links, files that cannot be opened, removals that fail, fairness | nobody is left waiting; `DoneMeansChecked` whatever fails; 90389 states |
| `wire` | the key, then any two of 5 messages that hold the delimiter and the pieces of a file that takes two; any reads, any end; fairness | framing, encoding, encryption, sizes; `WInv`; 38936 states |
| `snapshot` | files of every size from 0 to beyond the sampling boundary, up to 2 edits between any two system calls | the checksum's loop and what an edit does to it; opens that fail; 31474 states |
| `tree` | every tree of 3 entries, files and directories that can or cannot be opened, symlinks into, to and out of the tree, absolute or relative; with and without `-r`; an entry moved away at any moment; the receiver's folder made or not | the walk, and where everything is put; `TInv`; 92210 states |
| `listener` | 2 senders, 3 receivers, a line of 2, deaths, also inside a packet, fairness | who is connected to whom, and how all end; 28584 states |
| `truncated` | one large file, the receiver may die, 2 attempts | violates `AlreadyHaveIsExact` |
| `stale` | one small file, a longer leftover, `os.Remove` fails | violates `DoneMeansDelivered` |
| `torn` | one small file, a death may cut a packet, fairness | violates `OneEndsBothEnd` |
| `unopened` | one small file that cannot be opened again, fairness | violates `OfferArrives` |
| `relative` | the trees of `tree`, nothing moved | violates `AcceptedIsSent` |

Why the bounds are enough. Files differ by their relation to two thresholds (empty, hashed
whole in one piece, sampled in one or several pieces), and `clean` has one of each in one list, so a
skip or an end of each is followed by each other. Two files suffice for what goes wrong from one
to the next; two attempts for what a first leaves to a second, as an attempt depends on earlier
ones through the downloads folder alone, and the leftovers at the start already stand for the
attempts before. `AnyLeftovers` gives no leftover the checksum of a file it differs from: that
case is `truncated`. In `wire` the pipe holds one packet and the buffer fewer bytes than a packet has, so that
`ReceivePackets` waits at both; `MaxSent` packets suffice for one to be read while others are behind it.
Three entries make a directory within a directory with something in it, or two siblings in
one. Two receivers fill the line while a third is served or refused. The bounds `MaxEdits`, `MaxSessions`,
`MaxSent` and `MaxMoved` limit only how often the world acts; what is proved needs none of them
but where an assumption on `MaxEdits` is named.

Deadlock is checked in the passing runs of `Transfer` and in the violating ones but `unopened`: only when
both nodes have ended may all stop (`Finished`). In `unopened` both nodes wait for ever; that
is its finding. The other models stop where their subject does: when a file has been looked at, a tree been sent,
when all packets have been taken or all processes have ended.

**Fairness.** `FairSpec` of `Transfer` asks weak fairness of the steps of each main loop, of the
goroutine that offers, of the goroutine of a user who has said no, and of a dial that can only
fail: each is a goroutine of a running process, which Go schedules, and `net.DialTimeout` gives
up. It asks nothing of the user (`AnswerStep`): a person need not answer, and no property says
that one does. Nothing is asked of faults, edits or a new attempt. `Wire` asks it of
`ReceivePackets` and of the main loop that takes packets, not of the writer, nor that a connection ends. `Listener`
asks it of `Accept` and of noticing an end between packets, which the kernel delivers, not of any process to start, dial or end.

## 5. Findings

1. `truncated`: "it`s the exact same file. No need to receive it again" (`node/node.go:702`).
   The checksum depends on the first 14750 bytes of a larger file and not on its size, so
   the partial file a dead receiver leaves behind is taken for the complete one. The
   file stays truncated however often the transfer is repeated.
2. `stale`: "not the same file. Remove it and await new bytes" (`node/node.go:730`). The error
   of `os.Remove` is dropped and `File.Open` does not truncate: the new bytes are written over the
   old file, whose tail remains. ENDFILE finds the checksum wrong, says so in verbose mode only and
   answers READY; the run ends with DONE and a file that is neither of the two.
3. `torn`: `ReadFromConn` (`protocol/recv.go:55`) drops the error of `connection.Read`. A
   connection that ends inside a packet leaves it looping with no progress; the pipe is never
   closed, and the node never leaves its main loop, as it does at `node.go:326` and `564` when
   the connection ends between packets.
4. `unopened`: the error of `SendTransferOffer` is returned to a `go` statement
   (`node/node.go:310`). If the file cannot be opened at that moment no offer is sent and
   both nodes wait.
5. `relative`: `SetRelativePaths` asks for the path of a symlink's target relative to the directory
   (`fsys/dir.go:203`), which `filepath.Rel` refuses for a relative target. The sender panics
   (`node/node.go:355`) when the receiver has accepted, although `protocol/headers.go:119` promises SYMLINK packets
   and the tests make symlinks of this kind.

## 6. Proofs

### Transfer

`TransferProofs` proves, for every number of files and symlinks, all contents and leftovers,
any number of edits and attempts, and all combinations of faults:

- `Invariant`: `Spec => []IInv`, and from it `TypeCorrect`, `StopAndWaitHolds`,
  `ListFollowsCounterHolds`, `KeyFirstHolds`, `SymlinksAfterFilesHolds`, `DoneMeansCheckedHolds`;
- `CountersInvariant`: `Spec => []CInv`, and from it `CountersAgreeHolds`;
- `OnlyAfterConsentHolds`: the action property, from `IInv` before the step;
- `HoldsWhatCameHolds`, on the assumption that `os.Remove` does not fail (`"remove" \notin Faults`).

They rest on the modules' `ASSUME`s (constants are of their types, `NoFile` is not a content, a
single file means exactly one file and no symlink), which TLC evaluates in every run.

None of the properties is inductive. `StopAndWait`, for one, says that one packet is under way,
and what the peer does with it depends on what it is and on how far both nodes are. `IInv` adds
this. The packet under way is the turn: `Outbound` says, for each packet the receiver may take
next, what sender and receiver have recorded (a FILE is the current file's and nothing is
accepted yet; FILEBYTES come for the one accepted file, right behind what it has received; an
ENDFILE names the file before the current one, complete), `Inbound` the same for the answers.
`Offering`, `Asking`, `Rejected`, `UnderWay` and `Over` say which packets the streams may hold
in each stage, `Lists` what the sender's list and counters are, `KeyAhead` where the key
is, `EndedStreams` and `Unconnected` who still writes. `CheckedBelow(n)` carries the checksum
from ENDFILE and ALREADYHAVE to DONE.

`CountersAgree` compares sums over the packets under way. `CInv` says the same of each packet by
itself, without a sum: `SentBytes` and `ReceivedBytes` differ by the one packet that is under way
(`CountedButOne`), the bytes of a piece in one direction, a whole file that is there already in the
other, by which the sender adds what it will not send; and nothing is counted before the sender has heard of
the yes (`NothingReceived`). It is kept because ACCEPT starts both counters at zero, because a file that is skipped has
sent nothing (`Lists`), and because `StopAndWait` leaves no second packet to be counted twice. The fold in `CountersAgree`
is then one over at most one packet (`FoldOfAtMostOne`).

One lemma per action shows that it keeps `IInv`, those of the sender in `SenderProofs`, the others in `TransferProofs`.
A step that only loses or takes packets is dealt with once (`Beginning`, `ShrunkStep` in
`SenderProofs`), for every fault and every ending is of this kind. TLC checks `CInv`, and `IInv` in it, in `retry`.

### Delivery

`DeliveryProofs!TransferImplementsDelivery`: as long as removals succeed, `Spec => ImplementsDelivery`;
every initial state maps to one of `Delivery`, every step to a step of it or a stutter. The mapping
needs more than `IInv` and `HoldsWhatCame`: `RInv` adds that a file that was found corrupted lies behind the
sender's counter (else one could be begun again) and that something stands in the place of each symlink
whose turn is over (else DONE would not be `Complete`). The steps of the sender, of a loss and of an edit are
stutters, `Complete`, or give up (`SenderMaps`, `Hidden`); each case of the receiver maps to the
action of its name. A death in the middle of a write is `GiveUp` with the bytes that have been written.

### Bytes

`DeliveryProofs` also says what stands on disk, byte for byte:

- `ArrivedStaysHolds` (removals succeed): from `RInv`, with edits and every other fault;
- `NothingCorruptedHolds` (and nobody edits, `MaxEdits = 0`): for files of any size;
- `DoneMeansDeliveredHolds`, `AlreadyHaveIsExactHolds` (and all files are hashed whole, `HashedWhole`).

`EInv` strengthens `RInv`: nothing served differs from what was offered; the bytes of the accepted file
are the beginning of the offered one (`ExactBytes`), and those under way are the ones that come next
(`PieceIsNext`). Each assumption is needed: `stale` violates without the first, an edit changes what
is sent, and `truncated` is a file that is not hashed whole. `HashedWhole` also excludes
a file exactly as long as the bytes captured of a large one (2500 in the code): it has the checksum of every
large file of which just these bytes are sampled (`SmallChecksum`).

### Wire

`WireProofs`, for every width of a byte and of a number, every delimiter, header, key, message, file,
size of buffer and of pipe, and any reads and end of the connection:

- `WireInvariantHolds`: `Spec => []WInv`, and from it `WireTypeCorrect`, `WireHeardAsSaid`, `WireDecrypts`;
- `WireImplementsStream`: `Spec => ImplementsStream`, the refinement of `PacketStream` by the bytes.

`HeardAsSaid` is not inductive: it says nothing of what has been said and not yet been heard. `WInv` does. `owed` holds the
messages in between; their packets are those in the pipe, then those that are `Coming` (`Framed`). What `ReceivePackets` has not
made a packet of (`Unread`: the packet in its buffer, with its size put back, and the bytes in the connection) is the `Flat` sequence of
the packets that are coming, or the beginning of it when the connection has ended. In the middle of a packet, buffer and `left` make up exactly the size of the next
one that is coming (`InStep`), so that no read takes bytes of the packet after it. `KeyFirst` says that the key
is owed first, and that there is none until it has been heard: it decides which bodies are decrypted.

Below it are the lemmas about `PacketCodec`, each of which says that one end undoes what the other has done: `NumberRead` (`WORD` digits
to the base `BASE` give back the number), `TextHeld`, `FileRead`, `DirectoryRead`, `SymlinkRead`, `PieceRead`, `OfferRead`,
`EncryptRead`, `PacketHeard` (header, encryption and body), `FrameRead` (the first delimiter ends the header, whatever stands in
the body), `FirstOfFlat` and `ParsedOfFlat` (whole packets at the front of the bytes are the ones that were written, and
what is cut off is counted as what is left). `PieceFits` is the one about sizes: with `PADDING` at least `NONCE + TAG`, the largest piece
is not too big to be sent, so that none is missing.

In the refinement the writer puts a packet, `TakePacket` takes one, `EndConnection` loses packets from the end and
leaves "eof" or "torn" by the number of bytes that remain, and every step of `ReceivePackets` is a stutter: it moves
bytes from one side of the mapping to the other.

The theorems rest on `CodecAssumption` and `WireAssumption`. They ask that the headers differ and hold no delimiter,
that the bytes encryption adds are kept free, that a piece has room for at least one byte, and that what is said is of the type of its
header (names and contents are any bytes, numbers and sizes are uint64s) and small enough to be sent. The last is asked only of the key, offers, FILE, ENDFILE, SYMLINK, which
`ToBytes` refuses if a name has more than about 128 KiB; no file system has such names.

`Power`, `Value`, `Flat` and `Parsed` are recursive functions over numbers and sequences. The installed provers
cannot instantiate the library's induction theorems, which take an operator. `GeneralProofs` states them over sets instead:
`Induct`, `SeqInduct` and `TailInduct` take the set of the values for which something holds, and `RecursionExists`, for recursions along a
measure, takes the step as a function. So what these functions compute is proved for every argument.

### FileTree

`FileTreeProofs`, for any tree of any depth, any entries that cannot be opened or read, and whatever is moved away at any
moment of the walk:

- `TreeInvariant`: `Spec => []TInv`, and from it `TreeTypeCorrect`, `TreeWalkStopsOnlyForDirs`;
- `TreeEveryFileOnce`, `TreeSizeIsSum`, `TreeLinksLandOnFiles`, `TreePlacesApart`.

What these four say holds when the walk is over; `TInv` says what holds in the middle of it. A call that is `Running` has put
nothing into its lists that is still among its `entries` (nothing comes twice), and whatever is in its directory and
not among them has been `Dealt` with or is gone (nothing is left out); its `Size` is `Counted`. What it has added to
`Directories` is `Finished`: no running call returns to it (`Untouched`: the rest of `found` is as at the start). `DirsRise` keeps the calls
apart: each runs in a directory of the call before it, which comes earlier in the tree. An entry that disappears takes what
is below it with it (`Rooted`), so that what has stayed is in directories that have stayed.

`GetAllFiles` and `GetAllSymlinks` are recursions over `found`, whose directories lie further down (`AllAre`, by `RecursionBelowExists`).
What they give follows by induction from the leaves upwards (`UpFromLeaves`): nothing twice, because what is `Inside` two
directories side by side would have two paths (`AllOnce`), and the sum of the sizes (`AllTotal`); and from the root downwards (`DownFromRoot`)
that every directory that has stayed is reached (`AllReached`). Below that are the lemmas about the library's operators: `FlattenSeq`
(`FlattenIs`, `JoinedRange`, `JoinedOnce`, `JoinedTotal`), `FoldSeq` (`TotalIsSum`, `SumsAgree`: the order of addition makes
no difference), `LongestCommonPrefix`. On paths below the base `Rel` has no ".." and gives back what is below, and `Join` puts it behind the
downloads folder (`RelIs`, `JoinIs`), so that different entries, which have different paths (`PathsDiffer`), arrive apart.

`FileTreeAssumption` asks for finitely many entries, a base other than the root of the file system and `IsTree` of the trees.

### Snapshot and Listener

`SnapshotProofs`: `SnapshotTypeCorrect`, `UneditedIsExactAlways`, `LargeMayGrowAlways`, for any `CHUNKS`, `CHUNKSIZE`, `STEP` and
any contents. Whatever is done to the file, each round captures a whole chunk, padded with zeros if need be, and leaves the offset
between `chunk * STEP` and `ChunkStart(chunk)`. The invariant `SInv` says that, as long as the file has only grown, chunk `i` began at
`i * (CHUNKSIZE + STEP)`, and that the `j`-th byte captured is the one at `SampledAt(j)`; the closed form follows
from the uniqueness of quotient and remainder (`DivMod`), and no read is short because every
chunk lies within `SampledSize` (`ChunkFits`).

`ListenerProofs`: `ListenerInvariant` and `ServesOneAlways`, for any number of processes, deaths and
any length of the line. What makes it inductive is `Fresh`: a sender that has not accepted a
connection serves nobody, and one that has serves somebody.

### Only model-checked

Liveness under fairness (`OneEndsBothEnd`, `OfferArrives`, `AnswerEnds`, `AcceptedArrives`, `EndIsNoticed`, `LineEndsWithSender`, `GoneIsNoticed`), which
the proof system does not reason about.

## 7. What is left

- `Delivery`'s liveness: that an attempt which nothing disturbs completes is checked of `Transfer` (`AcceptedArrives`), not
  stated in `Delivery`.

## 8. Not modelled

- Flags, `printTransferInfo` and what it prints, the local address, build and installation: none of them
  decides what a transfer does. The display's goroutines read the counters without storing anything.
- AES-GCM and the random choice of the key, SHA-256: external, see "Assumed".
- Errors of decoding: no node sends what they are about.
- FIFOs and other special files, on which `GetDir` opens and waits like on a file; disk errors of the
  receiver other than those in `Faults`.
- Empty directories: no packet names them, so that they do not arrive. Symlinks to places outside of
  the tree arrive as paths with ".." below the downloads folder; `tree` has such symlinks, and
  `LinksLandOnFiles` is about the others.
- Moves within the tree during the walk (`MoveAway` takes entries out of it) and two transfers at once
  into the same downloads folder.
