------------------------------ MODULE Protocol ------------------------------
(***************************************************************************)
(* The packets of ftu and the TCP connection that carries them             *)
(* (protocol/*.go).                                                        *)
(*                                                                         *)
(* Each direction of the connection is a stream of packets (Stream).       *)
(***************************************************************************)
EXTENDS Checksum, Stream

CONSTANTS
  NumFiles,     \* files the sender found under its path; they get IDs 0, 1, ...
  NumSymlinks,  \* symlinks it found
  PieceSize,    \* bytes of a file that fit into one FILEBYTES packet
  NoFile        \* marks the absence of a file

ASSUME ProtocolAssumption ==
  /\ NumFiles \in Nat
  /\ NumSymlinks \in Nat
  /\ PieceSize \in Nat \ {0}
  /\ NoFile \notin Content
  /\ Faults \subseteq AllFaults

FileIDs == 0 .. NumFiles - 1
SymlinkIDs == 1 .. NumSymlinks

\* Headers whose body is encrypted once a key is agreed; the others have none,
\* except for the key itself, which travels in the clear.
EncryptedHeaders ==
  {"TRANSFEROFFER", "FILE", "FILEBYTES", "ENDFILE", "SYMLINK", "ALREADYHAVE"}
BareHeaders == {"ENCRKEY", "ACCEPT", "REJECT", "READY", "DONE", "BYE!"}

\* Which IDs a packet of each kind may name.
IDsOf(h) ==
  IF h \in {"FILE", "FILEBYTES", "ENDFILE", "ALREADYHAVE"} THEN FileIDs
  ELSE IF h = "SYMLINK" THEN SymlinkIDs ELSE {0}

Packets ==
  {p \in [hdr : EncryptedHeaders \cup BareHeaders, id : Nat, size : Nat, data : Content] :
     p.id \in IDsOf(p.hdr)}

Bare(h) == [hdr |-> h, id |-> 0, size |-> 0, data |-> <<>>]
WithID(h, id) == [Bare(h) EXCEPT !.id = id]

\* FILE: name and relative path stand for the file's ID, data for its checksum.
FilePacket(id, content) ==
  [hdr |-> "FILE", id |-> id, size |-> Len(content), data |-> GetPartialCheckSum(content)]

FileBytesPacket(id, bytes) ==
  [hdr |-> "FILEBYTES", id |-> id, size |-> 0, data |-> bytes]

VARIABLES
  toReceiver,  \* the stream from the sender to the receiver
  toSender     \* the stream from the receiver to the sender

Streams == [queue : Seq(Packets), end : {"open", "eof", "torn"}]

\* The packet the main loop takes next.
Arrived(stream, headers) == stream.queue # <<>> /\ Head(stream.queue).hdr \in headers

Ended == {"done", "exit", "panic", "killed"}

=============================================================================
