---------------------------- MODULE PacketCodec ----------------------------
(***************************************************************************)
(* Packets as bytes (protocol/packet.go, packetConstruct.go,               *)
(* packetDecode.go, send.go; node/node.go where it encodes and decodes     *)
(* itself).                                                                *)
(*                                                                         *)
(* A byte is a number below BASE, a uint64 is WORD bytes, the highest      *)
(* first.  Names, checksums and contents are byte sequences in which the   *)
(* delimiter may occur.  A message is what a node wants to say; its packet *)
(* has a header and a body.  (256, 8, 48, 12, 16 and 131072 in the code.)  *)
(***************************************************************************)
EXTENDS Integers, SequencesExt

CONSTANTS
  BASE, WORD,
  DELIMITER,      \* HEADERDELIMETER
  FILECODE, DIRCODE,
  HeaderOf,       \* the bytes of a header, by its name
  NONCE, TAG,     \* what encryption adds before and after the data
  PADDING,        \* what SendPiece keeps free for that
  MAXPACKETSIZE

Byte == 0 .. BASE - 1
Bytes == Seq(Byte)
Headers == DOMAIN HeaderOf

\* BASE to the power of k; the uint64s.
Power[k \in Nat] == IF k = 0 THEN 1 ELSE BASE * Power[k - 1]
Word == 0 .. Power[WORD] - 1

ASSUME CodecAssumption ==
  /\ BASE \in Nat \ {0, 1} /\ WORD \in Nat \ {0}
  /\ DELIMITER \in Byte /\ FILECODE \in Byte /\ DIRCODE \in Byte
  /\ FILECODE # DIRCODE
  /\ \A h \in Headers : HeaderOf[h] \in Bytes /\ DELIMITER \notin Range(HeaderOf[h])
  /\ IsInjective(HeaderOf)
  /\ NONCE \in Nat /\ TAG \in Nat /\ PADDING \in Nat /\ NONCE + TAG <= PADDING
  /\ MAXPACKETSIZE \in Word
  /\ "FILEBYTES" \in Headers
  /\ Len(HeaderOf["FILEBYTES"]) + 1 + WORD + PADDING < MAXPACKETSIZE

-----------------------------------------------------------------------------
(* Numbers and texts.                                                      *)

Uint64(n) == [i \in 1 .. WORD |-> (n \div Power[WORD - i]) % BASE]

Value[bytes \in Bytes] ==
  IF bytes = <<>> THEN 0 ELSE Value[Front(bytes)] * BASE + Last(bytes)

Text(bytes) == Uint64(Len(bytes)) \o bytes

\* Reading: the number, and the text, that starts at a place; what is after it.
NumberAt(bytes, at) == Value[SubSeq(bytes, at, at + WORD - 1)]
TextAt(bytes, at) == SubSeq(bytes, at + WORD, at + WORD + NumberAt(bytes, at) - 1)
AfterText(bytes, at) == at + WORD + NumberAt(bytes, at)

-----------------------------------------------------------------------------
(* Packets.                                                                *)

Size(packet) == Len(packet.Header) + 1 + Len(packet.Body)

Fits(packet) == Size(packet) <= MAXPACKETSIZE

ToBytes(packet) == Uint64(Size(packet)) \o packet.Header \o <<DELIMITER>> \o packet.Body

HasDelimiter(bytes) == DELIMITER \in Range(bytes)

\* The first delimiter counts; those after it belong to the body.
BytesToPacket(bytes) ==
  LET at == CHOOSE i \in DOMAIN bytes :
              bytes[i] = DELIMITER /\ \A j \in DOMAIN bytes : bytes[j] = DELIMITER => i <= j
  IN  [Header |-> SubSeq(bytes, 1, at - 1), Body |-> SubSeq(bytes, at + 1, Len(bytes))]

\* AES-GCM: a nonce (of zeros), as many bytes as there are, a tag.
Encrypt(key, data) ==
  [i \in 1 .. NONCE |-> 0] \o [i \in DOMAIN data |-> (data[i] + Head(key)) % BASE]
  \o [i \in 1 .. TAG |-> Head(key)]

CanDecrypt(key, data) ==
  /\ Len(data) >= NONCE + TAG
  /\ \A i \in Len(data) - TAG + 1 .. Len(data) : data[i] = Head(key)

Decrypt(key, data) ==
  [i \in 1 .. Len(data) - NONCE - TAG |-> (data[i + NONCE] + BASE - Head(key)) % BASE]

-----------------------------------------------------------------------------
(* What is in the bodies.                                                  *)

File == [ID : Word, Name : Bytes, Size : Word, Checksum : Bytes, RelativeParentPath : Bytes]
Directory == [Name : Bytes, Size : Word]
Offer == [isDir : {TRUE}, of : Directory] \cup [isDir : {FALSE}, of : File]
Symlink == [Path : Bytes, TargetPath : Bytes]
Piece == [ID : Word, bytes : Bytes]

FileBody(file) ==
  Uint64(file.ID) \o Text(file.Name) \o Uint64(file.Size) \o Text(file.Checksum)
  \o Text(file.RelativeParentPath)

DecodeFile(body) ==
  LET name == 1 + WORD
      size == AfterText(body, name)
      checksum == size + WORD
      path == AfterText(body, checksum)
  IN  [ID |-> NumberAt(body, 1), Name |-> TextAt(body, name), Size |-> NumberAt(body, size),
       Checksum |-> TextAt(body, checksum), RelativeParentPath |-> TextAt(body, path)]

DirectoryBody(dir) == Text(dir.Name) \o Uint64(dir.Size)

DecodeDirectory(body) ==
  [Name |-> TextAt(body, 1), Size |-> NumberAt(body, AfterText(body, 1))]

OfferBody(offer) ==
  IF offer.isDir THEN <<DIRCODE>> \o DirectoryBody(offer.of)
                 ELSE <<FILECODE>> \o FileBody(offer.of)

DecodeOffer(body) ==
  IF Head(body) = DIRCODE THEN [isDir |-> TRUE, of |-> DecodeDirectory(Tail(body))]
                          ELSE [isDir |-> FALSE, of |-> DecodeFile(Tail(body))]

SymlinkBody(symlink) == Text(symlink.Path) \o Text(symlink.TargetPath)

DecodeSymlink(body) ==
  [Path |-> TextAt(body, 1), TargetPath |-> TextAt(body, AfterText(body, 1))]

PieceBody(piece) == Uint64(piece.ID) \o piece.bytes

DecodePiece(body) == [ID |-> NumberAt(body, 1), bytes |-> SubSeq(body, 1 + WORD, Len(body))]

\* A message: what is said, and the header it is said under.
Values(header) ==
  CASE header = "ENCRKEY" -> Bytes
    [] header = "TRANSFEROFFER" -> Offer
    [] header = "FILE" -> File
    [] header = "FILEBYTES" -> Piece
    [] header = "SYMLINK" -> Symlink
    [] header \in {"ENDFILE", "ALREADYHAVE"} -> Word
    [] OTHER -> {<<>>}

IsMessage(message) == message \in [header : Headers, value : Values(message.header)]

Body(message) ==
  CASE message.header = "ENCRKEY" -> Text(message.value)
    [] message.header = "TRANSFEROFFER" -> OfferBody(message.value)
    [] message.header = "FILE" -> FileBody(message.value)
    [] message.header = "FILEBYTES" -> PieceBody(message.value)
    [] message.header = "SYMLINK" -> SymlinkBody(message.value)
    [] message.header \in {"ENDFILE", "ALREADYHAVE"} -> Uint64(message.value)
    [] OTHER -> <<>>

Decoded(header, body) ==
  [header |-> header,
   value |->
     CASE header = "ENCRKEY" -> TextAt(body, 1)
       [] header = "TRANSFEROFFER" -> DecodeOffer(body)
       [] header = "FILE" -> DecodeFile(body)
       [] header = "FILEBYTES" -> DecodePiece(body)
       [] header = "SYMLINK" -> DecodeSymlink(body)
       [] header \in {"ENDFILE", "ALREADYHAVE"} -> NumberAt(body, 1)
       [] OTHER -> <<>>]

\* Mutant of Packet: a body goes out as it is.
PlainPacket(message, key) == [Header |-> HeaderOf[message.header], Body |-> Body(message)]

\* Every body but that of the key is encrypted, unless there is none.
Packet(message, key) ==
  LET body == Body(message)
  IN  [Header |-> HeaderOf[message.header],
       Body |-> IF message.header = "ENCRKEY" \/ body = <<>> THEN body ELSE Encrypt(key, body)]

\* Mutant of PieceBudget: nothing is kept free for the encryption.
PieceBudgetFull == MAXPACKETSIZE - (Len(HeaderOf["FILEBYTES"]) + 1) - WORD

\* How many bytes of a file SendPiece puts into one packet at most.
PieceBudget == MAXPACKETSIZE - (Len(HeaderOf["FILEBYTES"]) + 1) - WORD - PADDING

=============================================================================
