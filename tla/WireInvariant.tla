---------------------------- MODULE WireInvariant ----------------------------
(***************************************************************************)
(* Why Wire is right: what has been said and not yet been heard is in the  *)
(* pipe, as packets, and behind it in the connection, as their bytes.      *)
(***************************************************************************)
EXTENDS Wire

\* What can be said: the key, one of the messages, or a piece of the file.
Sayable ==
  {KeyMessage} \cup Messages
  \cup {m \in [header : {"FILEBYTES"}, value : Piece] : Len(m.value.bytes) <= PieceBudget}

\* The packets that can be written.
Packets == [Header : Bytes, Body : Bytes]
Sendable == {p \in Packets : DELIMITER \notin Range(p.Header) /\ Fits(p)}

\* Packets one after the other, in bytes.
Flat[packets \in Seq(Sendable)] ==
  IF packets = <<>> THEN <<>> ELSE ToBytes(Head(packets)) \o Flat[Tail(packets)]

\* The packets of messages; of what is owed, those that are not in the pipe yet.
PacketsOf(messages) == [i \in 1 .. Len(messages) |-> Packet(messages[i], Key)]
Coming == SubSeq(PacketsOf(owed), Len(pipe) + 1, Len(owed))

\* The key is the first that is said, and until it is heard there is none.
KeyFirst ==
  /\ owed \in Seq(Sayable)
  /\ \A i \in 1 .. Len(owed) : owed[i] = KeyMessage <=> i = 1 /\ key = <<>>
  /\ sent = 0 => key = <<>> /\ owed = <<>>
  /\ sent > 0 /\ key = <<>> /\ ~ended => owed # <<>>

\* The pipe holds the first of the packets; the bytes are those of the others, as far
\* as the connection has not lost them.
Framed ==
  /\ PacketsOf(owed) = pipe \o Coming
  /\ IsPrefix(Unread, Flat[Coming])
  /\ ~ended => Unread = Flat[Coming]

\* In the middle of a packet it is the next one that is coming.
InStep ==
  /\ reading \in {"body", "packet"} =>
       Coming # <<>> /\ Len(buffer) + left = Size(Head(Coming))
  /\ reading = "packet" => left = 0
  /\ reading = "closed" => ended

WInv == TypeOK /\ HeardAsSaid /\ KeyFirst /\ Framed /\ InStep

=============================================================================
