----------------------------- MODULE MCTransfer -----------------------------
(***************************************************************************)
(* Values for TLC.  CHUNKS = 2, CHUNKSIZE = 1 and STEP = 1 scale the       *)
(* checksum down: files of 3 bytes and more are sampled at bytes 1 and 3.  *)
(* PieceSize = 3 keeps the relation of the code, where whatever is hashed  *)
(* whole (under 14750 bytes) fits into one FILEBYTES packet (131006).      *)
(***************************************************************************)
EXTENDS TransferDelivery

Small == <<1, 2>>
Large == <<1, 2, 1, 2>>  \* sampled by the checksum, sent in two pieces

Piece == <<2, 1, 1>>     \* sampled too, sent in just one piece

\* What is served: an empty, a small and a large file.
Mixed == {[f \in FileIDs |-> <<<<>>, Small, last>>[f + 1]] : last \in {Piece, Large}}
SmallFiles == {[f \in FileIDs |-> <<Small, <<2>>>>[f + 1]]}
TwoFiles == {[f \in FileIDs |-> <<Small, Large>>[f + 1]]}
SmallFile == {[f \in FileIDs |-> Small]}
LargeFile == {[f \in FileIDs |-> Large]}

\* What is in the downloads folder: nothing, the same file, another, a longer
\* one.  No leftover has the checksum of a file that it differs from.
NoLeftovers == {[f \in FileIDs |-> NoFile]}
AnyLeftovers ==
  LET at == [f \in FileIDs |->
               {NoFile, <<2, 2, 2, 2, 2>>} \cup
               <<{<<>>, <<2>>}, {Small, <<1>>}, {Large, <<1, 2>>}>>[f + 1]]
  IN  {d \in [FileIDs -> UNION {at[f] : f \in FileIDs}] : \A f \in FileIDs : d[f] \in at[f]}
SmallLeftovers ==
  [FileIDs -> {NoFile, Small, <<2>>, <<2, 1>>, <<2, 2, 2, 2, 2>>}]
LongLeftover == {[f \in FileIDs |-> <<2, 2, 1, 2, 2>>]}
OtherLeftovers == NoLeftovers \cup LongLeftover

\* What becomes of a served file: shorter, longer, other bytes.
NoEdits == [f \in FileIDs |-> {}]
AnyEdits == [f \in FileIDs |-> {<<>>, <<2, 1>>, <<2, 2, 2, 2, 2>>}]

=============================================================================
