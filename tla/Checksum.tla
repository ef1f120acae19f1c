------------------------------ MODULE Checksum ------------------------------
(***************************************************************************)
(* The checksum both nodes compare files with (checksum/checksum.go).      *)
(*                                                                         *)
(* A file's content is a sequence of bytes (numbers).  SHA-256 is taken to *)
(* be free of collisions, so a checksum is represented by the bytes that   *)
(* are hashed: two checksums are equal exactly when those bytes are.       *)
(* CHUNKS, CHUNKSIZE and STEP are the constants of GetPartialCheckSum (50, *)
(* 50 and 250 in the code); model checking scales them down.               *)
(***************************************************************************)
EXTENDS Integers, Sequences

CONSTANTS
  CHUNKS,     \* how many chunks are captured
  CHUNKSIZE,  \* bytes in a chunk
  STEP        \* bytes skipped between two chunks

ASSUME ChecksumAssumption ==
  /\ CHUNKS \in Nat \ {0}
  /\ CHUNKSIZE \in Nat \ {0}
  /\ STEP \in Nat

Content == Seq(Nat)

\* A file shorter than this is hashed whole.
SampledSize == CHUNKS * CHUNKSIZE + STEP * (CHUNKS - 1)

CapturedSize == CHUNKS * CHUNKSIZE

\* Where the j-th captured byte stands in the file: chunk after chunk, each
\* CHUNKSIZE + STEP bytes after the one before it.
SampledAt(j) == ((j - 1) \div CHUNKSIZE) * (CHUNKSIZE + STEP) + ((j - 1) % CHUNKSIZE) + 1

GetPartialCheckSum(content) ==
  IF Len(content) < SampledSize
    THEN content
    ELSE [j \in 1 .. CapturedSize |-> content[SampledAt(j)]]

=============================================================================
