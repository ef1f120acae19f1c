------------------------------ MODULE Snapshot ------------------------------
(***************************************************************************)
(* How the size and the checksum that a file is offered with come about    *)
(* (fsys/file.go, GetFile; checksum/checksum.go), one system call a step,  *)
(* while whoever owns the file goes on with it.                            *)
(*                                                                         *)
(* The size is that of os.Stat.  The file is opened (and made, if it has   *)
(* been removed since), its size is taken once more to choose between all  *)
(* of it and samples, and then it is read.  A handle keeps the file it was *)
(* opened on: what is removed later is still read, so removals matter only *)
(* before.  Transfer takes these steps as one; here is what that rests on. *)
(***************************************************************************)
EXTENDS Checksum, SequencesExt, FiniteSetsExt

CONSTANTS
  NoFile,      \* in a path's place when there is nothing
  ReadAllSize, \* the most bytes that one read of io.ReadAll takes
  Appends,     \* what may be written at the end of the file
  Starts,      \* the contents the file may have at first
  MaxEdits     \* bound: how often the file is edited

ASSUME SnapshotAssumption ==
  /\ NoFile \notin Content
  /\ ReadAllSize \in Nat \ {0}
  /\ Appends \subseteq Content
  /\ Starts \subseteq Content \cup {NoFile}
  /\ MaxEdits \in Nat

VARIABLES
  pc,        \* "stat", "open", "size", "whole", "chunks", "done" or "failed"
  content,   \* what is in the file
  Size,      \* of the fsys.File
  captured,  \* the bytes that are hashed, so far
  chunk,     \* i
  offset,    \* read
  edited     \* how the file has been edited since it was looked at first

vars == <<pc, content, Size, captured, chunk, offset, edited>>

Edits == {"grow", "cut", "write", "unlink"}

Types ==
  /\ pc \in {"stat", "open", "size", "whole", "chunks", "done", "failed"}
  /\ content \in Content \cup {NoFile}
  /\ (content = NoFile => pc \in {"stat", "open", "failed"})
  /\ Size \in Nat
  /\ captured \in Content
  /\ chunk \in 0 .. CHUNKS /\ offset \in Nat
  /\ edited \in Seq(Edits) /\ Len(edited) <= MaxEdits

\* Where chunk i begins in a file that is long enough.
ChunkStart(i) == i * (CHUNKSIZE + STEP)

\* Nothing is captured before the file is open.  After i rounds of the loop there
\* are i whole chunks in capturedChunks, whatever became of the file, and a
\* sampled file ends with all of them; the next offset is never past the place
\* of the next chunk, and short of it by no more than what was not there to read.
InBounds ==
  /\ pc \in {"stat", "open", "size", "failed"} => captured = <<>>
  /\ pc = "whole" => chunk = 0
  /\ pc = "chunks" => Len(captured) = chunk * CHUNKSIZE
  /\ pc = "done" => chunk = 0 \/ Len(captured) = CapturedSize
  /\ chunk * STEP <= offset /\ offset <= ChunkStart(chunk)

\* The variables are of their types; whatever is done to the file while it is read,
\* the buffer and the offset stay within the bounds the constants give.
TypeOK == Types /\ InBounds

Init ==
  /\ pc = "stat"
  /\ content \in Starts
  /\ Size = 0
  /\ captured = <<>> /\ chunk = 0 /\ offset = 0
  /\ edited = <<>>

-----------------------------------------------------------------------------
(* GetFile.                                                                *)

Stat ==
  /\ pc = "stat"
  /\ \/ content = NoFile /\ pc' = "failed" /\ UNCHANGED Size
     \/ content # NoFile /\ pc' = "open" /\ Size' = Len(content)
  /\ UNCHANGED <<content, captured, chunk, offset, edited>>

\* O_CREATE: an empty file stands where one has been removed.  Opening for
\* reading and writing may fail, and GetFile with it.
Open ==
  /\ pc = "open"
  /\ \/ pc' = "failed" /\ UNCHANGED content
     \/ pc' = "size" /\ content' = IF content = NoFile THEN <<>> ELSE content
  /\ UNCHANGED <<Size, captured, chunk, offset, edited>>

\* Mutant of TooSmall: off by one.
TooSmallAtBoundary(fileSize) == fileSize <= SampledSize

TooSmall(fileSize) == fileSize < SampledSize

StatHandle ==
  /\ pc = "size"
  /\ pc' = IF TooSmall(Len(content)) THEN "whole" ELSE "chunks"
  /\ UNCHANGED <<content, Size, captured, chunk, offset, edited>>

\* io.ReadAll ends at the first read that finds nothing.
ReadWhole ==
  /\ pc = "whole"
  /\ LET from == Len(captured)
         until == Min({from + ReadAllSize, Len(content)})
     IN  \/ from < until /\ captured' = captured \o SubSeq(content, from + 1, until)
                         /\ UNCHANGED pc
         \/ from >= until /\ pc' = "done" /\ UNCHANGED captured
  /\ UNCHANGED <<content, Size, chunk, offset, edited>>

\* How many bytes ReadAt finds.
Found == LET left == Max({Len(content) - offset, 0}) IN Min({left, CHUNKSIZE})

\* Mutant of Buffer: cut down to what has been found.
BufferFound == [j \in 1 .. Found |-> content[offset + j]]

\* The buffer after it: zeros fill it up.
Buffer == [j \in 1 .. CHUNKSIZE |-> IF j <= Found THEN content[offset + j] ELSE 0]

\* Mutant of NextOffset: what has been read is not added.
NextOffsetStepOnly == offset + STEP

NextOffset == offset + Found + STEP

ReadChunk ==
  /\ pc = "chunks"
  /\ \/ /\ chunk < CHUNKS
        /\ captured' = captured \o Buffer
        /\ offset' = NextOffset
        /\ chunk' = chunk + 1
        /\ UNCHANGED pc
     \/ chunk = CHUNKS /\ pc' = "done" /\ UNCHANGED <<captured, offset, chunk>>
  /\ UNCHANGED <<content, Size, edited>>

GetFile == Stat \/ Open \/ StatHandle \/ ReadWhole \/ ReadChunk

-----------------------------------------------------------------------------
(* The owner of the file.                                                  *)

MayEdit == Len(edited) < MaxEdits /\ pc \notin {"stat", "done", "failed"}
Edit(kind) == edited' = Append(edited, kind) /\ UNCHANGED <<pc, Size, captured, chunk, offset>>

Grow == /\ MayEdit /\ content # NoFile
        /\ \E more \in Appends : content' = content \o more
        /\ Edit("grow")

Cut == /\ MayEdit /\ content # NoFile
       /\ \E n \in 0 .. Len(content) - 1 : content' = SubSeq(content, 1, n)
       /\ Edit("cut")

Write == /\ MayEdit /\ content # NoFile
         /\ \E j \in DOMAIN content : content' = [content EXCEPT ![j] = 0]
         /\ Edit("write")

Unlink == /\ MayEdit /\ content # NoFile /\ pc = "open"
          /\ content' = NoFile
          /\ Edit("unlink")

Next == GetFile \/ Grow \/ Cut \/ Write \/ Unlink

Spec == Init /\ [][Next]_vars

-----------------------------------------------------------------------------
(* Properties.                                                             *)

\* When nobody edits the file, the loop of ReadAts takes the bytes that
\* Checksum says, whatever the size: the two ends of a transfer, and two
\* attempts, agree about equal files.
UneditedIsExact ==
  pc = "done" /\ edited = <<>> =>
    /\ Size = Len(content)
    /\ captured = GetPartialCheckSum(content)

\* A file that only grows while it is looked at can still be delivered when it
\* was large to begin with: the bytes that are offered (the first Size) have the
\* checksum that is offered.  (A small one cannot: all of it is hashed.)
LargeMayGrow ==
  pc = "done" /\ Size >= SampledSize /\ Range(edited) \subseteq {"grow"} =>
    captured = GetPartialCheckSum(SubSeq(content, 1, Size))

=============================================================================
