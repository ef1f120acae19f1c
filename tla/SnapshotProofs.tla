--------------------------- MODULE SnapshotProofs ---------------------------
(***************************************************************************)
(* Whatever the sizes of chunks and steps and of the file: the loop of     *)
(* ReadAts captures the bytes that Checksum says.  The invariant follows   *)
(* the loop, and says for how long what has been captured is still what    *)
(* the file has.                                                           *)
(***************************************************************************)
EXTENDS Snapshot, GeneralProofs

\* Nothing has happened to the file but that it has grown.
OnlyGrown == \A i \in 1 .. Len(edited) : edited[i] = "grow"

\* What has been captured is what the file has in these places.
Sampled ==
  /\ offset = ChunkStart(chunk)
  /\ Len(captured) = chunk * CHUNKSIZE
  /\ \A j \in 1 .. Len(captured) : captured[j] = content[SampledAt(j)]

\* The size was that of the file, and still is if nobody has edited it.
SizeKnown ==
  pc \in {"open", "size", "whole", "chunks", "done"} =>
    /\ (OnlyGrown => content # NoFile /\ Size <= Len(content))
    /\ (edited = <<>> => Size = Len(content))

\* How far each of the ways to read the file has come.
HowFar ==
  /\ pc \in {"stat", "open", "size"} => captured = <<>> /\ chunk = 0 /\ offset = 0
  /\ pc = "stat" => edited = <<>>
  /\ pc = "whole" /\ OnlyGrown => Size < SampledSize
  /\ pc = "whole" /\ edited = <<>> =>
       /\ Len(captured) <= Len(content)
       /\ \A j \in 1 .. Len(captured) : captured[j] = content[j]
  /\ pc = "chunks" /\ edited = <<>> => SampledSize <= Size
  /\ pc = "chunks" /\ OnlyGrown /\ SampledSize <= Size => Sampled
  /\ pc = "done" /\ edited = <<>> => captured = GetPartialCheckSum(content)
  /\ pc = "done" /\ OnlyGrown /\ SampledSize <= Size =>
       captured = GetPartialCheckSum(SubSeq(content, 1, Size))

SInv == Types /\ InBounds /\ SizeKnown /\ HowFar

USE SnapshotAssumption, ChecksumAssumption

-----------------------------------------------------------------------------
(* Arithmetic.                                                             *)

\* The j-th captured byte is where its chunk is, and as far into the chunk.
LEMMA SampledInChunk ==
  ASSUME NEW i \in Nat, NEW k \in 1 .. CHUNKSIZE
  PROVE  SampledAt(i * CHUNKSIZE + k) = ChunkStart(i) + k
<1>1. /\ (i * CHUNKSIZE + (k - 1)) \div CHUNKSIZE = i
      /\ (i * CHUNKSIZE + (k - 1)) % CHUNKSIZE = k - 1
  BY DivMod
<1>2. (i * CHUNKSIZE + k) - 1 = i * CHUNKSIZE + (k - 1)
  OBVIOUS
<1>3. PICK s \in Nat : s = i * (CHUNKSIZE + STEP)
  OBVIOUS
<1>4. SampledAt(i * CHUNKSIZE + k) = s + (k - 1) + 1
  BY <1>1, <1>2, <1>3 DEF SampledAt
<1> QED
  BY <1>3, <1>4 DEF ChunkStart

\* Every chunk lies within a file that is large enough to be sampled.
LEMMA ChunkFits ==
  ASSUME NEW i \in 0 .. CHUNKS - 1
  PROVE  ChunkStart(i) \in Nat /\ ChunkStart(i) + CHUNKSIZE <= SampledSize
<1>1. i * (CHUNKSIZE + STEP) <= (CHUNKS - 1) * (CHUNKSIZE + STEP)
  BY Monotone
<1>2. (CHUNKS - 1) * (CHUNKSIZE + STEP) + CHUNKSIZE = CHUNKS * CHUNKSIZE + STEP * (CHUNKS - 1)
  OBVIOUS
<1>3. PICK s \in Nat, t \in Nat :
        s = i * (CHUNKSIZE + STEP) /\ t = (CHUNKS - 1) * (CHUNKSIZE + STEP)
  OBVIOUS
<1>4. ChunkStart(i) = s /\ SampledSize = t + CHUNKSIZE /\ s <= t
  BY <1>1, <1>2, <1>3 DEF ChunkStart, SampledSize
<1> QED
  BY <1>3, <1>4

\* Every captured byte is in a chunk.
LEMMA InSomeChunk ==
  ASSUME NEW n \in Nat, NEW j \in 1 .. n * CHUNKSIZE
  PROVE  \E i \in 0 .. n - 1, k \in 1 .. CHUNKSIZE : j = i * CHUNKSIZE + k
<1>1. PICK N \in Nat : N = n * CHUNKSIZE
  OBVIOUS
<1>2. PICK d \in Nat, m \in 0 .. CHUNKSIZE - 1 :
        d = (j - 1) \div CHUNKSIZE /\ m = (j - 1) % CHUNKSIZE
  OBVIOUS
<1>3. PICK D \in Nat : D = d * CHUNKSIZE
  OBVIOUS
<1>4. j - 1 = D + m
  BY <1>2, <1>3
<1>5. ~ n <= d
  <2>1. SUFFICES ASSUME n <= d PROVE FALSE
    OBVIOUS
  <2>2. n * CHUNKSIZE <= d * CHUNKSIZE
    BY <2>1, Monotone
  <2>3. N <= D
    BY <2>2, <1>1, <1>3
  <2>4. j <= N
    BY <1>1
  <2> QED
    BY <2>3, <2>4, <1>4
<1>6. d \in 0 .. n - 1 /\ m + 1 \in 1 .. CHUNKSIZE
  BY <1>5
<1>7. j = d * CHUNKSIZE + (m + 1)
  BY <1>3, <1>4
<1> QED
  BY <1>6, <1>7

\* The sizes are numbers.
LEMMA SizesAreNumbers ==
  /\ SampledSize \in Nat \ {0} /\ CapturedSize \in Nat \ {0}
<1>1. PICK s \in Nat, t \in Nat \ {0} : s = STEP * (CHUNKS - 1) /\ t = CHUNKS * CHUNKSIZE
  OBVIOUS
<1> QED
  BY <1>1 DEF SampledSize, CapturedSize

\* What is sampled of a file lies within the size from which files are sampled.
LEMMA SampledWithin ==
  ASSUME NEW j \in 1 .. CapturedSize
  PROVE  SampledAt(j) \in 1 .. SampledSize
<1>1. PICK i \in 0 .. CHUNKS - 1, k \in 1 .. CHUNKSIZE : j = i * CHUNKSIZE + k
  BY InSomeChunk DEF CapturedSize
<1>2. SampledAt(j) = ChunkStart(i) + k
  BY <1>1, SampledInChunk
<1>3. ChunkStart(i) \in Nat /\ ChunkStart(i) + CHUNKSIZE <= SampledSize
  BY ChunkFits
<1> QED
  BY <1>2, <1>3, SizesAreNumbers

-----------------------------------------------------------------------------
(* What the steps do.                                                      *)

\* One more edit is made of a file that has only grown if that is growing too.
LEMMA EditIs ==
  ASSUME Types, NEW kind \in Edits, edited' = Append(edited, kind)
  PROVE  /\ edited' # <<>>
         /\ OnlyGrown' <=> OnlyGrown /\ kind = "grow"
<1>1. edited \in Seq(Edits)
  BY DEF Types
<1>2. /\ edited' # <<>> /\ Len(edited') = Len(edited) + 1 /\ Len(edited) \in Nat
      /\ \A i \in 1 .. Len(edited) : edited'[i] = edited[i]
      /\ edited'[Len(edited) + 1] = kind
  BY <1>1, AppendProperties, LenProperties
<1>3. OnlyGrown' <=> \A i \in 1 .. Len(edited') : edited'[i] = "grow"
  BY DEF OnlyGrown
<1> QED
  BY <1>2, <1>3 DEF OnlyGrown

\* Nothing happened to a file that was not edited.
LEMMA UneditedGrows == edited = <<>> => OnlyGrown
BY DEF OnlyGrown

\* Before the loop begins the offset is where the first chunk is.
LEMMA BoundsAtStart ==
  ASSUME chunk = 0, offset = 0
  PROVE  chunk * STEP <= offset /\ offset <= ChunkStart(chunk)
<1>1. 0 * STEP = 0 /\ 0 * (CHUNKSIZE + STEP) = 0
  OBVIOUS
<1> QED
  BY <1>1 DEF ChunkStart

\* The initial states.
LEMMA Beginning == Init => SInv
<1> SUFFICES ASSUME Init PROVE SInv
  OBVIOUS
<1>1. Types
  <2>1. <<>> \in Seq(Edits) /\ Len(<<>>) = 0 /\ <<>> \in Seq(Nat)
    BY EmptySeq
  <2> QED
    BY <2>1 DEF Init, Types, Content
<1>2. SizeKnown /\ HowFar
  BY DEF Init, SizeKnown, HowFar
<1>3. InBounds
  BY BoundsAtStart DEF Init, InBounds
<1> QED
  BY <1>1, <1>2, <1>3 DEF SInv

\* os.Stat.
LEMMA StatStep == SInv /\ Stat => SInv'
<1> SUFFICES ASSUME SInv, Stat PROVE SInv'
  OBVIOUS
<1>1. /\ pc = "stat" /\ captured = <<>> /\ chunk = 0 /\ offset = 0 /\ edited = <<>>
      /\ UNCHANGED <<content, captured, chunk, offset, edited>>
  BY DEF SInv, HowFar, Stat
<1>2. InBounds'
  BY <1>1 DEF Stat, SInv, InBounds, ChunkStart
<1>3. CASE content = NoFile
  BY <1>1, <1>3, <1>2 DEF Stat, SInv, Types, SizeKnown, HowFar
<1>4. CASE content # NoFile
  <2>1. pc' = "open" /\ Size' = Len(content) /\ content \in Seq(Nat)
    BY <1>1, <1>4 DEF Stat, SInv, Types, Content
  <2>2. Len(content) \in Nat
    BY <2>1, LenProperties
  <2>3. Types'
    BY <1>1, <1>4, <2>1, <2>2 DEF SInv, Types
  <2>4. SizeKnown'
    BY <1>1, <1>4, <2>1, <2>2 DEF SizeKnown
  <2>5. HowFar'
    BY <1>1, <2>1 DEF HowFar
  <2> QED
    BY <1>2, <2>3, <2>4, <2>5 DEF SInv
<1> QED
  BY <1>3, <1>4

\* Open: a file that has been removed has been edited.
LEMMA OpenStep == SInv /\ Open => SInv'
<1> SUFFICES ASSUME SInv, Open PROVE SInv'
  OBVIOUS
<1>1. /\ pc = "open" /\ UNCHANGED <<Size, captured, chunk, offset, edited>>
      /\ \/ pc' = "failed" /\ UNCHANGED content
         \/ pc' = "size" /\ content' = IF content = NoFile THEN <<>> ELSE content
  BY DEF Open
<1>2. <<>> \in Content
  BY EmptySeq DEF Content
<1>3. Types'
  BY <1>1, <1>2 DEF SInv, Types
<1>4. SizeKnown'
  BY <1>1, UneditedGrows DEF SInv, SizeKnown, OnlyGrown
<1>5. HowFar'
  BY <1>1 DEF SInv, HowFar
<1>6. InBounds'
  BY <1>1 DEF SInv, InBounds, ChunkStart
<1> QED
  BY <1>3, <1>4, <1>5, <1>6 DEF SInv

\* The size of the handle decides how the file is read.
LEMMA StatHandleStep == SInv /\ StatHandle => SInv'
<1> SUFFICES ASSUME SInv, StatHandle PROVE SInv'
  OBVIOUS
<1>1. /\ pc = "size" /\ UNCHANGED <<content, Size, captured, chunk, offset, edited>>
      /\ pc' = IF Len(content) < SampledSize THEN "whole" ELSE "chunks"
  BY DEF StatHandle, TooSmall
<1>2. /\ content \in Seq(Nat) /\ Size \in Nat
      /\ captured = <<>> /\ chunk = 0 /\ offset = 0
  BY <1>1 DEF SInv, Types, HowFar, Content
<1>3. Len(content) \in Nat /\ SampledSize \in Nat
  BY <1>2, LenProperties, SizesAreNumbers
<1>4. Types'
  BY <1>1 DEF SInv, Types
<1>5. SizeKnown'
  BY <1>1 DEF SInv, SizeKnown, OnlyGrown
<1>6. /\ OnlyGrown => Size <= Len(content)
      /\ edited = <<>> => Size = Len(content)
  BY <1>1 DEF SInv, SizeKnown
<1>7. Sampled'
  <2>1. 0 * (CHUNKSIZE + STEP) = 0 /\ 0 * CHUNKSIZE = 0
    OBVIOUS
  <2> QED
    BY <1>1, <1>2, <2>1 DEF Sampled, ChunkStart
<1>8. HowFar'
  BY <1>1, <1>2, <1>3, <1>6, <1>7 DEF HowFar, OnlyGrown
<1>9. InBounds'
  <2>1. Len(<<>>) = 0 /\ 0 * CHUNKSIZE = 0
    BY EmptySeq
  <2>2. pc' = "chunks" => Len(captured') = chunk' * CHUNKSIZE
    BY <1>1, <1>2, <2>1
  <2>3. chunk' * STEP <= offset' /\ offset' <= ChunkStart(chunk')
    BY <1>1, <1>2, BoundsAtStart
  <2>4. pc' \in {"whole", "chunks"} /\ chunk' = 0
    BY <1>1, <1>2
  <2>5. ChunkStart(chunk)' = ChunkStart(chunk')
    BY DEF ChunkStart
  <2> QED
    BY <2>2, <2>3, <2>4, <2>5 DEF InBounds
<1> QED
  BY <1>4, <1>5, <1>8, <1>9 DEF SInv

\* io.ReadAll: each read brings the bytes that follow, the last one finds the end.
LEMMA ReadWholeStep == SInv /\ ReadWhole => SInv'
<1> SUFFICES ASSUME SInv, ReadWhole PROVE SInv'
  OBVIOUS
<1> DEFINE until == Min({Len(captured) + ReadAllSize, Len(content)})
           more == SubSeq(content, Len(captured) + 1, until)
<1>1. /\ pc = "whole" /\ UNCHANGED <<content, Size, chunk, offset, edited>>
      /\ \/ Len(captured) < until /\ captured' = captured \o more /\ pc' = pc
         \/ Len(captured) >= until /\ pc' = "done" /\ captured' = captured
  BY DEF ReadWhole
<1>2. content \in Seq(Nat) /\ captured \in Seq(Nat) /\ Size \in Nat
  BY <1>1 DEF SInv, Types, Content
<1>3. Len(content) \in Nat /\ Len(captured) \in Nat
  BY <1>2, LenProperties
<1>4. until \in Nat /\ until <= Len(content) /\ (until < Len(content) => until > Len(captured))
  BY <1>3, MinIs
<1> HIDE DEF until
<1>5. SizeKnown'
  BY <1>1 DEF SInv, SizeKnown, OnlyGrown
<1>6. /\ OnlyGrown => Size < SampledSize
      /\ edited = <<>> => /\ OnlyGrown /\ Size = Len(content) /\ Len(captured) <= Len(content)
                         /\ \A j \in 1 .. Len(captured) : captured[j] = content[j]
  BY <1>1, UneditedGrows DEF SInv, SizeKnown, HowFar
<1>7. InBounds'
  BY <1>1 DEF SInv, InBounds, ChunkStart
<1>8. CASE Len(captured) < until /\ captured' = captured \o more /\ pc' = pc
  <2>1. \A i \in Len(captured) + 1 .. until : content[i] \in Nat
    BY <1>2, <1>3, <1>4, ElementOfSeq
  <2>2. /\ more \in Seq(Nat) /\ Len(more) = until - Len(captured)
        /\ \A i \in 1 .. until - Len(captured) : more[i] = content[Len(captured) + i]
    BY <1>3, <1>4, <1>8, <2>1, SubSeqProperties
  <2> HIDE DEF more
  <2>3. /\ captured \o more \in Seq(Nat)
        /\ Len(captured \o more) = Len(captured) + Len(more)
        /\ \A i \in 1 .. Len(captured) + Len(more) : (captured \o more)[i] =
              IF i <= Len(captured) THEN captured[i] ELSE more[i - Len(captured)]
    <3>1. captured \in Seq(Nat) /\ more \in Seq(Nat)
      BY <1>2, <2>2
    <3> QED
      BY <3>1, ConcatProperties
  <2>4. Len(captured) + Len(more) = until
    BY <1>3, <1>4, <2>2
  <2>5. /\ captured' \in Seq(Nat) /\ Len(captured') = until
        /\ \A i \in 1 .. until : captured'[i] =
              IF i <= Len(captured) THEN captured[i] ELSE more[i - Len(captured)]
    BY <1>8, <2>3, <2>4
  <2>6. Types'
    BY <1>1, <1>8, <2>5 DEF SInv, Types, Content
  <2>7. ASSUME edited = <<>>, NEW j \in 1 .. until PROVE captured'[j] = content[j]
    <3>1. CASE j <= Len(captured)
      BY <3>1, <2>7, <2>5, <1>3, <1>6
    <3>2. CASE j > Len(captured)
      <4>1. j - Len(captured) \in 1 .. until - Len(captured)
        BY <3>2, <1>3, <1>4
      <4>2. captured'[j] = more[j - Len(captured)]
        BY <3>2, <2>5, <1>3, <1>4
      <4>3. more[j - Len(captured)] = content[Len(captured) + (j - Len(captured))]
        BY <4>1, <2>2
      <4> QED
        BY <4>2, <4>3, <1>3, <1>4
    <3> QED
      BY <3>1, <3>2, <1>3, <1>4
  <2>8. HowFar'
    BY <1>1, <1>4, <1>6, <1>8, <2>5, <2>7 DEF HowFar, OnlyGrown
  <2> QED
    BY <2>6, <1>5, <1>7, <2>8 DEF SInv
<1>9. CASE Len(captured) >= until /\ pc' = "done" /\ captured' = captured
  <2>1. Types'
    BY <1>1, <1>9 DEF SInv, Types
  <2>2. SampledSize \in Nat
    BY SizesAreNumbers
  <2>3. ASSUME edited = <<>> PROVE captured = GetPartialCheckSum(content)
    <3>1. Len(captured) = Len(content)
      BY <2>3, <1>3, <1>4, <1>6, <1>9
    <3>2. captured = content
      BY <3>1, <2>3, <1>2, <1>3, <1>6, SeqEqual
    <3> QED
      BY <3>2, <2>3, <1>6 DEF GetPartialCheckSum
  <2>4. HowFar'
    BY <1>1, <1>2, <1>6, <1>9, <2>2, <2>3 DEF HowFar, OnlyGrown
  <2> QED
    BY <2>1, <1>5, <1>7, <2>4 DEF SInv
<1> QED
  BY <1>1, <1>8, <1>9

\* What Checksum says of the file that was offered, once all chunks are read.
LEMMA AllSampled ==
  ASSUME SInv, Sampled, chunk = CHUNKS, content \in Seq(Nat), SampledSize <= Size,
         Size <= Len(content)
  PROVE  captured = GetPartialCheckSum(SubSeq(content, 1, Size))
<1> DEFINE offered == SubSeq(content, 1, Size)
<1>1. /\ captured \in Seq(Nat) /\ Len(captured) = CapturedSize
      /\ \A j \in 1 .. Len(captured) : captured[j] = content[SampledAt(j)]
  BY DEF Sampled, CapturedSize, SInv, Types, Content
<1>2. /\ SampledSize \in Nat /\ CapturedSize \in Nat /\ Size \in Nat
      /\ Len(content) \in Nat
  BY SizesAreNumbers, LenProperties DEF SInv, Types
<1>3. \A i \in 1 .. Size : content[i] \in Nat
  BY <1>2, ElementOfSeq
<1>4. /\ Len(offered) = Size
      /\ \A i \in 1 .. Size : offered[i] = content[i]
  BY <1>2, <1>3, SubSeqProperties
<1> HIDE DEF offered
<1>5. GetPartialCheckSum(offered) = [j \in 1 .. CapturedSize |-> offered[SampledAt(j)]]
  BY <1>2, <1>4 DEF GetPartialCheckSum
<1>6. \A j \in 1 .. CapturedSize : captured[j] = offered[SampledAt(j)]
  <2>1. TAKE j \in 1 .. CapturedSize
  <2>2. SampledAt(j) \in 1 .. SampledSize
    BY SampledWithin
  <2>3. SampledAt(j) \in 1 .. Size
    BY <2>2, <1>2
  <2> QED
    BY <2>3, <1>1, <1>4
<1>7. captured \in [1 .. CapturedSize -> Nat]
  BY <1>1, LenProperties
<1>8. captured = [j \in 1 .. CapturedSize |-> captured[j]]
  BY <1>7
<1>9. [j \in 1 .. CapturedSize |-> captured[j]] = [j \in 1 .. CapturedSize |-> offered[SampledAt(j)]]
  BY <1>6
<1> QED
  BY <1>5, <1>8, <1>9 DEF offered

\* A chunk that the file holds is read whole, and the next one is STEP bytes on.
LEMMA ChunkTaken ==
  ASSUME SInv, pc = "chunks", Sampled, chunk < CHUNKS, SampledSize <= Len(content),
         captured' = captured \o Buffer, offset' = NextOffset, chunk' = chunk + 1,
         content' = content
  PROVE  Sampled'
<1>1. /\ content \in Seq(Nat) /\ captured \in Seq(Nat) /\ offset = ChunkStart(chunk)
      /\ chunk \in 0 .. CHUNKS - 1 /\ chunk \in Nat
      /\ \A j \in 1 .. Len(captured) : captured[j] = content[SampledAt(j)]
  <2>1. content \in Seq(Nat) /\ captured \in Seq(Nat) /\ chunk \in 0 .. CHUNKS
    BY DEF SInv, Types, Content
  <2>2. chunk \in 0 .. CHUNKS - 1 /\ chunk \in Nat
    BY <2>1
  <2> QED
    BY <2>1, <2>2 DEF Sampled
<1>2. /\ Len(content) \in Nat /\ SampledSize \in Nat /\ Len(captured) \in Nat
  BY <1>1, LenProperties, SizesAreNumbers
<1>3. offset \in Nat /\ offset + CHUNKSIZE <= Len(content)
  BY <1>1, <1>2, ChunkFits
<1>4. Found = CHUNKSIZE
  <2>1. Max({Len(content) - offset, 0}) = Len(content) - offset
    BY <1>2, <1>3, MaxIs
  <2>2. Len(content) - offset \in Nat
    BY <1>2, <1>3
  <2>3. PICK left \in Nat : left = Len(content) - offset
    BY <2>2
  <2>4. Found = Min({left, CHUNKSIZE})
    BY <2>1, <2>3 DEF Found
  <2>5. CHUNKSIZE \in Int /\ CHUNKSIZE <= left
    BY <2>3, <1>2, <1>3
  <2>6. Min({left, CHUNKSIZE}) = IF left <= CHUNKSIZE THEN left ELSE CHUNKSIZE
    BY <2>5, MinIs
  <2> QED
    BY <2>4, <2>5, <2>6
<1>5. /\ Buffer \in Seq(Nat) /\ Len(Buffer) = CHUNKSIZE
      /\ \A k \in 1 .. CHUNKSIZE : Buffer[k] = content[offset + k]
  <2>1. Buffer = [k \in 1 .. CHUNKSIZE |-> content[offset + k]]
    BY <1>4 DEF Buffer
  <2>2. \A k \in 1 .. CHUNKSIZE : content[offset + k] \in Nat
    <3>1. TAKE k \in 1 .. CHUNKSIZE
    <3>2. offset + k \in 1 .. Len(content)
      BY <1>2, <1>3
    <3>3. content \in Seq(Nat)
      BY <1>1
    <3> QED
      BY <3>2, <3>3, ElementOfSeq
  <2> QED
    BY <2>1, <2>2
<1>6. /\ Len(captured') = Len(captured) + CHUNKSIZE
      /\ \A j \in 1 .. Len(captured) : captured'[j] = captured[j]
      /\ \A k \in 1 .. CHUNKSIZE : captured'[Len(captured) + k] = Buffer[k]
  <2>1. captured \in Seq(Nat) /\ Buffer \in Seq(Nat)
    BY <1>1, <1>5
  <2>2. /\ Len(captured \o Buffer) = Len(captured) + Len(Buffer)
        /\ \A i \in 1 .. Len(captured) + Len(Buffer) : (captured \o Buffer)[i] =
              IF i <= Len(captured) THEN captured[i] ELSE Buffer[i - Len(captured)]
    BY <2>1, ConcatProperties
  <2>3. /\ Len(captured') = Len(captured) + CHUNKSIZE
        /\ \A i \in 1 .. Len(captured) + CHUNKSIZE : captured'[i] =
              IF i <= Len(captured) THEN captured[i] ELSE Buffer[i - Len(captured)]
    BY <2>2, <1>5
  <2>4. \A k \in 1 .. CHUNKSIZE : captured'[Len(captured) + k] = Buffer[k]
    <3>1. TAKE k \in 1 .. CHUNKSIZE
    <3>2. /\ Len(captured) + k \in 1 .. Len(captured) + CHUNKSIZE
          /\ ~ Len(captured) + k <= Len(captured) /\ (Len(captured) + k) - Len(captured) = k
      BY <1>2
    <3> QED
      BY <3>2, <2>3
  <2> QED
    BY <2>3, <2>4, <1>2
<1>7. Len(captured) = chunk * CHUNKSIZE
  BY DEF Sampled
<1>8. \A k \in 1 .. CHUNKSIZE : captured'[Len(captured) + k] = content[SampledAt(Len(captured) + k)]
  <2>1. TAKE k \in 1 .. CHUNKSIZE
  <2>2. SampledAt(Len(captured) + k) = offset + k
    BY <1>1, <1>7, SampledInChunk
  <2> QED
    BY <2>2, <1>5, <1>6
<1>9. \A j \in 1 .. Len(captured') : captured'[j] = content[SampledAt(j)]
  <2>1. TAKE j \in 1 .. Len(captured')
  <2>2. CASE j <= Len(captured)
    BY <2>2, <1>1, <1>2, <1>6
  <2>3. CASE j > Len(captured)
    <3>1. j - Len(captured) \in 1 .. CHUNKSIZE
      BY <2>3, <1>2, <1>6
    <3>2. j = Len(captured) + (j - Len(captured))
      BY <1>2
    <3> QED
      BY <3>1, <3>2, <1>8
  <2> QED
    BY <2>2, <2>3, <1>2, <1>6
<1>10. Len(captured') = (chunk + 1) * CHUNKSIZE
  BY <1>1, <1>6, <1>7
<1>11. offset' = ChunkStart(chunk + 1)
  <2>1. offset' = ChunkStart(chunk) + CHUNKSIZE + STEP
    BY <1>1, <1>4 DEF NextOffset
  <2> QED
    BY <2>1, <1>1 DEF ChunkStart
<1>12. ChunkStart(chunk') = ChunkStart(chunk + 1)
  BY DEF ChunkStart
<1> QED
  BY <1>9, <1>10, <1>11, <1>12 DEF Sampled, ChunkStart, SampledAt

\* One ReadAt, or the end of the loop.
LEMMA ReadChunkStep == SInv /\ ReadChunk => SInv'
<1> SUFFICES ASSUME SInv, ReadChunk PROVE SInv'
  OBVIOUS
<1>1. /\ pc = "chunks" /\ UNCHANGED <<content, Size, edited>>
      /\ \/ /\ chunk < CHUNKS /\ captured' = captured \o Buffer
            /\ offset' = NextOffset /\ chunk' = chunk + 1 /\ pc' = pc
         \/ chunk = CHUNKS /\ pc' = "done" /\ UNCHANGED <<captured, offset, chunk>>
  BY DEF ReadChunk
<1>2. /\ content \in Seq(Nat) /\ captured \in Seq(Nat) /\ Size \in Nat
      /\ offset \in Nat /\ chunk \in 0 .. CHUNKS
  BY <1>1 DEF SInv, Types, Content
<1>3. Len(content) \in Nat /\ SampledSize \in Nat
  BY <1>2, LenProperties, SizesAreNumbers
<1>4. SizeKnown'
  BY <1>1 DEF SInv, SizeKnown, OnlyGrown
<1>5. /\ OnlyGrown => Size <= Len(content)
      /\ edited = <<>> => OnlyGrown /\ Size = Len(content) /\ SampledSize <= Size
      /\ OnlyGrown /\ SampledSize <= Size => Sampled
  BY <1>1, UneditedGrows DEF SInv, SizeKnown, HowFar
<1>6. CASE /\ chunk < CHUNKS /\ captured' = captured \o Buffer
           /\ offset' = NextOffset /\ chunk' = chunk + 1 /\ pc' = pc
  <2>1. Found \in 0 .. CHUNKSIZE /\ \A j \in 1 .. CHUNKSIZE : j <= Found => offset + j <= Len(content)
    <3>1. Len(content) - offset \in Int /\ CHUNKSIZE \in Int
      BY <1>2, <1>3
    <3>2. PICK left \in Nat : /\ left = Max({Len(content) - offset, 0})
                              /\ left > 0 => left = Len(content) - offset
      BY <3>1, MaxIs
    <3>3. Found = Min({left, CHUNKSIZE})
      BY <3>2 DEF Found
    <3>4. Found = IF left <= CHUNKSIZE THEN left ELSE CHUNKSIZE
      BY <3>1, <3>3, MinIs
    <3>5. Found \in 0 .. CHUNKSIZE /\ Found <= left
      BY <3>4
    <3>6. \A j \in 1 .. CHUNKSIZE : j <= Found => offset + j <= Len(content)
      <4>1. TAKE j \in 1 .. CHUNKSIZE
      <4>2. HAVE j <= Found
      <4>3. j <= left /\ left > 0
        BY <4>2, <3>5
      <4>4. left = Len(content) - offset
        BY <4>3, <3>2
      <4> QED
        BY <4>3, <4>4, <1>2, <1>3
    <3> QED
      BY <3>5, <3>6
  <2>2. Buffer \in Seq(Nat)
    <3>1. \A j \in 1 .. CHUNKSIZE : (IF j <= Found THEN content[offset + j] ELSE 0) \in Nat
      <4>1. TAKE j \in 1 .. CHUNKSIZE
      <4>2. CASE j <= Found
        <5>1. offset + j \in 1 .. Len(content)
          BY <4>2, <2>1, <1>2, <1>3
        <5>2. content \in Seq(Nat)
          BY <1>2
        <5>3. content[offset + j] \in Nat
          BY <5>1, <5>2, ElementOfSeq
        <5> QED
          BY <4>2, <5>3
      <4> QED
        BY <4>2
    <3> QED
      BY <3>1 DEF Buffer
  <2>3. /\ captured \o Buffer \in Seq(Nat)
        /\ Len(captured \o Buffer) = Len(captured) + CHUNKSIZE
    <3>1. captured \in Seq(Nat) /\ Buffer \in Seq(Nat) /\ Len(Buffer) = CHUNKSIZE
      BY <2>2, <1>2 DEF Buffer
    <3> QED
      BY <3>1, ConcatProperties
  <2>4. offset' \in Nat /\ chunk' \in 0 .. CHUNKS
    BY <1>2, <1>6, <2>1 DEF NextOffset
  <2>5. Types'
    BY <1>1, <1>6, <2>3, <2>4 DEF SInv, Types, Content
  <2>6. InBounds'
    <3>1. PICK n \in Nat : n = chunk
      BY <1>2
    <3>2. /\ (n + 1) * CHUNKSIZE = n * CHUNKSIZE + CHUNKSIZE
          /\ (n + 1) * STEP = n * STEP + STEP
          /\ (n + 1) * (CHUNKSIZE + STEP) = n * (CHUNKSIZE + STEP) + CHUNKSIZE + STEP
      OBVIOUS
    <3>3. PICK c \in Nat, t \in Nat, b \in Nat :
            c = n * CHUNKSIZE /\ t = n * STEP /\ b = n * (CHUNKSIZE + STEP)
      OBVIOUS
    <3>4. Len(captured) = c /\ t <= offset /\ offset <= b
      BY <1>1, <1>6, <3>1, <3>3 DEF SInv, InBounds, ChunkStart
    <3>5. Len(captured') = c + CHUNKSIZE /\ offset' = offset + Found + STEP /\ chunk' = n + 1
      BY <1>6, <2>3, <3>1, <3>4 DEF NextOffset
    <3>6. t + STEP <= offset' /\ offset' <= b + CHUNKSIZE + STEP
      BY <3>3, <3>4, <3>5, <2>1, <1>2
    <3>7. /\ Len(captured') = chunk' * CHUNKSIZE
          /\ chunk' * STEP <= offset' /\ offset' <= chunk' * (CHUNKSIZE + STEP)
      BY <3>2, <3>3, <3>5, <3>6
    <3> QED
      BY <3>7, <1>1, <1>6 DEF InBounds, ChunkStart
  <2>7. ASSUME OnlyGrown, SampledSize <= Size PROVE Sampled'
    <3>1. SampledSize <= Len(content) /\ Sampled
      BY <2>7, <1>2, <1>3, <1>5
    <3> QED
      BY <3>1, <1>1, <1>6, ChunkTaken
  <2>8. HowFar'
    BY <1>1, <1>5, <1>6, <2>7 DEF HowFar, OnlyGrown
  <2> QED
    BY <2>5, <2>6, <1>4, <2>8 DEF SInv
<1>7. CASE chunk = CHUNKS /\ pc' = "done" /\ UNCHANGED <<captured, offset, chunk>>
  <2>1. Types'
    BY <1>1, <1>7 DEF SInv, Types
  <2>2. ASSUME OnlyGrown, SampledSize <= Size
        PROVE  captured = GetPartialCheckSum(SubSeq(content, 1, Size))
    BY <2>2, <1>2, <1>5, <1>7, AllSampled
  <2>3. ASSUME edited = <<>> PROVE captured = GetPartialCheckSum(content)
    <3>1. SubSeq(content, 1, Size) = content
      BY <2>3, <1>2, <1>5, SubSeqFull
    <3> QED
      BY <3>1, <2>2, <2>3, <1>5
  <2>4. HowFar'
    BY <1>1, <1>7, <2>2, <2>3 DEF HowFar, OnlyGrown
  <2>5. InBounds'
    BY <1>1, <1>7 DEF SInv, InBounds, ChunkStart, CapturedSize
  <2> QED
    BY <2>1, <2>5, <1>4, <2>4 DEF SInv
<1> QED
  BY <1>1, <1>6, <1>7

\* What is appended leaves what has been captured where it is.
LEMMA GrowStep == SInv /\ Grow => SInv'
<1> SUFFICES ASSUME SInv, Grow PROVE SInv'
  OBVIOUS
<1>1. PICK more \in Appends : content' = content \o more
  BY DEF Grow
<1>2. /\ MayEdit /\ content # NoFile
      /\ edited' = Append(edited, "grow") /\ UNCHANGED <<pc, Size, captured, chunk, offset>>
  BY DEF Grow, Edit
<1>3. /\ content \in Seq(Nat) /\ more \in Seq(Nat) /\ Size \in Nat
      /\ edited \in Seq(Edits) /\ Len(edited) < MaxEdits
      /\ pc \in {"open", "size", "whole", "chunks"}
  BY <1>2 DEF SInv, Types, Content, MayEdit
<1>4. /\ content' \in Seq(Nat) /\ Len(content') = Len(content) + Len(more)
      /\ \A i \in 1 .. Len(content) + Len(more) : content'[i] =
            IF i <= Len(content) THEN content[i] ELSE more[i - Len(content)]
  BY <1>1, <1>3, ConcatProperties
<1>5. Len(content) \in Nat /\ Len(more) \in Nat /\ SampledSize \in Nat
  BY <1>3, LenProperties, SizesAreNumbers
<1>6. /\ Len(content) <= Len(content') /\ content' # NoFile
      /\ \A i \in 1 .. Len(content) : content'[i] = content[i]
  BY <1>4, <1>5 DEF Content
<1>7. edited' # <<>> /\ (OnlyGrown' => OnlyGrown)
  BY <1>2, EditIs DEF SInv, Edits
<1>8. Types'
  <2>1. edited' \in Seq(Edits) /\ Len(edited') <= MaxEdits
    BY <1>2, <1>3, AppendProperties, LenProperties DEF Edits
  <2> QED
    BY <1>2, <1>4, <1>6, <2>1 DEF SInv, Types, Content
<1>9. SizeKnown'
  BY <1>2, <1>3, <1>4, <1>5, <1>6, <1>7 DEF SInv, SizeKnown
<1>10. ASSUME pc = "chunks", OnlyGrown, SampledSize <= Size PROVE Sampled'
  <2>1. Sampled /\ Size <= Len(content)
    BY <1>10 DEF SInv, HowFar, SizeKnown
  <2>2. Len(captured) <= CapturedSize /\ Len(captured) \in Nat /\ CapturedSize \in Nat
    <3>1. chunk \in Nat /\ chunk <= CHUNKS /\ captured \in Seq(Nat)
      BY DEF SInv, Types, Content
    <3>2. chunk * CHUNKSIZE <= CHUNKS * CHUNKSIZE
      BY <3>1, Monotone
    <3> QED
      BY <2>1, <3>1, <3>2, LenProperties, SizesAreNumbers DEF Sampled, CapturedSize
  <2>3. \A j \in 1 .. Len(captured) : SampledAt(j) \in 1 .. Len(content)
    <3>1. TAKE j \in 1 .. Len(captured)
    <3>2. SampledAt(j) \in 1 .. SampledSize
      BY <2>2, SampledWithin
    <3> QED
      BY <3>2, <2>1, <1>3, <1>5, <1>10
  <2>4. \A j \in 1 .. Len(captured) : captured[j] = content'[SampledAt(j)]
    BY <2>1, <2>3, <1>6 DEF Sampled
  <2> QED
    BY <2>1, <2>4, <1>2 DEF Sampled, ChunkStart, SampledAt
<1>11. HowFar'
  BY <1>2, <1>3, <1>7, <1>10 DEF SInv, HowFar
<1>12. InBounds'
  BY <1>2 DEF SInv, InBounds, ChunkStart
<1> QED
  BY <1>8, <1>9, <1>11, <1>12 DEF SInv

\* Any other edit ends what is said of the file.
LEMMA OtherEditStep ==
  ASSUME SInv, NEW kind \in {"cut", "write", "unlink"}, MayEdit, Edit(kind),
         content' \in Content \/ (content' = NoFile /\ pc = "open")
  PROVE  SInv'
<1>1. /\ edited' = Append(edited, kind) /\ UNCHANGED <<pc, Size, captured, chunk, offset>>
      /\ edited \in Seq(Edits) /\ Len(edited) < MaxEdits
      /\ pc \in {"open", "size", "whole", "chunks"}
  BY DEF Edit, MayEdit, SInv, Types
<1>2. edited' # <<>> /\ ~ OnlyGrown'
  BY <1>1, EditIs DEF SInv, Edits
<1>3. edited' \in Seq(Edits) /\ Len(edited') <= MaxEdits
  BY <1>1, AppendProperties, LenProperties DEF Edits
<1>4. Types'
  BY <1>1, <1>3 DEF SInv, Types
<1>5. SizeKnown'
  BY <1>2 DEF SizeKnown
<1>6. HowFar'
  BY <1>1, <1>2 DEF SInv, HowFar
<1>7. InBounds'
  BY <1>1 DEF SInv, InBounds, ChunkStart
<1> QED
  BY <1>4, <1>5, <1>6, <1>7 DEF SInv

\* Every step.
LEMMA NextStep == SInv /\ [Next]_vars => SInv'
<1> SUFFICES ASSUME SInv, [Next]_vars PROVE SInv'
  OBVIOUS
<1>1. CASE GetFile
  BY <1>1, StatStep, OpenStep, StatHandleStep, ReadWholeStep, ReadChunkStep DEF GetFile
<1>2. CASE Grow
  BY <1>2, GrowStep
<1>3. CASE Cut
  <2>1. PICK n \in 0 .. Len(content) - 1 : content' = SubSeq(content, 1, n)
    BY <1>3 DEF Cut
  <2>2. MayEdit /\ Edit("cut") /\ content \in Seq(Nat)
    BY <1>3 DEF Cut, SInv, Types, Content
  <2>3. n \in Int /\ \A i \in 1 .. n : content[i] \in Nat
    BY <2>2, LenProperties, ElementOfSeq
  <2>4. SubSeq(content, 1, n) \in Seq(Nat)
    BY <2>3, SubSeqProperties
  <2>5. content' \in Content
    BY <2>1, <2>4 DEF Content
  <2> QED
    BY <2>2, <2>5, OtherEditStep
<1>4. CASE Write
  <2>1. PICK j \in DOMAIN content : content' = [content EXCEPT ![j] = 0]
    BY <1>4 DEF Write
  <2>2. MayEdit /\ Edit("write") /\ content \in Seq(Nat)
    BY <1>4 DEF Write, SInv, Types, Content
  <2>3. j \in 1 .. Len(content)
    BY <2>1, <2>2, LenProperties
  <2>4. [content EXCEPT ![j] = 0] \in Seq(Nat)
    BY <2>2, <2>3, ExceptSeq
  <2>5. content' \in Content
    BY <2>1, <2>4 DEF Content
  <2> QED
    BY <2>2, <2>5, OtherEditStep
<1>5. CASE Unlink
  BY <1>5, OtherEditStep DEF Unlink
<1>6. CASE UNCHANGED vars
  BY <1>6 DEF vars, SInv, Types, InBounds, SizeKnown, HowFar, OnlyGrown, Sampled, ChunkStart, SampledAt
<1> QED
  BY <1>1, <1>2, <1>3, <1>4, <1>5, <1>6 DEF Next

-----------------------------------------------------------------------------
(* The theorems.                                                           *)

\* What is known of the file and of what has been captured of it holds in every
\* state, for any sizes of chunks and steps and any file.
THEOREM SnapshotInvariant == Spec => []SInv
<1>1. Init => SInv
  BY Beginning
<1>2. SInv /\ [Next]_vars => SInv'
  BY NextStep
<1> QED
  BY <1>1, <1>2, PTL DEF Spec

\* Whatever is done to the file while GetFile looks at it, cut short, overwritten
\* or removed: every round of the loop adds one whole chunk, so that a sampled file
\* is hashed at CHUNKS * CHUNKSIZE bytes, and no offset is past the place of its
\* chunk.
THEOREM SnapshotTypeCorrect == Spec => []TypeOK
<1>1. SInv => TypeOK
  BY DEF SInv, TypeOK
<1> QED
  BY <1>1, SnapshotInvariant, PTL

\* The loop of GetPartialCheckSum captures what Checksum says of a file that
\* nobody edits, whatever its size.
THEOREM UneditedIsExactAlways == Spec => []UneditedIsExact
<1>1. SInv => UneditedIsExact
  BY UneditedGrows DEF SInv, SizeKnown, HowFar, UneditedIsExact
<1> QED
  BY <1>1, SnapshotInvariant, PTL

\* A large file that only grows while GetFile looks at it is offered with the
\* checksum of the bytes that are sent of it.
THEOREM LargeMayGrowAlways == Spec => []LargeMayGrow
<1>1. SInv => LargeMayGrow
  <2>1. SUFFICES ASSUME SInv, pc = "done", Size >= SampledSize, Range(edited) \subseteq {"grow"}
                 PROVE  captured = GetPartialCheckSum(SubSeq(content, 1, Size))
    BY DEF LargeMayGrow
  <2>2. edited \in Seq(Edits) /\ Size \in Nat
    BY <2>1 DEF SInv, Types
  <2>3. DOMAIN edited = 1 .. Len(edited)
    BY <2>2, LenProperties
  <2>4. OnlyGrown
    BY <2>1, <2>3 DEF Range, OnlyGrown
  <2>5. SampledSize <= Size
    BY <2>1, <2>2, SizesAreNumbers
  <2> QED
    BY <2>1, <2>4, <2>5 DEF SInv, HowFar
<1> QED
  BY <1>1, SnapshotInvariant, PTL

=============================================================================
