----------------------------- MODULE MCSnapshot -----------------------------
(***************************************************************************)
(* Values for TLC.  With CHUNKS = 3, CHUNKSIZE = 2 and STEP = 2 sampling   *)
(* starts at 10 bytes; files have up to 12.                                *)
(***************************************************************************)
EXTENDS Snapshot

Counting(n) == [j \in 1 .. n |-> j]
AllSizes == {Counting(n) : n \in 0 .. SampledSize + CHUNKSIZE} \cup {NoFile}
Lines == {<<9>>, <<9, 9, 9>>}

=============================================================================
