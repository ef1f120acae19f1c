------------------------------- MODULE MCWire -------------------------------
(***************************************************************************)
(* Values for TLC.  Bytes below 8 and numbers of two bytes; the delimiter  *)
(* is 6, and occurs in a name, in the file and, as what 5 is encrypted to, *)
(* in bodies.  Encryption adds 2 and SendPiece keeps 3 free; a piece has   *)
(* up to 10 bytes, so that the file takes two.                             *)
(***************************************************************************)
EXTENDS WireInvariant

MCHeaderOf ==
  [h \in {"ENCRKEY", "TRANSFEROFFER", "FILEBYTES", "ENDFILE", "SYMLINK", "READY"} |->
     CASE h = "ENCRKEY" -> <<1>>
       [] h = "TRANSFEROFFER" -> <<2>>
       [] h = "FILEBYTES" -> <<3, 4>>
       [] h = "ENDFILE" -> <<5>>
       [] h = "SYMLINK" -> <<4>>
       [] h = "READY" -> <<7>>]

MCKey == <<1>>
MCContent == <<6, 0, 5, 5, 1, 2, 3, 4, 7, 6, 5, 0>>

AFile == [ID |-> 9, Name |-> <<6>>, Size |-> 4, Checksum |-> <<2>>, RelativeParentPath |-> <<>>]
ADir == [Name |-> <<6>>, Size |-> 62]
ALink == [Path |-> <<5>>, TargetPath |-> <<6>>]

MCMessages ==
  {[header |-> "TRANSFEROFFER", value |-> [isDir |-> TRUE, of |-> ADir]],
   [header |-> "TRANSFEROFFER", value |-> [isDir |-> FALSE, of |-> AFile]],
   [header |-> "ENDFILE", value |-> 54],
   [header |-> "SYMLINK", value |-> ALink],
   [header |-> "READY", value |-> <<>>]}

=============================================================================
