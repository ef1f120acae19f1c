------------------------------ MODULE Delivery ------------------------------
(***************************************************************************)
(* What ftu promises to the user at the receiving end, without the packets *)
(* and the sender that bring it about (node/node.go, receive).             *)
(*                                                                         *)
(* An attempt puts a question.  After a yes, files come one at a time: the *)
(* place of a file that is not there yet is cleared, bytes are appended to *)
(* it, and in the end its checksum is compared.  Symlinks follow when every *)
(* file has been dealt with.  The attempt is complete, or it is given up   *)
(* at any moment; the next one finds what this one left behind.            *)
(***************************************************************************)
EXTENDS Checksum, SequencesExt

CONSTANTS Files, Links, NoFile

VARIABLES
  offer,     \* the files that are offered
  consent,   \* "none", "asked", "yes" or "no"
  store,     \* what stands in each file's place in the downloads folder
  linked,    \* what stands in each symlink's place
  arriving,  \* the files that are being received
  bad,       \* the files that were found to be corrupted
  outcome    \* "open", "complete" or "over"

deliveryVars == <<offer, consent, store, linked, arriving, bad, outcome>>

\* A file that has been dealt with.
Dealt(f) ==
  \/ f \in bad
  \/ store[f] # NoFile /\ GetPartialCheckSum(store[f]) = GetPartialCheckSum(offer[f])

Made(content) == IF content = NoFile THEN <<>> ELSE content

Init ==
  /\ consent = "none" /\ arriving = {} /\ bad = {} /\ outcome = "open"
  /\ offer \in [Files -> Content]
  /\ store \in [Files -> Content \cup {NoFile}]
  /\ linked \in [Links -> {"absent", "other", "made"}]

Ask ==
  /\ outcome = "open" /\ consent = "none"
  /\ consent' = "asked"
  /\ UNCHANGED <<offer, store, linked, arriving, bad, outcome>>

Answer ==
  /\ outcome = "open" /\ consent = "asked"
  /\ consent' \in {"yes", "no"}
  /\ UNCHANGED <<offer, store, linked, arriving, bad, outcome>>

Begin(f) ==
  /\ outcome = "open" /\ consent = "yes" /\ arriving = {}
  /\ ~Dealt(f)
  /\ arriving' = {f}
  /\ store' = [store EXCEPT ![f] = NoFile]
  /\ UNCHANGED <<offer, consent, linked, bad, outcome>>

\* Nothing but bytes at the end is added, and to this file alone.
Grows(f) ==
  /\ f \in arriving
  /\ store' = [store EXCEPT ![f] = store'[f]]
  /\ store'[f] \in Content /\ IsPrefix(Made(store[f]), store'[f])

Receive(f) ==
  /\ outcome = "open" /\ consent = "yes"
  /\ Grows(f)
  /\ UNCHANGED <<offer, consent, linked, arriving, bad, outcome>>

End(f) ==
  /\ outcome = "open" /\ consent = "yes" /\ f \in arriving
  /\ arriving' = {}
  /\ store' = [store EXCEPT ![f] = Made(@)]
  /\ bad' = IF GetPartialCheckSum(Made(store[f])) = GetPartialCheckSum(offer[f])
              THEN bad ELSE bad \cup {f}
  /\ UNCHANGED <<offer, consent, linked, outcome>>

\* What stands in a symlink's place is not replaced.
Link(l) ==
  /\ outcome = "open" /\ consent = "yes" /\ arriving = {}
  /\ \A f \in Files : Dealt(f)
  /\ linked[l] = "absent"
  /\ linked' = [linked EXCEPT ![l] = "made"]
  /\ UNCHANGED <<offer, consent, store, arriving, bad, outcome>>

\* The last to know may be a sender whose receiver has just gone.
Complete ==
  /\ outcome \in {"open", "over"} /\ consent = "yes" /\ arriving = {}
  /\ \A f \in Files : Dealt(f)
  /\ \A l \in Links : linked[l] # "absent"
  /\ outcome' = "complete"
  /\ UNCHANGED <<offer, consent, store, linked, arriving, bad>>

GiveUp ==
  /\ outcome = "open"
  /\ outcome' = "over"
  /\ UNCHANGED store \/ \E f \in arriving : Grows(f)
  /\ UNCHANGED <<offer, consent, linked, arriving, bad>>

TryAgain ==
  /\ outcome # "open"
  /\ consent' = "none" /\ arriving' = {} /\ bad' = {} /\ outcome' = "open"
  /\ offer' \in [Files -> Content]
  /\ UNCHANGED <<store, linked>>

Next ==
  \/ Ask
  \/ Answer
  \/ \E f \in Files : Begin(f) \/ Receive(f) \/ End(f)
  \/ \E l \in Links : Link(l)
  \/ Complete
  \/ GiveUp
  \/ TryAgain

Spec == Init /\ [][Next]_deliveryVars

=============================================================================
