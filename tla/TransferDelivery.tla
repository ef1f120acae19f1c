-------------------------- MODULE TransferDelivery --------------------------
(***************************************************************************)
(* Transfer implements Delivery.  The sender, the packets and the          *)
(* connection are hidden.  An attempt is complete for the sender, which    *)
(* learns it last; it is over when the receiver has ended.                 *)
(***************************************************************************)
EXTENDS TransferInvariant

Consent ==
  CASE prompt = "none" -> "none"
    [] prompt = "asking" -> "asked"
    [] prompt = "yes" -> "yes"
    [] prompt \in {"rejecting", "no"} -> "no"

Arriving == {receiving.AcceptedFiles[i].id : i \in 1 .. Len(receiving.AcceptedFiles)}

SentDone == sending.AllowedToTransfer /\ sending.stopped /\ senderPc # "panic"

Outcome ==
  IF SentDone THEN "complete" ELSE IF receiverPc \in Ended THEN "over" ELSE "open"

D == INSTANCE Delivery WITH
       Files <- FileIDs, Links <- SymlinkIDs,
       offer <- offered, consent <- Consent, store <- disk, linked <- links,
       arriving <- Arriving, bad <- corrupted, outcome <- Outcome

\* A transfer, whatever dies, is lost or is tried again, is a delivery: nothing
\* before the user's yes, one file at a time and bytes only at its end, symlinks
\* after the files, DONE after everything (os.Remove not failing).
ImplementsDelivery == D!Spec

=============================================================================
