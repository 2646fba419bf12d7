----------------------------- MODULE TrbChannel -----------------------------
(***************************************************************************)
(* What a ring of TRBs promises to the two sides of it: a FIFO channel in  *)
(* which nothing is lost, repeated, reordered or altered.                  *)
(***************************************************************************)
EXTENDS Sequences

CONSTANT Body       \* what a TRB carries
VARIABLE pending    \* the TRBs written and not yet taken

Init == pending = <<>>

Put  == \E b \in Body : pending' = Append(pending, b)
Take == pending # <<>> /\ pending' = Tail(pending)

Next == Put \/ Take

Spec == Init /\ [][Next]_pending
=============================================================================
