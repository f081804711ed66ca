------------------------------- MODULE MCBrowser -------------------------------
(* Two volunteers, one of both directions, who share a window, or the owner  *)
(* of a letter and the supervisor.                                           *)
EXTENDS Browser, TLC

CONSTANTS both, eng, owner, chief, l1, n1, n2

MCVouType == (both :> "both") @@ (eng :> "eng")
MCOwner == l1 :> owner
MCTransType == l1 :> "eng"

\* The notes are alike.
MCSymmetry == Permutations(Notes)
=============================================================================
