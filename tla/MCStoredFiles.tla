----------------------------- MODULE MCStoredFiles -----------------------------
(* A recent letter with a scan and a translation from the old application,  *)
(* both copied, a country with a note that was not, and a letter and a      *)
(* country that are yet to be.                                              *)
EXTENDS StoredFiles, TLC

CONSTANTS l1, l2, c1, c2, o1, o2, o3, n1, n2, n3, n4, s1, s2

MCOldFiles == { [kind |-> "scan",        of |-> l1, name |-> o1],
                [kind |-> "translation", of |-> l1, name |-> o2],
                [kind |-> "note",        of |-> c1, name |-> o3] }

MCMoved == (o1 :> n1) @@ (o2 :> n2)

\* The keys still to be made up, and the slots, are alike.
MCSymmetry == Permutations({n3, n4}) \cup Permutations({s1, s2})
=============================================================================
