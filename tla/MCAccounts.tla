------------------------------ MODULE MCAccounts ------------------------------
(***************************************************************************)
(* Accounts with two keys and two names, which differ only in the blanks   *)
(* around them: two accounts may come to have one name.                    *)
(***************************************************************************)
EXTENDS Accounts, TLC

CONSTANTS ann, ann_blank

MCStripped == [n \in Names |-> IF n = ann_blank THEN ann ELSE n]

Symmetry == Permutations(Letters) \cup Permutations(Browsers) \cup Permutations(Slots)
=============================================================================
