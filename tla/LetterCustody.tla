---------------------------- MODULE LetterCustody ----------------------------
(***************************************************************************)
(* What the site promises about a letter, whatever the pages, jobs and     *)
(* clocks do: a life cycle in three independent parts.                     *)
(*                                                                         *)
(*   stage   draft -> open -> gone: published once, withdrawn for good.    *)
(*   holder  one volunteer at a time, and between two volunteers nobody.   *)
(*   mark    unclaimed or emergent while nobody holds it, claimed or       *)
(*           returned while somebody does.  What has become emergent stays *)
(*           so until somebody takes it, and a letter that comes back from *)
(*           a volunteer comes back emergent.                              *)
(*                                                                         *)
(* Several letters may move at once (a job sweeps through all of them), so *)
(* the next-state relation is a relation between the old and the new       *)
(* custody of a letter, applied to each.                                   *)
(***************************************************************************)
CONSTANTS Letters, Volunteers, Nil

VARIABLE custody        \* Nil for a letter not yet uploaded

Custody == [ stage  : {"draft", "open", "gone"},
             holder : Volunteers \cup {Nil},
             mark   : {"unclaimed", "emergent", "claimed", "returned"} ]

Fresh == [stage |-> "draft", holder |-> Nil, mark |-> "unclaimed"]

\* An employee uploads it.
Arrives(c, d) == c = Nil /\ d = Fresh

\* An employee publishes it.
Opens(c, d) == c.stage = "draft" /\ d = [c EXCEPT !.stage = "open"]

\* An employee withdraws it, which needs it back from its volunteer.
Withdrawn(c, d) ==
  /\ c.holder = Nil
  /\ d = [c EXCEPT !.stage = "gone"]

\* A volunteer takes it.  A page that is still open may offer a letter that
\* has been withdrawn; a draft has never been on a page.
Taken(c, d) ==
  /\ c.holder = Nil
  /\ c.stage # "draft"
  /\ \E v \in Volunteers :
       d = [stage |-> c.stage, holder |-> v, mark |-> "claimed"]

\* A translation comes in while somebody holds it.
Delivered(c, d) ==
  /\ c.holder # Nil
  /\ d = [c EXCEPT !.mark = "returned"]

\* It leaves its volunteer's hands, for whatever reason.
Released(c, d) ==
  /\ c.holder # Nil
  /\ d = [stage |-> c.stage, holder |-> Nil, mark |-> "emergent"]

\* Nobody took it for too long.
GrowsUrgent(c, d) ==
  /\ c.mark = "unclaimed"
  /\ d = [c EXCEPT !.mark = "emergent"]

Moves(c, d) ==
  IF c = Nil THEN Arrives(c, d)
             ELSE \/ Opens(c, d)
                  \/ Withdrawn(c, d)
                  \/ Taken(c, d)
                  \/ Delivered(c, d)
                  \/ Released(c, d)
                  \/ GrowsUrgent(c, d)

Init == custody = [l \in Letters |-> Nil]

Next ==
  \A l \in Letters : custody'[l] = custody[l] \/ Moves(custody[l], custody'[l])

Spec == Init /\ [][Next]_custody
=============================================================================
