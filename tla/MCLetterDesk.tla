---------------------------- MODULE MCLetterDesk ----------------------------
(***************************************************************************)
(* LetterDesk with few people, few letters and a short calendar.           *)
(***************************************************************************)
EXTENDS LetterReports, TLC

\* A chi letter with the shortest term there is a use for: due the same day.
MCReturnDays == {1}

\* Volunteers are interchangeable, and so are letters.
Symmetry == Permutations(Volunteers) \cup Permutations(Letters)
=============================================================================
