---------------------------- MODULE MCLetterLists ----------------------------
(***************************************************************************)
(* LetterLists with one letter to a page: a list of four has four pages.   *)
(***************************************************************************)
EXTENDS LetterLists

MCLetters == 1..4
MCHandWritten == {1, 3}
=============================================================================
