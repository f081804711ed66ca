---------------------------- MODULE MCLetterMail ----------------------------
(***************************************************************************)
(* LetterMail with one letter and a few mails.                             *)
(***************************************************************************)
EXTENDS LetterMail

MCReturnDays == {1}
=============================================================================
