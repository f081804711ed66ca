----------------------------- MODULE LetterReports -----------------------------
(***************************************************************************)
(* The administrator's page that sorts volunteers into those in service    *)
(* and those available, next to the page the volunteer sees.               *)
(***************************************************************************)
EXTENDS LetterDesk

\* Mutated form of StatusLetters: what has been delivered counts as well.
StatusLettersDelivered(v) ==
  {l \in Letters : /\ Exists(l)
                   /\ letter[l].claim_date # Nil
                   /\ letter[l].voulenteer_account = v}

\* GET /admin/vou_status: what v is working on, deleted or not.
StatusLetters(v) ==
  {l \in Letters : /\ Exists(l)
                   /\ letter[l].claim_date # Nil
                   /\ letter[l].voulenteer_account = v
                   /\ letter[l].return_date = Nil}

InService(v) == StatusLetters(v) # {}

\* An available volunteer is shown with the date of a delivered letter.
LastReturned(v) ==
  {l \in Letters : /\ Exists(l)
                   /\ letter[l].return_date # Nil
                   /\ letter[l].voulenteer_account = v}

\* The administrator sees a volunteer at work on exactly the letters the
\* volunteer's page has a form to give back for: one selects by claim_date
\* and return_date, the other by due_date, return_file_url and re_upload.
\* Whoever is not in service holds delivered letters only, and then the page
\* has a date to show.
StatusPageAgrees ==
  \A v \in Volunteers :
    /\ StatusLetters(v) =
         {l \in Letters : Exists(l) /\ "return" \in FormsFor(letter[l], v)}
    /\ ~ InService(v) /\ (\E l \in Letters : Exists(l) /\ HeldBy(letter[l], v))
         => LastReturned(v) # {}
================================================================================
