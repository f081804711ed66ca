--------------------------- MODULE LetterDeskProofs ---------------------------
(***************************************************************************)
(* Theorems about LetterDesk, for every set of people and letters, every   *)
(* term an employee may type and every bound.                              *)
(*                                                                         *)
(* Only two facts about a step matter for the letters: what it does to a   *)
(* single record, and that pages are rendered from the result.  Change     *)
(* states the first as a relation between the old and the new record; one  *)
(* lemma per action shows that the action stays within it, and everything  *)
(* else follows from the relation.                                         *)
(*                                                                         *)
(* The last sections count: days since a due date, jobs against log        *)
(* entries, the volunteers the administrator's page shows at work, and     *)
(* the mails of LetterMail, whose steps are the desk's with what they ask  *)
(* to be told.                                                             *)
(***************************************************************************)
EXTENDS LetterMail, LetterReports, LetterEntityProofs, FiniteSetTheorems,
        SequenceTheorems

\* A volunteer's page has shown a form for l.
Shown(l) == \E v \in Volunteers, k \in FormKinds : <<v, l, k>> \in forms

\* The inductive invariant: types, agreement of the fields, and that what is
\* held or was ever shown has been published.
DeskInv ==
  /\ TypeOK
  /\ \A l \in Letters : Exists(l) => InOrder(letter[l])
  /\ ShownIsPublished

\* What a handler may do to a record it replaces.
Change(l) ==
  /\ InOrder(letter'[l])
  /\ letter'[l] # Nil
  /\ Exists(l) /\ Public(letter[l]) => Public(letter'[l])
  /\ letter'[l].voulenteer_id # Nil => Public(letter'[l])

\* What a whole step may do to the letters.
LettersChange ==
  /\ letter' \in [Letters -> LetterRecord \cup {Nil}]
  /\ \A l \in Letters : letter'[l] = letter[l] \/ Change(l)
  /\ PagesShown

\* Replacing one record by one in order is such a step.
LEMMA PutsChanges ==
  ASSUME DeskInv, NEW l \in Letters, NEW r, Puts(l, r), InOrder(r),
         Exists(l) /\ Public(letter[l]) => Public(r),
         r.voulenteer_id # Nil => Public(r)
  PROVE  LettersChange /\ letter'[l] = r
<1>1. letter \in [Letters -> LetterRecord \cup {Nil}]
  BY DEF DeskInv, TypeOK
<1>2. letter' = [letter EXCEPT ![l] = r] /\ PagesShown
  BY DEF Puts
<1>3. r \in LetterRecord
  BY DEF InOrder
<1>4. /\ letter' \in [Letters -> LetterRecord \cup {Nil}]
      /\ letter'[l] = r
      /\ \A m \in Letters : m # l => letter'[m] = letter[m]
  BY <1>1, <1>2, <1>3
<1>5. Change(l)
  BY <1>4, RecordIsNotNil DEF Change
<1>. QED
  BY <1>2, <1>4, <1>5 DEF LettersChange

\* The letters' part of the invariant survives every such step.
LEMMA ChangeKeepsLetters ==
  ASSUME DeskInv, LettersChange
  PROVE  /\ letter' \in [Letters -> LetterRecord \cup {Nil}]
         /\ forms' \in SUBSET Forms
         /\ \A l \in Letters : Exists(l)' => InOrder(letter'[l])
         /\ ShownIsPublished'
<1>1. /\ letter' \in [Letters -> LetterRecord \cup {Nil}]
      /\ \A l \in Letters : letter'[l] = letter[l] \/ Change(l)
      /\ PagesShown
  BY DEF LettersChange
<1>2. forms' \in SUBSET Forms
  BY <1>1 DEF DeskInv, TypeOK, PagesShown
<1>3. ASSUME NEW l \in Letters, Exists(l)'
      PROVE  InOrder(letter'[l])
  BY <1>1, <1>3 DEF DeskInv, Change, Exists
<1>4. ASSUME NEW l \in Letters,
             IsHeld(l)' \/ \E v \in Volunteers, k \in FormKinds : <<v, l, k>> \in forms'
      PROVE  Exists(l)' /\ Public(letter'[l])
  <2>1. CASE IsHeld(l)'
    BY <1>1, <2>1 DEF IsHeld, Exists, Change, DeskInv, ShownIsPublished, Public
  <2>2. CASE Shown(l)
    BY <1>1, <2>2 DEF Shown, Exists, Change, DeskInv, ShownIsPublished, Public
  <2>3. ASSUME NEW v \in Volunteers, NEW k \in FormKinds,
               <<v, l, k>> \in forms', <<v, l, k>> \notin forms
        PROVE  Exists(l)' /\ Public(letter'[l])
    <3>1. letter'[l] # Nil /\ k \in FormsFor(letter'[l], v)
      BY <1>1, <2>3 DEF PagesShown
    <3>2. InOrder(letter'[l])
      BY <1>3, <3>1 DEF Exists
    <3>3. Public(letter'[l]) \/ letter'[l].voulenteer_id # Nil
      BY <3>1, <3>2, FormsNeedPublic
    <3>. QED
      BY <2>1, <3>1, <3>3 DEF IsHeld, Exists
  <2>. QED
    BY <1>4, <2>1, <2>2, <2>3 DEF Shown
<1>. QED
  BY <1>1, <1>2, <1>3, <1>4 DEF ShownIsPublished, Public

-----------------------------------------------------------------------------
(***************************************************************************)
(* One lemma per handler.                                                  *)
(***************************************************************************)

LEMMA FileUploadChanges ==
  ASSUME DeskInv, NEW e \in Employees, NEW l \in Letters, NEW type \in TransTypes,
         FileUpload(e, l, type)
  PROVE  LettersChange
<1>. DEFINE r == NewLetter(e, type, today)
<1>1. InOrder(r)
  BY NewLetterInOrder DEF DeskInv, TypeOK
<1>2. r.voulenteer_id = Nil
  BY DEF NewLetter
<1>. QED
  BY <1>1, <1>2, PutsChanges DEF FileUpload

LEMMA UpdateLetterChanges ==
  ASSUME DeskInv, NEW e \in Employees, NEW l \in Letters,
         NEW days \in ReturnDays \cup {Nil}, UpdateLetter(e, l, days)
  PROVE  LettersChange
<1>. DEFINE r == Published(letter[l], days)
<1>1. InOrder(letter[l])
  BY DEF UpdateLetter, DeskInv
<1>2. InOrder(r)
  BY <1>1, PublishedInOrder
<1>3. Public(r)
  BY <1>1 DEF Published, Public, InOrder, LetterRecord
<1>. QED
  BY <1>2, <1>3, PutsChanges DEF UpdateLetter

LEMMA DeleteLetterChanges ==
  ASSUME DeskInv, NEW e \in Employees, NEW l \in Letters, DeleteLetter(e, l)
  PROVE  LettersChange
<1>. DEFINE r == Deleted(letter[l])
<1>1. InOrder(letter[l])
  BY DEF DeleteLetter, DeskInv
<1>2. InOrder(r)
  BY <1>1, DeletedInOrder
<1>3. Public(r)
  BY <1>1 DEF Deleted, Public, InOrder, LetterRecord
<1>. QED
  BY <1>2, <1>3, PutsChanges DEF DeleteLetter

\* What a submitted form tells the handler about its letter.
LEMMA FormMeansPublic ==
  ASSUME DeskInv, NEW v \in Volunteers, NEW l \in Letters, NEW k \in FormKinds,
         <<v, l, k>> \in forms
  PROVE  Exists(l) /\ InOrder(letter[l]) /\ Public(letter[l])
BY DEF DeskInv, ShownIsPublished, Public

LEMMA ClaimLetterChanges ==
  ASSUME DeskInv, NEW v \in Volunteers, NEW l \in Letters,
         NEW day \in RubyDates(today), ClaimLetter(v, l, day)
  PROVE  LettersChange
<1>. DEFINE r == Claimed(letter[l], v, day)
<1>1. Exists(l) /\ InOrder(letter[l]) /\ Public(letter[l])
  BY FormMeansPublic DEF ClaimLetter, FormKinds
<1>2. day \in Int
  BY DEF DeskInv, TypeOK, RubyDates
<1>3. InOrder(r)
  BY <1>1, <1>2, ClaimedInOrder
<1>4. Public(r)
  BY <1>1 DEF Claimed, Public, InOrder, LetterRecord
<1>. QED
  BY <1>3, <1>4, PutsChanges DEF ClaimLetter

LEMMA ReturnLetterChanges ==
  ASSUME DeskInv, NEW v \in Volunteers, NEW l \in Letters, ReturnLetter(v, l)
  PROVE  LettersChange
<1>. DEFINE r == GivenBack(letter[l])
<1>1. Exists(l) /\ InOrder(letter[l]) /\ Public(letter[l])
  BY FormMeansPublic DEF ReturnLetter, FormKinds
<1>2. InOrder(r)
  BY <1>1, GivenBackInOrder
<1>3. Public(r)
  BY <1>1 DEF GivenBack, Public, InOrder, LetterRecord
<1>. QED
  BY <1>2, <1>3, PutsChanges DEF ReturnLetter

LEMMA ReturnFileUploadChanges ==
  ASSUME DeskInv, NEW v \in Volunteers, NEW l \in Letters, ReturnFileUpload(v, l)
  PROVE  LettersChange
<1>. DEFINE r == Uploaded(letter[l], v, today)
<1>1. Exists(l) /\ InOrder(letter[l]) /\ Public(letter[l])
  BY FormMeansPublic DEF ReturnFileUpload, FormKinds
<1>2. InOrder(r)
  BY <1>1, UploadedInOrder DEF ReturnFileUpload, DeskInv, TypeOK
<1>3. Public(r)
  BY <1>1 DEF Uploaded, Public, InOrder, LetterRecord
<1>. QED
  BY <1>2, <1>3, PutsChanges DEF ReturnFileUpload

LEMMA ReUploadChanges ==
  ASSUME DeskInv, NEW v \in Volunteers, NEW l \in Letters, ReUpload(v, l)
  PROVE  LettersChange
<1>. DEFINE r == ReUploadAsked(letter[l])
<1>1. Exists(l) /\ InOrder(letter[l]) /\ Public(letter[l])
  BY FormMeansPublic DEF ReUpload, FormKinds
<1>2. InOrder(r)
  BY <1>1, ReUploadAskedInOrder
<1>3. Public(r)
  BY <1>1 DEF ReUploadAsked, Public, InOrder, LetterRecord
<1>. QED
  BY <1>2, <1>3, PutsChanges DEF ReUpload

\* The three jobs replace the records they select.
LEMMA MarkDueLettersChanges ==
  ASSUME DeskInv, MarkDueLetters
  PROVE  LettersChange
<1>1. ASSUME NEW l \in Letters, l \in DueLetters
      PROVE  /\ InOrder(MarkedDue(letter[l]))
             /\ Public(MarkedDue(letter[l]))
             /\ MarkedDue(letter[l]) # Nil
  <2>1. InOrder(letter[l])
    BY <1>1 DEF DeskInv, DueLetters
  <2>2. InOrder(MarkedDue(letter[l]))
    BY <2>1, MarkedDueInOrder
  <2>3. Public(MarkedDue(letter[l]))
    BY <2>1 DEF MarkedDue, Public, InOrder, LetterRecord
  <2>. QED
    BY <2>2, <2>3, RecordIsNotNil
<1>2. ASSUME NEW l \in Letters
      PROVE  letter'[l] = IF l \in DueLetters THEN MarkedDue(letter[l]) ELSE letter[l]
  BY DEF MarkDueLetters
<1>3. ASSUME NEW l \in Letters
      PROVE  /\ letter'[l] = letter[l] \/ Change(l)
             /\ letter'[l] \in LetterRecord \cup {Nil}
  BY <1>1, <1>2 DEF Change, InOrder, DeskInv, TypeOK
<1>. QED
  BY <1>3 DEF LettersChange, MarkDueLetters

LEMMA MarkOldLettersChanges ==
  ASSUME DeskInv, MarkOldLetters
  PROVE  LettersChange
<1>1. ASSUME NEW l \in Letters, l \in OldLetters
      PROVE  /\ InOrder(MarkedOld(letter[l]))
             /\ MarkedOld(letter[l]).voulenteer_id = Nil
             /\ Public(letter[l]) => Public(MarkedOld(letter[l]))
             /\ MarkedOld(letter[l]) # Nil
  <2>1. InOrder(letter[l]) /\ letter[l].status = "unclaimed"
    BY <1>1 DEF DeskInv, OldLetters, OldOn
  <2>2. InOrder(MarkedOld(letter[l]))
    BY <2>1, MarkedOldInOrder
  <2>3. /\ MarkedOld(letter[l]).voulenteer_id = Nil
        /\ Public(letter[l]) => Public(MarkedOld(letter[l]))
    BY <2>1 DEF MarkedOld, Public, InOrder, LetterRecord, CustodyAgrees
  <2>. QED
    BY <2>2, <2>3, RecordIsNotNil
<1>2. ASSUME NEW l \in Letters
      PROVE  letter'[l] = IF l \in OldLetters THEN MarkedOld(letter[l]) ELSE letter[l]
  BY DEF MarkOldLetters
<1>3. ASSUME NEW l \in Letters
      PROVE  /\ letter'[l] = letter[l] \/ Change(l)
             /\ letter'[l] \in LetterRecord \cup {Nil}
  BY <1>1, <1>2 DEF Change, InOrder, DeskInv, TypeOK
<1>. QED
  BY <1>3 DEF LettersChange, MarkOldLetters

LEMMA DueReminderChanges ==
  ASSUME DeskInv, DueReminder
  PROVE  LettersChange
<1>1. ASSUME NEW l \in Letters, Exists(l), letter'[l] = Reminded(letter[l])
      PROVE  Change(l)
  <2>1. InOrder(letter[l])
    BY <1>1 DEF DeskInv
  <2>2. InOrder(Reminded(letter[l]))
    BY <2>1, RemindedInOrder
  <2>3. /\ Reminded(letter[l]).voulenteer_id = letter[l].voulenteer_id
        /\ Public(Reminded(letter[l])) = Public(letter[l])
    BY <2>1 DEF Reminded, Public, InOrder, LetterRecord
  <2>4. letter[l].voulenteer_id # Nil => Public(letter[l])
    BY <1>1 DEF DeskInv, ShownIsPublished, IsHeld, Public
  <2>. QED
    BY <1>1, <2>2, <2>3, <2>4, RecordIsNotNil DEF Change
<1>2. ASSUME NEW l \in Letters
      PROVE  letter'[l] = IF Exists(l) /\ RemindOn(letter[l], today)
                            THEN Reminded(letter[l]) ELSE letter[l]
  BY DEF DueReminder
<1>3. ASSUME NEW l \in Letters
      PROVE  /\ letter'[l] = letter[l] \/ Change(l)
             /\ letter'[l] \in LetterRecord \cup {Nil}
  BY <1>1, <1>2 DEF Change, InOrder, DeskInv, TypeOK
<1>. QED
  BY <1>3 DEF LettersChange, DueReminder

\* Every step but a new day changes the letters in this way.
LEMMA NextChanges ==
  ASSUME DeskInv, Next
  PROVE  NextDay \/ LettersChange
<1>1. CASE NextDay
  BY <1>1
<1>2. CASE EmployeeStep
  BY <1>2, FileUploadChanges, UpdateLetterChanges, DeleteLetterChanges
     DEF EmployeeStep
<1>3. CASE VolunteerStep
  BY <1>3, ClaimLetterChanges, ReturnLetterChanges, ReturnFileUploadChanges,
     ReUploadChanges DEF VolunteerStep
<1>4. CASE JobStep
  BY <1>4, MarkDueLettersChanges, MarkOldLettersChanges, DueReminderChanges
     DEF JobStep
<1>. QED
  BY <1>1, <1>2, <1>3, <1>4 DEF Next
-----------------------------------------------------------------------------
(***************************************************************************)
(* The invariant.                                                          *)
(***************************************************************************)

LEMMA InitDeskInv == Init => DeskInv
<1>. SUFFICES ASSUME Init PROVE DeskInv
  OBVIOUS
<1>1. TypeOK
  <2>1. letter \in [Letters -> LetterRecord \cup {Nil}]
    BY DEF Init
  <2>2. jobs \in [Volunteers -> Int]
    BY DEF Init
  <2>. QED
    BY <2>1, <2>2 DEF Init, TypeOK
<1>2. \A l \in Letters : ~ Exists(l)
  BY DEF Init, Exists
<1>3. ShownIsPublished
  BY <1>2 DEF Init, ShownIsPublished, IsHeld
<1>. QED
  BY <1>1, <1>2, <1>3 DEF DeskInv

\* The records a job or a return adds to the logs are of their type.
LEMMA LogTypes ==
  ASSUME DeskInv, NEW l \in Letters, Exists(l)
  PROVE  /\ DueLogOf(l) \in DueLog
         /\ \A v \in Volunteers : VouLogOf(v, l) \in VouLog
<1>1. letter[l] \in LetterRecord
  BY DEF DeskInv, InOrder
<1>. QED
  BY <1>1 DEF DueLogOf, DueLog, VouLogOf, VouLog, LetterRecord

\* Type correctness of what is not a letter or a form.
LEMMA RestKeepsType ==
  ASSUME DeskInv, Next
  PROVE  /\ today' \in Nat
         /\ jobs' \in [Volunteers -> Int]
         /\ vou_logs' \in SUBSET VouLog
         /\ due_logs' \in SUBSET DueLog
         /\ swept' \in BOOLEAN
<1>. USE DEF DeskInv, TypeOK
<1>1. CASE NextDay
  <2>1. today' \in Nat
    BY <1>1 DEF NextDay
  <2>2. swept' = FALSE /\ UNCHANGED <<jobs, vou_logs, due_logs>>
    BY <1>1 DEF NextDay
  <2>. QED
    BY <2>1, <2>2
<1>2. CASE EmployeeStep
  <2>1. UNCHANGED <<today, jobs, vou_logs, due_logs, swept>>
    BY <1>2 DEF EmployeeStep, FileUpload, UpdateLetter, DeleteLetter
  <2>. QED
    BY <2>1
<1>3. ASSUME NEW v \in Volunteers, Credits(v)
      PROVE  jobs' \in [Volunteers -> Int]
  BY <1>3 DEF Credits
<1>4. ASSUME NEW v \in Volunteers, NEW l \in Letters, ReturnLetter(v, l)
      PROVE  /\ jobs' \in [Volunteers -> Int]
             /\ vou_logs' \in SUBSET VouLog
             /\ UNCHANGED <<today, due_logs, swept>>
  <2>1. Exists(l)
    BY <1>4, FormMeansPublic DEF ReturnLetter, FormKinds
  <2>. QED
    BY <1>3, <1>4, <2>1, LogTypes DEF ReturnLetter
<1>5. ASSUME NEW v \in Volunteers, NEW l \in Letters, ReturnFileUpload(v, l)
      PROVE  /\ jobs' \in [Volunteers -> Int]
             /\ UNCHANGED <<today, vou_logs, due_logs, swept>>
  <2>1. Exists(l) /\ InOrder(letter[l])
    BY <1>5, FormMeansPublic DEF ReturnFileUpload, FormKinds
  <2>2. letter[l].voulenteer_account \in Volunteers
    BY <1>5, <2>1 DEF ReturnFileUpload, InOrder, LetterRecord
  <2>. QED
    BY <1>3, <1>5, <2>2 DEF ReturnFileUpload
<1>6. CASE VolunteerStep
  BY <1>4, <1>5, <1>6 DEF VolunteerStep, ClaimLetter, ReUpload
<1>7. CASE MarkDueLetters
  BY <1>7, LogTypes DEF MarkDueLetters, DueLetters
<1>8. CASE MarkOldLetters \/ DueReminder
  BY <1>8 DEF MarkOldLetters, DueReminder
<1>. QED
  BY <1>1, <1>2, <1>6, <1>7, <1>8 DEF Next, JobStep

LEMMA NextDeskInv == DeskInv /\ [Next]_vars => DeskInv'
<1>. SUFFICES ASSUME DeskInv, [Next]_vars PROVE DeskInv'
  OBVIOUS
<1>1. CASE Next
  <2>1. CASE LettersChange
    BY <1>1, <2>1, ChangeKeepsLetters, RestKeepsType DEF DeskInv, TypeOK
  <2>2. CASE NextDay
    <3>1. UNCHANGED <<letter, forms>>
      BY <2>2 DEF NextDay
    <3>. QED
      BY <1>1, <3>1, RestKeepsType
         DEF DeskInv, TypeOK, Exists, ShownIsPublished, IsHeld
  <2>. QED
    BY <1>1, <2>1, <2>2, NextChanges
<1>2. CASE UNCHANGED vars
  BY <1>2 DEF vars, DeskInv, TypeOK, Exists, ShownIsPublished, IsHeld
<1>. QED
  BY <1>1, <1>2

LEMMA DeskInvariant == Spec => []DeskInv
BY InitDeskInv, NextDeskInv, PTL DEF Spec

\* Every variable keeps its type.
THEOREM TypeCorrect == Spec => []TypeOK
<1>1. DeskInv => TypeOK
  BY DEF DeskInv
<1>. QED
  BY <1>1, DeskInvariant, PTL

\* The fields of every letter agree at all times: whichever handlers, pages
\* and jobs have worked on it, it is held by somebody, has a claim date, a
\* due date and a status that says so, or none of these.
THEOREM RecordsAlwaysAgree == Spec => []RecordsAgree
<1>1. DeskInv => RecordsAgree
  BY DEF DeskInv, RecordsAgree, InOrder
<1>. QED
  BY <1>1, DeskInvariant, PTL

\* The page never offers a letter the claim handler would turn down, unless
\* somebody claims it in between.
THEOREM OfferedAlwaysClaimable == Spec => []OfferedIsClaimable
<1>1. DeskInv => OfferedIsClaimable
  BY DEF DeskInv, OfferedIsClaimable, InOrder, CustodyAgrees, Offered, Claimable
<1>. QED
  BY <1>1, DeskInvariant, PTL

\* No draft is ever shown to a volunteer or held by one.
THEOREM ShownAlwaysPublished == Spec => []ShownIsPublished
<1>1. DeskInv => ShownIsPublished
  BY DEF DeskInv
<1>. QED
  BY <1>1, DeskInvariant, PTL
-----------------------------------------------------------------------------
(***************************************************************************)
(* The desk implements LetterCustody: the steps as a whole.  What each     *)
(* handler's record means there is shown in LetterEntityProofs.            *)
(***************************************************************************)
\* What a whole step does to every letter, seen as custody.
AllKeep == \A l \in Letters : Keeps(letter[l], letter'[l])

LEMMA PutsKeep ==
  ASSUME DeskInv, NEW l \in Letters, NEW r, Puts(l, r), Keeps(letter[l], r)
  PROVE  AllKeep
<1>1. letter \in [Letters -> LetterRecord \cup {Nil}]
  BY DEF DeskInv, TypeOK
<1>2. letter'[l] = r /\ \A m \in Letters : m # l => letter'[m] = letter[m]
  BY <1>1 DEF Puts
<1>. QED
  BY <1>2, KeepsSame DEF AllKeep

LEMMA EmployeeStepKeeps ==
  ASSUME DeskInv, EmployeeStep
  PROVE  AllKeep
<1>1. PICK e \in Employees, l \in Letters :
        \/ \E type \in TransTypes : FileUpload(e, l, type)
        \/ \E days \in ReturnDays \cup {Nil} : UpdateLetter(e, l, days)
        \/ DeleteLetter(e, l)
  BY DEF EmployeeStep
<1>2. ASSUME NEW type \in TransTypes, FileUpload(e, l, type)
      PROVE  AllKeep
  <2>1. letter[l] = Nil /\ Puts(l, NewLetter(e, type, today))
    BY <1>2 DEF FileUpload, Exists
  <2>2. today \in Int
    BY DEF DeskInv, TypeOK
  <2>3. Keeps(letter[l], NewLetter(e, type, today))
    BY <2>1, <2>2, NewLetterMoves
  <2>. QED
    BY <2>1, <2>3, PutsKeep
<1>3. ASSUME NEW days \in ReturnDays \cup {Nil}, UpdateLetter(e, l, days)
      PROVE  AllKeep
  <2>1. InOrder(letter[l]) /\ Puts(l, Published(letter[l], days))
    BY <1>3 DEF UpdateLetter, DeskInv
  <2>. QED
    BY <2>1, PublishedMoves, PutsKeep
<1>4. CASE DeleteLetter(e, l)
  <2>1. InOrder(letter[l]) /\ Puts(l, Deleted(letter[l]))
    BY <1>4 DEF DeleteLetter, DeskInv
  <2>2. letter[l].claim_date = Nil
    BY <1>4 DEF DeleteLetter, Deletable
  <2>. QED
    BY <2>1, <2>2, DeletedMoves, PutsKeep
<1>. QED
  BY <1>1, <1>2, <1>3, <1>4

LEMMA VolunteerStepKeeps ==
  ASSUME DeskInv, VolunteerStep
  PROVE  AllKeep
<1>1. PICK v \in Volunteers, l \in Letters :
        \/ \E day \in RubyDates(today) : ClaimLetter(v, l, day)
        \/ ReturnLetter(v, l)
        \/ ReturnFileUpload(v, l)
        \/ ReUpload(v, l)
  BY DEF VolunteerStep
<1>2. /\ Exists(l) /\ InOrder(letter[l]) /\ Public(letter[l])
      /\ today \in Int
      /\ RubyDates(today) \subseteq Int
  BY <1>1, FormMeansPublic
     DEF ClaimLetter, ReturnLetter, ReturnFileUpload, ReUpload, FormKinds,
         DeskInv, TypeOK, RubyDates
<1>3. ASSUME NEW day \in RubyDates(today), ClaimLetter(v, l, day)
      PROVE  AllKeep
  <2>1. Claimable(letter[l]) /\ Puts(l, Claimed(letter[l], v, day)) /\ day \in Int
    BY <1>2, <1>3 DEF ClaimLetter
  <2>. QED
    BY <1>2, <2>1, ClaimedMoves, PutsKeep
<1>4. CASE ReturnLetter(v, l)
  BY <1>2, <1>4, GivenBackMoves, PutsKeep DEF ReturnLetter
<1>5. CASE ReturnFileUpload(v, l)
  BY <1>2, <1>5, UploadedMoves, PutsKeep DEF ReturnFileUpload
<1>6. CASE ReUpload(v, l)
  BY <1>2, <1>6, FlagsMove, PutsKeep DEF ReUpload
<1>. QED
  BY <1>1, <1>3, <1>4, <1>5, <1>6

\* What the due job takes back is held and public.
LEMMA DueIsHeld ==
  ASSUME DeskInv, NEW l \in DueLetters
  PROVE  /\ Exists(l) /\ InOrder(letter[l]) /\ Public(letter[l])
         /\ letter[l].voulenteer_id # Nil
         /\ letter[l].due_date # Nil
<1>1. Exists(l) /\ InOrder(letter[l]) /\ letter[l].due_date # Nil
  BY DEF DeskInv, DueLetters, DueOn, PastDue
<1>2. letter[l].voulenteer_id # Nil
  BY <1>1 DEF InOrder, CustodyAgrees
<1>. QED
  BY <1>1, <1>2 DEF DeskInv, ShownIsPublished, IsHeld, Public, DueLetters

LEMMA JobStepKeeps ==
  ASSUME DeskInv, JobStep
  PROVE  AllKeep
<1>1. CASE MarkDueLetters
  <2>1. ASSUME NEW l \in Letters
        PROVE  Keeps(letter[l], letter'[l])
    <3>1. CASE l \in DueLetters
      <4>1. letter'[l] = MarkedDue(letter[l])
        BY <1>1, <3>1 DEF MarkDueLetters
      <4>. QED
        BY <3>1, <4>1, DueIsHeld, MarkedDueMoves
    <3>2. CASE l \notin DueLetters
      BY <1>1, <3>2, KeepsSame DEF MarkDueLetters
    <3>. QED
      BY <3>1, <3>2
  <2>. QED
    BY <2>1 DEF AllKeep
<1>2. CASE MarkOldLetters
  <2>1. ASSUME NEW l \in Letters
        PROVE  Keeps(letter[l], letter'[l])
    <3>1. CASE l \in OldLetters
      <4>1. letter'[l] = MarkedOld(letter[l])
        BY <1>2, <3>1 DEF MarkOldLetters
      <4>2. InOrder(letter[l]) /\ letter[l].status = "unclaimed"
        BY <3>1 DEF DeskInv, OldLetters, OldOn
      <4>. QED
        BY <4>1, <4>2, MarkedOldMoves
    <3>2. CASE l \notin OldLetters
      BY <1>2, <3>2, KeepsSame DEF MarkOldLetters
    <3>. QED
      BY <3>1, <3>2
  <2>. QED
    BY <2>1 DEF AllKeep
<1>3. CASE DueReminder
  <2>1. ASSUME NEW l \in Letters
        PROVE  Keeps(letter[l], letter'[l])
    <3>1. CASE Exists(l) /\ letter'[l] = Reminded(letter[l])
      BY <3>1, FlagsMove DEF DeskInv
    <3>2. CASE letter'[l] = letter[l]
      BY <3>2, KeepsSame
    <3>. QED
      BY <1>3, <3>1, <3>2 DEF DueReminder
  <2>. QED
    BY <2>1 DEF AllKeep
<1>. QED
  BY <1>1, <1>2, <1>3 DEF JobStep

LEMMA NextKeeps ==
  ASSUME DeskInv, [Next]_vars
  PROVE  AllKeep
<1>1. CASE NextDay \/ UNCHANGED vars
  BY <1>1, KeepsSame DEF NextDay, vars, AllKeep
<1>2. CASE EmployeeStep \/ VolunteerStep \/ JobStep
  BY <1>2, EmployeeStepKeeps, VolunteerStepKeeps, JobStepKeeps
<1>. QED
  BY <1>1, <1>2 DEF Next

LEMMA SameLife == \A c, d : C!Moves(c, d) <=> Life!Moves(c, d)
BY DEF C!Moves, C!Arrives, C!Fresh, C!Opens, C!Withdrawn, C!Taken, C!Delivered,
       C!Released, C!GrowsUrgent,
       Life!Moves, Life!Arrives, Life!Fresh, Life!Opens, Life!Withdrawn, Life!Taken,
       Life!Delivered, Life!Released, Life!GrowsUrgent

\* Through the refinement mapping CustodyOf, every behaviour of the desk is a
\* behaviour of LetterCustody: each handler, whatever stale page it acts on,
\* moves each letter one step along the life cycle or leaves it alone.
THEOREM DeskImplementsCustody == Spec => ImplementsCustody
<1>1. Init => C!Init
  BY DEF Init, C!Init
<1>2. ASSUME DeskInv, [Next]_vars
      PROVE  C!Next
  <2>1. ASSUME NEW l \in Letters
        PROVE  Keeps(letter[l], letter'[l])
    BY <1>2, NextKeeps DEF AllKeep
  <2>. QED
    BY <2>1, SameLife DEF Keeps, CustodyOrNil, C!Next
<1>. QED
  BY <1>1, <1>2, DeskInvariant, PTL DEF Spec, ImplementsCustody, C!Spec
-----------------------------------------------------------------------------
(***************************************************************************)
(* What a step may not do to a letter in somebody's hands.                 *)
(***************************************************************************)

\* A letter that exists still does after a step.
LEMMA ExistsStays ==
  ASSUME DeskInv, [Next]_vars, NEW l \in Letters, Exists(l)
  PROVE  letter'[l] # Nil /\ InOrder(letter'[l])
<1>1. DeskInv'
  BY NextDeskInv
<1>2. letter'[l] = letter[l] \/ Change(l)
  BY NextChanges DEF NextDay, vars, LettersChange
<1>. QED
  BY <1>1, <1>2 DEF Exists, Change, DeskInv


\* No handler hands a letter from one volunteer to another.
THEOREM NeverHandedOver == Spec => NoHandover
<1>1. ASSUME DeskInv, [Next]_vars, NEW l \in Letters, IsHeld(l), IsHeld(l)'
      PROVE  letter'[l].voulenteer_id = letter[l].voulenteer_id
  <2>1. InOrder(letter[l]) /\ InOrder(letter'[l]) /\ Keeps(letter[l], letter'[l])
    BY <1>1, ExistsStays, NextKeeps DEF DeskInv, IsHeld, AllKeep
  <2>. QED
    BY <1>1, <2>1, HeldMoves DEF IsHeld, Exists
<1>. DEFINE Step == \A l \in Letters :
                      IsHeld(l) /\ IsHeld(l)'
                        => letter'[l].voulenteer_id = letter[l].voulenteer_id
<1>2. DeskInv /\ [Next]_vars => [Step]_vars
  BY <1>1
<1>. QED
  BY <1>2, DeskInvariant, PTL DEF Spec, NoHandover

\* A letter out of a volunteer's hands is on offer again at once, as urgent.
THEOREM ReleasedAlwaysOffered == Spec => ReleasedIsOfferedAgain
<1>1. ASSUME DeskInv, [Next]_vars, NEW l \in Letters,
             IsHeld(l), ~ IsHeld(l)', ~ letter[l].deleted
      PROVE  Offered(letter'[l]) /\ letter'[l].status = "emergent"
  <2>1. /\ InOrder(letter[l]) /\ InOrder(letter'[l]) /\ letter'[l] # Nil
        /\ Keeps(letter[l], letter'[l])
    BY <1>1, ExistsStays, NextKeeps DEF DeskInv, IsHeld, AllKeep
  <2>2. letter[l].show
    BY <1>1 DEF DeskInv, ShownIsPublished
  <2>3. letter'[l].voulenteer_id = Nil
    BY <1>1, <2>1 DEF IsHeld, Exists
  <2>4. /\ letter'[l].status = "emergent"
        /\ CustodyOf(letter'[l]).stage = CustodyOf(letter[l]).stage
    BY <1>1, <2>1, <2>3, HeldMoves DEF IsHeld
  <2>5. letter'[l].show /\ ~ letter'[l].deleted
    BY <1>1, <2>1, <2>2, <2>4 DEF CustodyOf, InOrder, LetterRecord
  <2>6. letter'[l].due_date = Nil
    BY <2>1, <2>3 DEF InOrder, CustodyAgrees
  <2>. QED
    BY <2>4, <2>5, <2>6 DEF Offered
<1>. DEFINE Step == \A l \in Letters :
                      IsHeld(l) /\ ~ IsHeld(l)' /\ ~ letter[l].deleted
                        => /\ Offered(letter'[l])
                           /\ letter'[l].status = "emergent"
<1>2. DeskInv /\ [Next]_vars => [Step]_vars
  BY <1>1
<1>. QED
  BY <1>2, DeskInvariant, PTL DEF Spec, ReleasedIsOfferedAgain

\* Only two steps take a letter out of a volunteer's hands.
LEMMA WhatReleases ==
  ASSUME DeskInv, [Next]_vars, NEW l \in Letters, IsHeld(l), ~ IsHeld(l)'
  PROVE  \/ \E v \in Volunteers : ReturnLetter(v, l)
         \/ MarkDueLetters /\ l \in DueLetters
<1>1. /\ InOrder(letter[l]) /\ letter[l] # Nil /\ letter'[l] # Nil
      /\ letter[l].voulenteer_id # Nil
      /\ letter'[l].voulenteer_id = Nil
  BY ExistsStays DEF DeskInv, IsHeld, Exists
<1>2. letter \in [Letters -> LetterRecord \cup {Nil}]
  BY DEF DeskInv, TypeOK
<1>3. ASSUME NEW m \in Letters, NEW r, Puts(m, r),
             m = l => r.voulenteer_id = letter[l].voulenteer_id
      PROVE  FALSE
  BY <1>1, <1>2, <1>3 DEF Puts
<1>4. CASE NextDay \/ UNCHANGED vars
  BY <1>1, <1>4 DEF NextDay, vars
<1>5. CASE EmployeeStep
  <2>1. PICK e \in Employees, m \in Letters :
          \/ \E type \in TransTypes : FileUpload(e, m, type)
          \/ \E days \in ReturnDays \cup {Nil} : UpdateLetter(e, m, days)
          \/ DeleteLetter(e, m)
    BY <1>5 DEF EmployeeStep
  <2>2. ASSUME NEW type \in TransTypes, FileUpload(e, m, type)
        PROVE  FALSE
    BY <1>1, <1>3, <2>2 DEF FileUpload, Exists
  <2>3. ASSUME NEW days \in ReturnDays \cup {Nil}, UpdateLetter(e, m, days)
        PROVE  FALSE
    <3>1. Published(letter[l], days).voulenteer_id = letter[l].voulenteer_id
      BY <1>1 DEF InOrder, LetterRecord, Published
    <3>. QED
      BY <1>3, <2>3, <3>1 DEF UpdateLetter
  <2>4. ASSUME DeleteLetter(e, m)
        PROVE  FALSE
    <3>1. Deleted(letter[l]).voulenteer_id = letter[l].voulenteer_id
      BY <1>1 DEF InOrder, LetterRecord, Deleted
    <3>. QED
      BY <1>3, <2>4, <3>1 DEF DeleteLetter
  <2>. QED
    BY <2>1, <2>2, <2>3, <2>4
<1>6. CASE VolunteerStep
  <2>1. PICK v \in Volunteers, m \in Letters :
          \/ \E day \in RubyDates(today) : ClaimLetter(v, m, day)
          \/ ReturnLetter(v, m)
          \/ ReturnFileUpload(v, m)
          \/ ReUpload(v, m)
    BY <1>6 DEF VolunteerStep
  <2>2. ASSUME NEW day \in RubyDates(today), ClaimLetter(v, m, day)
        PROVE  FALSE
    BY <1>1, <1>3, <2>2 DEF ClaimLetter, Claimable
  <2>3. ASSUME ReturnLetter(v, m)
        PROVE  m = l
    BY <1>3, <2>3 DEF ReturnLetter
  <2>4. ASSUME ReturnFileUpload(v, m)
        PROVE  FALSE
    <3>1. Uploaded(letter[l], v, today).voulenteer_id = letter[l].voulenteer_id
      BY <1>1 DEF InOrder, LetterRecord, Uploaded
    <3>. QED
      BY <1>3, <2>4, <3>1 DEF ReturnFileUpload
  <2>5. ASSUME ReUpload(v, m)
        PROVE  FALSE
    <3>1. ReUploadAsked(letter[l]).voulenteer_id = letter[l].voulenteer_id
      BY <1>1 DEF InOrder, LetterRecord, ReUploadAsked
    <3>. QED
      BY <1>3, <2>5, <3>1 DEF ReUpload
  <2>. QED
    BY <2>1, <2>2, <2>3, <2>4, <2>5
<1>7. CASE MarkDueLetters
  BY <1>1, <1>7 DEF MarkDueLetters
<1>8. CASE MarkOldLetters \/ DueReminder
  <2>1. /\ MarkedOld(letter[l]).voulenteer_id = letter[l].voulenteer_id
        /\ Reminded(letter[l]).voulenteer_id = letter[l].voulenteer_id
    BY <1>1 DEF InOrder, LetterRecord, MarkedOld, Reminded
  <2>. QED
    BY <1>1, <1>8, <2>1 DEF MarkOldLetters, DueReminder
<1>. QED
  BY <1>4, <1>5, <1>6, <1>7, <1>8 DEF Next, JobStep

\* Every release is on record: a return with the account it was taken off,
\* or a due letter, not translated, which the due job has left with its
\* volunteer for at least the days his reminder promises.
THEOREM EveryReleaseIsLogged == Spec => ReleaseIsLogged
<1>. DEFINE Logged(l) ==
              \/ \E v \in Volunteers :
                   VouLogOf(v, l) \in vou_logs' /\ jobs'[v] < jobs[v]
              \/ /\ DueLogOf(l) \in due_logs'
                 /\ letter[l].due_date + DaysPromised(letter[l]) <= today
                 /\ letter[l].return_file_url = Nil
            Step == \A l \in Letters : IsHeld(l) /\ ~ IsHeld(l)' => Logged(l)
<1>1. ASSUME DeskInv, [Next]_vars, NEW l \in Letters, IsHeld(l), ~ IsHeld(l)'
      PROVE  Logged(l)
  <2>1. ASSUME NEW v \in Volunteers, ReturnLetter(v, l)
        PROVE  VouLogOf(v, l) \in vou_logs' /\ jobs'[v] < jobs[v]
    <3>1. jobs \in [Volunteers -> Int]
      BY <1>1 DEF DeskInv, TypeOK
    <3>2. jobs'[v] = jobs[v] - 1 /\ jobs[v] \in Int
      BY <2>1, <3>1 DEF ReturnLetter, Credits
    <3>. QED
      BY <2>1, <3>2 DEF ReturnLetter
  <2>2. ASSUME MarkDueLetters, l \in DueLetters
        PROVE  /\ DueLogOf(l) \in due_logs'
               /\ letter[l].due_date + DaysPromised(letter[l]) <= today
               /\ letter[l].return_file_url = Nil
    <3>1. InOrder(letter[l]) /\ today \in Int
      BY <1>1, <2>2, DueIsHeld DEF DeskInv, TypeOK
    <3>2. letter[l].due_date + 3 <= today /\ letter[l].due_date \in Int
      BY <2>2, <3>1, EntityAssumption, DueOnMeansThreeDays
         DEF DueLetters, DueOn, PastDue, InOrder, LetterRecord
    <3>3. letter[l].due_date + DaysPromised(letter[l]) <= today
      BY <3>1, <3>2 DEF DaysPromised
    <3>. QED
      BY <2>2, <3>3 DEF MarkDueLetters, DueLetters, DueOn, PastDue
  <2>. QED
    BY <1>1, <2>1, <2>2, WhatReleases
<1>2. DeskInv /\ [Next]_vars => [Step]_vars
  <2>. HIDE DEF Logged
  <2>. QED
    BY <1>1
<1>. QED
  BY <1>2, DeskInvariant, PTL DEF Spec, ReleaseIsLogged

-----------------------------------------------------------------------------
(***************************************************************************)
(* What the due job leaves behind: once it has run, nothing untranslated   *)
(* is with a volunteer on the third day after its due date.  That it stays *)
(* so until midnight needs two more facts: every term is one an employee   *)
(* may have typed, and a claim, which may be dated the day before, is for  *)
(* that reason not three days late from the start.                         *)
(***************************************************************************)
\* On the given day the letter is translated, free, or not three days late.
Timely(r, day) ==
  r.voulenteer_id # Nil /\ r.return_file_url = Nil => day < r.due_date + 3

\* Its term is what an employee may have typed.
TermTyped(r) == r.return_days \in ReturnDays \cup {Nil}

SweepInv ==
  /\ DeskInv
  /\ \A l \in Letters : Exists(l) => TermTyped(letter[l])
  /\ SweptClean

\* What a handler other than the due job does to a letter, as far as time
\* goes: a record it writes is timely if the one it read was.
InTime(l) ==
  \/ letter'[l] = letter[l]
  \/ /\ TermTyped(letter'[l])
     /\ (Exists(l) => Timely(letter[l], today)) => Timely(letter'[l], today)

AllInTime ==
  /\ \A l \in Letters : InTime(l)
  /\ today' = today
  /\ swept' = swept

LEMMA PutsInTime ==
  ASSUME SweepInv, NEW l \in Letters, NEW r, Puts(l, r), TermTyped(r),
         (Exists(l) => Timely(letter[l], today)) => Timely(r, today)
  PROVE  \A m \in Letters : InTime(m)
<1>1. letter \in [Letters -> LetterRecord \cup {Nil}]
  BY DEF SweepInv, DeskInv, TypeOK
<1>2. letter'[l] = r /\ \A m \in Letters : m # l => letter'[m] = letter[m]
  BY <1>1 DEF Puts
<1>. QED
  BY <1>2 DEF InTime

LEMMA EmployeeInTime ==
  ASSUME SweepInv, EmployeeStep
  PROVE  AllInTime
<1>1. PICK e \in Employees, l \in Letters :
        \/ \E type \in TransTypes : FileUpload(e, l, type)
        \/ \E days \in ReturnDays \cup {Nil} : UpdateLetter(e, l, days)
        \/ DeleteLetter(e, l)
  BY DEF EmployeeStep
<1>2. ASSUME NEW type \in TransTypes, FileUpload(e, l, type)
      PROVE  AllInTime
  <2>. DEFINE r == NewLetter(e, type, today)
  <2>1. TermTyped(r) /\ Timely(r, today)
    BY DEF TermTyped, Timely, NewLetter
  <2>. QED
    BY <1>2, <2>1, PutsInTime DEF FileUpload, AllInTime
<1>3. ASSUME NEW days \in ReturnDays \cup {Nil}, UpdateLetter(e, l, days)
      PROVE  AllInTime
  <2>. DEFINE r == Published(letter[l], days)
  <2>1. InOrder(letter[l]) /\ TermTyped(letter[l]) /\ Exists(l)
    BY <1>3 DEF UpdateLetter, SweepInv, DeskInv
  <2>2. TermTyped(r)
    <3>1. r.return_days = IF days = Nil THEN letter[l].return_days ELSE days
      BY <2>1 DEF Published, InOrder, LetterRecord
    <3>. QED
      BY <2>1, <3>1 DEF TermTyped
  <2>3. Timely(letter[l], today) => Timely(r, today)
    BY <2>1 DEF Timely, Published, InOrder, LetterRecord
  <2>. QED
    BY <1>3, <2>1, <2>2, <2>3, PutsInTime DEF UpdateLetter, AllInTime
<1>4. CASE DeleteLetter(e, l)
  <2>. DEFINE r == Deleted(letter[l])
  <2>1. InOrder(letter[l]) /\ TermTyped(letter[l]) /\ Exists(l)
    BY <1>4 DEF DeleteLetter, SweepInv, DeskInv
  <2>2. TermTyped(r) /\ (Timely(letter[l], today) => Timely(r, today))
    BY <2>1 DEF Timely, TermTyped, Deleted, InOrder, LetterRecord
  <2>. QED
    BY <1>4, <2>1, <2>2, PutsInTime DEF DeleteLetter, AllInTime
<1>. QED
  BY <1>1, <1>2, <1>3, <1>4

\* A letter just claimed is not three days late, even if the claim is dated
\* the day before and its term is no days at all.
LEMMA ClaimIsTimely ==
  ASSUME ReturnDays \subseteq Nat, NEW r, InOrder(r), TermTyped(r),
         NEW v \in Volunteers, NEW now \in Int, NEW day \in RubyDates(now)
  PROVE  Timely(Claimed(r, v, day), now)
<1>1. day \in Int /\ now <= day + 1
  BY DEF RubyDates
<1>2. Term(r) \in Int /\ 0 <= Term(r) + 1
  <2>1. CASE r.return_days = Nil
    BY <2>1 DEF Term
  <2>2. CASE r.return_days # Nil
    <3>1. r.return_days \in Nat
      BY <2>2 DEF TermTyped
    <3>. QED
      BY <2>2, <3>1 DEF Term
  <2>. QED
    BY <2>1, <2>2
<1>3. Claimed(r, v, day).due_date = day + Term(r)
  BY DEF InOrder, LetterRecord, Claimed
<1>. QED
  BY <1>1, <1>2, <1>3 DEF Timely

LEMMA VolunteerInTime ==
  ASSUME ReturnDays \subseteq Nat, SweepInv, VolunteerStep
  PROVE  AllInTime
<1>1. PICK v \in Volunteers, l \in Letters :
        \/ \E day \in RubyDates(today) : ClaimLetter(v, l, day)
        \/ ReturnLetter(v, l)
        \/ ReturnFileUpload(v, l)
        \/ ReUpload(v, l)
  BY DEF VolunteerStep
<1>2. /\ Exists(l) /\ InOrder(letter[l]) /\ TermTyped(letter[l])
      /\ today \in Int
  BY <1>1, FormMeansPublic
     DEF ClaimLetter, ReturnLetter, ReturnFileUpload, ReUpload, FormKinds,
         SweepInv, DeskInv, TypeOK
<1>3. ASSUME NEW day \in RubyDates(today), ClaimLetter(v, l, day)
      PROVE  AllInTime
  <2>. DEFINE r == Claimed(letter[l], v, day)
  <2>1. TermTyped(r)
    BY <1>2 DEF TermTyped, Claimed, InOrder, LetterRecord
  <2>2. Timely(r, today)
    BY <1>2, ClaimIsTimely
  <2>. QED
    BY <1>3, <2>1, <2>2, PutsInTime DEF ClaimLetter, AllInTime
<1>4. CASE ReturnLetter(v, l)
  <2>. DEFINE r == GivenBack(letter[l])
  <2>1. TermTyped(r) /\ Timely(r, today)
    BY <1>2 DEF TermTyped, Timely, GivenBack, InOrder, LetterRecord
  <2>. QED
    BY <1>4, <2>1, PutsInTime DEF ReturnLetter, AllInTime
<1>5. CASE ReturnFileUpload(v, l)
  <2>. DEFINE r == Uploaded(letter[l], v, today)
  <2>1. r.return_file_url = v
    BY <1>2 DEF Uploaded, InOrder, LetterRecord
  <2>2. TermTyped(r) /\ Timely(r, today)
    BY <1>2, <2>1, EntityAssumption
       DEF TermTyped, Timely, Uploaded, InOrder, LetterRecord
  <2>. QED
    BY <1>5, <2>2, PutsInTime DEF ReturnFileUpload, AllInTime
<1>6. CASE ReUpload(v, l)
  <2>. DEFINE r == ReUploadAsked(letter[l])
  <2>1. TermTyped(r) /\ (Timely(letter[l], today) => Timely(r, today))
    BY <1>2 DEF TermTyped, Timely, ReUploadAsked, InOrder, LetterRecord
  <2>. QED
    BY <1>2, <1>6, <2>1, PutsInTime DEF ReUpload, AllInTime
<1>. QED
  BY <1>1, <1>3, <1>4, <1>5, <1>6

\* The old-letters job and the reminder touch neither dates nor terms.
LEMMA OtherJobsInTime ==
  ASSUME SweepInv, MarkOldLetters \/ DueReminder
  PROVE  AllInTime
<1>1. ASSUME NEW l \in Letters
      PROVE  \/ letter'[l] = letter[l]
             \/ Exists(l) /\ letter'[l] \in {MarkedOld(letter[l]), Reminded(letter[l])}
  BY DEF MarkOldLetters, OldLetters, DueReminder
<1>2. ASSUME NEW l \in Letters, letter'[l] # letter[l]
      PROVE  InTime(l)
  <2>1. Exists(l) /\ InOrder(letter[l]) /\ TermTyped(letter[l])
    BY <1>1, <1>2 DEF SweepInv, DeskInv
  <2>2. CASE letter'[l] = MarkedOld(letter[l])
    BY <2>1, <2>2 DEF InTime, TermTyped, Timely, MarkedOld, InOrder, LetterRecord
  <2>3. CASE letter'[l] = Reminded(letter[l])
    BY <2>1, <2>3 DEF InTime, TermTyped, Timely, Reminded, InOrder, LetterRecord
  <2>. QED
    BY <1>1, <1>2, <2>2, <2>3
<1>. QED
  BY <1>2 DEF AllInTime, InTime, MarkOldLetters, DueReminder

\* All that the due job leaves alone is timely, and all that it takes back.
LEMMA SweepLeavesTimely ==
  ASSUME SweepInv, MarkDueLetters, NEW l \in Letters, Exists(l)'
  PROVE  TermTyped(letter'[l]) /\ Timely(letter'[l], today)
<1>1. letter'[l] = IF l \in DueLetters THEN MarkedDue(letter[l]) ELSE letter[l]
  BY DEF MarkDueLetters
<1>2. CASE l \in DueLetters
  <2>1. InOrder(letter[l]) /\ TermTyped(letter[l])
    BY <1>2, DueIsHeld DEF SweepInv, DueLetters
  <2>. QED
    BY <1>1, <1>2, <2>1
       DEF TermTyped, Timely, MarkedDue, InOrder, LetterRecord
<1>3. CASE l \notin DueLetters
  <2>1. /\ letter'[l] = letter[l] /\ Exists(l)
        /\ InOrder(letter[l]) /\ TermTyped(letter[l])
    BY <1>1, <1>3 DEF Exists, SweepInv, DeskInv
  <2>2. ASSUME letter[l].voulenteer_id # Nil, letter[l].return_file_url = Nil
        PROVE  today < letter[l].due_date + 3
    <3>1. letter[l].due_date # Nil /\ letter[l].due_date \in Int /\ today \in Int
      BY <2>1, <2>2 DEF InOrder, CustodyAgrees, LetterRecord, SweepInv, DeskInv, TypeOK
    <3>2. ~ IsDue(letter[l].due_date, CronTime(today), 2)
      BY <1>3, <2>1, <2>2, <3>1 DEF DueLetters, DueOn, PastDue
    <3>. QED
      BY <3>1, <3>2, ThreeDaysLate
  <2>. QED
    BY <2>1, <2>2 DEF Timely
<1>. QED
  BY <1>2, <1>3

LEMMA SweepInvOfLetters ==
  SweptClean <=>
    (swept => \A l \in Letters : Exists(l) => Timely(letter[l], today))
BY DEF SweptClean, Timely, IsHeld

LEMMA NextSweepInv ==
  ASSUME ReturnDays \subseteq Nat, SweepInv, [Next]_vars
  PROVE  SweepInv'
<1>1. DeskInv'
  BY NextDeskInv DEF SweepInv
<1>2. CASE AllInTime
  <2>1. ASSUME NEW l \in Letters, Exists(l)'
        PROVE  /\ TermTyped(letter'[l])
               /\ swept' => Timely(letter'[l], today')
    BY <1>2, <2>1, SweepInvOfLetters DEF SweepInv, AllInTime, InTime, Exists
  <2>2. SweptClean'
    BY <2>1 DEF SweptClean, Timely, IsHeld
  <2>. QED
    BY <1>1, <2>1, <2>2 DEF SweepInv
<1>3. CASE MarkDueLetters
  <2>1. today' = today
    BY <1>3 DEF MarkDueLetters
  <2>2. SweptClean'
    BY <1>3, <2>1, SweepLeavesTimely DEF SweptClean, Timely, IsHeld
  <2>. QED
    BY <1>1, <1>3, <2>2, SweepLeavesTimely DEF SweepInv
<1>4. CASE NextDay
  <2>1. UNCHANGED letter /\ swept' = FALSE
    BY <1>4 DEF NextDay
  <2>. QED
    BY <1>1, <2>1 DEF SweepInv, SweptClean, Exists
<1>5. CASE UNCHANGED vars
  BY <1>1, <1>5 DEF vars, SweepInv, SweptClean, IsHeld, Exists
<1>. QED
  BY <1>2, <1>3, <1>4, <1>5, EmployeeInTime, VolunteerInTime, OtherJobsInTime
     DEF Next, JobStep

\* Once the due job has run in the morning, whatever happens during the day,
\* no untranslated letter is with a volunteer on the third day after its due
\* date: findDueLetters misses none of any number of letters, and no claim
\* dated by the Ruby clock is late from the start.
THEOREM SweepLeavesNothingLate ==
  ASSUME ReturnDays \subseteq Nat
  PROVE  Spec => []SweptClean
<1>1. Init => SweepInv
  <2>. SUFFICES ASSUME Init PROVE SweepInv
    OBVIOUS
  <2>1. ~ swept /\ \A l \in Letters : ~ Exists(l)
    BY DEF Init, Exists
  <2>. QED
    BY <2>1, InitDeskInv DEF SweepInv, SweptClean
<1>2. SweepInv /\ [Next]_vars => SweepInv'
  BY NextSweepInv
<1>3. SweepInv => SweptClean
  BY DEF SweepInv
<1>. QED
  BY <1>1, <1>2, <1>3, PTL DEF Spec
-----------------------------------------------------------------------------
(***************************************************************************)
(* Jobs against the log of returns.                                        *)
(***************************************************************************)
LogsOf(v) == {log \in vou_logs : log.voulenteer_id = v}

CreditInv ==
  /\ DeskInv
  /\ IsFiniteSet(vou_logs)
  /\ ReturnsAreCredited

LEMMA AddOne ==
  ASSUME NEW S, IsFiniteSet(S), NEW x
  PROVE  /\ Cardinality(S \cup {x}) \in Nat
         /\ Cardinality(S \cup {x}) <= Cardinality(S) + 1
<1>1. Cardinality(S) \in Nat
  BY FS_CardinalityType
<1>2. Cardinality(S \cup {x}) = IF x \in S THEN Cardinality(S) ELSE Cardinality(S) + 1
  BY FS_AddElement
<1>. QED
  BY <1>1, <1>2

\* One more log is at most one more log of anybody.
LEMMA OneMoreLog ==
  ASSUME IsFiniteSet(vou_logs), NEW log, vou_logs' = vou_logs \cup {log},
         NEW v
  PROVE  /\ IsFiniteSet(vou_logs')
         /\ Cardinality(LogsOf(v)) \in Nat
         /\ Cardinality(LogsOf(v)') \in Nat
         /\ Cardinality(LogsOf(v)') <= Cardinality(LogsOf(v)) + 1
         /\ log.voulenteer_id # v => LogsOf(v)' = LogsOf(v)
<1>1. IsFiniteSet(vou_logs')
  BY FS_AddElement
<1>2. IsFiniteSet(LogsOf(v)) /\ Cardinality(LogsOf(v)) \in Nat
  <2>1. LogsOf(v) \subseteq vou_logs
    BY DEF LogsOf
  <2>. QED
    BY <2>1, FS_Subset, FS_CardinalityType
<1>3. LogsOf(v)' = IF log.voulenteer_id = v THEN LogsOf(v) \cup {log} ELSE LogsOf(v)
  BY DEF LogsOf
<1>4. /\ Cardinality(LogsOf(v) \cup {log}) \in Nat
      /\ Cardinality(LogsOf(v) \cup {log}) <= Cardinality(LogsOf(v)) + 1
  BY <1>2, AddOne
<1>. QED
  BY <1>1, <1>2, <1>3, <1>4

LEMMA ReturnIsCredited ==
  ASSUME CreditInv, NEW u \in Volunteers, NEW l \in Letters, ReturnLetter(u, l)
  PROVE  IsFiniteSet(vou_logs') /\ ReturnsAreCredited'
<1>1. /\ jobs \in [Volunteers -> Int]
      /\ jobs' = [jobs EXCEPT ![u] = jobs[u] - 1]
      /\ vou_logs' = vou_logs \cup {VouLogOf(u, l)}
      /\ IsFiniteSet(vou_logs)
  BY DEF CreditInv, DeskInv, TypeOK, ReturnLetter, Credits
<1>2. ASSUME NEW v \in Volunteers
      PROVE  jobs'[v] + Cardinality(LogsOf(v)') <= 0
  <2>1. /\ Cardinality(LogsOf(v)) \in Nat
        /\ Cardinality(LogsOf(v)') \in Nat
        /\ Cardinality(LogsOf(v)') <= Cardinality(LogsOf(v)) + 1
        /\ v # u => LogsOf(v)' = LogsOf(v)
    <3>1. VouLogOf(u, l).voulenteer_id = u
      BY DEF VouLogOf
    <3>. HIDE DEF VouLogOf
    <3>. QED
      BY <1>1, <3>1, OneMoreLog
  <2>2. jobs[v] \in Int /\ jobs[v] + Cardinality(LogsOf(v)) <= 0
    BY <1>1 DEF CreditInv, ReturnsAreCredited, LogsOf
  <2>3. jobs'[v] = IF v = u THEN jobs[v] - 1 ELSE jobs[v]
    BY <1>1
  <2>. QED
    BY <2>1, <2>2, <2>3
<1>. QED
  BY <1>1, <1>2, OneMoreLog DEF ReturnsAreCredited, LogsOf

\* Nothing else writes the log, and jobs never goes up.
LEMMA OthersDoNotLog ==
  ASSUME CreditInv, [Next]_vars,
         ~ \E v \in Volunteers, l \in Letters : ReturnLetter(v, l)
  PROVE  /\ vou_logs' = vou_logs
         /\ \A v \in Volunteers : jobs[v] \in Int /\ jobs'[v] \in Int /\ jobs'[v] <= jobs[v]
<1>1. jobs \in [Volunteers -> Int]
  BY DEF CreditInv, DeskInv, TypeOK
<1>2. ASSUME NEW v \in Volunteers, NEW l \in Letters, ReturnFileUpload(v, l)
      PROVE  /\ vou_logs' = vou_logs
             /\ \A u \in Volunteers : jobs'[u] \in Int /\ jobs'[u] <= jobs[u]
  <2>1. Exists(l) /\ InOrder(letter[l])
    BY <1>2, FormMeansPublic DEF ReturnFileUpload, FormKinds, CreditInv
  <2>2. PICK w \in Volunteers : Credits(w)
    BY <1>2, <2>1 DEF ReturnFileUpload, InOrder, LetterRecord
  <2>3. \A u \in Volunteers : jobs'[u] = IF u = w THEN jobs[u] - 1 ELSE jobs[u]
    BY <1>1, <2>2 DEF Credits
  <2>. QED
    BY <1>1, <1>2, <2>3 DEF ReturnFileUpload
<1>3. CASE NextDay \/ EmployeeStep \/ JobStep
  <2>1. UNCHANGED <<jobs, vou_logs>>
    BY <1>3 DEF NextDay, EmployeeStep, FileUpload, UpdateLetter, DeleteLetter,
                JobStep, MarkDueLetters, MarkOldLetters, DueReminder
  <2>. QED
    BY <1>1, <2>1
<1>4. CASE VolunteerStep
  BY <1>1, <1>2, <1>4 DEF VolunteerStep, ClaimLetter, ReUpload
<1>5. CASE UNCHANGED vars
  BY <1>1, <1>5 DEF vars
<1>. QED
  BY <1>3, <1>4, <1>5 DEF Next

\* However returns, uploads and stale pages interleave, a volunteer's jobs
\* has gone down at least once for every return in the log.
THEOREM ReturnsAlwaysCredited == Spec => []ReturnsAreCredited
<1>1. Init => CreditInv
  <2>. SUFFICES ASSUME Init PROVE CreditInv
    OBVIOUS
  <2>1. vou_logs = {} /\ \A v \in Volunteers : jobs[v] = 0
    BY DEF Init
  <2>2. \A v \in Volunteers : LogsOf(v) = {}
    BY <2>1 DEF LogsOf
  <2>. QED
    BY <2>1, <2>2, InitDeskInv, FS_EmptySet
       DEF CreditInv, ReturnsAreCredited, LogsOf
<1>2. CreditInv /\ [Next]_vars => CreditInv'
  <2>. SUFFICES ASSUME CreditInv, [Next]_vars PROVE CreditInv'
    OBVIOUS
  <2>1. DeskInv'
    BY NextDeskInv DEF CreditInv
  <2>2. CASE \E v \in Volunteers, l \in Letters : ReturnLetter(v, l)
    BY <2>1, <2>2, ReturnIsCredited DEF CreditInv
  <2>3. CASE ~ \E v \in Volunteers, l \in Letters : ReturnLetter(v, l)
    <3>1. /\ vou_logs' = vou_logs
          /\ \A v \in Volunteers : jobs[v] \in Int /\ jobs'[v] \in Int /\ jobs'[v] <= jobs[v]
      BY <2>3, OthersDoNotLog
    <3>2. ASSUME NEW v \in Volunteers
          PROVE  jobs'[v] + Cardinality(LogsOf(v)') <= 0
      <4>1. LogsOf(v)' = LogsOf(v) /\ LogsOf(v) \subseteq vou_logs
        BY <3>1 DEF LogsOf
      <4>2. Cardinality(LogsOf(v)) \in Nat
        BY <4>1, FS_Subset, FS_CardinalityType DEF CreditInv
      <4>3. jobs[v] + Cardinality(LogsOf(v)) <= 0
        BY DEF CreditInv, ReturnsAreCredited, LogsOf
      <4>. QED
        BY <3>1, <4>1, <4>2, <4>3
    <3>. QED
      BY <2>1, <3>1, <3>2 DEF CreditInv, ReturnsAreCredited, LogsOf
  <2>. QED
    BY <2>2, <2>3
<1>3. CreditInv => ReturnsAreCredited
  BY DEF CreditInv
<1>. QED
  BY <1>1, <1>2, <1>3, PTL DEF Spec
-----------------------------------------------------------------------------
(***************************************************************************)
(* Who is at work.  The volunteer's page has no form to give a letter back *)
(* while a new upload is asked for.  That the administrator's page, which  *)
(* does not look at re_upload, agrees all the same needs that nothing is   *)
(* asked for again that has not come in once, though the form to ask may   *)
(* be much older than the letter's present claim.                          *)
(***************************************************************************)
Delivered(r) == r.return_file_url # Nil

AskedAfterDelivery(r) == r.re_upload => Delivered(r)

WorkInv ==
  /\ DeskInv
  /\ \A l \in Letters : Exists(l) => AskedAfterDelivery(letter[l])
  /\ \A v \in Volunteers, l \in Letters :
       <<v, l, "re_upload">> \in forms => Exists(l) /\ Delivered(letter[l])

\* What every step does to a letter, as far as translations go.
KeepsFile(l) ==
  \/ letter'[l] = letter[l]
  \/ /\ AskedAfterDelivery(letter'[l])
     /\ Exists(l) /\ Delivered(letter[l]) => Delivered(letter'[l])

LEMMA PutsKeepFile ==
  ASSUME WorkInv, NEW l \in Letters, NEW r, Puts(l, r), AskedAfterDelivery(r),
         Exists(l) /\ Delivered(letter[l]) => Delivered(r)
  PROVE  \A m \in Letters : KeepsFile(m)
<1>1. letter \in [Letters -> LetterRecord \cup {Nil}]
  BY DEF WorkInv, DeskInv, TypeOK
<1>2. letter'[l] = r /\ \A m \in Letters : m # l => letter'[m] = letter[m]
  BY <1>1 DEF Puts
<1>. QED
  BY <1>2 DEF KeepsFile

LEMMA EmployeeKeepsFile ==
  ASSUME WorkInv, EmployeeStep
  PROVE  \A m \in Letters : KeepsFile(m)
<1>1. PICK e \in Employees, l \in Letters :
        \/ \E type \in TransTypes : FileUpload(e, l, type)
        \/ \E days \in ReturnDays \cup {Nil} : UpdateLetter(e, l, days)
        \/ DeleteLetter(e, l)
  BY DEF EmployeeStep
<1>2. ASSUME NEW type \in TransTypes, FileUpload(e, l, type)
      PROVE  \A m \in Letters : KeepsFile(m)
  <2>1. AskedAfterDelivery(NewLetter(e, type, today))
    BY DEF AskedAfterDelivery, NewLetter
  <2>. QED
    BY <1>2, <2>1, PutsKeepFile DEF FileUpload
<1>3. ASSUME NEW days \in ReturnDays \cup {Nil}, UpdateLetter(e, l, days)
      PROVE  \A m \in Letters : KeepsFile(m)
  <2>. DEFINE r == Published(letter[l], days)
  <2>1. Exists(l) /\ letter[l] \in LetterRecord /\ AskedAfterDelivery(letter[l])
    BY <1>3 DEF UpdateLetter, WorkInv, DeskInv, InOrder
  <2>2. /\ r.re_upload = letter[l].re_upload
        /\ r.return_file_url = letter[l].return_file_url
    BY <2>1 DEF Published, LetterRecord
  <2>3. AskedAfterDelivery(r) /\ (Delivered(letter[l]) => Delivered(r))
    BY <2>1, <2>2 DEF AskedAfterDelivery, Delivered
  <2>. QED
    BY <1>3, <2>3, PutsKeepFile DEF UpdateLetter
<1>4. CASE DeleteLetter(e, l)
  <2>. DEFINE r == Deleted(letter[l])
  <2>1. Exists(l) /\ letter[l] \in LetterRecord /\ AskedAfterDelivery(letter[l])
    BY <1>4 DEF DeleteLetter, WorkInv, DeskInv, InOrder
  <2>2. /\ r.re_upload = letter[l].re_upload
        /\ r.return_file_url = letter[l].return_file_url
    BY <2>1 DEF Deleted, LetterRecord
  <2>3. AskedAfterDelivery(r) /\ (Delivered(letter[l]) => Delivered(r))
    BY <2>1, <2>2 DEF AskedAfterDelivery, Delivered
  <2>. QED
    BY <1>4, <2>3, PutsKeepFile DEF DeleteLetter
<1>. QED
  BY <1>1, <1>2, <1>3, <1>4

LEMMA VolunteerKeepsFile ==
  ASSUME WorkInv, VolunteerStep
  PROVE  \A m \in Letters : KeepsFile(m)
<1>1. PICK v \in Volunteers, l \in Letters :
        \/ \E day \in RubyDates(today) : ClaimLetter(v, l, day)
        \/ ReturnLetter(v, l)
        \/ ReturnFileUpload(v, l)
        \/ ReUpload(v, l)
  BY DEF VolunteerStep
<1>2. \E k \in FormKinds : <<v, l, k>> \in forms
  BY <1>1 DEF ClaimLetter, ReturnLetter, ReturnFileUpload, ReUpload, FormKinds
<1>3. Exists(l) /\ letter[l] \in LetterRecord /\ AskedAfterDelivery(letter[l])
  BY <1>2, FormMeansPublic DEF WorkInv, InOrder
<1>4. ASSUME NEW day \in RubyDates(today), ClaimLetter(v, l, day)
      PROVE  \A m \in Letters : KeepsFile(m)
  <2>. DEFINE r == Claimed(letter[l], v, day)
  <2>1. /\ r.re_upload = letter[l].re_upload
        /\ r.return_file_url = letter[l].return_file_url
    BY <1>3 DEF Claimed, LetterRecord
  <2>2. AskedAfterDelivery(r) /\ (Delivered(letter[l]) => Delivered(r))
    BY <1>3, <2>1 DEF AskedAfterDelivery, Delivered
  <2>. QED
    BY <1>4, <2>2, PutsKeepFile DEF ClaimLetter
<1>5. CASE ReturnLetter(v, l)
  <2>. DEFINE r == GivenBack(letter[l])
  <2>1. /\ r.re_upload = letter[l].re_upload
        /\ r.return_file_url = letter[l].return_file_url
    BY <1>3 DEF GivenBack, LetterRecord
  <2>2. AskedAfterDelivery(r) /\ (Delivered(letter[l]) => Delivered(r))
    BY <1>3, <2>1 DEF AskedAfterDelivery, Delivered
  <2>. QED
    BY <1>5, <2>2, PutsKeepFile DEF ReturnLetter
<1>6. CASE ReturnFileUpload(v, l)
  <2>. DEFINE r == Uploaded(letter[l], v, today)
  <2>1. Delivered(r)
    BY <1>3, EntityAssumption DEF Uploaded, LetterRecord, Delivered
  <2>2. AskedAfterDelivery(r)
    BY <2>1 DEF AskedAfterDelivery
  <2>. QED
    BY <1>6, <2>1, <2>2, PutsKeepFile DEF ReturnFileUpload
<1>7. CASE ReUpload(v, l)
  <2>. DEFINE r == ReUploadAsked(letter[l])
  <2>1. Delivered(letter[l])
    BY <1>7 DEF ReUpload, WorkInv
  <2>2. Delivered(r)
    BY <1>3, <2>1 DEF ReUploadAsked, LetterRecord, Delivered
  <2>3. AskedAfterDelivery(r)
    BY <2>2 DEF AskedAfterDelivery
  <2>. QED
    BY <1>7, <2>2, <2>3, PutsKeepFile DEF ReUpload
<1>. QED
  BY <1>1, <1>4, <1>5, <1>6, <1>7

LEMMA JobKeepsFile ==
  ASSUME WorkInv, JobStep
  PROVE  \A m \in Letters : KeepsFile(m)
<1>. SUFFICES ASSUME NEW l \in Letters PROVE KeepsFile(l)
  OBVIOUS
<1>1. letter'[l] \in {letter[l], MarkedDue(letter[l]), MarkedOld(letter[l]),
                      Reminded(letter[l])}
      /\ (letter'[l] # letter[l] => Exists(l))
  BY DEF JobStep, MarkDueLetters, MarkOldLetters, DueReminder, DueLetters, OldLetters
<1>2. CASE letter'[l] = letter[l]
  BY <1>2 DEF KeepsFile
<1>3. CASE letter'[l] # letter[l]
  <2>1. letter[l] \in LetterRecord /\ AskedAfterDelivery(letter[l])
    BY <1>1, <1>3 DEF WorkInv, DeskInv, InOrder
  <2>2. /\ letter'[l].re_upload = letter[l].re_upload
        /\ letter'[l].return_file_url = letter[l].return_file_url
    BY <1>1, <2>1 DEF MarkedDue, MarkedOld, Reminded, LetterRecord
  <2>. QED
    BY <2>1, <2>2 DEF KeepsFile, AskedAfterDelivery, Delivered
<1>. QED
  BY <1>2, <1>3

\* A form to ask for a new upload is shown only next to a delivered letter.
LEMMA NextWorkInv == WorkInv /\ [Next]_vars => WorkInv'
<1>. SUFFICES ASSUME WorkInv, [Next]_vars PROVE WorkInv'
  OBVIOUS
<1>1. DeskInv' /\ \A l \in Letters : Exists(l) => Exists(l)'
  <2>1. DeskInv /\ DeskInv'
    BY NextDeskInv DEF WorkInv
  <2>2. ASSUME NEW l \in Letters, Exists(l) PROVE Exists(l)'
    BY <2>1, <2>2, ExistsStays DEF Exists
  <2>. QED
    BY <2>1, <2>2
<1>2. CASE UNCHANGED <<letter, forms>>
  BY <1>1, <1>2 DEF WorkInv, Exists
<1>3. CASE PagesShown /\ \A l \in Letters : KeepsFile(l)
  <2>1. ASSUME NEW l \in Letters, Exists(l)'
        PROVE  AskedAfterDelivery(letter'[l])
    BY <1>3, <2>1 DEF KeepsFile, WorkInv, Exists
  <2>2. ASSUME NEW v \in Volunteers, NEW l \in Letters,
               <<v, l, "re_upload">> \in forms'
        PROVE  Exists(l)' /\ Delivered(letter'[l])
    <3>1. CASE <<v, l, "re_upload">> \in forms
      BY <1>1, <1>3, <3>1 DEF KeepsFile, WorkInv
    <3>2. CASE <<v, l, "re_upload">> \notin forms
      <4>1. letter'[l] # Nil /\ "re_upload" \in FormsFor(letter'[l], v)
        BY <1>3, <2>2, <3>2 DEF PagesShown
      <4>. QED
        BY <4>1 DEF FormsFor, Delivered, Exists
    <3>. QED
      BY <3>1, <3>2
  <2>. QED
    BY <1>1, <2>1, <2>2 DEF WorkInv
<1>4. CASE EmployeeStep
  <2>1. PagesShown
    BY <1>4 DEF EmployeeStep, FileUpload, UpdateLetter, DeleteLetter, Puts
  <2>. QED
    BY <1>3, <1>4, <2>1, EmployeeKeepsFile
<1>5. CASE VolunteerStep
  <2>1. PagesShown
    BY <1>5 DEF VolunteerStep, ClaimLetter, ReturnLetter, ReturnFileUpload,
                ReUpload, Puts
  <2>. QED
    BY <1>3, <1>5, <2>1, VolunteerKeepsFile
<1>6. CASE JobStep
  <2>1. PagesShown
    BY <1>6 DEF JobStep, MarkDueLetters, MarkOldLetters, DueReminder
  <2>. QED
    BY <1>3, <1>6, <2>1, JobKeepsFile
<1>7. CASE NextDay \/ UNCHANGED vars
  <2>1. UNCHANGED <<letter, forms>>
    BY <1>7 DEF NextDay, vars
  <2>. QED
    BY <1>2, <2>1
<1>. QED
  BY <1>4, <1>5, <1>6, <1>7 DEF Next

\* The administrator's page and the volunteer's own show the same letters at
\* work, whatever stale forms were submitted before, and whoever is
\* available and still holds a letter has a delivered one to be shown.
THEOREM StatusPageAlwaysAgrees == Spec => []StatusPageAgrees
<1>1. Init => WorkInv
  <2>. SUFFICES ASSUME Init PROVE WorkInv
    OBVIOUS
  <2>1. forms = {} /\ \A l \in Letters : ~ Exists(l)
    BY DEF Init, Exists
  <2>. QED
    BY <2>1, InitDeskInv DEF WorkInv
<1>2. WorkInv => StatusPageAgrees
  <2>. SUFFICES ASSUME WorkInv, NEW v \in Volunteers
                PROVE  /\ StatusLetters(v) =
                            {l \in Letters :
                               Exists(l) /\ "return" \in FormsFor(letter[l], v)}
                       /\ ~ InService(v)
                            /\ (\E l \in Letters : Exists(l) /\ HeldBy(letter[l], v))
                            => LastReturned(v) # {}
    BY DEF StatusPageAgrees
  <2>1. ASSUME NEW l \in Letters, Exists(l)
        PROVE  /\ letter[l].return_file_url # Nil <=> letter[l].return_date # Nil
               /\ letter[l].claim_date # Nil <=> letter[l].due_date # Nil
               /\ letter[l].re_upload \in BOOLEAN
               /\ letter[l].re_upload => letter[l].return_file_url # Nil
    BY <2>1 DEF WorkInv, DeskInv, InOrder, CustodyAgrees, FileAgrees,
                LetterRecord, AskedAfterDelivery, Delivered
  <2>2. ASSUME NEW l \in Letters, Exists(l)
        PROVE  l \in StatusLetters(v) <=> "return" \in FormsFor(letter[l], v)
    <3>1. l \in StatusLetters(v)
            <=> HeldBy(letter[l], v) /\ letter[l].return_file_url = Nil
      BY <2>1, <2>2 DEF StatusLetters, HeldBy
    <3>2. "return" \in FormsFor(letter[l], v)
            <=> /\ HeldBy(letter[l], v)
                /\ ~ letter[l].re_upload
                /\ letter[l].return_file_url = Nil
      BY DEF FormsFor
    <3>. QED
      BY <2>1, <2>2, <3>1, <3>2
  <2>3. StatusLetters(v) \subseteq {l \in Letters : Exists(l)}
    BY DEF StatusLetters
  <2>4. ASSUME ~ InService(v), NEW l \in Letters, Exists(l), HeldBy(letter[l], v)
        PROVE  l \in LastReturned(v)
    BY <2>1, <2>4 DEF InService, StatusLetters, LastReturned, HeldBy
  <2>. QED
    BY <2>2, <2>3, <2>4
<1>. QED
  BY <1>1, <1>2, NextWorkInv, PTL DEF Spec
-----------------------------------------------------------------------------
(***************************************************************************)
(* The mails.  What has been asked for stays asked for, in its place and   *)
(* with its number, address and letter, so each promise about mails turns  *)
(* on what the desk may still do to their letters: a letter told to be     *)
(* urgent is never unclaimed again, so the job never finds it again; and   *)
(* only the request for another upload, which marks the mails there are,   *)
(* sets what the worker takes for one.                                     *)
(***************************************************************************)
ExistingLetters == {l \in Letters : Exists(l)}

\* Mail m tells of a job taken off the account of v.
TellsOf(m, v) ==
  \/ m.mailId = 8 /\ m.vou = v
  \/ m.mailId = 2 /\ m.to = v

ToldOf(v) == {n \in DOMAIN asked : TellsOf(asked[n], v)}

MailInv ==
  /\ DeskInv
  /\ asked \in Seq(Mail)
  /\ IsFiniteSet(ExistingLetters)
  /\ \A n \in DOMAIN asked : Exists(asked[n].letter)
  /\ \A n \in DOMAIN asked :
       asked[n].mailId = 5 => letter[asked[n].letter].status # "unclaimed"
  /\ \A m, n \in DOMAIN asked :
       asked[m].mailId = 5 /\ asked[n].mailId = 5 /\ asked[m].letter = asked[n].letter
         => m = n
  /\ \A n \in DOMAIN asked :
       asked[n].mailId = 3 /\ letter[asked[n].letter].re_upload => asked[n].since
  /\ CreditsAreTold

\* What was asked for stays, and only an upload asked for is noted in it.
MailsKept ==
  \A n \in DOMAIN asked :
    /\ n \in DOMAIN asked'
    /\ asked'[n].mailId = asked[n].mailId
    /\ asked'[n].to = asked[n].to
    /\ asked'[n].letter = asked[n].letter
    /\ asked'[n].vou = asked[n].vou
    /\ asked[n].since => asked'[n].since

NewMails == DOMAIN asked' \ DOMAIN asked

\* The step tells of a letter's growing urgent as the job does: each letter
\* once, and when it was unclaimed and no longer is.
TellsOldOnce ==
  /\ \A n \in NewMails :
       asked'[n].mailId = 5 =>
         /\ letter[asked'[n].letter].status = "unclaimed"
         /\ letter'[asked'[n].letter].status # "unclaimed"
  /\ \A m, n \in NewMails :
       /\ asked'[m].mailId = 5 /\ asked'[n].mailId = 5
       /\ asked'[m].letter = asked'[n].letter
       => m = n

\* After the step, whoever is told of an upload while another is asked for
\* was told before it was.
NotesAsking ==
  \A n \in DOMAIN asked' :
    asked'[n].mailId = 3 /\ letter'[asked'[n].letter].re_upload => asked'[n].since

\* A step that tells of existing letters.
TellsOfLetters ==
  /\ asked' \in Seq(Mail)
  /\ MailsKept
  /\ \A n \in NewMails : Exists(asked'[n].letter)

\* Once claimed, urgent or delivered, never again unclaimed.
LEMMA NeverUnclaimedAgain ==
  ASSUME DeskInv, [Next]_vars, NEW l \in Letters, Exists(l),
         letter[l].status # "unclaimed"
  PROVE  letter'[l].status # "unclaimed"
<1>. DEFINE c == letter[l]
            d == letter'[l]
            x == CustodyOf(c)
            y == CustodyOf(d)
<1>1. InOrder(c) /\ InOrder(d) /\ Keeps(c, d)
  BY ExistsStays, NextKeeps DEF DeskInv, AllKeep
<1>2. y = x \/ Life!Moves(x, y)
  BY <1>1, CustodyOfRecord DEF Keeps
<1>3. x \in Life!Custody /\ x # Nil
  BY <1>1, CustodyOfRecord
<1>4. x.mark = c.status /\ y.mark = d.status
  BY DEF CustodyOf
<1>. HIDE DEF x, y, c, d
<1>5. CASE Life!Opens(x, y) \/ Life!Withdrawn(x, y)
  <2>1. y.mark = x.mark
    BY <1>3, <1>5 DEF Life!Opens, Life!Withdrawn, Life!Custody
  <2>. QED
    BY <1>4, <2>1 DEF c, d
<1>6. CASE Life!Delivered(x, y) \/ Life!GrowsUrgent(x, y)
  <2>1. y.mark \in {"returned", "emergent"}
    BY <1>3, <1>6 DEF Life!Delivered, Life!GrowsUrgent, Life!Custody
  <2>. QED
    BY <1>4, <2>1 DEF d
<1>7. CASE Life!Taken(x, y) \/ Life!Released(x, y)
  <2>1. y.mark \in {"claimed", "emergent"}
    BY <1>7 DEF Life!Taken, Life!Released
  <2>. QED
    BY <1>4, <2>1 DEF d
<1>. QED
  BY <1>2, <1>3, <1>4, <1>5, <1>6, <1>7 DEF Life!Moves, c, d

\* A step creates one letter at the most.
LEMMA ExistingStayFinite ==
  ASSUME DeskInv, [Next]_vars, IsFiniteSet(ExistingLetters)
  PROVE  IsFiniteSet(ExistingLetters')
<1>1. letter \in [Letters -> LetterRecord \cup {Nil}]
  BY DEF DeskInv, TypeOK
<1>2. ASSUME NEW l \in Letters, NEW r, letter' = [letter EXCEPT ![l] = r]
      PROVE  IsFiniteSet(ExistingLetters')
  <2>1. ExistingLetters' \subseteq ExistingLetters \cup {l}
    BY <1>1, <1>2 DEF ExistingLetters, Exists
  <2>2. IsFiniteSet(ExistingLetters \cup {l})
    BY FS_AddElement
  <2>. QED
    BY <2>1, <2>2, FS_Subset
<1>3. ASSUME \A l \in Letters : letter'[l] = letter[l] \/ Exists(l)
      PROVE  IsFiniteSet(ExistingLetters')
  <2>1. ExistingLetters' \subseteq ExistingLetters
    BY <1>3 DEF ExistingLetters, Exists
  <2>. QED
    BY <2>1, FS_Subset
<1>4. CASE NextDay \/ UNCHANGED vars
  BY <1>3, <1>4 DEF NextDay, vars
<1>5. CASE EmployeeStep
  BY <1>2, <1>5 DEF EmployeeStep, FileUpload, UpdateLetter, DeleteLetter, Puts
<1>6. CASE VolunteerStep
  BY <1>2, <1>6
     DEF VolunteerStep, ClaimLetter, ReturnLetter, ReturnFileUpload, ReUpload, Puts
<1>7. CASE JobStep
  BY <1>3, <1>7
     DEF JobStep, MarkDueLetters, MarkOldLetters, DueReminder, DueLetters, OldLetters
<1>. QED
  BY <1>4, <1>5, <1>6, <1>7 DEF Next

\* What is left to show of a step, once it is known how it tells.
LEMMA MailInvKept ==
  ASSUME MailInv, [Next]_vars, TellsOfLetters, TellsOldOnce, NotesAsking,
         CreditsAreTold'
  PROVE  MailInv'
<1>1. DeskInv /\ DeskInv' /\ IsFiniteSet(ExistingLetters')
  BY NextDeskInv, ExistingStayFinite DEF MailInv
<1>2. asked' \in Seq(Mail) /\ asked \in Seq(Mail)
  BY DEF TellsOfLetters, MailInv
<1>3. \A n \in DOMAIN asked' : asked'[n] \in Mail /\ asked'[n].letter \in Letters
  <2>1. \A n \in DOMAIN asked' : asked'[n] \in Mail
    BY <1>2, LenProperties, ElementOfSeq
  <2>. QED
    BY <2>1 DEF Mail
<1>4. ASSUME NEW n \in DOMAIN asked'
      PROVE  Exists(asked'[n].letter) /\ letter'[asked'[n].letter] # Nil
  <2>1. Exists(asked'[n].letter)
    BY DEF TellsOfLetters, MailsKept, NewMails, MailInv
  <2>. QED
    BY <1>1, <1>3, <2>1, ExistsStays
<1>5. ASSUME NEW n \in DOMAIN asked', asked'[n].mailId = 5
      PROVE  letter'[asked'[n].letter].status # "unclaimed"
  <2>1. CASE n \in DOMAIN asked
    <3>1. letter[asked'[n].letter].status # "unclaimed"
      BY <1>5, <2>1 DEF TellsOfLetters, MailsKept, MailInv
    <3>. QED
      BY <1>1, <1>3, <1>4, <3>1, NeverUnclaimedAgain
  <2>2. CASE n \notin DOMAIN asked
    BY <1>5, <2>2 DEF TellsOldOnce, NewMails
  <2>. QED
    BY <2>1, <2>2
<1>6. ASSUME NEW m \in DOMAIN asked', NEW n \in DOMAIN asked',
             asked'[m].mailId = 5, asked'[n].mailId = 5,
             asked'[m].letter = asked'[n].letter
      PROVE  m = n
  <2>1. \A i \in DOMAIN asked :
          /\ asked[i].mailId = asked'[i].mailId
          /\ asked[i].letter = asked'[i].letter
          /\ asked[i].mailId = 5 => letter[asked[i].letter].status # "unclaimed"
    BY DEF TellsOfLetters, MailsKept, MailInv
  <2>2. CASE m \in DOMAIN asked /\ n \in DOMAIN asked
    BY <1>6, <2>1, <2>2 DEF MailInv
  <2>3. CASE m \notin DOMAIN asked /\ n \notin DOMAIN asked
    BY <1>6, <2>3 DEF TellsOldOnce, NewMails
  <2>4. CASE m \in DOMAIN asked /\ n \notin DOMAIN asked
    BY <1>6, <2>1, <2>4 DEF TellsOldOnce, NewMails
  <2>5. CASE m \notin DOMAIN asked /\ n \in DOMAIN asked
    BY <1>6, <2>1, <2>5 DEF TellsOldOnce, NewMails
  <2>. QED
    BY <2>2, <2>3, <2>4, <2>5
<1>. QED
  BY <1>1, <1>2, <1>4, <1>5, <1>6 DEF MailInv, NotesAsking, Exists
-----------------------------------------------------------------------------
(***************************************************************************)
(* Who else sets re_upload: nobody.                                        *)
(***************************************************************************)
AskedBefore == \A l \in Letters : Exists(l) /\ letter'[l].re_upload => letter[l].re_upload

LEMMA HandlersDoNotAsk ==
  ASSUME NEW r \in LetterRecord, NEW days
  PROVE  /\ Published(r, days).re_upload = r.re_upload
         /\ Deleted(r).re_upload = r.re_upload
         /\ GivenBack(r).re_upload = r.re_upload
         /\ MarkedDue(r).re_upload = r.re_upload
         /\ MarkedOld(r).re_upload = r.re_upload
         /\ Reminded(r).re_upload = r.re_upload
BY DEF LetterRecord, Published, Deleted, GivenBack, MarkedDue, MarkedOld, Reminded

\* Any step of the desk but ReUpload.
NoReUpload ==
  \/ NextDay
  \/ EmployeeStep
  \/ JobStep
  \/ \E v \in Volunteers, l \in Letters :
       \/ \E day \in RubyDates(today) : ClaimLetter(v, l, day)
       \/ ReturnLetter(v, l)
       \/ ReturnFileUpload(v, l)
  \/ UNCHANGED vars

LEMMA OnlyReUploadAsks ==
  ASSUME DeskInv, NoReUpload
  PROVE  AskedBefore
<1>1. letter \in [Letters -> LetterRecord \cup {Nil}]
      /\ \A l \in Letters : Exists(l) => letter[l] \in LetterRecord
  BY DEF DeskInv, TypeOK, InOrder
<1>2. ASSUME NEW l \in Letters, NEW r, letter' = [letter EXCEPT ![l] = r],
             Exists(l) /\ r.re_upload => letter[l].re_upload
      PROVE  AskedBefore
  BY <1>1, <1>2 DEF AskedBefore
<1>3. CASE NextDay \/ UNCHANGED vars
  BY <1>3 DEF NextDay, vars, AskedBefore
<1>4. CASE EmployeeStep
  <2>1. PICK e \in Employees, l \in Letters :
          \/ \E type \in TransTypes : FileUpload(e, l, type)
          \/ \E days \in ReturnDays \cup {Nil} : UpdateLetter(e, l, days)
          \/ DeleteLetter(e, l)
    BY <1>4 DEF EmployeeStep
  <2>2. CASE \E type \in TransTypes : FileUpload(e, l, type)
    BY <1>2, <2>2 DEF FileUpload, Puts
  <2>3. ASSUME NEW days \in ReturnDays \cup {Nil}, UpdateLetter(e, l, days)
        PROVE  AskedBefore
    <3>1. Published(letter[l], days).re_upload = letter[l].re_upload
      BY <1>1, <2>3, HandlersDoNotAsk DEF UpdateLetter
    <3>. QED
      BY <1>2, <2>3, <3>1 DEF UpdateLetter, Puts
  <2>4. CASE DeleteLetter(e, l)
    <3>1. Deleted(letter[l]).re_upload = letter[l].re_upload
      BY <1>1, <2>4, HandlersDoNotAsk DEF DeleteLetter
    <3>. QED
      BY <1>2, <2>4, <3>1 DEF DeleteLetter, Puts
  <2>. QED
    BY <2>1, <2>2, <2>3, <2>4
<1>5. ASSUME NEW v \in Volunteers, NEW l \in Letters,
             \/ \E day \in RubyDates(today) : ClaimLetter(v, l, day)
             \/ ReturnLetter(v, l)
             \/ ReturnFileUpload(v, l)
      PROVE  AskedBefore
  <2>2. ASSUME NEW day \in RubyDates(today), ClaimLetter(v, l, day)
        PROVE  AskedBefore
    <3>1. Exists(l) => Claimed(letter[l], v, day).re_upload = letter[l].re_upload
      BY <1>1 DEF Claimed, LetterRecord
    <3>. QED
      BY <1>2, <2>2, <3>1 DEF ClaimLetter, Puts
  <2>3. CASE ReturnLetter(v, l)
    <3>1. Exists(l) => GivenBack(letter[l]).re_upload = letter[l].re_upload
      BY <1>1, HandlersDoNotAsk
    <3>. QED
      BY <1>2, <2>3, <3>1 DEF ReturnLetter, Puts
  <2>4. CASE ReturnFileUpload(v, l)
    <3>1. Exists(l) => ~ Uploaded(letter[l], v, today).re_upload
      BY <1>1 DEF Uploaded, LetterRecord
    <3>. QED
      BY <1>2, <2>4, <3>1 DEF ReturnFileUpload, Puts
  <2>. QED
    BY <1>5, <2>2, <2>3, <2>4
<1>6. CASE JobStep
  <2>1. ASSUME NEW l \in Letters, Exists(l)
        PROVE  letter'[l].re_upload = letter[l].re_upload
    <3>1. letter'[l] \in {letter[l], MarkedDue(letter[l]), MarkedOld(letter[l]),
                          Reminded(letter[l])}
      BY <1>6 DEF JobStep, MarkDueLetters, MarkOldLetters, DueReminder
    <3>2. \A d \in {MarkedDue(letter[l]), MarkedOld(letter[l]), Reminded(letter[l])} :
            d.re_upload = letter[l].re_upload
      BY <1>1, <2>1, HandlersDoNotAsk
    <3>. QED
      BY <3>1, <3>2
  <2>. QED
    BY <2>1 DEF AskedBefore
<1>. QED
  BY <1>3, <1>4, <1>5, <1>6 DEF NoReUpload
-----------------------------------------------------------------------------
(***************************************************************************)
(* Steps that ask for mails.                                               *)
(***************************************************************************)

\* The new mails come after the old ones, which stay as they are.
LEMMA MailsAppended ==
  ASSUME asked \in Seq(Mail), NEW ms \in Seq(Mail), asked' = asked \o ms
  PROVE  /\ asked' \in Seq(Mail)
         /\ Len(asked) \in Nat
         /\ DOMAIN asked = 1 .. Len(asked)
         /\ DOMAIN asked' = 1 .. (Len(asked) + Len(ms))
         /\ DOMAIN ms = 1 .. Len(ms)
         /\ MailsKept
         /\ \A n \in DOMAIN asked : n \in DOMAIN asked' /\ asked'[n] = asked[n]
         /\ \A n \in NewMails :
              /\ n - Len(asked) \in DOMAIN ms
              /\ asked'[n] = ms[n - Len(asked)]
         /\ \A k \in DOMAIN ms :
              /\ Len(asked) + k \in NewMails
              /\ asked'[Len(asked) + k] = ms[k]
<1>1. /\ Len(asked) \in Nat /\ Len(ms) \in Nat
      /\ DOMAIN asked = 1 .. Len(asked)
      /\ DOMAIN ms = 1 .. Len(ms)
  BY LenProperties
<1>2. /\ asked' \in Seq(Mail)
      /\ Len(asked') = Len(asked) + Len(ms)
      /\ \A i \in 1 .. Len(asked) + Len(ms) :
           asked'[i] = IF i <= Len(asked) THEN asked[i] ELSE ms[i - Len(asked)]
  BY ConcatProperties
<1>3. DOMAIN asked' = 1 .. (Len(asked) + Len(ms))
  BY <1>2, LenProperties
<1>4. \A n \in DOMAIN asked : n \in DOMAIN asked' /\ asked'[n] = asked[n]
  BY <1>1, <1>2, <1>3
<1>5. MailsKept
  BY <1>4 DEF MailsKept
<1>6. \A n \in NewMails :
        n - Len(asked) \in DOMAIN ms /\ asked'[n] = ms[n - Len(asked)]
  BY <1>1, <1>2, <1>3 DEF NewMails
<1>7. \A k \in DOMAIN ms :
        Len(asked) + k \in NewMails /\ asked'[Len(asked) + k] = ms[k]
  BY <1>1, <1>2, <1>3 DEF NewMails
<1>. QED
  BY <1>1, <1>2, <1>3, <1>4, <1>5, <1>6, <1>7

\* What the mails of a step must be like.
Fitting(ms) ==
  /\ ms \in Seq(Mail)
  /\ \A k \in DOMAIN ms :
       /\ Exists(ms[k].letter)
       /\ ms[k].mailId = 5 => /\ letter[ms[k].letter].status = "unclaimed"
                             /\ letter'[ms[k].letter].status # "unclaimed"
       /\ ms[k].mailId = 3 => ~ letter'[ms[k].letter].re_upload
  /\ \A j, k \in DOMAIN ms :
       ms[j].mailId = 5 /\ ms[k].mailId = 5 /\ ms[j].letter = ms[k].letter => j = k

LEMMA Telling ==
  ASSUME MailInv, [Next]_vars, AskedBefore, NEW ms, Fitting(ms),
         asked' = asked \o ms, CreditsAreTold'
  PROVE  MailInv'
<1>1. asked \in Seq(Mail) /\ ms \in Seq(Mail)
  BY DEF MailInv, Fitting
<1>2. /\ asked' \in Seq(Mail)
      /\ Len(asked) \in Nat
      /\ DOMAIN asked = 1 .. Len(asked)
      /\ DOMAIN asked' = 1 .. (Len(asked) + Len(ms))
      /\ MailsKept
      /\ \A n \in DOMAIN asked : n \in DOMAIN asked' /\ asked'[n] = asked[n]
      /\ \A n \in NewMails :
           n - Len(asked) \in DOMAIN ms /\ asked'[n] = ms[n - Len(asked)]
  BY <1>1, MailsAppended
<1>3. TellsOfLetters
  BY <1>2 DEF Fitting, TellsOfLetters
<1>4. TellsOldOnce
  <2>1. ASSUME NEW m \in NewMails, NEW n \in NewMails,
               asked'[m].mailId = 5, asked'[n].mailId = 5,
               asked'[m].letter = asked'[n].letter
        PROVE  m = n
    <3>. DEFINE j == m - Len(asked)
                k == n - Len(asked)
    <3>1. /\ j \in DOMAIN ms /\ asked'[m] = ms[j]
          /\ k \in DOMAIN ms /\ asked'[n] = ms[k]
      BY <1>2
    <3>2. m \in Int /\ n \in Int
      BY <1>2 DEF NewMails
    <3>. HIDE DEF j, k
    <3>3. j = k
      BY <2>1, <3>1 DEF Fitting
    <3>. QED
      BY <1>2, <3>2, <3>3 DEF j, k
  <2>2. ASSUME NEW n \in NewMails, asked'[n].mailId = 5
        PROVE  /\ letter[asked'[n].letter].status = "unclaimed"
               /\ letter'[asked'[n].letter].status # "unclaimed"
    <3>. DEFINE k == n - Len(asked)
    <3>1. k \in DOMAIN ms /\ asked'[n] = ms[k]
      BY <1>2
    <3>. HIDE DEF k
    <3>. QED
      BY <2>2, <3>1 DEF Fitting
  <2>. QED
    BY <2>1, <2>2 DEF TellsOldOnce
<1>5. NotesAsking
  <2>. SUFFICES ASSUME NEW n \in DOMAIN asked', asked'[n].mailId = 3,
                       letter'[asked'[n].letter].re_upload
                PROVE  asked'[n].since
    BY DEF NotesAsking
  <2>1. CASE n \in DOMAIN asked
    <3>1. asked[n] \in Mail
      BY <1>1, <2>1, LenProperties, ElementOfSeq
    <3>2. asked[n].letter \in Letters /\ Exists(asked[n].letter)
      BY <2>1, <3>1 DEF Mail, MailInv
    <3>3. letter[asked[n].letter].re_upload
      BY <1>2, <2>1, <3>2 DEF AskedBefore
    <3>. QED
      BY <1>2, <2>1, <3>3 DEF MailInv
  <2>2. CASE n \notin DOMAIN asked
    BY <1>2, <2>2 DEF NewMails, Fitting
  <2>. QED
    BY <2>1, <2>2
<1>. QED
  BY <1>3, <1>4, <1>5, MailInvKept

\* Mails about other jobs.
LEMMA ToldAsBefore ==
  ASSUME asked \in Seq(Mail), NEW ms \in Seq(Mail), asked' = asked \o ms,
         NEW v, \A k \in DOMAIN ms : ~ TellsOf(ms[k], v)
  PROVE  ToldOf(v)' = ToldOf(v)
<1>1. /\ \A n \in DOMAIN asked : n \in DOMAIN asked' /\ asked'[n] = asked[n]
      /\ \A n \in NewMails :
           n - Len(asked) \in DOMAIN ms /\ asked'[n] = ms[n - Len(asked)]
  BY MailsAppended
<1>2. \A n \in NewMails : ~ TellsOf(asked'[n], v)
  BY <1>1
<1>. HIDE DEF TellsOf
<1>3. ToldOf(v)' = {n \in DOMAIN asked' : TellsOf(asked'[n], v)}
  BY DEF ToldOf, TellsOf
<1>. QED
  BY <1>1, <1>2, <1>3 DEF ToldOf, NewMails

\* One mail among the new ones is about a job of v.
LEMMA ToldOnceMore ==
  ASSUME asked \in Seq(Mail), NEW ms \in Seq(Mail), asked' = asked \o ms,
         NEW v, NEW k \in DOMAIN ms, TellsOf(ms[k], v),
         \A j \in DOMAIN ms : j # k => ~ TellsOf(ms[j], v)
  PROVE  /\ Cardinality(ToldOf(v)) \in Nat
         /\ Cardinality(ToldOf(v)') = Cardinality(ToldOf(v)) + 1
<1>1. /\ Len(asked) \in Nat
      /\ DOMAIN asked = 1 .. Len(asked)
      /\ DOMAIN asked' = 1 .. (Len(asked) + Len(ms))
      /\ DOMAIN ms = 1 .. Len(ms)
      /\ \A n \in DOMAIN asked : n \in DOMAIN asked' /\ asked'[n] = asked[n]
      /\ \A n \in NewMails :
           n - Len(asked) \in DOMAIN ms /\ asked'[n] = ms[n - Len(asked)]
      /\ Len(asked) + k \in NewMails
      /\ asked'[Len(asked) + k] = ms[k]
  BY MailsAppended
<1>. DEFINE i == Len(asked) + k
<1>2. ASSUME NEW n \in NewMails, n # i
      PROVE  ~ TellsOf(asked'[n], v)
  <2>1. n \in Int /\ k \in Int
    BY <1>1 DEF NewMails
  <2>2. n - Len(asked) # k
    BY <1>1, <1>2, <2>1
  <2>. QED
    BY <1>1, <2>2
<1>3. TellsOf(asked'[i], v)
  BY <1>1
<1>. HIDE DEF TellsOf, i
<1>4. ToldOf(v)' = {n \in DOMAIN asked' : TellsOf(asked'[n], v)}
  BY DEF ToldOf, TellsOf
<1>5. ToldOf(v)' = ToldOf(v) \cup {i}
  BY <1>1, <1>2, <1>3, <1>4 DEF ToldOf, NewMails, i
<1>6. i \notin ToldOf(v)
  BY <1>1 DEF ToldOf, NewMails, i
<1>7. IsFiniteSet(ToldOf(v)) /\ Cardinality(ToldOf(v)) \in Nat
  <2>1. IsFiniteSet(1 .. Len(asked))
    BY <1>1, FS_Interval
  <2>2. ToldOf(v) \subseteq 1 .. Len(asked)
    BY <1>1 DEF ToldOf
  <2>. QED
    BY <2>1, <2>2, FS_Subset, FS_CardinalityType
<1>. QED
  BY <1>5, <1>6, <1>7, FS_AddElement

\* One job is taken off and one mail tells of it.
LEMMA CreditedAndTold ==
  ASSUME MailInv, NEW w \in Volunteers, Credits(w),
         NEW ms \in Seq(Mail), asked' = asked \o ms,
         NEW k \in DOMAIN ms, TellsOf(ms[k], w),
         \A v \in Volunteers : \A j \in DOMAIN ms :
           v # w \/ j # k => ~ TellsOf(ms[j], v)
  PROVE  CreditsAreTold'
<1>1. /\ asked \in Seq(Mail)
      /\ jobs \in [Volunteers -> Int]
      /\ jobs' = [jobs EXCEPT ![w] = jobs[w] - 1]
  BY DEF MailInv, DeskInv, TypeOK, Credits
<1>. HIDE DEF TellsOf
<1>2. \A v \in Volunteers : - jobs[v] = Cardinality(ToldOf(v))
  BY DEF MailInv, CreditsAreTold, ToldOf, TellsOf
<1>3. /\ Cardinality(ToldOf(w)) \in Nat
      /\ Cardinality(ToldOf(w)') = Cardinality(ToldOf(w)) + 1
  BY <1>1, ToldOnceMore
<1>4. ASSUME NEW v \in Volunteers, v # w
      PROVE  ToldOf(v)' = ToldOf(v)
  BY <1>1, <1>4, ToldAsBefore
<1>5. ASSUME NEW v \in Volunteers
      PROVE  - jobs'[v] = Cardinality(ToldOf(v)')
  <2>1. CASE v = w
    <3>1. jobs[w] \in Int /\ jobs'[w] = jobs[w] - 1
      BY <1>1
    <3>. QED
      BY <1>2, <1>3, <2>1, <3>1
  <2>2. CASE v # w
    BY <1>1, <1>2, <1>4, <2>2
  <2>. QED
    BY <2>1, <2>2
<1>. QED
  BY <1>5 DEF CreditsAreTold, ToldOf, TellsOf

\* No job is taken off, and no mail tells of one.
LEMMA NothingCredited ==
  ASSUME MailInv, jobs' = jobs, NEW ms \in Seq(Mail), asked' = asked \o ms,
         \A v \in Volunteers : \A j \in DOMAIN ms : ~ TellsOf(ms[j], v)
  PROVE  CreditsAreTold'
<1>1. asked \in Seq(Mail)
  BY DEF MailInv
<1>. HIDE DEF TellsOf
<1>2. \A v \in Volunteers : - jobs[v] = Cardinality(ToldOf(v))
  BY DEF MailInv, CreditsAreTold, ToldOf, TellsOf
<1>3. \A v \in Volunteers : ToldOf(v)' = ToldOf(v)
  BY <1>1, ToldAsBefore
<1>4. \A v \in Volunteers : - jobs'[v] = Cardinality(ToldOf(v)')
  BY <1>2, <1>3
<1>. QED
  BY <1>4 DEF CreditsAreTold, ToldOf, TellsOf

LEMMA MailForType ==
  ASSUME NEW id \in 1 .. 8, NEW to \in Volunteers \cup Employees, NEW l \in Letters
  PROVE  /\ MailFor(id, to, l) \in Mail
         /\ MailFor(id, to, l).mailId = id
         /\ MailFor(id, to, l).to = to
         /\ MailFor(id, to, l).letter = l
BY DEF MailFor, Mail

\* Two mails about one letter.
LEMMA TwoMails ==
  ASSUME NEW m1 \in Mail, NEW m2 \in Mail
  PROVE  /\ <<m1, m2>> \in Seq(Mail)
         /\ DOMAIN <<m1, m2>> = {1, 2}
         /\ <<m1, m2>>[1] = m1
         /\ <<m1, m2>>[2] = m2
OBVIOUS

LEMMA OneMail ==
  ASSUME NEW m \in Mail
  PROVE  /\ <<m>> \in Seq(Mail)
         /\ DOMAIN <<m>> = {1}
         /\ <<m>>[1] = m
OBVIOUS

LEMMA NoMail ==
  /\ << >> \in Seq(Mail)
  /\ DOMAIN << >> = {}
OBVIOUS
-----------------------------------------------------------------------------
(***************************************************************************)
(* One lemma per step.                                                     *)
(***************************************************************************)

LEMMA ClaimTells ==
  ASSUME MailInv, NEW v \in Volunteers, NEW l \in Letters,
         NEW day \in RubyDates(today), ClaimAndTell(v, l, day)
  PROVE  MailInv'
<1>1. DeskInv /\ ClaimLetter(v, l, day) /\ jobs' = jobs
  BY DEF MailInv, ClaimAndTell, ClaimLetter
<1>2. [Next]_vars /\ AskedBefore
  BY <1>1, OnlyReUploadAsks DEF Next, VolunteerStep, NoReUpload
<1>3. Exists(l) /\ letter[l].employee_id \in Employees
  BY <1>1, FormMeansPublic DEF ClaimLetter, FormKinds, InOrder, LetterRecord
<1>. DEFINE m1 == MailFor(1, v, l)
            m6 == MailFor(6, letter[l].employee_id, l)
<1>4. /\ m1 \in Mail /\ m1.mailId = 1 /\ m1.letter = l
      /\ m6 \in Mail /\ m6.mailId = 6 /\ m6.letter = l
  BY <1>3, MailForType
<1>5. asked' = asked \o <<m1, m6>> \/ asked' = asked \o << >>
  BY DEF ClaimAndTell, Asks
<1>. HIDE DEF m1, m6
<1>6. CASE asked' = asked \o <<m1, m6>>
  <2>1. /\ <<m1, m6>> \in Seq(Mail)
        /\ DOMAIN <<m1, m6>> = {1, 2}
        /\ <<m1, m6>>[1] = m1
        /\ <<m1, m6>>[2] = m6
    BY <1>4, TwoMails
  <2>. DEFINE ms == <<m1, m6>>
  <2>2. asked' = asked \o ms /\ ms \in Seq(Mail)
    BY <1>6, <2>1
  <2>3. \A k \in DOMAIN ms : ms[k].mailId \in {1, 6} /\ ms[k].letter = l
    BY <1>4, <2>1
  <2>. HIDE DEF ms
  <2>4. Fitting(ms)
    BY <1>3, <2>2, <2>3 DEF Fitting
  <2>5. CreditsAreTold'
    BY <1>1, <2>2, <2>3, NothingCredited DEF TellsOf
  <2>. QED
    BY <1>2, <2>2, <2>4, <2>5, Telling
<1>7. CASE asked' = asked \o << >>
  <2>1. Fitting(<< >>)
    BY NoMail DEF Fitting
  <2>2. CreditsAreTold'
    BY <1>1, <1>7, NoMail, NothingCredited
  <2>. QED
    BY <1>2, <1>7, <2>1, <2>2, Telling
<1>. QED
  BY <1>5, <1>6, <1>7

LEMMA ReturnTells ==
  ASSUME MailInv, NEW v \in Volunteers, NEW l \in Letters, ReturnAndTell(v, l)
  PROVE  MailInv'
<1>1. DeskInv /\ ReturnLetter(v, l) /\ Credits(v)
  BY DEF MailInv, ReturnAndTell, ReturnLetter
<1>2. [Next]_vars /\ AskedBefore
  BY <1>1, OnlyReUploadAsks DEF Next, VolunteerStep, NoReUpload
<1>3. Exists(l) /\ letter[l].employee_id \in Employees
  BY <1>1, FormMeansPublic DEF ReturnLetter, FormKinds, InOrder, LetterRecord
<1>. DEFINE q == MailFor(8, letter[l].employee_id, l)
            m == [q EXCEPT !.vou = v]
            ms == <<m>>
<1>4. m \in Mail /\ m.mailId = 8 /\ m.vou = v /\ m.letter = l
  <2>1. q \in Mail /\ q.mailId = 8 /\ q.letter = l
    BY <1>3, MailForType
  <2>. HIDE DEF q
  <2>. QED
    BY <2>1 DEF Mail
<1>5. asked' = asked \o ms
  BY DEF ReturnAndTell, Asks
<1>. HIDE DEF q, m
<1>6. ms \in Seq(Mail) /\ DOMAIN ms = {1} /\ ms[1] = m
  BY <1>4, OneMail
<1>. HIDE DEF ms
<1>7. Fitting(ms)
  BY <1>3, <1>4, <1>6 DEF Fitting
<1>8. CreditsAreTold'
  <2>1. /\ 1 \in DOMAIN ms
        /\ TellsOf(ms[1], v)
        /\ \A u \in Volunteers : \A j \in DOMAIN ms :
             u # v \/ j # 1 => ~ TellsOf(ms[j], u)
    BY <1>4, <1>6 DEF TellsOf
  <2>. HIDE DEF TellsOf
  <2>. QED
    BY <1>1, <1>5, <1>6, <2>1, CreditedAndTold
<1>. QED
  BY <1>2, <1>5, <1>7, <1>8, Telling

\* The upload has reset re_upload before it asks for its mails.
LEMMA UploadTells ==
  ASSUME MailInv, NEW v \in Volunteers, NEW l \in Letters, UploadAndTell(v, l)
  PROVE  MailInv'
<1>. DEFINE w == letter[l].voulenteer_account
            m2 == MailFor(2, w, l)
            m3 == MailFor(3, letter[l].employee_id, l)
            ms == <<m2, m3>>
<1>1. DeskInv /\ ReturnFileUpload(v, l) /\ Credits(w)
  BY DEF MailInv, UploadAndTell, ReturnFileUpload
<1>2. [Next]_vars /\ AskedBefore
  BY <1>1, OnlyReUploadAsks DEF Next, VolunteerStep, NoReUpload
<1>3. Exists(l) /\ letter[l] \in LetterRecord
  BY <1>1, FormMeansPublic DEF ReturnFileUpload, FormKinds, InOrder
<1>4. w \in Volunteers /\ letter[l].employee_id \in Employees
  BY <1>1, <1>3 DEF ReturnFileUpload, LetterRecord
<1>5. ~ letter'[l].re_upload
  <2>1. ~ Uploaded(letter[l], v, today).re_upload
    BY <1>3 DEF Uploaded, LetterRecord
  <2>2. letter \in [Letters -> LetterRecord \cup {Nil}]
    BY <1>1 DEF DeskInv, TypeOK
  <2>3. letter'[l] = Uploaded(letter[l], v, today)
    BY <1>1, <2>2 DEF ReturnFileUpload, Puts
  <2>. QED
    BY <2>1, <2>3
<1>6. /\ m2 \in Mail /\ m2.mailId = 2 /\ m2.to = w /\ m2.letter = l
      /\ m3 \in Mail /\ m3.mailId = 3 /\ m3.letter = l
  BY <1>4, MailForType
<1>7. asked' = asked \o ms
  BY DEF UploadAndTell, Asks
<1>. HIDE DEF w, m2, m3
<1>8. ms \in Seq(Mail) /\ DOMAIN ms = {1, 2} /\ ms[1] = m2 /\ ms[2] = m3
  BY <1>6, TwoMails
<1>. HIDE DEF ms
<1>9. Fitting(ms)
  BY <1>3, <1>5, <1>6, <1>8 DEF Fitting
<1>10. CreditsAreTold'
  <2>1. /\ TellsOf(ms[1], w)
        /\ \A u \in Volunteers : u # w => ~ TellsOf(ms[1], u)
        /\ \A u \in Volunteers : ~ TellsOf(ms[2], u)
    BY <1>6, <1>8 DEF TellsOf
  <2>. HIDE DEF TellsOf
  <2>. QED
    BY <1>1, <1>4, <1>7, <1>8, <2>1, CreditedAndTold
<1>. QED
  BY <1>2, <1>7, <1>9, <1>10, Telling

\* Nothing is told; whatever was, of this letter, is noted.
LEMMA AskingTellsNobody ==
  ASSUME MailInv, NEW v \in Volunteers, NEW l \in Letters, ReUploadUntold(v, l)
  PROVE  MailInv'
<1>1. DeskInv /\ ReUpload(v, l) /\ jobs' = jobs /\ asked \in Seq(Mail)
  BY DEF MailInv, ReUploadUntold, ReUpload
<1>2. [Next]_vars
  BY <1>1 DEF Next, VolunteerStep
<1>3. /\ Len(asked) \in Nat
      /\ DOMAIN asked = 1 .. Len(asked)
      /\ \A n \in DOMAIN asked : asked[n] \in Mail
  BY <1>1, LenProperties, ElementOfSeq
<1>. DEFINE Noted(n) == IF asked[n].letter = l THEN [asked[n] EXCEPT !.since = TRUE]
                                               ELSE asked[n]
<1>4. asked' = [n \in DOMAIN asked |-> Noted(n)]
  BY DEF ReUploadUntold
<1>5. ASSUME NEW n \in DOMAIN asked
      PROVE  /\ Noted(n) \in Mail
             /\ Noted(n).mailId = asked[n].mailId
             /\ Noted(n).to = asked[n].to
             /\ Noted(n).letter = asked[n].letter
             /\ Noted(n).vou = asked[n].vou
             /\ asked[n].since => Noted(n).since
             /\ asked[n].letter = l => Noted(n).since
  <2>1. asked[n] \in Mail
    BY <1>3
  <2>. QED
    BY <2>1 DEF Mail
<1>. HIDE DEF Noted
<1>6. DOMAIN asked' = DOMAIN asked /\ \A n \in DOMAIN asked : asked'[n] = Noted(n)
  BY <1>4
<1>7. asked' \in Seq(Mail)
  <2>1. asked' \in [1 .. Len(asked) -> Mail]
    BY <1>3, <1>4, <1>5
  <2>. QED
    BY <1>3, <2>1, SeqDef
<1>8. MailsKept
  BY <1>5, <1>6 DEF MailsKept
<1>9. NewMails = {}
  BY <1>6 DEF NewMails
<1>10. TellsOfLetters /\ TellsOldOnce
  BY <1>7, <1>8, <1>9 DEF TellsOfLetters, TellsOldOnce
<1>11. NotesAsking
  <2>1. ASSUME NEW m \in Letters, m # l
        PROVE  letter'[m] = letter[m]
    BY <1>1, <2>1 DEF DeskInv, TypeOK, ReUpload, Puts
  <2>2. ASSUME NEW n \in DOMAIN asked, asked'[n].mailId = 3,
               letter'[asked'[n].letter].re_upload
        PROVE  asked'[n].since
    <3>1. /\ asked[n].mailId = 3
          /\ asked'[n].letter = asked[n].letter
          /\ asked[n].letter \in Letters
      BY <1>3, <1>5, <1>6, <2>2 DEF Mail
    <3>2. CASE asked[n].letter = l
      BY <1>5, <1>6, <3>2
    <3>3. CASE asked[n].letter # l
      <4>1. asked[n].since
        BY <2>1, <2>2, <3>1, <3>3 DEF MailInv
      <4>. QED
        BY <1>5, <1>6, <4>1
    <3>. QED
      BY <3>2, <3>3
  <2>. QED
    BY <1>6, <2>2 DEF NotesAsking
<1>12. CreditsAreTold'
  <2>1. \A u \in Volunteers : - jobs[u] = Cardinality(ToldOf(u))
    BY DEF MailInv, CreditsAreTold, ToldOf, TellsOf
  <2>2. \A u \in Volunteers : ToldOf(u)' = ToldOf(u)
    BY <1>5, <1>6 DEF ToldOf, TellsOf
  <2>3. \A u \in Volunteers : - jobs'[u] = Cardinality(ToldOf(u)')
    BY <1>1, <2>1, <2>2
  <2>. QED
    BY <2>3 DEF CreditsAreTold, ToldOf, TellsOf
<1>. QED
  BY <1>2, <1>10, <1>11, <1>12, MailInvKept

\* The mails are f[l] for l in L, in this order.
InOrderOf(order, mails, f, L) ==
  /\ IsFiniteSet(L)
  /\ f \in [L -> Mail]
  /\ \A l \in L : f[l] \in mails
  /\ \A m \in mails : \E l \in L : m = f[l]
  /\ order \in [1 .. Cardinality(mails) -> mails]
  /\ \A m \in mails : \E i \in DOMAIN order : order[i] = m

\* A job asks for each of its mails exactly once.
LEMMA EachOnce ==
  ASSUME NEW L, NEW f, NEW mails, NEW order, InOrderOf(order, mails, f, L)
  PROVE  /\ order \in Seq(Mail)
         /\ \A k \in DOMAIN order : \E l \in L : order[k] = f[l]
         /\ \A j, k \in DOMAIN order : order[j] = order[k] => j = k
<1>. USE DEF InOrderOf
<1>1. f \in Surjection(L, mails)
  BY DEF Surjection
<1>2. IsFiniteSet(mails) /\ Cardinality(mails) \in Nat
  BY <1>1, FS_Surjection, FS_CardinalityType
<1>. DEFINE c == Cardinality(mails)
<1>3. c \in Nat /\ order \in [1 .. c -> mails]
  BY <1>2
<1>4. order \in Surjection(1 .. c, mails)
  BY DEF Surjection
<1>5. c = Cardinality(mails)
  OBVIOUS
<1>. HIDE DEF c
<1>6. IsFiniteSet(1 .. c) /\ Cardinality(1 .. c) = c
  <2>1. IsFiniteSet(1 .. c) /\ Cardinality(1 .. c) = IF 1 > c THEN 0 ELSE c - 1 + 1
    BY <1>3, FS_Interval
  <2>. QED
    BY <1>3, <2>1
<1>7. order \in Injection(1 .. c, mails)
  BY <1>4, <1>5, <1>6, FS_SurjSameCardinalityImpliesInj
<1>8. \A j, k \in DOMAIN order : order[j] = order[k] => j = k
  BY <1>7 DEF Injection, IsInjective
<1>9. order \in [1 .. c -> Mail]
  BY <1>3
<1>10. order \in Seq(Mail)
  BY <1>3, <1>9, SeqDef
<1>. QED
  BY <1>3, <1>8, <1>10

\* What the job tells of was unclaimed and no longer is.
LEMMA OldTells ==
  ASSUME MailInv, OldAndTell
  PROVE  MailInv'
<1>1. DeskInv /\ MarkOldLetters /\ jobs' = jobs
  BY DEF MailInv, OldAndTell, MarkOldLetters
<1>2. [Next]_vars /\ AskedBefore
  BY <1>1, OnlyReUploadAsks DEF Next, JobStep, NoReUpload
<1>3. ASSUME NEW l \in OldLetters
      PROVE  /\ l \in Letters /\ Exists(l)
             /\ letter[l] \in LetterRecord
             /\ letter[l].employee_id \in Employees
             /\ letter[l].status = "unclaimed"
             /\ letter'[l].status # "unclaimed"
  <2>1. l \in Letters /\ Exists(l) /\ letter[l].status = "unclaimed"
    BY DEF OldLetters, OldOn
  <2>2. letter[l] \in LetterRecord
    BY <1>1, <2>1 DEF DeskInv, InOrder
  <2>3. letter'[l] = MarkedOld(letter[l])
    BY <1>1, <2>1 DEF MarkOldLetters
  <2>4. MarkedOld(letter[l]).status = "emergent"
    BY <2>2 DEF MarkedOld, LetterRecord
  <2>. QED
    BY <2>1, <2>2, <2>3, <2>4 DEF LetterRecord
<1>4. IsFiniteSet(OldLetters)
  <2>1. OldLetters \subseteq ExistingLetters
    BY DEF OldLetters, ExistingLetters
  <2>. QED
    BY <2>1, FS_Subset DEF MailInv
<1>. DEFINE f == [l \in OldLetters |-> MailFor(5, letter[l].employee_id, l)]
            mails == {MailFor(5, letter[l].employee_id, l) : l \in OldLetters}
<1>5. PICK order \in [1 .. Cardinality(mails) -> mails] :
        /\ \A m \in mails : \E i \in DOMAIN order : order[i] = m
        /\ asked' = asked \o order
  BY DEF OldAndTell, AsksEach, Asks
<1>6. \A l \in OldLetters : f[l] \in Mail /\ f[l].mailId = 5 /\ f[l].letter = l
  <2>1. ASSUME NEW l \in OldLetters
        PROVE  LET m == MailFor(5, letter[l].employee_id, l)
               IN  m \in Mail /\ m.mailId = 5 /\ m.letter = l
    BY <1>3, MailForType
  <2>. QED
    BY <2>1
<1>7. /\ f \in [OldLetters -> Mail]
      /\ \A l \in OldLetters : f[l] \in mails
      /\ \A m \in mails : \E l \in OldLetters : m = f[l]
  BY <1>6
<1>. HIDE DEF f, mails
<1>8. InOrderOf(order, mails, f, OldLetters)
  BY <1>4, <1>5, <1>7 DEF InOrderOf
<1>9. /\ order \in Seq(Mail)
      /\ \A k \in DOMAIN order : \E l \in OldLetters : order[k] = f[l]
      /\ \A j, k \in DOMAIN order : order[j] = order[k] => j = k
  BY <1>8, EachOnce
<1>10. \A k \in DOMAIN order :
        /\ order[k].mailId = 5
        /\ order[k].letter \in OldLetters
        /\ order[k] = f[order[k].letter]
  BY <1>6, <1>9
<1>11. Fitting(order)
  <2>1. \A j, k \in DOMAIN order : order[j].letter = order[k].letter => j = k
    BY <1>9, <1>10
  <2>. QED
    BY <1>3, <1>9, <1>10, <2>1 DEF Fitting
<1>12. CreditsAreTold'
  <2>1. \A v \in Volunteers : \A j \in DOMAIN order : ~ TellsOf(order[j], v)
    BY <1>10 DEF TellsOf
  <2>. HIDE DEF TellsOf
  <2>. QED
    BY <1>1, <1>5, <1>9, <2>1, NothingCredited
<1>. QED
  BY <1>2, <1>5, <1>11, <1>12, Telling

LEMMA ReminderTells ==
  ASSUME MailInv, RemindAndTell
  PROVE  MailInv'
<1>1. DeskInv /\ DueReminder /\ jobs' = jobs
  BY DEF MailInv, RemindAndTell, DueReminder
<1>2. [Next]_vars /\ AskedBefore
  BY <1>1, OnlyReUploadAsks DEF Next, JobStep, NoReUpload
<1>3. ASSUME NEW l \in ReminderLetters
      PROVE  /\ l \in Letters /\ Exists(l)
             /\ letter[l].voulenteer_account \in Volunteers
  <2>1. l \in Letters /\ Exists(l) /\ letter[l].voulenteer_account # Nil
    BY DEF ReminderLetters, RemindOn
  <2>2. letter[l] \in LetterRecord
    BY <1>1, <2>1 DEF DeskInv, InOrder
  <2>. QED
    BY <2>1, <2>2 DEF LetterRecord
<1>4. IsFiniteSet(ReminderLetters)
  <2>1. ReminderLetters \subseteq ExistingLetters
    BY DEF ReminderLetters, ExistingLetters
  <2>. QED
    BY <2>1, FS_Subset DEF MailInv
<1>. DEFINE f == [l \in ReminderLetters |-> MailFor(4, letter[l].voulenteer_account, l)]
            mails == {MailFor(4, letter[l].voulenteer_account, l) : l \in ReminderLetters}
<1>5. PICK order \in [1 .. Cardinality(mails) -> mails] :
        /\ \A m \in mails : \E i \in DOMAIN order : order[i] = m
        /\ asked' = asked \o order
  BY DEF RemindAndTell, AsksEach, Asks
<1>6. \A l \in ReminderLetters : f[l] \in Mail /\ f[l].mailId = 4 /\ f[l].letter = l
  <2>1. ASSUME NEW l \in ReminderLetters
        PROVE  LET m == MailFor(4, letter[l].voulenteer_account, l)
               IN  m \in Mail /\ m.mailId = 4 /\ m.letter = l
    BY <1>3, MailForType
  <2>. QED
    BY <2>1
<1>7. /\ f \in [ReminderLetters -> Mail]
      /\ \A l \in ReminderLetters : f[l] \in mails
      /\ \A m \in mails : \E l \in ReminderLetters : m = f[l]
  BY <1>6
<1>. HIDE DEF f, mails
<1>8. InOrderOf(order, mails, f, ReminderLetters)
  BY <1>4, <1>5, <1>7 DEF InOrderOf
<1>9. /\ order \in Seq(Mail)
      /\ \A k \in DOMAIN order : \E l \in ReminderLetters : order[k] = f[l]
      /\ \A j, k \in DOMAIN order : order[j] = order[k] => j = k
  BY <1>8, EachOnce
<1>10. \A k \in DOMAIN order :
        order[k].mailId = 4 /\ order[k].letter \in ReminderLetters
  BY <1>6, <1>9
<1>11. Fitting(order)
  BY <1>3, <1>9, <1>10 DEF Fitting
<1>12. CreditsAreTold'
  <2>1. \A v \in Volunteers : \A j \in DOMAIN order : ~ TellsOf(order[j], v)
    BY <1>10 DEF TellsOf
  <2>. HIDE DEF TellsOf
  <2>. QED
    BY <1>1, <1>5, <1>9, <2>1, NothingCredited
<1>. QED
  BY <1>2, <1>5, <1>11, <1>12, Telling

\* Steps of the desk that ask for no mail, and its standing still.
LEMMA QuietTells ==
  ASSUME MailInv, QuietStep \/ UNCHANGED mailVars
  PROVE  MailInv'
<1>1. NextDay \/ EmployeeStep \/ MarkDueLetters \/ UNCHANGED vars
  BY DEF QuietStep, mailVars
<1>2. asked' = asked /\ asked \in Seq(Mail)
  BY DEF QuietStep, mailVars, MailInv
<1>3. DeskInv /\ [Next]_vars /\ AskedBefore
  BY <1>1, OnlyReUploadAsks DEF Next, JobStep, NoReUpload, MailInv
<1>4. jobs' = jobs
  BY <1>1 DEF NextDay, EmployeeStep, FileUpload, UpdateLetter, DeleteLetter,
              MarkDueLetters, vars
<1>5. asked' = asked \o << >>
  BY <1>2, ConcatEmptySeq
<1>6. Fitting(<< >>)
  BY NoMail DEF Fitting
<1>7. CreditsAreTold'
  BY <1>4, <1>5, NoMail, NothingCredited
<1>. QED
  BY <1>3, <1>5, <1>6, <1>7, Telling

\* The worker writes down nothing but that it ran.
LEMMA TaskTells ==
  ASSUME MailInv, NEW i \in DOMAIN asked, RunTask(i)
  PROVE  MailInv'
<1>1. /\ UNCHANGED vars /\ asked \in Seq(Mail)
      /\ asked' = [asked EXCEPT ![i].sent = asked[i].sent + 1]
  BY DEF MailInv, RunTask
<1>2. UNCHANGED <<letter, jobs>>
  BY <1>1 DEF vars
<1>3. /\ Len(asked) \in Nat
      /\ DOMAIN asked = 1 .. Len(asked)
      /\ \A n \in DOMAIN asked : asked[n] \in Mail
  BY <1>1, LenProperties, ElementOfSeq
<1>. DEFINE r == [asked[i] EXCEPT !.sent = asked[i].sent + 1]
<1>4. /\ r \in Mail
      /\ r.mailId = asked[i].mailId /\ r.to = asked[i].to
      /\ r.letter = asked[i].letter /\ r.vou = asked[i].vou
      /\ r.since = asked[i].since
  <2>1. asked[i] \in Mail
    BY <1>3
  <2>. QED
    BY <2>1 DEF Mail
<1>5. asked' = [asked EXCEPT ![i] = r]
  BY <1>1
<1>. HIDE DEF r
<1>6. /\ DOMAIN asked' = DOMAIN asked
      /\ asked'[i] = r
      /\ \A n \in DOMAIN asked : n # i => asked'[n] = asked[n]
  BY <1>3, <1>5
<1>7. asked' \in Seq(Mail)
  <2>1. asked' \in [1 .. Len(asked) -> Mail]
    BY <1>1, <1>3, <1>4, <1>5, <1>6
  <2>. QED
    BY <1>3, <2>1, SeqDef
<1>8. \A n \in DOMAIN asked :
        /\ asked'[n].mailId = asked[n].mailId /\ asked'[n].to = asked[n].to
        /\ asked'[n].letter = asked[n].letter /\ asked'[n].vou = asked[n].vou
        /\ asked'[n].since = asked[n].since
  BY <1>4, <1>6
<1>9. TellsOfLetters /\ TellsOldOnce /\ NotesAsking
  <2>1. NewMails = {}
    BY <1>6 DEF NewMails
  <2>2. MailsKept
    BY <1>6, <1>8 DEF MailsKept
  <2>3. NotesAsking
    BY <1>2, <1>6, <1>8 DEF NotesAsking, MailInv
  <2>. QED
    BY <1>7, <2>1, <2>2, <2>3 DEF TellsOfLetters, TellsOldOnce
<1>10. CreditsAreTold'
  <2>1. \A u \in Volunteers : - jobs[u] = Cardinality(ToldOf(u))
    BY DEF MailInv, CreditsAreTold, ToldOf, TellsOf
  <2>2. \A u \in Volunteers : ToldOf(u)' = ToldOf(u)
    BY <1>6, <1>8 DEF ToldOf, TellsOf
  <2>3. \A u \in Volunteers : - jobs'[u] = Cardinality(ToldOf(u)')
    BY <1>2, <2>1, <2>2
  <2>. QED
    BY <2>3 DEF CreditsAreTold, ToldOf, TellsOf
<1>. QED
  BY <1>1, <1>9, <1>10, MailInvKept
-----------------------------------------------------------------------------
\* Asking for mails and sending them changes nothing at the desk, so all that
\* is proved of LetterDesk holds with the mails as well.
THEOREM MailImplementsDesk == MailSpec => Spec
<1>1. MailInit => Init
  BY DEF MailInit
<1>2. [MailNext]_mailVars => [Next]_vars
  <2>. SUFFICES ASSUME [MailNext]_mailVars PROVE [Next]_vars
    OBVIOUS
  <2>1. CASE TellingStep
    BY <2>1 DEF TellingStep, ClaimAndTell, ReturnAndTell, UploadAndTell, ReUploadUntold,
                OldAndTell, RemindAndTell, Next, VolunteerStep, JobStep
  <2>2. CASE QuietStep
    BY <2>2 DEF QuietStep, Next, JobStep
  <2>3. CASE \E n \in DOMAIN asked : RunTask(n)
    BY <2>3 DEF RunTask
  <2>4. CASE UNCHANGED mailVars
    BY <2>4 DEF mailVars
  <2>. QED
    BY <2>1, <2>2, <2>3, <2>4 DEF MailNext
<1>. QED
  BY <1>1, <1>2, PTL DEF MailSpec, Spec

LEMMA InitMailInv == MailInit => MailInv
<1>. SUFFICES ASSUME MailInit PROVE MailInv
  OBVIOUS
<1>1. /\ DeskInv
      /\ asked = << >>
      /\ \A l \in Letters : letter[l] = Nil
      /\ \A v \in Volunteers : jobs[v] = 0
  BY InitDeskInv DEF MailInit, Init
<1>2. asked \in Seq(Mail) /\ DOMAIN asked = {}
  BY <1>1, NoMail
<1>3. ExistingLetters = {}
  BY <1>1 DEF ExistingLetters, Exists
<1>4. CreditsAreTold
  <2>1. \A v \in Volunteers : ToldOf(v) = {}
    BY <1>2 DEF ToldOf
  <2>2. \A v \in Volunteers : - jobs[v] = Cardinality(ToldOf(v))
    BY <1>1, <2>1, FS_EmptySet
  <2>. QED
    BY <2>2 DEF CreditsAreTold, ToldOf, TellsOf
<1>. QED
  BY <1>1, <1>2, <1>3, <1>4, FS_EmptySet DEF MailInv

LEMMA NextMailInv == MailInv /\ [MailNext]_mailVars => MailInv'
<1>. SUFFICES ASSUME MailInv, [MailNext]_mailVars PROVE MailInv'
  OBVIOUS
<1>1. CASE TellingStep
  BY <1>1, ClaimTells, ReturnTells, UploadTells, AskingTellsNobody, OldTells,
     ReminderTells DEF TellingStep
<1>2. CASE QuietStep \/ UNCHANGED mailVars
  BY <1>2, QuietTells
<1>3. CASE \E n \in DOMAIN asked : RunTask(n)
  BY <1>3, TaskTells
<1>. QED
  BY <1>1, <1>2, <1>3 DEF MailNext

LEMMA MailInvHolds == MailSpec => []MailInv
<1>. QED
  BY InitMailInv, NextMailInv, PTL DEF MailSpec

\* However often the job runs and whatever else happens to the letter, its
\* employee is told at most once that nobody took it (the status test of
\* findOldLetters is all that stands against a second mail).
THEOREM OldNoticeNeverTwice == MailSpec => []OldNoticeOnce
<1>1. MailInv => OldNoticeOnce
  <2>. SUFFICES ASSUME MailInv, NEW l \in Letters
                PROVE  Cardinality(AskedFor(5, l)) <= 1
    BY DEF OldNoticeOnce
  <2>1. \A m, n \in AskedFor(5, l) : m = n
    BY DEF AskedFor, MailInv
  <2>. HIDE DEF AskedFor
  <2>2. CASE AskedFor(5, l) = {}
    BY <2>2, FS_EmptySet
  <2>3. CASE AskedFor(5, l) # {}
    <3>1. PICK n \in AskedFor(5, l) : TRUE
      BY <2>3
    <3>2. AskedFor(5, l) = {n}
      BY <2>1, <3>1
    <3>3. Cardinality({n}) = 1
      BY FS_Singleton
    <3>. QED
      BY <3>2, <3>3
  <2>. QED
    BY <2>2, <2>3
<1>. QED
  BY <1>1, MailInvHolds, PTL

\* The jobs taken off an account by returns and uploads are exactly those
\* for which a mail was asked for, 8 to the employee or 2 to the volunteer.
THEOREM CreditsAlwaysTold == MailSpec => []CreditsAreTold
<1>1. MailInv => CreditsAreTold
  BY DEF MailInv
<1>. QED
  BY <1>1, MailInvHolds, PTL

\* A mail with the subject "uploaded again" is sent only for an upload that
\* came before yet another one was asked for: doReturnFileUpload resets
\* re_upload before EmailWorker looks at it.
THEOREM AgainAlwaysMeansAskedSince == MailSpec => AgainMeansAskedSince
<1>. DEFINE Step == \A n \in DOMAIN asked :
                      asked[n].mailId = 3 /\ Sent(n) /\ letter[asked[n].letter].re_upload
                        => asked[n].since
<1>1. MailInv => Step
  BY DEF MailInv
<1>2. MailInv /\ [MailNext]_mailVars => [Step]_mailVars
  BY <1>1
<1>. QED
  BY <1>2, MailInvHolds, PTL DEF MailSpec, AgainMeansAskedSince
================================================================================
