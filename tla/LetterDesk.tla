------------------------------ MODULE LetterDesk ------------------------------
(***************************************************************************)
(* The life of the letters when every request and every job runs alone:    *)
(* one action per handler, from upload by an employee to the translation.  *)
(*                                                                         *)
(* What stays interleaved is the people.  A volunteer acts on a page that  *)
(* was rendered at some earlier time, so `forms' collects every form any   *)
(* volunteer's page ever showed, and any of them may be submitted at any   *)
(* later time.  Employees may submit their own at any time: their handlers *)
(* check what they need, and their pages list every letter they own.       *)
(***************************************************************************)
EXTENDS LetterEntity, FiniteSets

CONSTANTS
  Letters,        \* the ids uploads may create
  MaxDay,         \* bound on the calendar
  MaxCredits      \* bound on the jobs a volunteer gives back or delivers

ASSUME DeskAssumption ==
  /\ MaxDay \in Nat
  /\ MaxCredits \in Nat

VARIABLES
  today,          \* the day in Taipei
  letter,         \* the Letters entities, Nil for an id not yet used
  jobs,           \* Account.jobs
  vou_logs,       \* the VoulenteerLog entities, without their ids
  due_logs,       \* the VoulenteerDueLog entities, without their ids
  forms,          \* <<volunteer, letter, kind>> of every form ever shown
  swept           \* history: mark_due_letters has run today

vars == <<today, letter, jobs, vou_logs, due_logs, forms, swept>>

VouLog == [ voulenteer_id : Volunteers, letter_id : Letters,
            claim_date : Int \cup {Nil} ]

DueLog == [ letter_id : Letters, voulenteer_account : Volunteers \cup {Nil},
            claim_date : Int \cup {Nil}, due_date : Int \cup {Nil} ]

Forms == Volunteers \X Letters \X FormKinds

Exists(l) == letter[l] # Nil

\* Everybody looks at the pages after every step.
PagesShown ==
  forms' = forms \cup
    {f \in Forms : letter'[f[2]] # Nil /\ f[3] \in FormsFor(letter'[f[2]], f[1])}

\* The handler puts r back as letter l, and pages show it.
Puts(l, r) == letter' = [letter EXCEPT ![l] = r] /\ PagesShown

\* Account.jobs of v is decremented.
Credits(v) ==
  /\ jobs[v] > - MaxCredits
  /\ jobs' = [jobs EXCEPT ![v] = jobs[v] - 1]
-----------------------------------------------------------------------------
Init ==
  /\ today = 0
  /\ letter = [l \in Letters |-> Nil]
  /\ jobs = [v \in Volunteers |-> 0]
  /\ vou_logs = {}
  /\ due_logs = {}
  /\ forms = {}
  /\ swept = FALSE

NextDay ==
  /\ today < MaxDay
  /\ today' = today + 1
  /\ swept' = FALSE
  /\ UNCHANGED <<letter, jobs, vou_logs, due_logs, forms>>

FileUpload(e, l, type) ==
  /\ ~ Exists(l)
  /\ Puts(l, NewLetter(e, type, today))
  /\ UNCHANGED <<today, jobs, vou_logs, due_logs, swept>>

\* Only the chi2eng table has a field for return_days.
UpdateLetter(e, l, days) ==
  /\ Exists(l)
  /\ letter[l].employee_id = e
  /\ letter[l].trans_type = "eng" => days = Nil
  /\ Puts(l, Published(letter[l], days))
  /\ UNCHANGED <<today, jobs, vou_logs, due_logs, swept>>

DeleteLetter(e, l) ==
  /\ Exists(l)
  /\ Deletable(letter[l], e)
  /\ Puts(l, Deleted(letter[l]))
  /\ UNCHANGED <<today, jobs, vou_logs, due_logs, swept>>

\* day is the Ruby application's idea of today.  A claim turned down only
\* sets a notice for the next page.
ClaimLetter(v, l, day) ==
  /\ <<v, l, "claim">> \in forms
  /\ Claimable(letter[l])
  /\ Puts(l, Claimed(letter[l], v, day))
  /\ UNCHANGED <<today, jobs, vou_logs, due_logs, swept>>

VouLogOf(v, l) ==
  [voulenteer_id |-> v, letter_id |-> l, claim_date |-> letter[l].claim_date]

\* Mutated form of ReturnLetter: the account is not saved.
ReturnUncounted(v, l) ==
  /\ <<v, l, "return">> \in forms
  /\ Puts(l, GivenBack(letter[l]))
  /\ vou_logs' = vou_logs \cup {VouLogOf(v, l)}
  /\ UNCHANGED <<today, jobs, due_logs, swept>>

\* The handler asks neither whether v holds the letter nor whether anybody
\* does: the form on v's page is all there is.
ReturnLetter(v, l) ==
  /\ <<v, l, "return">> \in forms
  /\ Puts(l, GivenBack(letter[l]))
  /\ Credits(v)
  /\ vou_logs' = vou_logs \cup {VouLogOf(v, l)}
  /\ UNCHANGED <<today, due_logs, swept>>

\* v uploads; the account credited is the one the letter names.  With no
\* account there the handler fails before it writes anything.
ReturnFileUpload(v, l) ==
  /\ <<v, l, "upload">> \in forms
  /\ letter[l].voulenteer_account # Nil
  /\ Puts(l, Uploaded(letter[l], v, today))
  /\ Credits(letter[l].voulenteer_account)
  /\ UNCHANGED <<today, vou_logs, due_logs, swept>>

ReUpload(v, l) ==
  /\ <<v, l, "re_upload">> \in forms
  /\ Puts(l, ReUploadAsked(letter[l]))
  /\ UNCHANGED <<today, jobs, vou_logs, due_logs, swept>>

DueLetters == {l \in Letters : Exists(l) /\ DueOn(letter[l], today)}
OldLetters == {l \in Letters : Exists(l) /\ OldOn(letter[l], today)}

DueLogOf(l) ==
  [ letter_id |-> l, voulenteer_account |-> letter[l].voulenteer_account,
    claim_date |-> letter[l].claim_date, due_date |-> letter[l].due_date ]

MarkDueLetters ==
  /\ letter' = [l \in Letters |-> IF l \in DueLetters THEN MarkedDue(letter[l])
                                                      ELSE letter[l]]
  /\ due_logs' = due_logs \cup {DueLogOf(l) : l \in DueLetters}
  /\ swept' = TRUE
  /\ PagesShown
  /\ UNCHANGED <<today, jobs, vou_logs>>

MarkOldLetters ==
  /\ letter' = [l \in Letters |-> IF l \in OldLetters THEN MarkedOld(letter[l])
                                                      ELSE letter[l]]
  /\ PagesShown
  /\ UNCHANGED <<today, jobs, vou_logs, due_logs, swept>>

\* Mapped, but commented out of cron.xml: it runs when somebody asks for it.
DueReminder ==
  /\ letter' = [l \in Letters |->
                  IF Exists(l) /\ RemindOn(letter[l], today)
                    THEN Reminded(letter[l]) ELSE letter[l]]
  /\ PagesShown
  /\ UNCHANGED <<today, jobs, vou_logs, due_logs, swept>>

EmployeeStep ==
  \E e \in Employees, l \in Letters :
    \/ \E type \in TransTypes : FileUpload(e, l, type)
    \/ \E days \in ReturnDays \cup {Nil} : UpdateLetter(e, l, days)
    \/ DeleteLetter(e, l)

VolunteerStep ==
  \E v \in Volunteers, l \in Letters :
    \/ \E day \in RubyDates(today) : ClaimLetter(v, l, day)
    \/ ReturnLetter(v, l)
    \/ ReturnFileUpload(v, l)
    \/ ReUpload(v, l)

JobStep == MarkDueLetters \/ MarkOldLetters \/ DueReminder

Next == NextDay \/ EmployeeStep \/ VolunteerStep \/ JobStep

Spec == Init /\ [][Next]_vars

\* Days pass, and cron runs the two jobs it lists every morning.
Fairness ==
  WF_vars(NextDay) /\ WF_vars(MarkDueLetters) /\ WF_vars(MarkOldLetters)

LiveSpec == Spec /\ Fairness
-----------------------------------------------------------------------------
TypeOK ==
  /\ today \in Nat
  /\ letter \in [Letters -> LetterRecord \cup {Nil}]
  /\ jobs \in [Volunteers -> Int]
  /\ vou_logs \in SUBSET VouLog
  /\ due_logs \in SUBSET DueLog
  /\ forms \in SUBSET Forms
  /\ swept \in BOOLEAN

IsHeld(l) == Exists(l) /\ letter[l].voulenteer_id # Nil

\* The fields of every record agree: who holds it, since when, until when
\* and in which status, and whether a translation came in.  Six handlers in
\* two languages write these fields, none of them all.
RecordsAgree ==
  \A l \in Letters : Exists(l) => CustodyAgrees(letter[l]) /\ FileAgrees(letter[l])

\* A letter the volunteers' page offers is one the claim handler accepts:
\* the page selects by due_date, the handler by voulenteer_id.
OfferedIsClaimable ==
  \A l \in Letters : Exists(l) /\ Offered(letter[l]) => Claimable(letter[l])

\* Everything shown to volunteers has been published, and so has everything
\* in their hands: no draft gets out, and nothing is held that could not go
\* back on offer.
ShownIsPublished ==
  \A l \in Letters :
    (IsHeld(l) \/ \E v \in Volunteers, k \in FormKinds : <<v, l, k>> \in forms)
      => Exists(l) /\ (letter[l].show \/ letter[l].deleted)

\* What a volunteer gives back is taken off jobs before the return is
\* logged, so jobs never falls short of the log (both are written by
\* return_letter, jobs also by every upload).
ReturnsAreCredited ==
  \A v \in Volunteers :
    jobs[v] + Cardinality({log \in vou_logs : log.voulenteer_id = v}) <= 0

\* Once the job has run in the morning, no letter is in a volunteer's hands
\* without a translation on the third day after its due date or later.
SweptClean ==
  swept => \A l \in Letters :
             IsHeld(l) /\ letter[l].return_file_url = Nil
               => today < letter[l].due_date + 3

\* A letter never passes from one volunteer to another directly: whatever
\* stale page somebody acts on, a claim finds the letter free or fails.
NoHandover ==
  [][\A l \in Letters :
       IsHeld(l) /\ IsHeld(l)'
         => letter'[l].voulenteer_id = letter[l].voulenteer_id]_vars

\* A letter that leaves a volunteer's hands is at once on every volunteer's
\* page again, as urgent, unless its employee has deleted it: no handler
\* has to restore `show' for that except the due job, which does.
ReleasedIsOfferedAgain ==
  [][\A l \in Letters :
       IsHeld(l) /\ ~ IsHeld(l)' /\ ~ letter[l].deleted
         => /\ Offered(letter'[l])
            /\ letter'[l].status = "emergent"]_vars

\* The days a volunteer has after the due date before the letter is taken
\* back, according to the reminder he is sent (MailTemplate.java:98): two for
\* a chi letter, three for an eng one.
DaysPromised(r) == IF r.trans_type = "chi" THEN 2 ELSE 3

\* A letter leaves a volunteer's hands only by a return, which is logged
\* with the claim it ends, or by the due job, which logs it too and takes
\* only what is not translated, and never before the days the volunteer was
\* promised are over.
ReleaseIsLogged ==
  [][\A l \in Letters :
       IsHeld(l) /\ ~ IsHeld(l)' =>
         \/ \E v \in Volunteers : VouLogOf(v, l) \in vou_logs' /\ jobs'[v] < jobs[v]
         \/ /\ DueLogOf(l) \in due_logs'
            /\ letter[l].due_date + DaysPromised(letter[l]) <= today
            /\ letter[l].return_file_url = Nil]_vars

\* An overdue letter without a translation does not stay with its volunteer.
OverdueComesBack ==
  \A l \in Letters :
    (IsHeld(l) /\ letter[l].return_file_url = Nil /\ letter[l].due_date + 3 <= MaxDay)
      ~> (~ IsHeld(l) \/ letter[l].return_file_url # Nil)

\* A letter nobody claims becomes urgent, published or not.
UnclaimedBecomesUrgent ==
  \A l \in Letters :
    (Exists(l) /\ letter[l].create_date + OldAge(letter[l]) + 1 <= MaxDay)
      ~> (Exists(l) /\ (letter[l].status # "unclaimed" \/ letter[l].deleted))
-----------------------------------------------------------------------------
(***************************************************************************)
(* The desk implements the life cycle of LetterCustody.                    *)
(***************************************************************************)
C == INSTANCE LetterCustody WITH
       custody <- [l \in Letters |-> IF letter[l] = Nil THEN Nil
                                                       ELSE CustodyOf(letter[l])]

\* Every handler moves each letter along the life cycle or leaves it alone.
ImplementsCustody == C!Spec
-----------------------------------------------------------------------------
(***************************************************************************)
(* What the program's texts say and the program does not do.               *)
(***************************************************************************)

\* MailTemplate.java:98: an eng letter that is three days late, a chi letter
\* that is two, and not uploaded by its volunteer is open to everybody again.
\* Three days are more than either needs, so that the text implies this.
NotUploadedComesBack ==
  swept => \A l \in Letters :
             IsHeld(l) /\ letter[l].return_file_url # letter[l].voulenteer_id
               => today < letter[l].due_date + 3
=============================================================================
