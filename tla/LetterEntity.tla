----------------------------- MODULE LetterEntity -----------------------------
(***************************************************************************)
(* The Letters entity the Ruby and the Java application share, what each   *)
(* handler does to it, and the tests by which pages and jobs select it.    *)
(* A handler loads one record, computes another, and writes it back whole; *)
(* here is only the computation.  LetterDesk makes each handler one step,  *)
(* LetterDatastore takes it apart into its reads and writes.               *)
(*                                                                         *)
(* Dates are day numbers.  An uploaded file is identified by the volunteer *)
(* who uploaded it.  Left out: names, country, note, number of letters and *)
(* source type, which nothing below depends on, and due_date_3, which is   *)
(* due_date + 3 whenever it is set and which only a dead query reads.      *)
(***************************************************************************)
EXTENDS TaipeiClock

CONSTANTS
  Volunteers,     \* accounts with role voulenteer
  Employees,      \* accounts with role employee
  TransTypes,     \* the directions of translation in use
  ReturnDays,     \* the values an employee may type for return_days
  Nil             \* a property that is not set

Statuses == {"unclaimed", "emergent", "claimed", "returned"}

LetterRecord ==
  [ employee_id        : Employees,
    trans_type         : TransTypes,
    create_date        : Int,
    show               : BOOLEAN,
    deleted            : BOOLEAN,
    status             : Statuses,
    return_days        : Int \cup {Nil},
    voulenteer_id      : Volunteers \cup {Nil},
    voulenteer_account : Volunteers \cup {Nil},
    claim_date         : Int \cup {Nil},
    due_date           : Int \cup {Nil},
    return_date        : Int \cup {Nil},
    return_file_url    : Volunteers \cup {Nil},
    re_upload          : BOOLEAN,
    send_due_reminder  : BOOLEAN ]

ASSUME EntityAssumption ==
  /\ Nil \notin Int
  /\ Nil \notin Volunteers
  /\ Nil \notin LetterRecord
  /\ TransTypes \subseteq {"eng", "chi"}
  /\ ReturnDays \subseteq Int
-----------------------------------------------------------------------------
(***************************************************************************)
(* What the handlers do to a record.                                       *)
(***************************************************************************)

\* doFileUpload and the constructor of Letters
NewLetter(e, type, day) ==
  [ employee_id        |-> e,
    trans_type         |-> type,
    create_date        |-> day,
    show               |-> FALSE,
    deleted            |-> FALSE,
    status             |-> "unclaimed",
    return_days        |-> Nil,
    voulenteer_id      |-> Nil,
    voulenteer_account |-> Nil,
    claim_date         |-> Nil,
    due_date           |-> Nil,
    return_date        |-> Nil,
    return_file_url    |-> Nil,
    re_upload          |-> FALSE,
    send_due_reminder  |-> FALSE ]

\* /update_letter; days is Nil when the form leaves return_days out or empty
Published(r, days) ==
  [r EXCEPT !.show        = TRUE,
            !.return_days = IF days = Nil THEN r.return_days ELSE days]

\* /delete_letter
Deleted(r) == [r EXCEPT !.deleted = TRUE, !.show = FALSE]

\* Days between claim and due date.
Term(r) == IF r.return_days = Nil THEN 7 ELSE r.return_days - 1

\* Mutated form of Claimed: the status in the wording of an older query.
ClaimedInChinese(r, v, day) ==
  [r EXCEPT !.voulenteer_id = v, !.voulenteer_account = v,
            !.claim_date = day, !.due_date = day + Term(r),
            !.status = "yi ling qu"]

\* /claim_letter, past its guard
Claimed(r, v, day) ==
  [r EXCEPT !.voulenteer_id      = v,
            !.voulenteer_account = v,
            !.claim_date         = day,
            !.due_date           = day + Term(r),
            !.status             = "claimed"]

\* Mutated form of GivenBack: voulenteer_id is not reset.
GivenBackKeepingId(r) ==
  [r EXCEPT !.voulenteer_account = Nil, !.claim_date = Nil,
            !.due_date = Nil, !.status = "emergent"]

\* /return_letter
GivenBack(r) ==
  [r EXCEPT !.voulenteer_id      = Nil,
            !.voulenteer_account = Nil,
            !.claim_date         = Nil,
            !.due_date           = Nil,
            !.status             = "emergent"]

\* Mutated form of Uploaded: what was asked for stays asked for.
UploadedStillAsked(r, v, day) ==
  [r EXCEPT !.return_file_url = v, !.return_date = day, !.status = "returned"]

\* doReturnFileUpload
Uploaded(r, v, day) ==
  [r EXCEPT !.return_file_url = v,
            !.return_date     = day,
            !.re_upload       = FALSE,
            !.status          = "returned"]

\* /re_upload
ReUploadAsked(r) == [r EXCEPT !.re_upload = TRUE]

\* Mutated form of MarkedDue: the due date stays.
MarkedDueKeepingDate(r) ==
  [r EXCEPT !.voulenteer_id = Nil, !.voulenteer_account = Nil,
            !.claim_date = Nil, !.status = "emergent", !.show = TRUE]

\* MarkDueLettersJobServlet
MarkedDue(r) ==
  [r EXCEPT !.voulenteer_id      = Nil,
            !.voulenteer_account = Nil,
            !.claim_date         = Nil,
            !.due_date           = Nil,
            !.status             = "emergent",
            !.show               = TRUE]

\* MarkOldLettersAsEmergentJobServlet
MarkedOld(r) == [r EXCEPT !.status = "emergent"]

\* DueReminderJobServlet
Reminded(r) == [r EXCEPT !.send_due_reminder = TRUE]
-----------------------------------------------------------------------------
(***************************************************************************)
(* How pages, guards and jobs look at a record.                            *)
(***************************************************************************)

\* Mutated form of Offered: `show' is not looked at.
OfferedAsDraft(r) == ~ r.deleted /\ r.due_date = Nil

\* GET /volunteer lists it for claiming.
Offered(r) == ~ r.deleted /\ r.due_date = Nil /\ r.show

\* GET /volunteer lists it among v's letters.
HeldBy(r, v) == r.due_date # Nil /\ r.voulenteer_account = v

\* Mutated form of Claimable: only a claim in progress turns one down.
NotClaimed(r) == r.status # "claimed"

\* The claim handler goes ahead.
Claimable(r) == r.voulenteer_id = Nil

\* Mutated form of Deletable: the claim is not looked at.
DeletableBy(r, e) == r.employee_id = e

\* The delete handler goes ahead for e.
Deletable(r, e) == r.claim_date = Nil /\ r.employee_id = e

\* The forms of _vou_letters.erb and _vou_claimed_letters.erb.
FormKinds == {"claim", "upload", "return", "re_upload"}

FormsFor(r, v) ==
  (IF Offered(r) THEN {"claim"} ELSE {})
    \cup
  (IF ~ HeldBy(r, v)               THEN {}
   ELSE IF r.re_upload             THEN {"upload"}
   ELSE IF r.return_file_url = Nil THEN {"upload", "return"}
   ELSE                                 {"re_upload"})

\* findDueLetters(days) of the job that runs on the given day
PastDue(r, day, days) ==
  /\ r.due_date # Nil
  /\ IsDue(r.due_date, CronTime(day), days)
  /\ r.return_file_url = Nil

\* Mutated form of DueOn: the filter meant for the reminder is applied.
DueOnceReminded(r, day) == PastDue(r, day, 2) /\ r.send_due_reminder

\* Mutated form of DueOn: as early as the reminder goes out.
DueTooEarly(r, day) == PastDue(r, day, 0)

\* MarkDueLettersJobServlet takes it back.
DueOn(r, day) == PastDue(r, day, 2)

\* DueReminderJobServlet reminds its volunteer.
RemindOn(r, day) ==
  /\ PastDue(r, day, 0)
  /\ r.voulenteer_account # Nil
  /\ ~ r.send_due_reminder

\* Days after which a letter nobody claimed is urgent.
OldAge(r) == IF r.trans_type = "chi" THEN 2 ELSE 7

\* Mutated form of OldOn: only published letters grow old.
OldWhenShown(r, day) ==
  /\ IsOld(Noon(r.create_date), CronTime(day), OldAge(r))
  /\ ~ r.deleted /\ r.status = "unclaimed" /\ r.show

\* Mutated form of OldOn: an urgent letter is found again.
OldInAnyStatus(r, day) ==
  IsOld(Noon(r.create_date), CronTime(day), OldAge(r)) /\ ~ r.deleted

\* MarkOldLettersAsEmergentJobServlet makes it urgent.
OldOn(r, day) ==
  /\ IsOld(Noon(r.create_date), CronTime(day), OldAge(r))
  /\ ~ r.deleted
  /\ r.status = "unclaimed"
-----------------------------------------------------------------------------
(***************************************************************************)
(* What every record should satisfy.                                       *)
(***************************************************************************)

\* The five properties that say whether a letter is in a volunteer's hands
\* tell the same story: the pages look at one, the handlers at another.
CustodyAgrees(r) ==
  LET held == r.voulenteer_id # Nil
  IN  /\ r.voulenteer_account = r.voulenteer_id
      /\ held <=> r.claim_date # Nil
      /\ held <=> r.due_date # Nil
      /\ held <=> r.status \in {"claimed", "returned"}

\* So do those that say whether a translation has come in.
FileAgrees(r) ==
  /\ r.return_file_url # Nil <=> r.return_date # Nil
  /\ r.status = "returned" => r.return_file_url # Nil
-----------------------------------------------------------------------------
(***************************************************************************)
(* What a record means in the life cycle of LetterCustody.  Life is there  *)
(* for its relations between two records of custody; which letters there   *)
(* are does not matter to them.                                            *)
(***************************************************************************)
CustodyOf(r) ==
  [ stage  |-> IF r.deleted THEN "gone" ELSE IF r.show THEN "open" ELSE "draft",
    holder |-> r.voulenteer_id,
    mark   |-> r.status ]

Life == INSTANCE LetterCustody WITH Letters <- {}, custody <- Nil

ASSUME CustodyAssumption == Nil \notin Life!Custody
=============================================================================
