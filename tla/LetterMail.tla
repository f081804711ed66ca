------------------------------ MODULE LetterMail ------------------------------
(***************************************************************************)
(* The mails the desk sends: LetterDesk with what its handlers ask for.    *)
(*                                                                         *)
(* A handler that wants a mail sent fetches /queue_email and does not wait *)
(* for the answer; EmailQueuer puts a task into a push queue, which runs   *)
(* EmailWorker, at least once, some time later.  Only a number, an address *)
(* and a letter's key travel: the worker loads the letter again, and what  *)
(* the mail says is how the letter is by then.                             *)
(***************************************************************************)
EXTENDS LetterDesk, Sequences

CONSTANTS
  WithEmail,      \* volunteers whose account has an e-mail address
  MaxMails,       \* bound on the mails asked for
  MaxSent         \* bound on how often one task sends its mail

ASSUME MailAssumption ==
  /\ WithEmail \subseteq Volunteers
  /\ MaxMails \in Nat
  /\ MaxSent \in Nat \ {0}

VARIABLE asked    \* the mails asked for, in this order, and how often each was sent

mailVars == <<vars, asked>>

Mail ==
  [ mailId : 1 .. 8,
    to     : Volunteers \cup Employees,
    letter : Letters,
    vou    : Volunteers \cup {Nil},      \* volunteerId, in mail 8
    since  : BOOLEAN,                    \* history: an upload was asked for since
    sent   : Nat ]                       \* how often its task has sent it

MailFor(id, to, l) ==
  [ mailId |-> id, to |-> to, letter |-> l, vou |-> Nil, since |-> FALSE, sent |-> 0 ]

\* The handler's step asks for these mails.
Asks(mails) ==
  /\ Len(asked) + Len(mails) <= MaxMails
  /\ asked' = asked \o mails
-----------------------------------------------------------------------------
MailInit == Init /\ asked = <<>>

\* Without an address neither the volunteer nor the employee is told.
ClaimAndTell(v, l, day) ==
  /\ ClaimLetter(v, l, day)
  /\ IF v \in WithEmail
       THEN Asks(<<MailFor(1, v, l), MailFor(6, letter[l].employee_id, l)>>)
       ELSE Asks(<<>>)

ReturnAndTell(v, l) ==
  /\ ReturnLetter(v, l)
  /\ Asks(<<[MailFor(8, letter[l].employee_id, l) EXCEPT !.vou = v]>>)

\* Mutated form of UploadAndTell: it is the uploader who is thanked.
UploadAndThank(v, l) ==
  /\ ReturnFileUpload(v, l)
  /\ Asks(<<MailFor(2, v, l), MailFor(3, letter[l].employee_id, l)>>)

UploadAndTell(v, l) ==
  /\ ReturnFileUpload(v, l)
  /\ Asks(<<MailFor(2, letter[l].voulenteer_account, l), MailFor(3, letter[l].employee_id, l)>>)

\* No mail is asked for: who holds the letter learns of it on his page.
ReUploadUntold(v, l) ==
  /\ ReUpload(v, l)
  /\ asked' = [n \in DOMAIN asked |->
                 IF asked[n].letter = l THEN [asked[n] EXCEPT !.since = TRUE] ELSE asked[n]]

\* A job asks for these mails in the order it finds their letters.
AsksEach(mails) ==
  \E order \in [1 .. Cardinality(mails) -> mails] :
    /\ \A m \in mails : \E i \in DOMAIN order : order[i] = m
    /\ Asks(order)

\* Mutated form of OldAndTell: it is the volunteer who is told.
OldToVolunteer ==
  /\ MarkOldLetters
  /\ AsksEach({MailFor(5, letter[l].voulenteer_account, l) : l \in OldLetters})

OldAndTell ==
  /\ MarkOldLetters
  /\ AsksEach({MailFor(5, letter[l].employee_id, l) : l \in OldLetters})

ReminderLetters == {l \in Letters : Exists(l) /\ RemindOn(letter[l], today)}

RemindAndTell ==
  /\ DueReminder
  /\ AsksEach({MailFor(4, letter[l].voulenteer_account, l) : l \in ReminderLetters})

\* The worker fails before it has sent anything: there is no due date to
\* format, or no log.  It swallows the exception, so the queue is content.
CanSend(n) ==
  LET r == letter[asked[n].letter]
  IN  /\ asked[n].mailId = 1 => r.due_date # Nil
      /\ asked[n].mailId = 8 =>
           \E log \in vou_logs : /\ log.voulenteer_id = asked[n].vou
                                 /\ log.letter_id = asked[n].letter

\* The worker runs for mail n, at any time after it was asked for.  The fetch
\* and the queue only delay it: a fetch that gets lost is one for which it
\* never runs, and a queue that runs a task again one for which it runs twice.
\* A run that fails leaves no trace.
RunTask(n) ==
  /\ asked[n].sent < MaxSent
  /\ CanSend(n)
  /\ asked' = [asked EXCEPT ![n].sent = asked[n].sent + 1]
  /\ UNCHANGED vars

TellingStep ==
  \/ \E v \in Volunteers, l \in Letters :
       \/ \E day \in RubyDates(today) : ClaimAndTell(v, l, day)
       \/ ReturnAndTell(v, l)
       \/ UploadAndTell(v, l)
       \/ ReUploadUntold(v, l)
  \/ OldAndTell
  \/ RemindAndTell

QuietStep ==
  /\ \/ NextDay
     \/ EmployeeStep
     \/ MarkDueLetters
  /\ UNCHANGED asked

MailNext == TellingStep \/ QuietStep \/ \E n \in DOMAIN asked : RunTask(n)

MailSpec == MailInit /\ [][MailNext]_mailVars
-----------------------------------------------------------------------------
AskedFor(id, l) == {n \in DOMAIN asked : asked[n].mailId = id /\ asked[n].letter = l}

\* An employee hears at most once of a letter that nobody took it: the job
\* runs every day, and what stops it from telling again is only that a
\* letter never becomes unclaimed again, whatever happens to it.
OldNoticeOnce == \A l \in Letters : Cardinality(AskedFor(5, l)) <= 1

\* Every job taken off an account was told to somebody: for each return its
\* employee is asked to be told, for each upload the volunteer credited is
\* the one thanked.
CreditsAreTold ==
  \A v \in Volunteers :
    - jobs[v] = Cardinality({n \in DOMAIN asked :
                  \/ asked[n].mailId = 8 /\ asked[n].vou = v
                  \/ asked[n].mailId = 2 /\ asked[n].to = v})

Sent(n) == asked'[n].sent > asked[n].sent

\* EmailWorker chooses the subject "uploaded again" (MailTemplate.java:55) by
\* the letter's re_upload when the task runs, and the upload has reset that
\* before it asked for the mail: the subject goes out only if yet another
\* upload was asked for meanwhile, and never says what it was written for.
AgainMeansAskedSince ==
  [][\A n \in DOMAIN asked :
       asked[n].mailId = 3 /\ Sent(n) /\ letter[asked[n].letter].re_upload
         => asked[n].since]_mailVars
=============================================================================
