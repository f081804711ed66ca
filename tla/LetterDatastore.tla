--------------------------- MODULE LetterDatastore ---------------------------
(***************************************************************************)
(* The letters when requests and jobs run side by side and may stop at any *)
(* point: one action per call to the datastore.                            *)
(*                                                                         *)
(* No handler uses a transaction.  Each loads the entities it needs and    *)
(* later puts them back whole, so what it writes is the record it once     *)
(* read, changed, whatever has been written since.  The instance           *)
(* is thread safe and there may be several of it: any number of requests   *)
(* run at once, here as many as there are Slots.                           *)
(*                                                                         *)
(* What a handler does after it has loaded a letter is a sequence, its     *)
(* Plan; a job goes through it once for each letter its query found.       *)
(***************************************************************************)
EXTENDS LetterEntity, Sequences, FiniteSets

CONSTANTS
  Letters,        \* the ids uploads may create
  Slots,          \* requests that may run at the same time
  MaxDay,         \* bound on the calendar
  MaxCredits,     \* bound on the jobs of a volunteer
  MaxOverlaps     \* bound on the requests that begin while another runs

ASSUME DatastoreAssumption ==
  /\ Nil \notin Letters
  /\ MaxDay \in Nat
  /\ MaxCredits \in Nat
  /\ MaxOverlaps \in Nat

VARIABLES
  today,          \* the day in Taipei
  letter,         \* the Letters entities, Nil for an id not yet used
  jobs,           \* Account.jobs
  vou_logs,       \* the VoulenteerLog entities, without their ids
  due_logs,       \* the VoulenteerDueLog entities, without their ids
  forms,          \* <<volunteer, letter, kind>> of every form ever shown
  req,            \* the request in each slot, or Nil
  overlaps        \* history: requests that began while another ran

vars == <<today, letter, jobs, vou_logs, due_logs, forms, req, overlaps>>

Ops == { "update", "delete", "claim", "return", "upload", "re_upload",
         "mark_due", "mark_old", "due_reminder" }

Request ==
  [ op    : Ops,
    who   : Volunteers \cup {Nil},             \* the volunteer, if it is one
    found : [Letters -> LetterRecord \cup {Nil}], \* what it has read
    now   : Letters \cup {Nil},                \* the letter it works on
    count : Int,                               \* Account.jobs as it read it
    at    : Nat ]                              \* its place in its plan

\* Mutated form of Plan: return_letter logs before it saves.
PlanLogFirst(op) ==
  CASE op = "return"   -> <<"vou_log", "read_account", "account", "letter">>
    [] op = "upload"   -> <<"read_account", "letter", "account">>
    [] op = "mark_due" -> <<"due_log", "letter">>
    [] OTHER           -> <<"letter">>

\* Mutated form of Plan: the due job resets the letter before it logs.
PlanResetFirst(op) ==
  CASE op = "return"   -> <<"read_account", "account", "letter", "vou_log">>
    [] op = "upload"   -> <<"read_account", "letter", "account">>
    [] op = "mark_due" -> <<"letter", "due_log">>
    [] OTHER           -> <<"letter">>

\* Mutated form of Plan: an upload takes no job off the account.
PlanUncounted(op) ==
  CASE op = "return"   -> <<"read_account", "account", "letter", "vou_log">>
    [] op = "upload"   -> <<"read_account", "letter">>
    [] op = "mark_due" -> <<"due_log", "letter">>
    [] OTHER           -> <<"letter">>

\* What each handler does after it has loaded a letter, in its order.
Plan(op) ==
  CASE op = "return"   -> <<"read_account", "account", "letter", "vou_log">>
    [] op = "upload"   -> <<"read_account", "letter", "account">>
    [] op = "mark_due" -> <<"due_log", "letter">>
    [] OTHER           -> <<"letter">>

VouLog == [ voulenteer_id : Volunteers, letter_id : Letters,
            claim_date : Int \cup {Nil} ]

DueLog == [ letter_id : Letters, voulenteer_account : Volunteers \cup {Nil},
            claim_date : Int \cup {Nil}, due_date : Int \cup {Nil} ]

Exists(l) == letter[l] # Nil

Forms == Volunteers \X Letters \X FormKinds

\* Everybody looks at the pages after every put.
PagesShown ==
  forms' = forms \cup
    {f \in Forms : letter'[f[2]] # Nil /\ f[3] \in FormsFor(letter'[f[2]], f[1])}

Puts(l, r) == letter' = [letter EXCEPT ![l] = r] /\ PagesShown
-----------------------------------------------------------------------------
(***************************************************************************)
(* A request: what it has read, and how it goes on.                        *)
(***************************************************************************)
Nothing == [l \in Letters |-> Nil]

Only(l) == [Nothing EXCEPT ![l] = letter[l]]

\* Slot s is free for a request, alone or while others run.
Free(s) ==
  /\ req[s] = Nil
  /\ IF \A t \in Slots : req[t] = Nil
       THEN UNCHANGED overlaps
       ELSE overlaps < MaxOverlaps /\ overlaps' = overlaps + 1

\* A request that has just loaded letter l.
Begins(s, op, v, l) ==
  /\ Free(s)
  /\ Exists(l)
  /\ req' = [req EXCEPT ![s] = [ op |-> op, who |-> v, found |-> Only(l),
                                 now |-> l, count |-> 0, at |-> 1 ]]
  /\ UNCHANGED <<today, letter, jobs, vou_logs, due_logs, forms>>

\* It goes on with one of the letters found, or ends if there is none: a
\* page's request always ends here, a job when it has been through them all.
Takes(s, op, v, found) ==
  IF found = Nothing
    THEN req' = [req EXCEPT ![s] = Nil]
    ELSE \E l \in Letters :
           /\ found[l] # Nil
           /\ req' = [req EXCEPT ![s] = [ op |-> op, who |-> v, found |-> found,
                                          now |-> l, count |-> 0, at |-> 1 ]]

\* The job in slot s has run its query, which found the letters in L.
BeginsJob(s, op, L) ==
  /\ Free(s)
  /\ L # {}
  /\ Takes(s, op, Nil, [l \in Letters |-> IF l \in L THEN letter[l] ELSE Nil])
  /\ UNCHANGED <<today, letter, jobs, vou_logs, due_logs, forms>>

\* The next thing slot s does is the given one, for the given handler.
At(s, op, write) ==
  /\ req[s] # Nil
  /\ req[s].op = op
  /\ req[s].at \in DOMAIN Plan(op)
  /\ Plan(op)[req[s].at] = write

\* The record as slot s read it.
Rec(s) == req[s].found[req[s].now]

\* That is done; the request goes on.
Done(s) ==
  LET q == req[s]
  IN  IF q.at < Len(Plan(q.op))
        THEN req' = [req EXCEPT ![s].at = q.at + 1]
        ELSE Takes(s, q.op, q.who, [q.found EXCEPT ![q.now] = Nil])

\* (Ruby) dm-core saves only a resource with a changed property.
Saves(s, r) ==
  /\ IF r = Rec(s) THEN UNCHANGED <<letter, forms>> ELSE Puts(req[s].now, r)
  /\ Done(s)
  /\ UNCHANGED <<today, jobs, vou_logs, due_logs, overlaps>>

\* (Java) makePersistent puts in any case.
Persists(s, r) ==
  /\ Puts(req[s].now, r)
  /\ Done(s)
  /\ UNCHANGED <<today, jobs, vou_logs, due_logs, overlaps>>

ReadsAccount(s, op, v) ==
  /\ At(s, op, "read_account")
  /\ v \in Volunteers
  /\ jobs[v] > - MaxCredits
  /\ req' = [req EXCEPT ![s].count = jobs[v], ![s].at = req[s].at + 1]
  /\ UNCHANGED <<today, letter, jobs, vou_logs, due_logs, forms, overlaps>>

SavesAccount(s, op, v) ==
  /\ At(s, op, "account")
  /\ jobs' = [jobs EXCEPT ![v] = req[s].count - 1]
  /\ Done(s)
  /\ UNCHANGED <<today, letter, vou_logs, due_logs, forms, overlaps>>
-----------------------------------------------------------------------------
(***************************************************************************)
(* The handlers.                                                           *)
(***************************************************************************)

\* Dates move on between requests: none lives for more than minutes.
NextDay ==
  /\ today < MaxDay
  /\ \A s \in Slots : req[s] = Nil
  /\ today' = today + 1
  /\ UNCHANGED <<letter, jobs, vou_logs, due_logs, forms, req, overlaps>>

\* One put, of a new entity.
FileUpload(e, l, type) ==
  /\ ~ Exists(l)
  /\ Puts(l, NewLetter(e, type, today))
  /\ UNCHANGED <<today, jobs, vou_logs, due_logs, req, overlaps>>

UpdateLetter(s) ==
  \/ \E l \in Letters : Begins(s, "update", Nil, l)
  \/ /\ At(s, "update", "letter")
     /\ \E days \in ReturnDays \cup {Nil} :
          /\ Rec(s).trans_type = "eng" => days = Nil
          /\ Saves(s, Published(Rec(s), days))

DeleteLetter(s) ==
  \/ \E e \in Employees, l \in Letters :
       /\ Begins(s, "delete", Nil, l)
       /\ Deletable(letter[l], e)
  \/ /\ At(s, "delete", "letter")
     /\ Saves(s, Deleted(Rec(s)))

ClaimLetter(s) ==
  \/ \E v \in Volunteers, l \in Letters :
       /\ <<v, l, "claim">> \in forms
       /\ Begins(s, "claim", v, l)
       /\ Claimable(letter[l])
  \/ /\ At(s, "claim", "letter")
     /\ \E day \in RubyDates(today) : Saves(s, Claimed(Rec(s), req[s].who, day))

VouLogOf(s) ==
  [ voulenteer_id |-> req[s].who, letter_id |-> req[s].now,
    claim_date |-> Rec(s).claim_date ]

ReturnLetter(s) ==
  \/ \E v \in Volunteers, l \in Letters :
       /\ <<v, l, "return">> \in forms
       /\ Begins(s, "return", v, l)
  \/ ReadsAccount(s, "return", req[s].who)
  \/ SavesAccount(s, "return", req[s].who)
  \/ /\ At(s, "return", "letter")
     /\ Saves(s, GivenBack(Rec(s)))
  \/ /\ At(s, "return", "vou_log")
     /\ vou_logs' = vou_logs \cup {VouLogOf(s)}
     /\ Done(s)
     /\ UNCHANGED <<today, letter, jobs, due_logs, forms, overlaps>>

\* Without an account in the letter it goes no further than loading it.
ReturnFileUpload(s) ==
  \/ \E v \in Volunteers, l \in Letters :
       /\ <<v, l, "upload">> \in forms
       /\ Begins(s, "upload", v, l)
  \/ ReadsAccount(s, "upload", Rec(s).voulenteer_account)
  \/ /\ At(s, "upload", "letter")
     /\ Persists(s, Uploaded(Rec(s), req[s].who, today))
  \/ SavesAccount(s, "upload", Rec(s).voulenteer_account)

ReUpload(s) ==
  \/ \E v \in Volunteers, l \in Letters :
       /\ <<v, l, "re_upload">> \in forms
       /\ Begins(s, "re_upload", v, l)
  \/ /\ At(s, "re_upload", "letter")
     /\ Saves(s, ReUploadAsked(Rec(s)))

DueLogOf(l, r) ==
  [ letter_id |-> l, voulenteer_account |-> r.voulenteer_account,
    claim_date |-> r.claim_date, due_date |-> r.due_date ]

MarkDueLetters(s) ==
  \/ BeginsJob(s, "mark_due", {l \in Letters : Exists(l) /\ DueOn(letter[l], today)})
  \/ /\ At(s, "mark_due", "due_log")
     /\ due_logs' = due_logs \cup {DueLogOf(req[s].now, Rec(s))}
     /\ Done(s)
     /\ UNCHANGED <<today, letter, jobs, vou_logs, forms, overlaps>>
  \/ /\ At(s, "mark_due", "letter")
     /\ Persists(s, MarkedDue(Rec(s)))

\* Two queries, one for each direction, before the first put.
OldLetters(type) ==
  {l \in Letters : Exists(l) /\ letter[l].trans_type = type /\ OldOn(letter[l], today)}

MarkOldLetters(s) ==
  \/ /\ Free(s)
     /\ OldLetters("chi") \cup OldLetters("eng") # {}
     /\ req' = [req EXCEPT ![s] =
          [ op |-> "mark_old", who |-> Nil, now |-> Nil, count |-> 0,
            found |-> [l \in Letters |-> IF l \in OldLetters("chi") THEN letter[l]
                                                                    ELSE Nil],
            at |-> 0 ]]
     /\ UNCHANGED <<today, letter, jobs, vou_logs, due_logs, forms>>
  \/ /\ req[s] # Nil
     /\ req[s].op = "mark_old"
     /\ req[s].at = 0
     /\ Takes(s, "mark_old", Nil,
              [l \in Letters |-> IF l \in OldLetters("eng") THEN letter[l]
                                                            ELSE req[s].found[l]])
     /\ UNCHANGED <<today, letter, jobs, vou_logs, due_logs, forms, overlaps>>
  \/ /\ At(s, "mark_old", "letter")
     /\ Persists(s, MarkedOld(Rec(s)))

DueReminder(s) ==
  \/ BeginsJob(s, "due_reminder",
                {l \in Letters : Exists(l) /\ RemindOn(letter[l], today)})
  \/ /\ At(s, "due_reminder", "letter")
     /\ Persists(s, Reminded(Rec(s)))

\* A request is cut off: an exception, a deadline, the end of its instance.
Abort(s) ==
  /\ req[s] # Nil
  /\ req' = [req EXCEPT ![s] = Nil]
  /\ UNCHANGED <<today, letter, jobs, vou_logs, due_logs, forms, overlaps>>

Init ==
  /\ today = 0
  /\ letter = [l \in Letters |-> Nil]
  /\ jobs = [v \in Volunteers |-> 0]
  /\ vou_logs = {}
  /\ due_logs = {}
  /\ forms = {}
  /\ req = [s \in Slots |-> Nil]
  /\ overlaps = 0

EmployeeStep ==
  \/ \E e \in Employees, l \in Letters, type \in TransTypes : FileUpload(e, l, type)
  \/ \E s \in Slots : UpdateLetter(s) \/ DeleteLetter(s)

VolunteerStep ==
  \E s \in Slots :
    ClaimLetter(s) \/ ReturnLetter(s) \/ ReturnFileUpload(s) \/ ReUpload(s)

JobStep == \E s \in Slots : MarkDueLetters(s) \/ MarkOldLetters(s) \/ DueReminder(s)

Next ==
  \/ NextDay
  \/ EmployeeStep
  \/ VolunteerStep
  \/ JobStep
  \/ \E s \in Slots : Abort(s)

Spec == Init /\ [][Next]_vars
-----------------------------------------------------------------------------
TypeOK ==
  /\ today \in Nat
  /\ letter \in [Letters -> LetterRecord \cup {Nil}]
  /\ jobs \in [Volunteers -> Int]
  /\ vou_logs \in SUBSET VouLog
  /\ due_logs \in SUBSET DueLog
  /\ forms \in SUBSET Forms
  /\ req \in [Slots -> Request \cup {Nil}]
  /\ overlaps \in Nat

IsHeld(l) == Exists(l) /\ letter[l].voulenteer_id # Nil

\* The fields of every record agree, whichever requests race and wherever
\* they stop: every put writes a whole record computed from a whole record,
\* so an older state may come back, but never a mixture of two.
RecordsAgree ==
  \A l \in Letters : Exists(l) => CustodyAgrees(letter[l]) /\ FileAgrees(letter[l])

\* When requests run one at a time, jobs never falls short of the log of
\* returns, even if a return is cut off between its three puts.
ReturnsAreCredited ==
  \A v \in Volunteers :
    jobs[v] + Cardinality({log \in vou_logs : log.voulenteer_id = v}) <= 0

\* When requests run one at a time, no letter leaves a volunteer's hands
\* before the return has been taken off an account or the due job has logged
\* the claim it ends; a request cut off in between loses no claim silently.
ReleaseComesLast ==
  [][\A l \in Letters :
       IsHeld(l) /\ ~ IsHeld(l)' =>
         \/ \E s \in Slots : /\ req[s] # Nil
                             /\ req[s].op = "return"
                             /\ jobs[req[s].who] < req[s].count
         \/ DueLogOf(l, letter[l]) \in due_logs]_vars
-----------------------------------------------------------------------------
(***************************************************************************)
(* With one slot, cut off or not, requests implement LetterCustody.        *)
(***************************************************************************)
C == INSTANCE LetterCustody WITH
       custody <- [l \in Letters |-> IF letter[l] = Nil THEN Nil
                                                       ELSE CustodyOf(letter[l])]

\* Every put moves its letter along the life cycle or leaves it alone.
ImplementsCustody == C!Spec
-----------------------------------------------------------------------------
(***************************************************************************)
(* What the program's texts say and the program does not do.               *)
(***************************************************************************)

\* views/voulenteer_index.erb:121 tells a volunteer who claims a letter
\* somebody else has claimed to take another one: a letter in one
\* volunteer's hands is not claimed by a second.
NoHandover ==
  [][\A l \in Letters :
       IsHeld(l) /\ IsHeld(l)'
         => letter'[l].voulenteer_id = letter[l].voulenteer_id]_vars
=============================================================================
