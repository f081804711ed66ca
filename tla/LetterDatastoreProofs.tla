------------------------- MODULE LetterDatastoreProofs -------------------------
(***************************************************************************)
(* What requests taken apart into datastore calls keep.                    *)
(*                                                                         *)
(* However many race and wherever they are cut off, the fields of every    *)
(* letter agree.  The argument does not follow the requests: every record  *)
(* a request has read was in order, every handler makes a record in order  *)
(* of one in order (LetterEntityProofs), and puts are whole.  So DataInv   *)
(* speaks of what is stored and of what has been read.                     *)
(*                                                                         *)
(* Until two overlap, what the running request has read is still what is   *)
(* stored, and its puts come in the order of its plan: from AloneInv       *)
(* follow the credit of every return, the log of every release, and        *)
(* LetterCustody.  With SeenInv, which adds what the forms allow, every    *)
(* call is a step of LetterDesk or none.                                   *)
(***************************************************************************)
EXTENDS LetterRequests, LetterEntityProofs, FiniteSetTheorems

FormOps == {"claim", "return", "upload", "re_upload"}

\* What a running request has read is in order, and fit for what it does.
Sound(q) ==
  /\ q \in Request
  /\ \A l \in Letters : q.found[l] # Nil => InOrder(q.found[l])
  /\ q.op = "mark_old" =>
       \A l \in Letters : q.found[l] # Nil => q.found[l].status = "unclaimed"
  /\ q.at # 0 => q.now \in Letters /\ q.found[q.now] # Nil
  /\ q.op \in FormOps => q.who \in Volunteers
  /\ q.op = "upload" /\ q.at > 1 => q.found[q.now].voulenteer_account # Nil

DataInv ==
  /\ TypeOK
  /\ \A l \in Letters : Exists(l) => InOrder(letter[l])
  /\ \A s \in Slots : req[s] # Nil => Sound(req[s])

\* What a step may do to the requests, and to the letters.
RequestsStep ==
  /\ req' \in [Slots -> Request \cup {Nil}]
  /\ \A s \in Slots : req'[s] # Nil => Sound(req'[s])

LettersStep ==
  /\ letter' \in [Letters -> LetterRecord \cup {Nil}]
  /\ \A l \in Letters : letter'[l] # Nil => InOrder(letter'[l])
  /\ forms' \in SUBSET Forms

\* A slot is given a sound request, or none.
LEMMA SlotSet ==
  ASSUME DataInv, NEW s \in Slots, NEW q, q = Nil \/ Sound(q),
         req' = [req EXCEPT ![s] = q]
  PROVE  RequestsStep
<1>1. req \in [Slots -> Request \cup {Nil}]
  BY DEF DataInv, TypeOK
<1>2. q \in Request \cup {Nil}
  BY DEF Sound
<1>3. /\ req' \in [Slots -> Request \cup {Nil}]
      /\ req'[s] = q
      /\ \A t \in Slots : t # s => req'[t] = req[t]
  BY <1>1, <1>2
<1>. QED
  BY <1>3 DEF RequestsStep, DataInv

LEMMA RequestsSame ==
  ASSUME DataInv, req' = req
  PROVE  RequestsStep
BY DEF RequestsStep, DataInv, TypeOK

LEMMA LettersSame ==
  ASSUME DataInv, letter' = letter, forms' = forms
  PROVE  LettersStep
BY DEF LettersStep, DataInv, TypeOK, Exists

LEMMA PutsLetters ==
  ASSUME DataInv, NEW l \in Letters, NEW r, InOrder(r), Puts(l, r)
  PROVE  LettersStep
<1>1. letter \in [Letters -> LetterRecord \cup {Nil}] /\ forms \in SUBSET Forms
  BY DEF DataInv, TypeOK
<1>2. r \in LetterRecord
  BY DEF InOrder
<1>3. /\ letter' \in [Letters -> LetterRecord \cup {Nil}]
      /\ letter'[l] = r
      /\ \A m \in Letters : m # l => letter'[m] = letter[m]
  BY <1>1, <1>2 DEF Puts
<1>4. forms' \in SUBSET Forms
  BY <1>1 DEF Puts, PagesShown
<1>. QED
  BY <1>3, <1>4 DEF LettersStep, DataInv, Exists
-----------------------------------------------------------------------------
(***************************************************************************)
(* How requests begin, go on and end.                                      *)
(***************************************************************************)

\* A request with these values, about to work on l, is sound.
LEMMA FreshSound ==
  ASSUME NEW op \in Ops, NEW v \in Volunteers \cup {Nil},
         op \in FormOps => v \in Volunteers,
         NEW found \in [Letters -> LetterRecord \cup {Nil}],
         \A l \in Letters : found[l] # Nil => InOrder(found[l]),
         op = "mark_old" =>
           \A l \in Letters : found[l] # Nil => found[l].status = "unclaimed",
         NEW m \in Letters, found[m] # Nil
  PROVE  Sound([op |-> op, who |-> v, found |-> found,
                now |-> m, count |-> 0, at |-> 1])
<1>. DEFINE q == [op |-> op, who |-> v, found |-> found,
                  now |-> m, count |-> 0, at |-> 1]
<1>1. q \in Request
  BY DEF Request
<1>2. q.op = op /\ q.who = v /\ q.found = found /\ q.now = m /\ q.at = 1
  OBVIOUS
<1>. HIDE DEF q
<1>3. Sound(q)
  BY <1>1, <1>2 DEF Sound
<1>. QED
  BY <1>3 DEF q

LEMMA BeginsStep ==
  ASSUME DataInv, NEW s \in Slots, NEW op \in Ops \ {"mark_old"},
         NEW v \in Volunteers \cup {Nil}, op \in FormOps => v \in Volunteers,
         NEW l \in Letters, Begins(s, op, v, l)
  PROVE  RequestsStep /\ LettersStep
<1>1. letter \in [Letters -> LetterRecord \cup {Nil}] /\ letter[l] # Nil
      /\ InOrder(letter[l])
  BY DEF DataInv, TypeOK, Begins, Exists
<1>2. /\ Only(l) \in [Letters -> LetterRecord \cup {Nil}]
      /\ Only(l)[l] = letter[l]
      /\ \A m \in Letters : m # l => Only(l)[m] = Nil
  BY <1>1 DEF Only, Nothing
<1>3. Sound([op |-> op, who |-> v, found |-> Only(l),
             now |-> l, count |-> 0, at |-> 1])
  BY <1>1, <1>2, FreshSound
<1>4. RequestsStep
  BY <1>3, SlotSet DEF Begins
<1>. QED
  BY <1>4, LettersSame DEF Begins

LEMMA TakesStep ==
  ASSUME DataInv, NEW s \in Slots, NEW op \in Ops,
         NEW v \in Volunteers \cup {Nil}, op \in FormOps => v \in Volunteers,
         NEW found \in [Letters -> LetterRecord \cup {Nil}],
         \A l \in Letters : found[l] # Nil => InOrder(found[l]),
         op = "mark_old" =>
           \A l \in Letters : found[l] # Nil => found[l].status = "unclaimed",
         Takes(s, op, v, found)
  PROVE  RequestsStep
<1>1. CASE found = Nothing
  BY <1>1, SlotSet DEF Takes
<1>2. CASE found # Nothing
  <2>1. PICK l \in Letters :
          /\ found[l] # Nil
          /\ req' = [req EXCEPT ![s] = [ op |-> op, who |-> v, found |-> found,
                                         now |-> l, count |-> 0, at |-> 1 ]]
    BY <1>2 DEF Takes
  <2>. QED
    BY <2>1, FreshSound, SlotSet
<1>. QED
  BY <1>1, <1>2

\* The job's query selects L.
LEMMA BeginsJobStep ==
  ASSUME DataInv, NEW s \in Slots, NEW op \in {"mark_due", "due_reminder"},
         NEW L, BeginsJob(s, op, L)
  PROVE  RequestsStep /\ LettersStep
<1>. DEFINE found == [l \in Letters |-> IF l \in L THEN letter[l] ELSE Nil]
<1>1. /\ found \in [Letters -> LetterRecord \cup {Nil}]
      /\ \A l \in Letters : found[l] # Nil => InOrder(found[l])
  BY DEF DataInv, TypeOK, Exists
<1>2. Takes(s, op, Nil, found)
  BY DEF BeginsJob
<1>3. op \in Ops /\ op \notin FormOps /\ op # "mark_old"
  BY DEF Ops, FormOps
<1>. HIDE DEF found
<1>4. RequestsStep
  BY <1>1, <1>2, <1>3, TakesStep
<1>. QED
  BY <1>4, LettersSame DEF BeginsJob

\* What is known of the request in slot s when it does something of its plan.
LEMMA AtMeans ==
  ASSUME DataInv, NEW s \in Slots, NEW op, NEW write, At(s, op, write)
  PROVE  /\ Sound(req[s]) /\ req[s] \in Request /\ req[s].op = op
         /\ req[s].now \in Letters
         /\ InOrder(Rec(s))
         /\ req[s].at \in DOMAIN Plan(op) /\ Plan(op)[req[s].at] = write
<1>1. Sound(req[s]) /\ req[s].op = op /\ req[s].at \in DOMAIN Plan(op)
      /\ Plan(op)[req[s].at] = write
  BY DEF At, DataInv
<1>2. req[s].at # 0
  BY <1>1 DEF Plan
<1>. QED
  BY <1>1, <1>2 DEF Sound, Rec

LEMMA DoneStep ==
  ASSUME DataInv, NEW s \in Slots, NEW op, NEW write, At(s, op, write),
         op = "upload" => Rec(s).voulenteer_account # Nil,
         Done(s)
  PROVE  RequestsStep
<1>. DEFINE q == req[s]
            p == [q EXCEPT !.at = q.at + 1]
            f == [q.found EXCEPT ![q.now] = Nil]
<1>1. Sound(q) /\ q \in Request /\ q.op = op /\ q.now \in Letters /\ q.at # 0
  BY AtMeans DEF Plan
<1>2. q.found \in [Letters -> LetterRecord \cup {Nil}] /\ q.at \in Nat /\ q.op \in Ops
      /\ q.who \in Volunteers \cup {Nil}
  BY <1>1 DEF Request
<1>3. CASE q.at < Len(Plan(q.op))
  <2>1. p \in Request /\ p.op = q.op /\ p.who = q.who /\ p.found = q.found
        /\ p.now = q.now /\ p.at = q.at + 1
    BY <1>1, <1>2 DEF Request
  <2>2. Sound(p)
    BY <1>1, <1>2, <2>1 DEF Sound, Rec
  <2>3. req' = [req EXCEPT ![s] = p]
    BY <1>3 DEF Done
  <2>. QED
    BY <2>2, <2>3, SlotSet
<1>4. CASE ~ (q.at < Len(Plan(q.op)))
  <2>1. /\ f \in [Letters -> LetterRecord \cup {Nil}]
        /\ \A l \in Letters : f[l] = IF l = q.now THEN Nil ELSE q.found[l]
    BY <1>2
  <2>2. Takes(s, q.op, q.who, f)
    BY <1>4 DEF Done
  <2>3. /\ \A l \in Letters : f[l] # Nil => InOrder(f[l])
        /\ q.op = "mark_old" => \A l \in Letters : f[l] # Nil => f[l].status = "unclaimed"
        /\ q.op \in FormOps => q.who \in Volunteers
    BY <1>1, <2>1 DEF Sound
  <2>. HIDE DEF f
  <2>. QED
    BY <1>2, <2>1, <2>2, <2>3, TakesStep
<1>. QED
  BY <1>3, <1>4

\* The request goes on and puts a letter in order, or leaves the letters be.
LEMMA PutStep ==
  ASSUME DataInv, NEW s \in Slots, NEW op, NEW write, At(s, op, write),
         op = "upload" => Rec(s).voulenteer_account # Nil,
         NEW r, InOrder(r), Saves(s, r) \/ Persists(s, r)
  PROVE  RequestsStep /\ LettersStep
<1>1. req[s].now \in Letters
  BY AtMeans
<1>2. Done(s)
  BY DEF Saves, Persists
<1>3. LettersStep
  BY <1>1, PutsLetters, LettersSame DEF Saves, Persists
<1>. QED
  BY <1>2, <1>3, DoneStep

\* An account is read.
LEMMA ReadsAccountStep ==
  ASSUME DataInv, NEW s \in Slots, NEW op, NEW v, ReadsAccount(s, op, v),
         op = "upload" => v = Rec(s).voulenteer_account
  PROVE  RequestsStep /\ LettersStep
<1>. DEFINE q == req[s]
            p == [q EXCEPT !.count = jobs[v], !.at = q.at + 1]
<1>1. At(s, op, "read_account") /\ v \in Volunteers
  BY DEF ReadsAccount
<1>2. Sound(q) /\ q \in Request /\ q.op = op /\ q.now \in Letters
  BY <1>1, AtMeans
<1>3. jobs[v] \in Int /\ q.at \in Nat
  BY <1>1, <1>2 DEF DataInv, TypeOK, Request
<1>. DEFINE n == jobs[v]
            k == q.at + 1
<1>4. p \in Request
  <2>1. n \in Int /\ k \in Nat
    BY <1>3
  <2>. HIDE DEF n, k
  <2>2. [q EXCEPT !.count = n, !.at = k] \in Request
    BY <1>2, <2>1 DEF Request
  <2>. QED
    BY <2>2 DEF n, k
<1>5. p.op = q.op /\ p.who = q.who /\ p.found = q.found /\ p.now = q.now
      /\ p.at = q.at + 1
  BY <1>2 DEF Request
<1>6. v # Nil
  BY <1>1, EntityAssumption
<1>7. q.at # 0 /\ q.found[q.now] # Nil
  BY <1>1, <1>2, AtMeans DEF Plan, Sound
<1>8. Sound(p)
  BY <1>2, <1>4, <1>5, <1>6, <1>7 DEF Sound, Rec
<1>9. req' = [req EXCEPT ![s] = p]
  BY DEF ReadsAccount
<1>. QED
  BY <1>8, <1>9, SlotSet, LettersSame DEF ReadsAccount

LEMMA SavesAccountStep ==
  ASSUME DataInv, NEW s \in Slots, NEW op, NEW v, SavesAccount(s, op, v),
         op = "upload" => Rec(s).voulenteer_account # Nil
  PROVE  RequestsStep /\ LettersStep
<1>1. At(s, op, "account") /\ Done(s) /\ letter' = letter /\ forms' = forms
  BY DEF SavesAccount
<1>. QED
  BY <1>1, DoneStep, LettersSame

\* A log is written.
LEMMA LogStep ==
  ASSUME DataInv, NEW s \in Slots, NEW op \in {"return", "mark_due"}, NEW write,
         At(s, op, write), Done(s), letter' = letter, forms' = forms
  PROVE  RequestsStep /\ LettersStep
BY DoneStep, LettersSame
-----------------------------------------------------------------------------
(***************************************************************************)
(* One lemma per handler.                                                  *)
(***************************************************************************)

LEMMA FileUploadStep ==
  ASSUME DataInv, NEW e \in Employees, NEW l \in Letters, NEW type \in TransTypes,
         FileUpload(e, l, type)
  PROVE  RequestsStep /\ LettersStep
<1>1. InOrder(NewLetter(e, type, today))
  BY NewLetterInOrder DEF DataInv, TypeOK
<1>. QED
  BY <1>1, PutsLetters, RequestsSame DEF FileUpload

LEMMA UpdateLetterStep ==
  ASSUME DataInv, NEW s \in Slots, UpdateLetter(s)
  PROVE  RequestsStep /\ LettersStep
<1>1. ASSUME NEW l \in Letters, Begins(s, "update", Nil, l)
      PROVE  RequestsStep /\ LettersStep
  BY <1>1, BeginsStep DEF Ops, FormOps
<1>2. ASSUME At(s, "update", "letter"), NEW days \in ReturnDays \cup {Nil},
             Saves(s, Published(Rec(s), days))
      PROVE  RequestsStep /\ LettersStep
  <2>1. InOrder(Published(Rec(s), days))
    BY <1>2, AtMeans, PublishedInOrder
  <2>. QED
    BY <1>2, <2>1, PutStep
<1>. QED
  BY <1>1, <1>2 DEF UpdateLetter

LEMMA DeleteLetterStep ==
  ASSUME DataInv, NEW s \in Slots, DeleteLetter(s)
  PROVE  RequestsStep /\ LettersStep
<1>1. ASSUME NEW l \in Letters, Begins(s, "delete", Nil, l)
      PROVE  RequestsStep /\ LettersStep
  BY <1>1, BeginsStep DEF Ops, FormOps
<1>2. ASSUME At(s, "delete", "letter"), Saves(s, Deleted(Rec(s)))
      PROVE  RequestsStep /\ LettersStep
  <2>1. InOrder(Deleted(Rec(s)))
    BY <1>2, AtMeans, DeletedInOrder
  <2>. QED
    BY <1>2, <2>1, PutStep
<1>. QED
  BY <1>1, <1>2 DEF DeleteLetter

\* A request from one of a volunteer's forms begins.
LEMMA FormBegins ==
  ASSUME DataInv, NEW s \in Slots, NEW op \in FormOps, NEW v \in Volunteers,
         NEW l \in Letters, Begins(s, op, v, l)
  PROVE  RequestsStep /\ LettersStep
<1>1. op \in Ops \ {"mark_old"}
  BY DEF Ops, FormOps
<1>. QED
  BY <1>1, BeginsStep

LEMMA ClaimLetterStep ==
  ASSUME DataInv, NEW s \in Slots, ClaimLetter(s)
  PROVE  RequestsStep /\ LettersStep
<1>1. ASSUME NEW v \in Volunteers, NEW l \in Letters, Begins(s, "claim", v, l)
      PROVE  RequestsStep /\ LettersStep
  BY <1>1, FormBegins DEF FormOps
<1>2. ASSUME At(s, "claim", "letter"), NEW day \in RubyDates(today),
             Saves(s, Claimed(Rec(s), req[s].who, day))
      PROVE  RequestsStep /\ LettersStep
  <2>1. day \in Int
    BY DEF DataInv, TypeOK, RubyDates
  <2>2. req[s].who \in Volunteers
    BY <1>2, AtMeans DEF Sound, FormOps
  <2>3. InOrder(Claimed(Rec(s), req[s].who, day))
    BY <1>2, <2>1, <2>2, AtMeans, ClaimedInOrder
  <2>. QED
    BY <1>2, <2>3, PutStep
<1>. QED
  BY <1>1, <1>2 DEF ClaimLetter

LEMMA ReturnLetterStep ==
  ASSUME DataInv, NEW s \in Slots, ReturnLetter(s)
  PROVE  RequestsStep /\ LettersStep
<1>1. ASSUME NEW v \in Volunteers, NEW l \in Letters, Begins(s, "return", v, l)
      PROVE  RequestsStep /\ LettersStep
  BY <1>1, FormBegins DEF FormOps
<1>2. ASSUME ReadsAccount(s, "return", req[s].who)
      PROVE  RequestsStep /\ LettersStep
  BY <1>2, ReadsAccountStep
<1>3. ASSUME SavesAccount(s, "return", req[s].who)
      PROVE  RequestsStep /\ LettersStep
  BY <1>3, SavesAccountStep
<1>4. ASSUME At(s, "return", "letter"), Saves(s, GivenBack(Rec(s)))
      PROVE  RequestsStep /\ LettersStep
  <2>1. InOrder(GivenBack(Rec(s)))
    BY <1>4, AtMeans, GivenBackInOrder
  <2>. QED
    BY <1>4, <2>1, PutStep
<1>5. ASSUME At(s, "return", "vou_log"), Done(s), letter' = letter, forms' = forms
      PROVE  RequestsStep /\ LettersStep
  BY <1>5, LogStep
<1>. QED
  BY <1>1, <1>2, <1>3, <1>4, <1>5 DEF ReturnLetter

\* Past the read of the account, the letter is known to name one.
LEMMA UploadHasAccount ==
  ASSUME DataInv, NEW s \in Slots, NEW write \in {"letter", "account"},
         At(s, "upload", write)
  PROVE  Rec(s).voulenteer_account # Nil
<1>1. Sound(req[s]) /\ req[s].op = "upload"
      /\ req[s].at \in DOMAIN Plan("upload") /\ Plan("upload")[req[s].at] = write
  BY AtMeans
<1>2. req[s].at > 1
  BY <1>1 DEF Plan
<1>. QED
  BY <1>1, <1>2 DEF Sound, Rec

LEMMA ReturnFileUploadStep ==
  ASSUME DataInv, NEW s \in Slots, ReturnFileUpload(s)
  PROVE  RequestsStep /\ LettersStep
<1>1. ASSUME NEW v \in Volunteers, NEW l \in Letters, Begins(s, "upload", v, l)
      PROVE  RequestsStep /\ LettersStep
  BY <1>1, FormBegins DEF FormOps
<1>2. ASSUME ReadsAccount(s, "upload", Rec(s).voulenteer_account)
      PROVE  RequestsStep /\ LettersStep
  BY <1>2, ReadsAccountStep
<1>3. ASSUME At(s, "upload", "letter"),
             Persists(s, Uploaded(Rec(s), req[s].who, today))
      PROVE  RequestsStep /\ LettersStep
  <2>1. req[s].who \in Volunteers /\ today \in Int
    BY <1>3, AtMeans DEF Sound, FormOps, DataInv, TypeOK
  <2>2. Rec(s).voulenteer_account # Nil
    BY <1>3, UploadHasAccount
  <2>3. InOrder(Uploaded(Rec(s), req[s].who, today))
    BY <1>3, <2>1, <2>2, AtMeans, UploadedInOrder
  <2>. QED
    BY <1>3, <2>2, <2>3, PutStep
<1>4. ASSUME SavesAccount(s, "upload", Rec(s).voulenteer_account)
      PROVE  RequestsStep /\ LettersStep
  BY <1>4, UploadHasAccount, SavesAccountStep DEF SavesAccount
<1>. QED
  BY <1>1, <1>2, <1>3, <1>4 DEF ReturnFileUpload

LEMMA ReUploadStep ==
  ASSUME DataInv, NEW s \in Slots, ReUpload(s)
  PROVE  RequestsStep /\ LettersStep
<1>1. ASSUME NEW v \in Volunteers, NEW l \in Letters, Begins(s, "re_upload", v, l)
      PROVE  RequestsStep /\ LettersStep
  BY <1>1, FormBegins DEF FormOps
<1>2. ASSUME At(s, "re_upload", "letter"), Saves(s, ReUploadAsked(Rec(s)))
      PROVE  RequestsStep /\ LettersStep
  <2>1. InOrder(ReUploadAsked(Rec(s)))
    BY <1>2, AtMeans, ReUploadAskedInOrder
  <2>. QED
    BY <1>2, <2>1, PutStep
<1>. QED
  BY <1>1, <1>2 DEF ReUpload

LEMMA MarkDueLettersStep ==
  ASSUME DataInv, NEW s \in Slots, MarkDueLetters(s)
  PROVE  RequestsStep /\ LettersStep
<1>1. ASSUME NEW L, BeginsJob(s, "mark_due", L)
      PROVE  RequestsStep /\ LettersStep
  BY <1>1, BeginsJobStep
<1>2. ASSUME At(s, "mark_due", "due_log"), Done(s), letter' = letter, forms' = forms
      PROVE  RequestsStep /\ LettersStep
  BY <1>2, LogStep
<1>3. ASSUME At(s, "mark_due", "letter"), Persists(s, MarkedDue(Rec(s)))
      PROVE  RequestsStep /\ LettersStep
  <2>1. InOrder(MarkedDue(Rec(s)))
    BY <1>3, AtMeans, MarkedDueInOrder
  <2>. QED
    BY <1>3, <2>1, PutStep
<1>. QED
  BY <1>1, <1>2, <1>3 DEF MarkDueLetters

LEMMA DueReminderStep ==
  ASSUME DataInv, NEW s \in Slots, DueReminder(s)
  PROVE  RequestsStep /\ LettersStep
<1>1. ASSUME NEW L, BeginsJob(s, "due_reminder", L)
      PROVE  RequestsStep /\ LettersStep
  BY <1>1, BeginsJobStep
<1>2. ASSUME At(s, "due_reminder", "letter"), Persists(s, Reminded(Rec(s)))
      PROVE  RequestsStep /\ LettersStep
  <2>1. InOrder(Reminded(Rec(s)))
    BY <1>2, AtMeans, RemindedInOrder
  <2>. QED
    BY <1>2, <2>1, PutStep
<1>. QED
  BY <1>1, <1>2 DEF DueReminder

LEMMA MarkOldLettersStep ==
  ASSUME DataInv, NEW s \in Slots, MarkOldLetters(s)
  PROVE  RequestsStep /\ LettersStep
<1>1. letter \in [Letters -> LetterRecord \cup {Nil}]
      /\ \A l \in Letters : letter[l] # Nil => InOrder(letter[l])
  BY DEF DataInv, TypeOK, Exists
<1>. DEFINE chi == [l \in Letters |-> IF l \in OldLetters("chi") THEN letter[l] ELSE Nil]
            both == [l \in Letters |-> IF l \in OldLetters("eng") THEN letter[l]
                                                                  ELSE req[s].found[l]]
            q == [ op |-> "mark_old", who |-> Nil, now |-> Nil, count |-> 0,
                   found |-> chi, at |-> 0 ]
<1>2. ASSUME NEW type, NEW l \in OldLetters(type)
      PROVE  letter[l] # Nil /\ letter[l].status = "unclaimed"
  BY <1>2 DEF OldLetters, OldOn, Exists
<1>3. CASE req' = [req EXCEPT ![s] = q] /\ letter' = letter /\ forms' = forms
  <2>1. /\ chi \in [Letters -> LetterRecord \cup {Nil}]
        /\ \A l \in Letters : chi[l] # Nil => /\ InOrder(chi[l])
                                              /\ chi[l].status = "unclaimed"
    BY <1>1, <1>2
  <2>. HIDE DEF chi
  <2>2. q \in Request
    BY <2>1 DEF Request, Ops
  <2>3. Sound(q)
    BY <2>1, <2>2 DEF Sound, FormOps
  <2>. QED
    BY <1>3, <2>3, SlotSet, LettersSame
<1>4. CASE /\ req[s] # Nil
           /\ req[s].op = "mark_old"
           /\ Takes(s, "mark_old", Nil, both)
           /\ letter' = letter /\ forms' = forms
  <2>1. Sound(req[s]) /\ req[s].found \in [Letters -> LetterRecord \cup {Nil}]
    BY <1>4 DEF DataInv, Sound, Request
  <2>2. /\ both \in [Letters -> LetterRecord \cup {Nil}]
        /\ \A l \in Letters : both[l] # Nil => /\ InOrder(both[l])
                                               /\ both[l].status = "unclaimed"
    BY <1>1, <1>2, <1>4, <2>1 DEF Sound
  <2>3. "mark_old" \in Ops /\ "mark_old" \notin FormOps
    BY DEF Ops, FormOps
  <2>. HIDE DEF both
  <2>. QED
    BY <1>4, <2>2, <2>3, TakesStep, LettersSame
<1>5. ASSUME At(s, "mark_old", "letter"), Persists(s, MarkedOld(Rec(s)))
      PROVE  RequestsStep /\ LettersStep
  <2>1. Rec(s).status = "unclaimed"
    <3>1. Sound(req[s]) /\ req[s].op = "mark_old" /\ req[s].now \in Letters
      BY <1>5, AtMeans
    <3>2. req[s].at # 0
      BY <1>5, AtMeans DEF Plan
    <3>. QED
      BY <3>1, <3>2 DEF Sound, Rec
  <2>2. InOrder(MarkedOld(Rec(s)))
    BY <1>5, <2>1, AtMeans, MarkedOldInOrder
  <2>. QED
    BY <1>5, <2>2, PutStep
<1>. QED
  BY <1>3, <1>4, <1>5 DEF MarkOldLetters
-----------------------------------------------------------------------------
(***************************************************************************)
(* The invariant.                                                          *)
(***************************************************************************)

LEMMA NextSteps ==
  ASSUME DataInv, [Next]_vars
  PROVE  RequestsStep /\ LettersStep
<1>1. CASE NextDay \/ UNCHANGED vars
  BY <1>1, RequestsSame, LettersSame DEF NextDay, vars
<1>2. CASE EmployeeStep
  BY <1>2, FileUploadStep, UpdateLetterStep, DeleteLetterStep DEF EmployeeStep
<1>3. CASE VolunteerStep
  BY <1>3, ClaimLetterStep, ReturnLetterStep, ReturnFileUploadStep, ReUploadStep
     DEF VolunteerStep
<1>4. CASE JobStep
  BY <1>4, MarkDueLettersStep, MarkOldLettersStep, DueReminderStep DEF JobStep
<1>5. ASSUME NEW s \in Slots, Abort(s)
      PROVE  RequestsStep /\ LettersStep
  BY <1>5, SlotSet, LettersSame DEF Abort
<1>. QED
  BY <1>1, <1>2, <1>3, <1>4, <1>5 DEF Next

\* What the logs, the accounts and the counters may become in a step.
RestTypes ==
  /\ today' \in Nat
  /\ jobs' \in [Volunteers -> Int]
  /\ vou_logs' \in SUBSET VouLog
  /\ due_logs' \in SUBSET DueLog
  /\ overlaps' \in Nat

LEMMA RestSame ==
  ASSUME DataInv, UNCHANGED <<today, jobs, vou_logs, due_logs>>, overlaps' \in Nat
  PROVE  RestTypes
BY DEF DataInv, TypeOK, RestTypes

LEMMA FreeCounts ==
  ASSUME DataInv, NEW s, Free(s)
  PROVE  overlaps' \in Nat
BY DEF DataInv, TypeOK, Free

LEMMA AccountTypes ==
  ASSUME DataInv, NEW s \in Slots, NEW op, NEW v, SavesAccount(s, op, v)
  PROVE  RestTypes
<1>1. Sound(req[s])
  BY AtMeans DEF SavesAccount
<1>. DEFINE n == req[s].count - 1
<1>2. n \in Int
  BY <1>1 DEF Sound, Request
<1>3. jobs' = [jobs EXCEPT ![v] = n] /\ jobs \in [Volunteers -> Int]
  BY DEF SavesAccount, DataInv, TypeOK
<1>. HIDE DEF n
<1>4. jobs' \in [Volunteers -> Int]
  BY <1>2, <1>3
<1>. QED
  BY <1>4 DEF SavesAccount, RestTypes, DataInv, TypeOK

\* Steps that touch neither logs nor accounts.
LEMMA QuietTypes ==
  ASSUME DataInv, NEW s,
         \/ \E op, v, l : Begins(s, op, v, l)
         \/ \E op, L : BeginsJob(s, op, L)
         \/ \E r : Saves(s, r) \/ Persists(s, r)
         \/ \E op, v : ReadsAccount(s, op, v)
         \/ Abort(s)
  PROVE  RestTypes
<1>1. overlaps \in Nat
  BY DEF DataInv, TypeOK
<1>2. overlaps' \in Nat /\ UNCHANGED <<today, jobs, vou_logs, due_logs>>
  BY <1>1, FreeCounts DEF Begins, BeginsJob, Saves, Persists, ReadsAccount, Abort
<1>. QED
  BY <1>2, RestSame

LEMMA VouLogTypes ==
  ASSUME DataInv, NEW s \in Slots, At(s, "return", "vou_log")
  PROVE  VouLogOf(s) \in VouLog
<1>1. /\ req[s].who \in Volunteers
      /\ req[s].now \in Letters
      /\ Rec(s) \in LetterRecord
  BY AtMeans DEF Sound, FormOps, InOrder
<1>. QED
  BY <1>1 DEF VouLogOf, VouLog, LetterRecord

LEMMA DueLogTypes ==
  ASSUME DataInv, NEW s \in Slots, At(s, "mark_due", "due_log")
  PROVE  DueLogOf(req[s].now, Rec(s)) \in DueLog
<1>1. /\ req[s].now \in Letters
      /\ Rec(s) \in LetterRecord
  BY AtMeans DEF InOrder
<1>. QED
  BY <1>1 DEF DueLogOf, DueLog, LetterRecord

LEMMA NextTypes ==
  ASSUME DataInv, [Next]_vars
  PROVE  RestTypes
<1>1. CASE NextDay \/ UNCHANGED vars
  BY <1>1 DEF NextDay, vars, DataInv, TypeOK, RestTypes
<1>2. CASE EmployeeStep
  BY <1>2, QuietTypes, RestSame
     DEF EmployeeStep, FileUpload, UpdateLetter, DeleteLetter, DataInv, TypeOK
<1>3. ASSUME NEW s \in Slots, ClaimLetter(s) \/ ReUpload(s)
      PROVE  RestTypes
  BY <1>3, QuietTypes DEF ClaimLetter, ReUpload
<1>4. ASSUME NEW s \in Slots, ReturnFileUpload(s)
      PROVE  RestTypes
  BY <1>4, QuietTypes, AccountTypes DEF ReturnFileUpload
<1>5. ASSUME NEW s \in Slots, ReturnLetter(s)
      PROVE  RestTypes
  <2>1. CASE At(s, "return", "vou_log") /\ vou_logs' = vou_logs \cup {VouLogOf(s)}
             /\ UNCHANGED <<today, letter, jobs, due_logs, forms, overlaps>>
    BY <2>1, VouLogTypes DEF DataInv, TypeOK, RestTypes
  <2>. QED
    BY <1>5, <2>1, QuietTypes, AccountTypes DEF ReturnLetter
<1>6. ASSUME NEW s \in Slots, MarkDueLetters(s)
      PROVE  RestTypes
  <2>1. CASE /\ At(s, "mark_due", "due_log")
             /\ due_logs' = due_logs \cup {DueLogOf(req[s].now, Rec(s))}
             /\ UNCHANGED <<today, letter, jobs, vou_logs, forms, overlaps>>
    BY <2>1, DueLogTypes DEF DataInv, TypeOK, RestTypes
  <2>. QED
    BY <1>6, <2>1, QuietTypes DEF MarkDueLetters
<1>7. ASSUME NEW s \in Slots, MarkOldLetters(s)
      PROVE  RestTypes
  <2>1. overlaps \in Nat
    BY DEF DataInv, TypeOK
  <2>. QED
    BY <1>7, <2>1, QuietTypes, FreeCounts, RestSame DEF MarkOldLetters
<1>8. ASSUME NEW s \in Slots, DueReminder(s)
      PROVE  RestTypes
  BY <1>8, QuietTypes DEF DueReminder
<1>9. ASSUME NEW s \in Slots, Abort(s)
      PROVE  RestTypes
  BY <1>9, QuietTypes
<1>. QED
  BY <1>1, <1>2, <1>3, <1>4, <1>5, <1>6, <1>7, <1>8, <1>9
     DEF Next, VolunteerStep, JobStep

LEMMA InitDataInv == Init => DataInv
<1>. SUFFICES ASSUME Init PROVE DataInv
  OBVIOUS
<1>1. letter \in [Letters -> LetterRecord \cup {Nil}]
  BY DEF Init
<1>2. jobs \in [Volunteers -> Int]
  BY DEF Init
<1>3. req \in [Slots -> Request \cup {Nil}]
  BY DEF Init
<1>4. TypeOK
  BY <1>1, <1>2, <1>3 DEF Init, TypeOK
<1>5. (\A l \in Letters : ~ Exists(l)) /\ (\A s \in Slots : req[s] = Nil)
  BY DEF Init, Exists
<1>. QED
  BY <1>4, <1>5 DEF DataInv

LEMMA NextDataInv == DataInv /\ [Next]_vars => DataInv'
<1>. SUFFICES ASSUME DataInv, [Next]_vars PROVE DataInv'
  OBVIOUS
<1>1. RequestsStep /\ LettersStep /\ RestTypes
  BY NextSteps, NextTypes
<1>2. TypeOK'
  BY <1>1 DEF RequestsStep, LettersStep, RestTypes, TypeOK
<1>. QED
  BY <1>1, <1>2 DEF RequestsStep, LettersStep, DataInv, Exists

LEMMA DataInvariant == Spec => []DataInv
BY InitDataInv, NextDataInv, PTL DEF Spec

\* Every variable keeps its type.
THEOREM DatastoreTypeCorrect == Spec => []TypeOK
<1>1. DataInv => TypeOK
  BY DEF DataInv
<1>. QED
  BY <1>1, DataInvariant, PTL

\* No interleaving of any number of requests and jobs, cut off anywhere,
\* leaves a letter whose fields disagree.
THEOREM RecordsAgreeUnderRaces == Spec => []RecordsAgree
<1>1. DataInv => RecordsAgree
  BY DEF DataInv, RecordsAgree, InOrder
<1>. QED
  BY <1>1, DataInvariant, PTL
-----------------------------------------------------------------------------
(***************************************************************************)
(* Requests that run one at a time, cut off or not.  As long as no request *)
(* has begun while another ran, what the running one knows is true: what   *)
(* it has read of the letters is still stored, but for the letter it has   *)
(* itself just put, and so is what it has read of the account.  Then each  *)
(* of its puts moves the letter it works on along the life cycle, and the  *)
(* credits and the logs it makes come before what depends on them.         *)
(***************************************************************************)

\* It has put the letter it works on, and goes on with something else.
HasPut(q) == \/ q.op = "return" /\ q.at = 4
             \/ q.op = "upload" /\ q.at = 3

\* What it has read and not put is stored, as letters.
Current(q, letters) ==
  \A l \in Letters :
    q.found[l] # Nil /\ ~ (l = q.now /\ HasPut(q)) => q.found[l] = letters[l]

\* What a handler has asked of a record before it goes on with it.
Fit(op, r) ==
  /\ op = "delete" => r.claim_date = Nil
  /\ op = "claim" => Claimable(r) /\ Public(r)
  /\ op = "mark_due" => r.due_date # Nil

\* What it knows of the account it takes something off.
Counts(q, accounts) ==
  /\ q.op = "return" /\ q.at = 2 => q.count = accounts[q.who]
  /\ q.op = "return" /\ q.at \in {3, 4} => accounts[q.who] = q.count - 1
  /\ q.op = "upload" /\ q.at \in {2, 3} =>
       q.count = accounts[q.found[q.now].voulenteer_account]

LogsBy(v, logs) == {log \in logs : log.voulenteer_id = v}

\* A return already credited has its log still to come.
Ahead(q, accounts, logs) ==
  q.op = "return" /\ q.at \in {3, 4} =>
    accounts[q.who] + Cardinality(LogsBy(q.who, logs)) <= -1

\* The due job has logged the claim it is about to end.
Logged(q, logs) ==
  q.op = "mark_due" /\ q.at = 2 => DueLogOf(q.now, q.found[q.now]) \in logs

Undisturbed(q, letters, accounts, returns, dues) ==
  /\ Current(q, letters)
  /\ \A l \in Letters : q.found[l] # Nil => Fit(q.op, q.found[l])
  /\ Counts(q, accounts)
  /\ Ahead(q, accounts, returns)
  /\ Logged(q, dues)

\* At most one request is running.
OneRuns == \A s, t \in Slots : req[s] # Nil /\ req[t] # Nil => s = t

AllUndisturbed ==
  \A s \in Slots :
    req[s] # Nil => Undisturbed(req[s], letter, jobs, vou_logs, due_logs)

\* What is held or was ever shown to a volunteer has been published.
ShownAndHeldPublic ==
  /\ \A l \in Letters : IsHeld(l) => Public(letter[l])
  /\ \A f \in forms : Exists(f[2]) /\ Public(letter[f[2]])

AloneInv ==
  /\ OneRuns
  /\ AllUndisturbed
  /\ ShownAndHeldPublic
  /\ IsFiniteSet(vou_logs)
  /\ ReturnsAreCredited

\* Slot s is the only one in use, if it is.
OthersIdle(s) == \A t \in Slots : t # s => req[t] = Nil

LEMMA RunsAlone ==
  ASSUME AloneInv, NEW s \in Slots, req[s] # Nil
  PROVE  /\ OthersIdle(s)
         /\ Undisturbed(req[s], letter, jobs, vou_logs, due_logs)
BY DEF AloneInv, OneRuns, AllUndisturbed, OthersIdle

\* What begins without an overlap begins alone.
LEMMA FreeIsIdle ==
  ASSUME overlaps = 0, overlaps' = 0, NEW s \in Slots, Free(s)
  PROVE  OthersIdle(s) /\ req[s] = Nil
BY DEF Free, OthersIdle

\* The one slot in use is given q.
LEMMA SlotAlone ==
  ASSUME DataInv, NEW s \in Slots, OthersIdle(s), NEW q,
         req' = [req EXCEPT ![s] = q],
         q # Nil => Undisturbed(q, letter', jobs', vou_logs', due_logs')
  PROVE  OneRuns' /\ AllUndisturbed'
<1>1. req \in [Slots -> Request \cup {Nil}]
  BY DEF DataInv, TypeOK
<1>2. req'[s] = q /\ \A t \in Slots : t # s => req'[t] = Nil
  BY <1>1 DEF OthersIdle
<1>. QED
  BY <1>2 DEF OneRuns, AllUndisturbed

\* A request about to work on one of the letters found is undisturbed if
\* these are as they are stored.
LEMMA FreshUndisturbed ==
  ASSUME NEW op, NEW v, NEW found, NEW l, NEW at \in {0, 1},
         NEW letters, NEW accounts, NEW returns, NEW dues,
         \A m \in Letters : found[m] # Nil =>
           found[m] = letters[m] /\ Fit(op, found[m])
  PROVE  Undisturbed([op |-> op, who |-> v, found |-> found, now |-> l,
                      count |-> 0, at |-> at],
                     letters, accounts, returns, dues)
<1>. DEFINE q == [op |-> op, who |-> v, found |-> found, now |-> l,
                  count |-> 0, at |-> at]
<1>1. q.op = op /\ q.found = found /\ q.at = at
  OBVIOUS
<1>. HIDE DEF q
<1>2. Undisturbed(q, letters, accounts, returns, dues)
  BY <1>1 DEF Undisturbed, Current, Counts, Ahead, Logged
<1>. QED
  BY <1>2 DEF q

LEMMA TakesAlone ==
  ASSUME DataInv, NEW s \in Slots, OthersIdle(s), NEW op, NEW v, NEW found,
         \A m \in Letters : found[m] # Nil =>
           found[m] = letter'[m] /\ Fit(op, found[m]),
         Takes(s, op, v, found)
  PROVE  OneRuns' /\ AllUndisturbed'
<1>1. CASE found = Nothing
  BY <1>1, SlotAlone DEF Takes
<1>2. CASE found # Nothing
  <2>1. PICK l \in Letters :
          req' = [req EXCEPT ![s] = [ op |-> op, who |-> v, found |-> found,
                                      now |-> l, count |-> 0, at |-> 1 ]]
    BY <1>2 DEF Takes
  <2>. DEFINE q == [ op |-> op, who |-> v, found |-> found,
                     now |-> l, count |-> 0, at |-> 1 ]
  <2>2. Undisturbed(q, letter', jobs', vou_logs', due_logs')
    BY FreshUndisturbed
  <2>. HIDE DEF q
  <2>3. req' = [req EXCEPT ![s] = q]
    BY <2>1 DEF q
  <2>. QED
    BY <2>2, <2>3, SlotAlone
<1>. QED
  BY <1>1, <1>2

\* Where in its plan a request is.
LEMMA Places ==
  ASSUME DataInv, NEW s \in Slots, NEW op, NEW write, At(s, op, write)
  PROVE  /\ op = "return" => Len(Plan(op)) = 4
         /\ op = "upload" => Len(Plan(op)) = 3
         /\ op = "mark_due" => Len(Plan(op)) = 2
         /\ op = "return" /\ write # "vou_log" => req[s].at < Len(Plan(op))
         /\ op = "upload" /\ write # "account" => req[s].at < Len(Plan(op))
         /\ op = "mark_due" /\ write # "letter" => req[s].at < Len(Plan(op))
         /\ op = "return" /\ write = "read_account" => req[s].at = 1
         /\ op = "return" /\ write = "account" => req[s].at = 2
         /\ op = "return" /\ write = "letter" => req[s].at = 3
         /\ op = "return" /\ write = "vou_log" => req[s].at = 4
         /\ op = "upload" /\ write = "read_account" => req[s].at = 1
         /\ op = "upload" /\ write = "letter" => req[s].at = 2
         /\ op = "upload" /\ write = "account" => req[s].at = 3
         /\ op = "mark_due" /\ write = "due_log" => req[s].at = 1
         /\ op = "mark_due" /\ write = "letter" => req[s].at = 2
         /\ op \notin {"return", "upload", "mark_due"} =>
              req[s].at = 1 /\ Len(Plan(op)) = 1
<1>1. req[s].at \in DOMAIN Plan(op) /\ Plan(op)[req[s].at] = write
  BY AtMeans
<1>2. CASE op = "return"
  BY <1>1, <1>2 DEF Plan
<1>3. CASE op = "upload"
  BY <1>1, <1>3 DEF Plan
<1>4. CASE op = "mark_due"
  BY <1>1, <1>4 DEF Plan
<1>5. CASE op \notin {"return", "upload", "mark_due"}
  <2>1. Plan(op) = <<"letter">>
    BY <1>5 DEF Plan
  <2>. QED
    BY <1>1, <1>5, <2>1
<1>. QED
  BY <1>2, <1>3, <1>4, <1>5

\* It has done all it does with this letter.
LEMMA LastAlone ==
  ASSUME DataInv, AloneInv, NEW s \in Slots, NEW op, NEW write, At(s, op, write),
         req[s].at = Len(Plan(op)), Done(s),
         \A m \in Letters : m # req[s].now => letter'[m] = letter[m]
  PROVE  OneRuns' /\ AllUndisturbed'
<1>. DEFINE q == req[s]
            f == [q.found EXCEPT ![q.now] = Nil]
<1>1. q # Nil /\ q \in Request /\ q.op = op
  BY AtMeans DEF At
<1>2. OthersIdle(s) /\ Undisturbed(q, letter, jobs, vou_logs, due_logs)
  BY <1>1, RunsAlone
<1>3. q.found \in [Letters -> LetterRecord \cup {Nil}]
  BY <1>1 DEF Request
<1>4. \A m \in Letters : f[m] = IF m = q.now THEN Nil ELSE q.found[m]
  BY <1>3
<1>5. \A m \in Letters : f[m] # Nil => f[m] = letter'[m] /\ Fit(op, f[m])
  BY <1>1, <1>2, <1>4 DEF Undisturbed, Current
<1>6. Takes(s, op, q.who, f)
  BY <1>1 DEF Done
<1>. HIDE DEF f, q
<1>. QED
  BY <1>2, <1>5, <1>6, TakesAlone

\* It goes on with the same letter.
LEMMA ThenAlone ==
  ASSUME DataInv, AloneInv, NEW s \in Slots, NEW op, NEW write, At(s, op, write),
         req[s].at < Len(Plan(op)), Done(s),
         NEW p, p = [req[s] EXCEPT !.at = req[s].at + 1],
         Undisturbed(p, letter', jobs', vou_logs', due_logs')
  PROVE  OneRuns' /\ AllUndisturbed'
<1>1. req[s] # Nil /\ req[s].op = op
  BY AtMeans DEF At
<1>2. OthersIdle(s)
  BY <1>1, RunsAlone
<1>3. req' = [req EXCEPT ![s] = p]
  BY <1>1 DEF Done
<1>. QED
  BY <1>2, <1>3, SlotAlone

\* The request in slot s and the one it becomes, a place further.
LEMMA NextPlace ==
  ASSUME NEW q \in Request, NEW n \in Int
  PROVE  /\ [q EXCEPT !.at = q.at + 1].op = q.op
         /\ [q EXCEPT !.at = q.at + 1].who = q.who
         /\ [q EXCEPT !.at = q.at + 1].found = q.found
         /\ [q EXCEPT !.at = q.at + 1].now = q.now
         /\ [q EXCEPT !.at = q.at + 1].count = q.count
         /\ [q EXCEPT !.at = q.at + 1].at = q.at + 1
         /\ [q EXCEPT !.count = n, !.at = q.at + 1].op = q.op
         /\ [q EXCEPT !.count = n, !.at = q.at + 1].who = q.who
         /\ [q EXCEPT !.count = n, !.at = q.at + 1].found = q.found
         /\ [q EXCEPT !.count = n, !.at = q.at + 1].now = q.now
         /\ [q EXCEPT !.count = n, !.at = q.at + 1].count = n
         /\ [q EXCEPT !.count = n, !.at = q.at + 1].at = q.at + 1
BY DEF Request
-----------------------------------------------------------------------------
(***************************************************************************)
(* What a step of a request that runs alone does to the letters.           *)
(***************************************************************************)

\* Seen as custody, every letter moves or stays.
AllKeep == \A l \in Letters : Keeps(letter[l], letter'[l])

\* No letter leaves a volunteer's hands before it is accounted for.
AllAccounted ==
  \A l \in Letters :
    IsHeld(l) /\ ~ IsHeld(l)' =>
      \/ \E s \in Slots : /\ req[s] # Nil
                          /\ req[s].op = "return"
                          /\ jobs[req[s].who] < req[s].count
      \/ DueLogOf(l, letter[l]) \in due_logs

Rendered == PagesShown \/ forms' = forms

LettersMove == AllKeep /\ AllAccounted /\ Rendered

LEMMA LettersRest ==
  ASSUME letter' = letter, forms' = forms
  PROVE  LettersMove
BY KeepsSame DEF LettersMove, AllKeep, AllAccounted, Rendered, IsHeld, Exists

\* Everything shown or held stays public.
LEMMA PublicStays ==
  ASSUME DataInv, AloneInv, LettersStep, LettersMove
  PROVE  ShownAndHeldPublic'
<1>1. ASSUME NEW l \in Letters, Exists(l)
      PROVE  /\ Exists(l)'
             /\ Public(letter[l]) => Public(letter'[l])
             /\ letter'[l].voulenteer_id # Nil => Public(letter'[l])
  <2>1. InOrder(letter[l]) /\ Keeps(letter[l], letter'[l])
    BY <1>1 DEF DataInv, LettersMove, AllKeep
  <2>2. letter'[l] # Nil /\ InOrder(letter'[l])
    BY <2>1, KeepsExisting DEF LettersStep
  <2>3. letter[l].voulenteer_id # Nil => Public(letter[l])
    BY <1>1 DEF AloneInv, ShownAndHeldPublic, IsHeld
  <2>. QED
    BY <2>1, <2>2, <2>3, KeepsPublic DEF Exists
<1>2. ASSUME NEW l \in Letters, IsHeld(l)'
      PROVE  Public(letter'[l])
  <2>1. InOrder(letter'[l]) /\ letter'[l].voulenteer_id # Nil
    BY <1>2 DEF LettersStep, IsHeld, Exists
  <2>2. Keeps(letter[l], letter'[l])
    BY DEF LettersMove, AllKeep
  <2>3. Exists(l)
    BY <2>1, <2>2, NewIsFree DEF Exists
  <2>. QED
    BY <1>1, <2>1, <2>3
<1>3. ASSUME NEW f \in forms'
      PROVE  Exists(f[2])' /\ Public(letter'[f[2]])
  <2>1. f \in Forms
    BY <1>3 DEF LettersStep
  <2>2. f[1] \in Volunteers /\ f[2] \in Letters /\ f[3] \in FormKinds
    BY <2>1 DEF Forms
  <2>3. CASE f \in forms
    <3>1. Exists(f[2]) /\ Public(letter[f[2]])
      BY <2>3 DEF AloneInv, ShownAndHeldPublic
    <3>. QED
      BY <1>1, <2>2, <3>1
  <2>4. CASE f \notin forms
    <3>1. letter'[f[2]] # Nil /\ f[3] \in FormsFor(letter'[f[2]], f[1])
      BY <1>3, <2>4 DEF LettersMove, Rendered, PagesShown
    <3>2. InOrder(letter'[f[2]])
      BY <2>2, <3>1 DEF LettersStep
    <3>3. Public(letter'[f[2]]) \/ letter'[f[2]].voulenteer_id # Nil
      BY <2>2, <3>1, <3>2, FormsNeedPublic
    <3>. QED
      BY <1>2, <2>2, <3>1, <3>3 DEF IsHeld, Exists
  <2>. QED
    BY <2>3, <2>4
<1>. QED
  BY <1>2, <1>3 DEF ShownAndHeldPublic

\* What slot s has read and not put.
LEMMA RecIsStored ==
  ASSUME DataInv, AloneInv, NEW s \in Slots, NEW op, NEW write, At(s, op, write),
         ~ HasPut(req[s])
  PROVE  /\ Rec(s) = letter[req[s].now]
         /\ Exists(req[s].now)
         /\ Fit(op, Rec(s))
<1>1. /\ req[s] # Nil /\ req[s].op = op /\ req[s].now \in Letters
      /\ InOrder(Rec(s))
  BY AtMeans DEF At
<1>2. Rec(s) # Nil
  BY <1>1, RecordIsNotNil
<1>3. Undisturbed(req[s], letter, jobs, vou_logs, due_logs)
  BY <1>1, RunsAlone
<1>. QED
  BY <1>1, <1>2, <1>3 DEF Undisturbed, Current, Rec, Exists

\* It puts a record made of the one it has read.
LEMMA PutMoves ==
  ASSUME DataInv, AloneInv, NEW s \in Slots, NEW op, NEW write, At(s, op, write),
         ~ HasPut(req[s]),
         NEW r, Saves(s, r) \/ Persists(s, r), Keeps(Rec(s), r),
         \/ r.voulenteer_id = Rec(s).voulenteer_id
         \/ Rec(s).voulenteer_id = Nil
         \/ op = "return" /\ jobs[req[s].who] < req[s].count
         \/ DueLogOf(req[s].now, Rec(s)) \in due_logs
  PROVE  /\ LettersMove
         /\ \A m \in Letters : m # req[s].now => letter'[m] = letter[m]
<1>. DEFINE l == req[s].now
<1>1. /\ req[s] # Nil /\ req[s].op = op /\ l \in Letters
      /\ Rec(s) = letter[l] /\ InOrder(letter[l])
  BY AtMeans, RecIsStored DEF At
<1>2. CASE letter' = letter /\ forms' = forms
  BY <1>2, LettersRest
<1>3. CASE Puts(l, r)
  <2>1. letter' = [letter EXCEPT ![l] = r] /\ Rendered
    BY <1>3 DEF Puts, Rendered
  <2>2. letter \in [Letters -> LetterRecord \cup {Nil}]
    BY DEF DataInv, TypeOK
  <2>3. letter'[l] = r /\ \A m \in Letters : m # l => letter'[m] = letter[m]
    BY <1>1, <2>1, <2>2
  <2>4. AllKeep
    BY <1>1, <2>3, KeepsSame DEF AllKeep
  <2>5. r # Nil
    BY <1>1, KeepsExisting
  <2>6. AllAccounted
    BY <1>1, <2>3, <2>5 DEF AllAccounted, IsHeld, Exists
  <2>. QED
    BY <2>1, <2>3, <2>4, <2>6 DEF LettersMove
<1>. QED
  BY <1>2, <1>3 DEF Saves, Persists
-----------------------------------------------------------------------------
(***************************************************************************)
(* The accounts and the log of returns.                                    *)
(***************************************************************************)
Tallied == IsFiniteSet(vou_logs) /\ ReturnsAreCredited

LEMMA LogsByFinite ==
  ASSUME NEW logs, IsFiniteSet(logs), NEW v
  PROVE  IsFiniteSet(LogsBy(v, logs)) /\ Cardinality(LogsBy(v, logs)) \in Nat
BY FS_Subset, FS_CardinalityType DEF LogsBy

\* One more entry is one more for its volunteer, at the most.
LEMMA OneMoreLog ==
  ASSUME NEW logs, IsFiniteSet(logs), NEW log, NEW v
  PROVE  /\ IsFiniteSet(logs \cup {log})
         /\ log.voulenteer_id # v => LogsBy(v, logs \cup {log}) = LogsBy(v, logs)
         /\ Cardinality(LogsBy(v, logs \cup {log})) <= Cardinality(LogsBy(v, logs)) + 1
<1>. DEFINE S == LogsBy(v, logs)
            T == LogsBy(v, logs \cup {log})
<1>1. IsFiniteSet(logs \cup {log})
  BY FS_AddElement
<1>2. log.voulenteer_id # v => T = S
  BY DEF LogsBy
<1>3. T = S \/ T = S \cup {log}
  BY DEF LogsBy
<1>4. IsFiniteSet(S) /\ Cardinality(S) \in Nat
  BY LogsByFinite
<1>. HIDE DEF S, T
<1>5. Cardinality(S \cup {log}) = IF log \in S THEN Cardinality(S) ELSE Cardinality(S) + 1
  BY <1>4, FS_AddElement
<1>6. Cardinality(T) <= Cardinality(S) + 1
  <2>1. CASE T = S
    BY <1>4, <2>1
  <2>2. CASE T = S \cup {log}
    <3>1. Cardinality(T) = Cardinality(S) \/ Cardinality(T) = Cardinality(S) + 1
      BY <1>5, <2>2
    <3>. QED
      BY <1>4, <3>1
  <2>. QED
    BY <1>3, <2>1, <2>2
<1>. QED
  BY <1>1, <1>2, <1>6 DEF S, T

LEMMA TalliedSame ==
  ASSUME AloneInv, UNCHANGED <<jobs, vou_logs>>
  PROVE  Tallied'
BY DEF AloneInv, Tallied, ReturnsAreCredited

LEMMA CreditMeans ==
  ASSUME ReturnsAreCredited, NEW v \in Volunteers
  PROVE  jobs[v] + Cardinality(LogsBy(v, vou_logs)) <= 0
BY DEF ReturnsAreCredited, LogsBy

\* A job is taken off the account of v.
LEMMA TalliedSaved ==
  ASSUME DataInv, AloneInv, NEW v \in Volunteers, NEW n,
         jobs' = [jobs EXCEPT ![v] = n], n = jobs[v] - 1, vou_logs' = vou_logs
  PROVE  /\ Tallied'
         /\ jobs'[v] = n
         /\ jobs'[v] + Cardinality(LogsBy(v, vou_logs')) <= -1
<1>1. jobs \in [Volunteers -> Int] /\ IsFiniteSet(vou_logs)
  BY DEF DataInv, TypeOK, AloneInv
<1>2. jobs'[v] = n /\ \A w \in Volunteers : w # v => jobs'[w] = jobs[w]
  BY <1>1
<1>3. jobs[v] \in Int
  BY <1>1
<1>4. Cardinality(LogsBy(v, vou_logs)) \in Nat
  BY <1>1, LogsByFinite
<1>5. jobs[v] + Cardinality(LogsBy(v, vou_logs)) <= 0
  BY CreditMeans DEF AloneInv
<1>6. jobs'[v] + Cardinality(LogsBy(v, vou_logs')) <= -1
  BY <1>2, <1>3, <1>4, <1>5
<1>7. ASSUME NEW w \in Volunteers
      PROVE  jobs'[w] + Cardinality(LogsBy(w, vou_logs')) <= 0
  <2>1. CASE w = v
    BY <1>2, <1>3, <1>4, <1>6, <2>1
  <2>2. CASE w # v
    BY <1>2, <2>2, CreditMeans DEF AloneInv
  <2>. QED
    BY <2>1, <2>2
<1>8. Tallied'
  BY <1>1, <1>7 DEF Tallied, ReturnsAreCredited, LogsBy
<1>. QED
  BY <1>2, <1>6, <1>8

\* A return credited before is logged.
LEMMA TalliedLogged ==
  ASSUME DataInv, AloneInv, NEW log, NEW v \in Volunteers, log.voulenteer_id = v,
         jobs[v] + Cardinality(LogsBy(v, vou_logs)) <= -1,
         jobs' = jobs, vou_logs' = vou_logs \cup {log}
  PROVE  Tallied'
<1>1. jobs \in [Volunteers -> Int] /\ IsFiniteSet(vou_logs)
  BY DEF DataInv, TypeOK, AloneInv
<1>2. IsFiniteSet(vou_logs')
  BY <1>1, OneMoreLog
<1>3. ASSUME NEW w \in Volunteers
      PROVE  jobs'[w] + Cardinality(LogsBy(w, vou_logs')) <= 0
  <2>1. CASE w = v
    <3>1. jobs[v] \in Int
      BY <1>1
    <3>2. /\ Cardinality(LogsBy(v, vou_logs)) \in Nat
          /\ Cardinality(LogsBy(v, vou_logs')) \in Nat
      BY <1>1, <1>2, LogsByFinite
    <3>3. Cardinality(LogsBy(v, vou_logs')) <= Cardinality(LogsBy(v, vou_logs)) + 1
      BY <1>1, OneMoreLog
    <3>. QED
      BY <2>1, <3>1, <3>2, <3>3
  <2>2. CASE w # v
    <3>1. LogsBy(w, vou_logs') = LogsBy(w, vou_logs)
      BY <1>1, <2>2, OneMoreLog
    <3>. QED
      BY <2>2, <3>1, CreditMeans DEF AloneInv
  <2>. QED
    BY <2>1, <2>2
<1>. QED
  BY <1>2, <1>3 DEF Tallied, ReturnsAreCredited, LogsBy
-----------------------------------------------------------------------------
(***************************************************************************)
(* One lemma per handler, when it runs alone.                              *)
(***************************************************************************)
StepAlone == LettersMove /\ OneRuns' /\ AllUndisturbed' /\ Tallied'

LEMMA BeginsAlone ==
  ASSUME DataInv, AloneInv, overlaps = 0, overlaps' = 0,
         NEW s \in Slots, NEW op, NEW v, NEW l \in Letters, Begins(s, op, v, l),
         Fit(op, letter[l])
  PROVE  StepAlone
<1>1. OthersIdle(s)
  BY FreeIsIdle DEF Begins
<1>2. \A m \in Letters : Only(l)[m] # Nil =>
        Only(l)[m] = letter'[m] /\ Fit(op, Only(l)[m])
  BY DEF Begins, Only, Nothing
<1>. DEFINE q == [ op |-> op, who |-> v, found |-> Only(l),
                   now |-> l, count |-> 0, at |-> 1 ]
<1>3. Undisturbed(q, letter', jobs', vou_logs', due_logs')
  BY <1>2, FreshUndisturbed
<1>4. req' = [req EXCEPT ![s] = q]
  BY DEF Begins
<1>. HIDE DEF q
<1>5. OneRuns' /\ AllUndisturbed'
  BY <1>1, <1>3, <1>4, SlotAlone
<1>. QED
  BY <1>5, LettersRest, TalliedSame DEF Begins, StepAlone

LEMMA BeginsJobAlone ==
  ASSUME DataInv, AloneInv, overlaps = 0, overlaps' = 0,
         NEW s \in Slots, NEW op, NEW L, BeginsJob(s, op, L),
         \A l \in Letters : l \in L => Fit(op, letter[l])
  PROVE  StepAlone
<1>1. OthersIdle(s)
  BY FreeIsIdle DEF BeginsJob
<1>. DEFINE found == [l \in Letters |-> IF l \in L THEN letter[l] ELSE Nil]
<1>2. \A m \in Letters : found[m] # Nil => found[m] = letter'[m] /\ Fit(op, found[m])
  BY DEF BeginsJob
<1>3. Takes(s, op, Nil, found)
  BY DEF BeginsJob
<1>. HIDE DEF found
<1>4. OneRuns' /\ AllUndisturbed'
  BY <1>1, <1>2, <1>3, TakesAlone
<1>. QED
  BY <1>4, LettersRest, TalliedSame DEF BeginsJob, StepAlone

\* The put is the last thing it does with its letter.
LEMMA LastPutAlone ==
  ASSUME DataInv, AloneInv, NEW s \in Slots, NEW op, op \notin {"return", "upload"},
         At(s, op, "letter"),
         NEW r, Saves(s, r) \/ Persists(s, r), Keeps(Rec(s), r),
         \/ r.voulenteer_id = Rec(s).voulenteer_id
         \/ Rec(s).voulenteer_id = Nil
         \/ DueLogOf(req[s].now, Rec(s)) \in due_logs
  PROVE  StepAlone
<1>1. req[s].op = op /\ req[s].at = Len(Plan(op))
  BY AtMeans, Places
<1>2. ~ HasPut(req[s])
  BY <1>1 DEF HasPut
<1>3. LettersMove /\ \A m \in Letters : m # req[s].now => letter'[m] = letter[m]
  BY <1>2, PutMoves
<1>4. Done(s) /\ UNCHANGED <<jobs, vou_logs>>
  BY DEF Saves, Persists
<1>5. OneRuns' /\ AllUndisturbed'
  BY <1>1, <1>3, <1>4, LastAlone
<1>. QED
  BY <1>3, <1>4, <1>5, TalliedSame DEF StepAlone

LEMMA UpdateLetterAlone ==
  ASSUME DataInv, AloneInv, overlaps = 0, overlaps' = 0,
         NEW s \in Slots, UpdateLetter(s)
  PROVE  StepAlone
<1>1. ASSUME NEW l \in Letters, Begins(s, "update", Nil, l)
      PROVE  StepAlone
  BY <1>1, BeginsAlone DEF Fit
<1>2. ASSUME At(s, "update", "letter"), NEW days \in ReturnDays \cup {Nil},
             Saves(s, Published(Rec(s), days))
      PROVE  StepAlone
  <2>1. InOrder(Rec(s))
    BY <1>2, AtMeans
  <2>2. Published(Rec(s), days).voulenteer_id = Rec(s).voulenteer_id
    BY <2>1 DEF InOrder, LetterRecord, Published
  <2>. QED
    BY <1>2, <2>1, <2>2, PublishedMoves, LastPutAlone
<1>. QED
  BY <1>1, <1>2 DEF UpdateLetter

LEMMA DeleteLetterAlone ==
  ASSUME DataInv, AloneInv, overlaps = 0, overlaps' = 0,
         NEW s \in Slots, DeleteLetter(s)
  PROVE  StepAlone
<1>1. ASSUME NEW e \in Employees, NEW l \in Letters, Begins(s, "delete", Nil, l),
             Deletable(letter[l], e)
      PROVE  StepAlone
  BY <1>1, BeginsAlone DEF Fit, Deletable
<1>2. ASSUME At(s, "delete", "letter"), Saves(s, Deleted(Rec(s)))
      PROVE  StepAlone
  <2>1. InOrder(Rec(s)) /\ req[s].op = "delete"
    BY <1>2, AtMeans
  <2>2. Rec(s).claim_date = Nil
    BY <1>2, <2>1, RecIsStored DEF Fit, HasPut
  <2>3. Deleted(Rec(s)).voulenteer_id = Rec(s).voulenteer_id
    BY <2>1 DEF InOrder, LetterRecord, Deleted
  <2>. QED
    BY <1>2, <2>1, <2>2, <2>3, DeletedMoves, LastPutAlone
<1>. QED
  BY <1>1, <1>2 DEF DeleteLetter

LEMMA ClaimLetterAlone ==
  ASSUME DataInv, AloneInv, overlaps = 0, overlaps' = 0,
         NEW s \in Slots, ClaimLetter(s)
  PROVE  StepAlone
<1>1. ASSUME NEW v \in Volunteers, NEW l \in Letters, <<v, l, "claim">> \in forms,
             Begins(s, "claim", v, l), Claimable(letter[l])
      PROVE  StepAlone
  <2>1. Public(letter[l])
    BY <1>1 DEF AloneInv, ShownAndHeldPublic
  <2>. QED
    BY <1>1, <2>1, BeginsAlone DEF Fit
<1>2. ASSUME At(s, "claim", "letter"), NEW day \in RubyDates(today),
             Saves(s, Claimed(Rec(s), req[s].who, day))
      PROVE  StepAlone
  <2>1. InOrder(Rec(s)) /\ req[s].op = "claim" /\ req[s].who \in Volunteers
    BY <1>2, AtMeans DEF Sound, FormOps
  <2>2. Claimable(Rec(s)) /\ Public(Rec(s))
    BY <1>2, <2>1, RecIsStored DEF Fit, HasPut
  <2>3. day \in Int
    BY DEF DataInv, TypeOK, RubyDates
  <2>4. Rec(s).voulenteer_id = Nil
    BY <2>2 DEF Claimable
  <2>. QED
    BY <1>2, <2>1, <2>2, <2>3, <2>4, ClaimedMoves, LastPutAlone
<1>. QED
  BY <1>1, <1>2 DEF ClaimLetter

LEMMA ReUploadAlone ==
  ASSUME DataInv, AloneInv, overlaps = 0, overlaps' = 0,
         NEW s \in Slots, ReUpload(s)
  PROVE  StepAlone
<1>1. ASSUME NEW v \in Volunteers, NEW l \in Letters, Begins(s, "re_upload", v, l)
      PROVE  StepAlone
  BY <1>1, BeginsAlone DEF Fit
<1>2. ASSUME At(s, "re_upload", "letter"), Saves(s, ReUploadAsked(Rec(s)))
      PROVE  StepAlone
  <2>1. InOrder(Rec(s))
    BY <1>2, AtMeans
  <2>2. ReUploadAsked(Rec(s)).voulenteer_id = Rec(s).voulenteer_id
    BY <2>1 DEF InOrder, LetterRecord, ReUploadAsked
  <2>. QED
    BY <1>2, <2>1, <2>2, FlagsMove, LastPutAlone
<1>. QED
  BY <1>1, <1>2 DEF ReUpload

\* An account is read: the request is a place further and knows the count.
LEMMA ReadsAccountAlone ==
  ASSUME DataInv, AloneInv, NEW s \in Slots, NEW op \in {"return", "upload"}, NEW v,
         op = "return" => v = req[s].who,
         op = "upload" => v = Rec(s).voulenteer_account,
         ReadsAccount(s, op, v)
  PROVE  StepAlone
<1>. DEFINE q == req[s]
            n == jobs[v]
            p == [q EXCEPT !.count = n, !.at = q.at + 1]
<1>1. At(s, op, "read_account") /\ v \in Volunteers
      /\ UNCHANGED <<letter, jobs, vou_logs, due_logs, forms>>
  BY DEF ReadsAccount
<1>2. q # Nil /\ q \in Request /\ q.op = op /\ q.at = 1
  BY <1>1, AtMeans, Places DEF At
<1>3. n \in Int
  BY <1>1 DEF DataInv, TypeOK
<1>4. OthersIdle(s) /\ Undisturbed(q, letter, jobs, vou_logs, due_logs)
  BY <1>2, RunsAlone
<1>. HIDE DEF n
<1>5. p.op = op /\ p.who = q.who /\ p.found = q.found /\ p.now = q.now
      /\ p.count = n /\ p.at = 2
  BY <1>2, <1>3, NextPlace
<1>6. req' = [req EXCEPT ![s] = p]
  BY DEF ReadsAccount, n
<1>. HIDE DEF p
<1>7. Current(p, letter') /\ \A l \in Letters : p.found[l] # Nil => Fit(p.op, p.found[l])
  BY <1>1, <1>2, <1>4, <1>5 DEF Undisturbed, Current, HasPut
<1>8. Counts(p, jobs')
  BY <1>1, <1>5 DEF Counts, Rec, n
<1>9. Ahead(p, jobs', vou_logs') /\ Logged(p, due_logs')
  BY <1>5 DEF Ahead, Logged
<1>10. Undisturbed(p, letter', jobs', vou_logs', due_logs')
  BY <1>7, <1>8, <1>9 DEF Undisturbed
<1>11. OneRuns' /\ AllUndisturbed'
  BY <1>4, <1>6, <1>10, SlotAlone
<1>. QED
  BY <1>1, <1>11, LettersRest, TalliedSame DEF StepAlone

LEMMA ReturnSavesAccount ==
  ASSUME DataInv, AloneInv, NEW s \in Slots, SavesAccount(s, "return", req[s].who)
  PROVE  StepAlone
<1>. DEFINE q == req[s]
            p == [q EXCEPT !.at = q.at + 1]
<1>1. /\ At(s, "return", "account") /\ Done(s)
      /\ UNCHANGED <<letter, vou_logs, due_logs, forms>>
      /\ jobs' = [jobs EXCEPT ![q.who] = q.count - 1]
  BY DEF SavesAccount
<1>2. q # Nil /\ q \in Request /\ q.op = "return" /\ q.at = 2
      /\ Len(Plan("return")) = 4 /\ q.who \in Volunteers
  BY <1>1, AtMeans, Places DEF At, Sound, FormOps
<1>3. Undisturbed(q, letter, jobs, vou_logs, due_logs)
  BY <1>2, RunsAlone
<1>4. q.count = jobs[q.who]
  BY <1>2, <1>3 DEF Undisturbed, Counts
<1>5. /\ Tallied'
      /\ jobs'[q.who] = q.count - 1
      /\ jobs'[q.who] + Cardinality(LogsBy(q.who, vou_logs')) <= -1
  <2>. DEFINE n == q.count - 1
  <2>1. jobs' = [jobs EXCEPT ![q.who] = n] /\ n = jobs[q.who] - 1 /\ vou_logs' = vou_logs
    BY <1>1, <1>4
  <2>. HIDE DEF n
  <2>2. /\ Tallied'
        /\ jobs'[q.who] = n
        /\ jobs'[q.who] + Cardinality(LogsBy(q.who, vou_logs')) <= -1
    BY <1>2, <2>1, TalliedSaved
  <2>. QED
    BY <2>2 DEF n
<1>6. p.op = "return" /\ p.who = q.who /\ p.found = q.found /\ p.now = q.now
      /\ p.count = q.count /\ p.at = 3
  BY <1>2, NextPlace
<1>. HIDE DEF p
<1>7. Current(p, letter') /\ \A l \in Letters : p.found[l] # Nil => Fit(p.op, p.found[l])
  BY <1>1, <1>2, <1>3, <1>6 DEF Undisturbed, Current, HasPut
<1>8. Counts(p, jobs') /\ Ahead(p, jobs', vou_logs') /\ Logged(p, due_logs')
  BY <1>5, <1>6 DEF Counts, Ahead, Logged
<1>9. Undisturbed(p, letter', jobs', vou_logs', due_logs')
  BY <1>7, <1>8 DEF Undisturbed
<1>10. OneRuns' /\ AllUndisturbed'
  <2>1. p = [req[s] EXCEPT !.at = req[s].at + 1]
    BY DEF p
  <2>2. req[s].at < Len(Plan("return"))
    BY <1>1, Places
  <2>. QED
    BY <1>1, <1>9, <2>1, <2>2, ThenAlone
<1>. QED
  BY <1>1, <1>5, <1>10, LettersRest DEF StepAlone

LEMMA ReturnSavesLetter ==
  ASSUME DataInv, AloneInv, NEW s \in Slots,
         At(s, "return", "letter"), Saves(s, GivenBack(Rec(s)))
  PROVE  StepAlone
<1>. DEFINE q == req[s]
            p == [q EXCEPT !.at = q.at + 1]
<1>1. /\ Done(s)
      /\ UNCHANGED <<jobs, vou_logs, due_logs>>
  BY DEF Saves
<1>2. q # Nil /\ q \in Request /\ q.op = "return" /\ q.at = 3
      /\ Len(Plan("return")) = 4 /\ q.who \in Volunteers /\ InOrder(Rec(s))
  BY AtMeans, Places DEF At, Sound, FormOps
<1>3. Undisturbed(q, letter, jobs, vou_logs, due_logs)
  BY <1>2, RunsAlone
<1>4. jobs[q.who] < q.count
  <2>1. jobs[q.who] = q.count - 1 /\ jobs[q.who] \in Int /\ q.count \in Int
    BY <1>2, <1>3 DEF Undisturbed, Counts, DataInv, TypeOK, Request
  <2>. QED
    BY <2>1
<1>5. LettersMove /\ \A m \in Letters : m # q.now => letter'[m] = letter[m]
  BY <1>2, <1>4, GivenBackMoves, PutMoves DEF HasPut
<1>6. p.op = "return" /\ p.who = q.who /\ p.found = q.found /\ p.now = q.now
      /\ p.count = q.count /\ p.at = 4
  BY <1>2, NextPlace
<1>. HIDE DEF p
<1>7. Current(p, letter') /\ \A l \in Letters : p.found[l] # Nil => Fit(p.op, p.found[l])
  BY <1>2, <1>3, <1>5, <1>6 DEF Undisturbed, Current, HasPut
<1>8. Counts(p, jobs') /\ Ahead(p, jobs', vou_logs') /\ Logged(p, due_logs')
  BY <1>1, <1>2, <1>3, <1>6 DEF Undisturbed, Counts, Ahead, Logged
<1>9. Undisturbed(p, letter', jobs', vou_logs', due_logs')
  BY <1>7, <1>8 DEF Undisturbed
<1>10. OneRuns' /\ AllUndisturbed'
  <2>1. p = [req[s] EXCEPT !.at = req[s].at + 1]
    BY DEF p
  <2>2. req[s].at < Len(Plan("return"))
    BY <1>1, Places
  <2>. QED
    BY <1>1, <1>9, <2>1, <2>2, ThenAlone
<1>. QED
  BY <1>1, <1>5, <1>10, TalliedSame DEF StepAlone

LEMMA ReturnLogs ==
  ASSUME DataInv, AloneInv, NEW s \in Slots, At(s, "return", "vou_log"),
         vou_logs' = vou_logs \cup {VouLogOf(s)}, Done(s),
         UNCHANGED <<letter, jobs, due_logs, forms>>
  PROVE  StepAlone
<1>. DEFINE q == req[s]
<1>1. q # Nil /\ q.op = "return" /\ q.at = 4
      /\ Len(Plan("return")) = 4 /\ q.who \in Volunteers
  BY AtMeans, Places DEF At, Sound, FormOps
<1>2. Undisturbed(q, letter, jobs, vou_logs, due_logs)
  BY <1>1, RunsAlone
<1>3. jobs[q.who] + Cardinality(LogsBy(q.who, vou_logs)) <= -1
  BY <1>1, <1>2 DEF Undisturbed, Ahead
<1>4. VouLogOf(s).voulenteer_id = q.who
  BY DEF VouLogOf
<1>5. Tallied'
  BY <1>1, <1>3, <1>4, TalliedLogged
<1>6. OneRuns' /\ AllUndisturbed'
  BY <1>1, LastAlone
<1>. QED
  BY <1>5, <1>6, LettersRest DEF StepAlone

LEMMA ReturnLetterAlone ==
  ASSUME DataInv, AloneInv, overlaps = 0, overlaps' = 0,
         NEW s \in Slots, ReturnLetter(s)
  PROVE  StepAlone
<1>1. ASSUME NEW v \in Volunteers, NEW l \in Letters, Begins(s, "return", v, l)
      PROVE  StepAlone
  BY <1>1, BeginsAlone DEF Fit
<1>2. ASSUME ReadsAccount(s, "return", req[s].who)
      PROVE  StepAlone
  BY <1>2, ReadsAccountAlone
<1>. QED
  BY <1>1, <1>2, ReturnSavesAccount, ReturnSavesLetter, ReturnLogs DEF ReturnLetter

LEMMA UploadSavesLetter ==
  ASSUME DataInv, AloneInv, NEW s \in Slots, At(s, "upload", "letter"),
         Persists(s, Uploaded(Rec(s), req[s].who, today))
  PROVE  StepAlone
<1>. DEFINE q == req[s]
            p == [q EXCEPT !.at = q.at + 1]
<1>1. /\ Done(s)
      /\ UNCHANGED <<jobs, vou_logs, due_logs>>
  BY DEF Persists
<1>2. q # Nil /\ q \in Request /\ q.op = "upload" /\ q.at = 2
      /\ Len(Plan("upload")) = 3 /\ q.who \in Volunteers /\ InOrder(Rec(s))
  BY AtMeans, Places DEF At, Sound, FormOps
<1>3. Undisturbed(q, letter, jobs, vou_logs, due_logs)
  BY <1>2, RunsAlone
<1>4. Rec(s).voulenteer_account # Nil /\ today \in Int
  BY UploadHasAccount DEF DataInv, TypeOK
<1>5. Uploaded(Rec(s), q.who, today).voulenteer_id = Rec(s).voulenteer_id
  BY <1>2 DEF InOrder, LetterRecord, Uploaded
<1>6. LettersMove /\ \A m \in Letters : m # q.now => letter'[m] = letter[m]
  BY <1>2, <1>4, <1>5, UploadedMoves, PutMoves DEF HasPut
<1>7. p.op = "upload" /\ p.who = q.who /\ p.found = q.found /\ p.now = q.now
      /\ p.count = q.count /\ p.at = 3
  BY <1>2, NextPlace
<1>. HIDE DEF p
<1>8. Current(p, letter') /\ \A l \in Letters : p.found[l] # Nil => Fit(p.op, p.found[l])
  BY <1>2, <1>3, <1>6, <1>7 DEF Undisturbed, Current, HasPut
<1>9. Counts(p, jobs') /\ Ahead(p, jobs', vou_logs') /\ Logged(p, due_logs')
  BY <1>1, <1>2, <1>3, <1>7 DEF Undisturbed, Counts, Ahead, Logged
<1>10. Undisturbed(p, letter', jobs', vou_logs', due_logs')
  BY <1>8, <1>9 DEF Undisturbed
<1>11. OneRuns' /\ AllUndisturbed'
  <2>1. p = [req[s] EXCEPT !.at = req[s].at + 1]
    BY DEF p
  <2>2. req[s].at < Len(Plan("upload"))
    BY <1>1, Places
  <2>. QED
    BY <1>1, <1>10, <2>1, <2>2, ThenAlone
<1>. QED
  BY <1>1, <1>6, <1>11, TalliedSame DEF StepAlone

LEMMA UploadSavesAccount ==
  ASSUME DataInv, AloneInv, NEW s \in Slots,
         SavesAccount(s, "upload", Rec(s).voulenteer_account)
  PROVE  StepAlone
<1>. DEFINE q == req[s]
            v == Rec(s).voulenteer_account
            n == q.count - 1
<1>1. /\ At(s, "upload", "account") /\ Done(s)
      /\ UNCHANGED <<letter, vou_logs, due_logs, forms>>
      /\ jobs' = [jobs EXCEPT ![v] = n]
  BY DEF SavesAccount
<1>2. q # Nil /\ q.op = "upload" /\ q.at = 3 /\ Len(Plan("upload")) = 3
      /\ InOrder(Rec(s))
  BY <1>1, AtMeans, Places DEF At
<1>3. v \in Volunteers
  BY <1>1, <1>2, UploadHasAccount DEF InOrder, LetterRecord
<1>4. Undisturbed(q, letter, jobs, vou_logs, due_logs)
  BY <1>2, RunsAlone
<1>5. n = jobs[v] - 1
  BY <1>2, <1>4 DEF Undisturbed, Counts, Rec
<1>. HIDE DEF n
<1>6. Tallied'
  BY <1>1, <1>3, <1>5, TalliedSaved
<1>7. OneRuns' /\ AllUndisturbed'
  BY <1>1, <1>2, LastAlone
<1>. QED
  BY <1>1, <1>6, <1>7, LettersRest DEF StepAlone

LEMMA ReturnFileUploadAlone ==
  ASSUME DataInv, AloneInv, overlaps = 0, overlaps' = 0,
         NEW s \in Slots, ReturnFileUpload(s)
  PROVE  StepAlone
<1>1. ASSUME NEW v \in Volunteers, NEW l \in Letters, Begins(s, "upload", v, l)
      PROVE  StepAlone
  BY <1>1, BeginsAlone DEF Fit
<1>2. ASSUME ReadsAccount(s, "upload", Rec(s).voulenteer_account)
      PROVE  StepAlone
  BY <1>2, ReadsAccountAlone
<1>. QED
  BY <1>1, <1>2, UploadSavesLetter, UploadSavesAccount DEF ReturnFileUpload

LEMMA DueJobLogs ==
  ASSUME DataInv, AloneInv, NEW s \in Slots, At(s, "mark_due", "due_log"),
         due_logs' = due_logs \cup {DueLogOf(req[s].now, Rec(s))}, Done(s),
         UNCHANGED <<letter, jobs, vou_logs, forms>>
  PROVE  StepAlone
<1>. DEFINE q == req[s]
            p == [q EXCEPT !.at = q.at + 1]
<1>1. q # Nil /\ q \in Request /\ q.op = "mark_due" /\ q.at = 1
      /\ Len(Plan("mark_due")) = 2
  BY AtMeans, Places DEF At
<1>2. Undisturbed(q, letter, jobs, vou_logs, due_logs)
  BY <1>1, RunsAlone
<1>3. p.op = "mark_due" /\ p.who = q.who /\ p.found = q.found /\ p.now = q.now
      /\ p.count = q.count /\ p.at = 2
  BY <1>1, NextPlace
<1>. HIDE DEF p
<1>4. Current(p, letter') /\ \A l \in Letters : p.found[l] # Nil => Fit(p.op, p.found[l])
  BY <1>1, <1>2, <1>3 DEF Undisturbed, Current, HasPut
<1>5. Counts(p, jobs') /\ Ahead(p, jobs', vou_logs') /\ Logged(p, due_logs')
  BY <1>3 DEF Counts, Ahead, Logged, Rec
<1>6. Undisturbed(p, letter', jobs', vou_logs', due_logs')
  BY <1>4, <1>5 DEF Undisturbed
<1>7. OneRuns' /\ AllUndisturbed'
  <2>1. p = [req[s] EXCEPT !.at = req[s].at + 1]
    BY DEF p
  <2>2. req[s].at < Len(Plan("mark_due"))
    BY <1>1, Places
  <2>. QED
    BY <1>6, <2>1, <2>2, ThenAlone
<1>. QED
  BY <1>7, LettersRest, TalliedSame DEF StepAlone

LEMMA MarkDueLettersAlone ==
  ASSUME DataInv, AloneInv, overlaps = 0, overlaps' = 0,
         NEW s \in Slots, MarkDueLetters(s)
  PROVE  StepAlone
<1>1. CASE BeginsJob(s, "mark_due",
                     {l \in Letters : Exists(l) /\ DueOn(letter[l], today)})
  <2>. DEFINE L == {l \in Letters : Exists(l) /\ DueOn(letter[l], today)}
  <2>1. \A l \in Letters : l \in L => Fit("mark_due", letter[l])
    BY DEF Fit, DueOn, PastDue
  <2>2. BeginsJob(s, "mark_due", L)
    BY <1>1
  <2>. HIDE DEF L
  <2>. QED
    BY <2>1, <2>2, BeginsJobAlone
<1>2. ASSUME At(s, "mark_due", "letter"), Persists(s, MarkedDue(Rec(s)))
      PROVE  StepAlone
  <2>1. /\ req[s] # Nil /\ req[s].op = "mark_due" /\ req[s].at = 2
        /\ req[s].now \in Letters /\ InOrder(Rec(s))
    BY <1>2, AtMeans, Places DEF At
  <2>2. /\ Rec(s) = letter[req[s].now]
        /\ Exists(req[s].now)
        /\ Rec(s).due_date # Nil
    BY <1>2, <2>1, RecIsStored DEF Fit, HasPut
  <2>3. Rec(s).voulenteer_id # Nil
    BY <2>1, <2>2 DEF InOrder, CustodyAgrees
  <2>4. Public(Rec(s))
    BY <2>1, <2>2, <2>3 DEF AloneInv, ShownAndHeldPublic, IsHeld
  <2>5. Undisturbed(req[s], letter, jobs, vou_logs, due_logs)
    BY <2>1, RunsAlone
  <2>6. DueLogOf(req[s].now, Rec(s)) \in due_logs
    BY <2>1, <2>5 DEF Undisturbed, Logged, Rec
  <2>. QED
    BY <1>2, <2>1, <2>3, <2>4, <2>6, MarkedDueMoves, LastPutAlone
<1>. QED
  BY <1>1, <1>2, DueJobLogs DEF MarkDueLetters

LEMMA DueReminderAlone ==
  ASSUME DataInv, AloneInv, overlaps = 0, overlaps' = 0,
         NEW s \in Slots, DueReminder(s)
  PROVE  StepAlone
<1>1. ASSUME NEW L, BeginsJob(s, "due_reminder", L)
      PROVE  StepAlone
  BY <1>1, BeginsJobAlone DEF Fit
<1>2. ASSUME At(s, "due_reminder", "letter"), Persists(s, Reminded(Rec(s)))
      PROVE  StepAlone
  <2>1. InOrder(Rec(s))
    BY <1>2, AtMeans
  <2>2. Reminded(Rec(s)).voulenteer_id = Rec(s).voulenteer_id
    BY <2>1 DEF InOrder, LetterRecord, Reminded
  <2>. QED
    BY <1>2, <2>1, <2>2, FlagsMove, LastPutAlone
<1>. QED
  BY <1>1, <1>2 DEF DueReminder

LEMMA MarkOldLettersAlone ==
  ASSUME DataInv, AloneInv, overlaps = 0, overlaps' = 0,
         NEW s \in Slots, MarkOldLetters(s)
  PROVE  StepAlone
<1>. DEFINE chi == [l \in Letters |-> IF l \in OldLetters("chi") THEN letter[l] ELSE Nil]
            both == [l \in Letters |-> IF l \in OldLetters("eng") THEN letter[l]
                                                                  ELSE req[s].found[l]]
            q == [ op |-> "mark_old", who |-> Nil, found |-> chi, now |-> Nil,
                   count |-> 0, at |-> 0 ]
<1>1. CASE /\ Free(s) /\ req' = [req EXCEPT ![s] = q]
           /\ UNCHANGED <<today, letter, jobs, vou_logs, due_logs, forms>>
  <2>1. \A l \in Letters : chi[l] # Nil => chi[l] = letter'[l] /\ Fit("mark_old", chi[l])
    BY <1>1 DEF Fit
  <2>2. OthersIdle(s)
    BY <1>1, FreeIsIdle
  <2>. HIDE DEF chi
  <2>3. Undisturbed(q, letter', jobs', vou_logs', due_logs')
    BY <2>1, FreshUndisturbed
  <2>4. req' = [req EXCEPT ![s] = q]
    BY <1>1
  <2>. HIDE DEF q
  <2>5. OneRuns' /\ AllUndisturbed'
    BY <2>2, <2>3, <2>4, SlotAlone
  <2>. QED
    BY <1>1, <2>5, LettersRest, TalliedSame DEF StepAlone
<1>2. CASE /\ req[s] # Nil
           /\ req[s].op = "mark_old"
           /\ req[s].at = 0
           /\ Takes(s, "mark_old", Nil, both)
           /\ UNCHANGED <<today, letter, jobs, vou_logs, due_logs, forms, overlaps>>
  <2>1. OthersIdle(s) /\ Undisturbed(req[s], letter, jobs, vou_logs, due_logs)
    BY <1>2, RunsAlone
  <2>2. \A l \in Letters :
          both[l] # Nil => both[l] = letter'[l] /\ Fit("mark_old", both[l])
    BY <1>2, <2>1 DEF Undisturbed, Current, HasPut, Fit
  <2>. HIDE DEF both
  <2>3. OneRuns' /\ AllUndisturbed'
    BY <1>2, <2>1, <2>2, TakesAlone
  <2>. QED
    BY <1>2, <2>3, LettersRest, TalliedSame DEF StepAlone
<1>3. ASSUME At(s, "mark_old", "letter"), Persists(s, MarkedOld(Rec(s)))
      PROVE  StepAlone
  <2>1. /\ Sound(req[s]) /\ req[s].op = "mark_old" /\ req[s].at = 1
        /\ req[s].now \in Letters /\ InOrder(Rec(s))
    BY <1>3, AtMeans, Places
  <2>2. Rec(s).status = "unclaimed"
    BY <2>1 DEF Sound, Rec
  <2>3. MarkedOld(Rec(s)).voulenteer_id = Rec(s).voulenteer_id
    BY <2>1 DEF InOrder, LetterRecord, MarkedOld
  <2>. QED
    BY <1>3, <2>1, <2>2, <2>3, MarkedOldMoves, LastPutAlone
<1>. QED
  BY <1>1, <1>2, <1>3 DEF MarkOldLetters

\* An upload may come in while a request runs: it has not read that letter.
LEMMA FileUploadAlone ==
  ASSUME DataInv, AloneInv, NEW e \in Employees, NEW l \in Letters,
         NEW type \in TransTypes, FileUpload(e, l, type)
  PROVE  StepAlone
<1>. DEFINE r == NewLetter(e, type, today)
<1>1. /\ letter[l] = Nil /\ Puts(l, r)
      /\ UNCHANGED <<jobs, vou_logs, due_logs, req>>
  BY DEF FileUpload, Exists
<1>2. Keeps(Nil, r)
  BY NewLetterMoves DEF DataInv, TypeOK
<1>3. letter \in [Letters -> LetterRecord \cup {Nil}]
  BY DEF DataInv, TypeOK
<1>. HIDE DEF r
<1>4. letter'[l] = r /\ \A m \in Letters : m # l => letter'[m] = letter[m]
  BY <1>1, <1>3 DEF Puts
<1>5. AllKeep
  BY <1>1, <1>2, <1>4, KeepsSame DEF AllKeep
<1>6. AllAccounted /\ Rendered
  BY <1>1, <1>4 DEF AllAccounted, IsHeld, Exists, Rendered, Puts
<1>7. OneRuns'
  BY <1>1 DEF AloneInv, OneRuns
<1>8. ASSUME NEW s \in Slots, req[s] # Nil
      PROVE  Undisturbed(req[s], letter', jobs', vou_logs', due_logs')
  <2>1. Undisturbed(req[s], letter, jobs, vou_logs, due_logs)
    BY <1>8, RunsAlone
  <2>2. Current(req[s], letter')
    BY <1>1, <1>4, <2>1 DEF Undisturbed, Current
  <2>. QED
    BY <1>1, <2>1, <2>2 DEF Undisturbed
<1>9. AllUndisturbed'
  BY <1>1, <1>8 DEF AllUndisturbed
<1>. QED
  BY <1>1, <1>5, <1>6, <1>7, <1>9, TalliedSame DEF StepAlone, LettersMove

LEMMA NothingRead ==
  ASSUME AloneInv, UNCHANGED <<letter, jobs, vou_logs, due_logs, forms, req>>
  PROVE  StepAlone
<1>1. OneRuns' /\ AllUndisturbed'
  BY DEF AloneInv, OneRuns, AllUndisturbed
<1>. QED
  BY <1>1, LettersRest, TalliedSame DEF StepAlone

LEMMA AbortAlone ==
  ASSUME DataInv, AloneInv, NEW s \in Slots, Abort(s)
  PROVE  StepAlone
<1>1. OthersIdle(s)
  BY RunsAlone DEF Abort
<1>2. OneRuns' /\ AllUndisturbed'
  BY <1>1, SlotAlone DEF Abort
<1>. QED
  BY <1>2, LettersRest, TalliedSame DEF Abort, StepAlone
-----------------------------------------------------------------------------
(***************************************************************************)
(* The invariant, and what it is for.                                      *)
(***************************************************************************)

LEMMA NextAlone ==
  ASSUME DataInv, AloneInv, [Next]_vars, overlaps = 0, overlaps' = 0
  PROVE  StepAlone
<1>1. CASE NextDay \/ UNCHANGED vars
  BY <1>1, NothingRead DEF NextDay, vars
<1>2. CASE EmployeeStep
  BY <1>2, FileUploadAlone, UpdateLetterAlone, DeleteLetterAlone DEF EmployeeStep
<1>3. CASE VolunteerStep
  BY <1>3, ClaimLetterAlone, ReturnLetterAlone, ReturnFileUploadAlone, ReUploadAlone
     DEF VolunteerStep
<1>4. CASE JobStep
  BY <1>4, MarkDueLettersAlone, MarkOldLettersAlone, DueReminderAlone DEF JobStep
<1>5. ASSUME NEW s \in Slots, Abort(s)
      PROVE  StepAlone
  BY <1>5, AbortAlone
<1>. QED
  BY <1>1, <1>2, <1>3, <1>4, <1>5 DEF Next

\* An overlap is never forgotten, and there are none beyond the bound.
LEMMA OverlapsGrow ==
  ASSUME DataInv, [Next]_vars
  PROVE  \/ overlaps' = overlaps
         \/ overlaps' = overlaps + 1 /\ overlaps < MaxOverlaps
<1>1. ASSUME NEW s, Free(s)
      PROVE  \/ overlaps' = overlaps
             \/ overlaps' = overlaps + 1 /\ overlaps < MaxOverlaps
  BY <1>1 DEF Free
<1>2. CASE NextDay \/ UNCHANGED vars
  BY <1>2 DEF NextDay, vars
<1>3. CASE EmployeeStep
  BY <1>1, <1>3
     DEF EmployeeStep, FileUpload, UpdateLetter, DeleteLetter, Begins, Saves
<1>4. CASE VolunteerStep
  <2>1. ASSUME NEW s \in Slots, ClaimLetter(s) \/ ReUpload(s)
        PROVE  \/ overlaps' = overlaps
               \/ overlaps' = overlaps + 1 /\ overlaps < MaxOverlaps
    BY <1>1, <2>1 DEF ClaimLetter, ReUpload, Begins, Saves
  <2>2. ASSUME NEW s \in Slots, ReturnLetter(s)
        PROVE  \/ overlaps' = overlaps
               \/ overlaps' = overlaps + 1 /\ overlaps < MaxOverlaps
    BY <1>1, <2>2 DEF ReturnLetter, Begins, Saves, ReadsAccount, SavesAccount
  <2>3. ASSUME NEW s \in Slots, ReturnFileUpload(s)
        PROVE  \/ overlaps' = overlaps
               \/ overlaps' = overlaps + 1 /\ overlaps < MaxOverlaps
    BY <1>1, <2>3 DEF ReturnFileUpload, Begins, Persists, ReadsAccount, SavesAccount
  <2>. QED
    BY <1>4, <2>1, <2>2, <2>3 DEF VolunteerStep
<1>5. CASE JobStep
  BY <1>1, <1>5
     DEF JobStep, MarkDueLetters, MarkOldLetters, DueReminder, BeginsJob, Persists
<1>6. ASSUME NEW s \in Slots, Abort(s)
      PROVE  overlaps' = overlaps
  BY <1>6 DEF Abort
<1>. QED
  BY <1>2, <1>3, <1>4, <1>5, <1>6 DEF Next

\* The inductive invariant, with or without overlaps.
ManyInv ==
  /\ DataInv
  /\ overlaps <= MaxOverlaps
  /\ overlaps = 0 => AloneInv

LEMMA InitManyInv == Init => ManyInv
<1>. SUFFICES ASSUME Init PROVE ManyInv
  OBVIOUS
<1>1. DataInv
  BY InitDataInv
<1>2. overlaps <= MaxOverlaps
  BY DatastoreAssumption DEF Init
<1>3. \A s \in Slots : req[s] = Nil
  BY DEF Init
<1>4. \A l \in Letters : ~ Exists(l)
  BY DEF Init, Exists
<1>5. OneRuns /\ AllUndisturbed /\ ShownAndHeldPublic
  BY <1>3, <1>4 DEF Init, OneRuns, AllUndisturbed, ShownAndHeldPublic, IsHeld
<1>6. ASSUME NEW v \in Volunteers
      PROVE  jobs[v] + Cardinality({log \in vou_logs : log.voulenteer_id = v}) <= 0
  <2>1. jobs[v] = 0 /\ {log \in vou_logs : log.voulenteer_id = v} = {}
    BY DEF Init
  <2>. QED
    BY <2>1, FS_EmptySet
<1>7. IsFiniteSet(vou_logs)
  BY FS_EmptySet DEF Init
<1>. QED
  BY <1>1, <1>2, <1>5, <1>6, <1>7 DEF ManyInv, AloneInv, ReturnsAreCredited

LEMMA NextManyInv == ManyInv /\ [Next]_vars => ManyInv'
<1>. SUFFICES ASSUME ManyInv, [Next]_vars PROVE ManyInv'
  OBVIOUS
<1>1. DataInv /\ DataInv'
  BY NextDataInv DEF ManyInv
<1>2. overlaps \in Nat /\ overlaps' \in Nat /\ overlaps <= MaxOverlaps
  BY <1>1 DEF DataInv, TypeOK, ManyInv
<1>3. overlaps' <= MaxOverlaps /\ (overlaps' = 0 => overlaps = 0)
  BY <1>1, <1>2, OverlapsGrow, DatastoreAssumption
<1>4. ASSUME overlaps' = 0
      PROVE  AloneInv'
  <2>1. AloneInv /\ overlaps = 0
    BY <1>3, <1>4 DEF ManyInv
  <2>2. StepAlone
    BY <1>1, <1>4, <2>1, NextAlone
  <2>3. ShownAndHeldPublic'
    BY <1>1, <2>1, <2>2, NextSteps, PublicStays DEF StepAlone
  <2>. QED
    BY <2>2, <2>3 DEF StepAlone, Tallied, AloneInv
<1>. QED
  BY <1>1, <1>3, <1>4 DEF ManyInv

LEMMA ManyInvariant == Spec => []ManyInv
BY InitManyInv, NextManyInv, PTL DEF Spec

\* Until two requests overlap, no volunteer's jobs fall short of the returns
\* logged, wherever the requests were cut off.
THEOREM AloneReturnsCredited == Spec => [](overlaps = 0 => ReturnsAreCredited)
<1>1. ManyInv => (overlaps = 0 => ReturnsAreCredited)
  BY DEF ManyInv, AloneInv
<1>. QED
  BY <1>1, ManyInvariant, PTL

\* With requests one at a time, cut off or not, no letter leaves a
\* volunteer's hands before its return is credited or its claim logged.
THEOREM AloneReleaseComesLast == ASSUME MaxOverlaps = 0 PROVE Spec => ReleaseComesLast
<1>. DEFINE Step == \A l \in Letters :
       IsHeld(l) /\ ~ IsHeld(l)' =>
         \/ \E s \in Slots : /\ req[s] # Nil
                             /\ req[s].op = "return"
                             /\ jobs[req[s].who] < req[s].count
         \/ DueLogOf(l, letter[l]) \in due_logs
<1>1. ManyInv => overlaps = 0
  BY DEF ManyInv, DataInv, TypeOK
<1>2. ManyInv /\ ManyInv' /\ [Next]_vars => [Step]_vars
  <2>. SUFFICES ASSUME ManyInv, ManyInv', [Next]_vars PROVE Step
    OBVIOUS
  <2>1. overlaps = 0 /\ overlaps' = 0
    BY <1>1 DEF ManyInv, DataInv, TypeOK
  <2>2. AllAccounted
    BY <2>1, NextAlone DEF ManyInv, StepAlone, LettersMove
  <2>. QED
    BY <2>2 DEF AllAccounted
<1>. QED
  BY <1>2, ManyInvariant, PTL DEF Spec, ReleaseComesLast
\* Until two requests overlap, no letter passes from one volunteer directly
\* to another, wherever requests were cut off: the double claim of the
\* handler POST /claim_letter takes two that overlap.
THEOREM AloneNeverHandedOver ==
  Spec => [][overlaps' = 0 =>
               \A l \in Letters :
                 IsHeld(l) /\ IsHeld(l)'
                   => letter'[l].voulenteer_id = letter[l].voulenteer_id]_vars
<1>1. ASSUME ManyInv, [Next]_vars, overlaps' = 0,
             NEW l \in Letters, IsHeld(l), IsHeld(l)'
      PROVE  letter'[l].voulenteer_id = letter[l].voulenteer_id
  <2>1. DataInv /\ DataInv' /\ overlaps = 0
    BY <1>1, NextDataInv, OverlapsGrow DEF ManyInv, DataInv, TypeOK
  <2>2. StepAlone
    BY <1>1, <2>1, NextAlone DEF ManyInv
  <2>3. InOrder(letter[l]) /\ InOrder(letter'[l]) /\ Keeps(letter[l], letter'[l])
    BY <1>1, <2>1, <2>2 DEF StepAlone, LettersMove, AllKeep, DataInv, IsHeld, Exists
  <2>. QED
    BY <1>1, <2>3, HeldMoves DEF IsHeld, Exists
<1>. DEFINE Step == overlaps' = 0 =>
                      \A l \in Letters :
                        IsHeld(l) /\ IsHeld(l)'
                          => letter'[l].voulenteer_id = letter[l].voulenteer_id
<1>2. ManyInv /\ [Next]_vars => [Step]_vars
  BY <1>1
<1>. QED
  BY <1>2, ManyInvariant, PTL DEF Spec
-----------------------------------------------------------------------------
(***************************************************************************)
(* Requests one at a time implement LetterCustody.                         *)
(***************************************************************************)

LEMMA SameLife == \A c, d : C!Moves(c, d) <=> Life!Moves(c, d)
BY DEF C!Moves, C!Arrives, C!Fresh, C!Opens, C!Withdrawn, C!Taken, C!Delivered,
       C!Released, C!GrowsUrgent,
       Life!Moves, Life!Arrives, Life!Fresh, Life!Opens, Life!Withdrawn, Life!Taken,
       Life!Delivered, Life!Released, Life!GrowsUrgent

\* Through the refinement mapping CustodyOf, every behaviour of requests that
\* run one at a time, cut off anywhere between their reads and puts, is a
\* behaviour of LetterCustody.
THEOREM AloneImplementsCustody == ASSUME MaxOverlaps = 0 PROVE Spec => ImplementsCustody
<1>1. Init => C!Init
  BY DEF Init, C!Init
<1>2. ASSUME ManyInv, ManyInv', [Next]_vars
      PROVE  C!Next
  <2>1. overlaps = 0 /\ overlaps' = 0
    BY <1>2 DEF ManyInv, DataInv, TypeOK
  <2>2. AllKeep
    BY <1>2, <2>1, NextAlone DEF ManyInv, StepAlone, LettersMove
  <2>. QED
    BY <2>2, SameLife DEF AllKeep, Keeps, CustodyOrNil, C!Next
<1>. QED
  BY <1>1, <1>2, ManyInvariant, PTL DEF Spec, ImplementsCustody, C!Spec
-----------------------------------------------------------------------------
(***************************************************************************)
(* Requests one at a time implement LetterDesk (LetterRequests).  What the *)
(* running request knows is true (AloneInv); to be the desk's step it must *)
(* besides have been asked for on a form that was shown, work on one       *)
(* letter only if it is no job, and have found jobs to take on the account *)
(* it takes from.                                                          *)
(***************************************************************************)
JobOps == {"mark_due", "mark_old", "due_reminder"}

Asked(q, shown) == q.op \in FormOps => <<q.who, q.now, q.op>> \in shown

OneLetter(q) == q.op \notin JobOps => \A m \in Letters : m # q.now => q.found[m] = Nil

\* The first of two queries found the chi letters that are old.
HasRead(q, old) ==
  q.op = "mark_old" /\ q.at = 0 => \A l \in Letters : q.found[l] # Nil <=> l \in old

Affords(q) == q.op \in {"return", "upload"} /\ q.at > 1 => q.count > - MaxCredits

Faithful(q, shown, old) ==
  Asked(q, shown) /\ OneLetter(q) /\ HasRead(q, old) /\ Affords(q)

AllFaithful == \A s \in Slots : req[s] # Nil => Faithful(req[s], forms, OldLetters("chi"))

AllShown == ShownFor(letter) \subseteq forms

SeenInv == AllFaithful /\ AllShown /\ swept \in BOOLEAN

DeskStep == Desk!Next \/ UNCHANGED Desk!vars

\* What every lemma about a step concludes.
Simulates == DeskStep /\ SeenInv'
-----------------------------------------------------------------------------
(***************************************************************************)
(* The desk's operators are those of the datastore.                        *)
(***************************************************************************)

LEMMA DeskRecords ==
  /\ \A e, type, day : Desk!NewLetter(e, type, day) = NewLetter(e, type, day)
  /\ \A r, days : Desk!Published(r, days) = Published(r, days)
  /\ \A r : Desk!Deleted(r) = Deleted(r)
  /\ \A r, v, day : Desk!Claimed(r, v, day) = Claimed(r, v, day)
  /\ \A r : Desk!GivenBack(r) = GivenBack(r)
  /\ \A r, v, day : Desk!Uploaded(r, v, day) = Uploaded(r, v, day)
  /\ \A r : Desk!ReUploadAsked(r) = ReUploadAsked(r)
  /\ \A r : Desk!MarkedDue(r) = MarkedDue(r)
  /\ \A r : Desk!MarkedOld(r) = MarkedOld(r)
  /\ \A r : Desk!Reminded(r) = Reminded(r)
BY DEF Desk!NewLetter, NewLetter, Desk!Published, Published, Desk!Deleted, Deleted,
       Desk!Claimed, Claimed, Desk!Term, Term, Desk!GivenBack, GivenBack,
       Desk!Uploaded, Uploaded, Desk!ReUploadAsked, ReUploadAsked,
       Desk!MarkedDue, MarkedDue, Desk!MarkedOld, MarkedOld, Desk!Reminded, Reminded

LEMMA DeskGuards ==
  /\ \A r : Desk!Claimable(r) = Claimable(r)
  /\ \A r, e : Desk!Deletable(r, e) = Deletable(r, e)
  /\ \A r, day : Desk!DueOn(r, day) = DueOn(r, day)
  /\ \A r, day : Desk!RemindOn(r, day) = RemindOn(r, day)
  /\ \A r, day : Desk!OldOn(r, day) = OldOn(r, day)
  /\ \A day : Desk!RubyDates(day) = RubyDates(day)
BY DEF Desk!Claimable, Claimable, Desk!Deletable, Deletable, Desk!DueOn, DueOn,
       Desk!RemindOn, RemindOn, Desk!PastDue, PastDue, Desk!IsDue, IsDue,
       Desk!StoredDate, StoredDate, Desk!DueCutoff, DueCutoff, Desk!TaipeiDay, TaipeiDay,
       Desk!CronTime, CronTime, Desk!Day, Day, Desk!EightHours, EightHours,
       Desk!OldOn, OldOn, Desk!IsOld, IsOld, Desk!JavaCurrentDate, JavaCurrentDate,
       Desk!OldCutoff, OldCutoff, Desk!Noon, Noon, Desk!OldAge, OldAge,
       Desk!RubyDates, RubyDates

LEMMA DeskPages ==
  /\ \A r, v : Desk!FormsFor(r, v) = FormsFor(r, v)
  /\ Desk!Forms = Forms
BY DEF Desk!FormsFor, FormsFor, Desk!Offered, Offered, Desk!HeldBy, HeldBy,
       Desk!Forms, Forms, Desk!FormKinds, FormKinds
-----------------------------------------------------------------------------
(***************************************************************************)
(* What the desk sees of a running request.                                *)
(***************************************************************************)

\* No letter is seen otherwise than it is stored.
Plainly(q) == q # Nil => q.op \notin JobOps \/ q.at = 0

\* Nothing is owed to an account or to the log of returns.
Quiet(q) == q # Nil => ~ (q.op \in {"return", "upload"} /\ q.at \in {3, 4})

LEMMA SlotRuns ==
  ASSUME DataInv, NEW s \in Slots, OthersIdle(s), NEW q, req' = [req EXCEPT ![s] = q]
  PROVE  Running = req[s] /\ Running' = q
<1>1. req'[s] = q /\ \A t \in Slots : t # s => req'[t] = Nil
  BY DEF DataInv, TypeOK, OthersIdle
<1>2. Running = req[s]
  <2>1. {t \in Slots : req[t] # Nil} = IF req[s] # Nil THEN {s} ELSE {}
    BY DEF OthersIdle
  <2>. QED
    BY <2>1 DEF Running
<1>3. Running' = q
  <2>1. {t \in Slots : req'[t] # Nil} = IF q # Nil THEN {s} ELSE {}
    BY <1>1
  <2>. QED
    BY <1>1, <2>1 DEF Running
<1>. QED
  BY <1>2, <1>3

LEMMA PlainLetters ==
  ASSUME NEW q, Plainly(q), NEW letters \in [Letters -> LetterRecord \cup {Nil}]
  PROVE  /\ [l \in Letters |-> Finished(q, l, letters[l])] = letters
         /\ DueLogsOf(q) = {}
<1>1. \A l \in Letters : Finished(q, l, letters[l]) = letters[l]
  BY DEF Finished, Sweeps, Plainly, JobOps
<1>2. DueLogsOf(q) = {}
  BY DEF DueLogsOf, Sweeps, Plainly, JobOps
<1>. QED
  BY <1>1, <1>2

LEMMA QuietAccounts ==
  ASSUME NEW q, Quiet(q), NEW accounts \in [Volunteers -> Int]
  PROVE  /\ [v \in Volunteers |-> accounts[v] + Owed(q, v)] = accounts
         /\ ReturnLogsOf(q) = {}
<1>1. \A v \in Volunteers : Owed(q, v) = 0
  BY DEF Owed, Quiet
<1>2. \A v \in Volunteers : accounts[v] + Owed(q, v) = accounts[v]
  BY <1>1
<1>3. ReturnLogsOf(q) = {}
  BY DEF ReturnLogsOf, Quiet
<1>. QED
  BY <1>2, <1>3

LEMMA PlainSeen ==
  ASSUME DataInv, AllShown, Plainly(Running)
  PROVE  LetterSeen = letter /\ DueLogsSeen = due_logs /\ FormsSeen = forms
<1>1. LetterSeen = letter /\ DueLogsOf(Running) = {}
  BY PlainLetters DEF DataInv, TypeOK, LetterSeen
<1>. QED
  BY <1>1 DEF DueLogsSeen, FormsSeen, AllShown

LEMMA PlainSeenNext ==
  ASSUME LettersStep, AllShown', Plainly(Running')
  PROVE  LetterSeen' = letter' /\ DueLogsSeen' = due_logs' /\ FormsSeen' = forms'
<1>1. LetterSeen' = letter' /\ DueLogsOf(Running') = {}
  BY PlainLetters DEF LettersStep, LetterSeen
<1>2. DueLogsSeen' = due_logs'
  BY <1>1 DEF DueLogsSeen
<1>3. FormsSeen' = forms'
  BY <1>1 DEF FormsSeen, AllShown
<1>. QED
  BY <1>1, <1>2, <1>3

LEMMA QuietSeen ==
  ASSUME DataInv, Quiet(Running)
  PROVE  JobsSeen = jobs /\ VouLogsSeen = vou_logs
BY QuietAccounts DEF DataInv, TypeOK, JobsSeen, VouLogsSeen

LEMMA QuietSeenNext ==
  ASSUME RestTypes, Quiet(Running')
  PROVE  JobsSeen' = jobs' /\ VouLogsSeen' = vou_logs'
BY QuietAccounts DEF RestTypes, JobsSeen, VouLogsSeen

\* Pages show the letters as the desk sees them.
SeenShown == FormsSeen' = FormsSeen \cup ShownFor(LetterSeen')

LEMMA DeskShows == SeenShown => Desk!PagesShown
BY DeskPages DEF SeenShown, ShownFor, Desk!PagesShown

\* A put leaves nothing on the pages that was not shown.
LEMMA ShownStays ==
  ASSUME AllShown, PagesShown \/ (letter' = letter /\ forms' = forms)
  PROVE  AllShown' /\ forms \subseteq forms' /\ forms' = forms \cup ShownFor(letter')
BY DEF AllShown, PagesShown, ShownFor

LEMMA SlotFaithful ==
  ASSUME DataInv, NEW s \in Slots, OthersIdle(s), NEW q, req' = [req EXCEPT ![s] = q],
         q # Nil => Faithful(q, forms', OldLetters("chi")')
  PROVE  AllFaithful'
<1>1. req'[s] = q /\ \A t \in Slots : t # s => req'[t] = Nil
  BY DEF DataInv, TypeOK, OthersIdle
<1>. QED
  BY <1>1 DEF AllFaithful

\* Only the due job, when it begins, is a sweep.
LEMMA NoSweep ==
  ASSUME DataInv, SeenInv, NEW s \in Slots, NEW q, req' = [req EXCEPT ![s] = q],
         req[s] # Nil \/ q = Nil \/ q.op # "mark_due",
         swept' = (swept \/ SweepBegins)
  PROVE  swept' = swept /\ swept' \in BOOLEAN
<1>1. req'[s] = q /\ \A t \in Slots : t # s => req'[t] = req[t]
  BY DEF DataInv, TypeOK
<1>2. ~ SweepBegins
  BY <1>1 DEF SweepBegins
<1>. QED
  BY <1>2 DEF SeenInv
-----------------------------------------------------------------------------
(***************************************************************************)
(* Calls the desk sees nothing of.                                         *)
(***************************************************************************)
SweptStep == swept' = (swept \/ SweepBegins)

LEMMA PlainStutter ==
  ASSUME DataInv, SeenInv, NEW s \in Slots, OthersIdle(s), NEW q,
         req' = [req EXCEPT ![s] = q],
         Plainly(req[s]), Plainly(q), Quiet(req[s]), Quiet(q),
         UNCHANGED <<today, letter, jobs, vou_logs, due_logs, forms, swept>>
  PROVE  UNCHANGED Desk!vars /\ AllShown'
<1>1. Running = req[s] /\ Running' = q
  BY SlotRuns
<1>2. AllShown /\ AllShown' /\ LettersStep
  BY LettersSame, ShownStays DEF SeenInv
<1>3. LetterSeen' = LetterSeen /\ DueLogsSeen' = DueLogsSeen /\ FormsSeen' = FormsSeen
  BY <1>1, <1>2, PlainSeen, PlainSeenNext
<1>4. JobsSeen' = JobsSeen /\ VouLogsSeen' = VouLogsSeen
  <2>1. JobsSeen' = jobs' /\ VouLogsSeen' = vou_logs'
    BY <1>1, QuietAccounts DEF DataInv, TypeOK, JobsSeen, VouLogsSeen
  <2>. QED
    BY <1>1, <2>1, QuietSeen
<1>. QED
  BY <1>2, <1>3, <1>4 DEF Desk!vars

\* A page's request begins.
LEMMA BeginsSeen ==
  ASSUME DataInv, SeenInv, overlaps = 0, overlaps' = 0, SweptStep,
         NEW s \in Slots, NEW op, op \notin JobOps, NEW v, NEW l \in Letters,
         Begins(s, op, v, l), op \in FormOps => <<v, l, op>> \in forms
  PROVE  Simulates
<1>1. OthersIdle(s) /\ req[s] = Nil
  BY FreeIsIdle DEF Begins
<1>. DEFINE q == [ op |-> op, who |-> v, found |-> Only(l),
                   now |-> l, count |-> 0, at |-> 1 ]
<1>2. \A m \in Letters : m # l => Only(l)[m] = Nil
  BY DEF Only, Nothing
<1>3. q.op = op /\ q.who = v /\ q.found = Only(l) /\ q.now = l /\ q.at = 1
  OBVIOUS
<1>4. req' = [req EXCEPT ![s] = q]
      /\ UNCHANGED <<today, letter, jobs, vou_logs, due_logs, forms>>
  BY DEF Begins
<1>. HIDE DEF q
<1>5. Plainly(req[s]) /\ Plainly(q) /\ Quiet(req[s]) /\ Quiet(q)
  BY <1>1, <1>3 DEF Plainly, Quiet
<1>6. swept' = swept /\ swept' \in BOOLEAN
  BY <1>3, <1>4, NoSweep DEF SweptStep, JobOps
<1>7. UNCHANGED Desk!vars /\ AllShown'
  BY <1>1, <1>4, <1>5, <1>6, PlainStutter
<1>8. Faithful(q, forms', OldLetters("chi")')
  BY <1>2, <1>3, <1>4 DEF Faithful, Asked, OneLetter, HasRead, Affords, JobOps
<1>9. AllFaithful'
  BY <1>1, <1>4, <1>8, SlotFaithful
<1>. QED
  BY <1>6, <1>7, <1>9 DEF Simulates, DeskStep, SeenInv

\* What is known of a request that does something.
LEMMA RunsFaithful ==
  ASSUME SeenInv, NEW s \in Slots, req[s] # Nil
  PROVE  Faithful(req[s], forms, OldLetters("chi"))
BY DEF SeenInv, AllFaithful

LEMMA ReadsAccountSeen ==
  ASSUME DataInv, AloneInv, SeenInv, SweptStep,
         NEW s \in Slots, NEW op \in {"return", "upload"}, NEW v, ReadsAccount(s, op, v)
  PROVE  Simulates
<1>. DEFINE q == req[s]
            n == jobs[v]
            p == [q EXCEPT !.count = n, !.at = q.at + 1]
<1>1. /\ At(s, op, "read_account") /\ v \in Volunteers /\ n > - MaxCredits
      /\ UNCHANGED <<today, letter, jobs, vou_logs, due_logs, forms>>
  BY DEF ReadsAccount
<1>2. q # Nil /\ q \in Request /\ q.op = op /\ q.at = 1
  BY <1>1, AtMeans, Places DEF At
<1>3. n \in Int
  BY <1>1 DEF DataInv, TypeOK
<1>4. OthersIdle(s) /\ Faithful(q, forms, OldLetters("chi"))
  BY <1>2, RunsAlone, RunsFaithful
<1>5. req' = [req EXCEPT ![s] = p]
  BY DEF ReadsAccount
<1>. HIDE DEF n
<1>6. p.op = op /\ p.who = q.who /\ p.found = q.found /\ p.now = q.now
      /\ p.count = n /\ p.at = 2
  BY <1>2, <1>3, NextPlace
<1>. HIDE DEF p
<1>7. Plainly(q) /\ Plainly(p) /\ Quiet(q) /\ Quiet(p)
  BY <1>2, <1>6 DEF Plainly, Quiet, JobOps
<1>8. swept' = swept /\ swept' \in BOOLEAN
  BY <1>2, <1>5, NoSweep DEF SweptStep
<1>9. UNCHANGED Desk!vars /\ AllShown'
  BY <1>1, <1>4, <1>5, <1>7, <1>8, PlainStutter
<1>10. Faithful(p, forms', OldLetters("chi")')
  BY <1>1, <1>2, <1>4, <1>6 DEF Faithful, Asked, OneLetter, HasRead, Affords
<1>11. AllFaithful'
  BY <1>4, <1>5, <1>10, SlotFaithful
<1>. QED
  BY <1>8, <1>9, <1>11 DEF Simulates, DeskStep, SeenInv
-----------------------------------------------------------------------------
(***************************************************************************)
(* How a request goes on, and how it ends.                                 *)
(***************************************************************************)

\* It goes on with the same letter.
LEMMA GoesOn ==
  ASSUME DataInv, AloneInv, SeenInv, SweptStep, NEW s \in Slots,
         NEW op, NEW write, At(s, op, write), op = "mark_due" \/ req[s].at > 1,
         req[s].at < Len(Plan(op)), Done(s), forms \subseteq forms',
         NEW p, p = [req[s] EXCEPT !.at = req[s].at + 1]
  PROVE  /\ Running = req[s] /\ Running' = p
         /\ p # Nil
         /\ swept' = swept /\ swept' \in BOOLEAN
         /\ AllFaithful'
<1>. DEFINE q == req[s]
<1>1. q # Nil /\ q \in Request /\ q.op = op
  BY AtMeans DEF At
<1>2. OthersIdle(s) /\ Faithful(q, forms, OldLetters("chi"))
  BY <1>1, RunsAlone, RunsFaithful
<1>3. req' = [req EXCEPT ![s] = p]
  BY <1>1 DEF Done
<1>4. /\ p.op = op /\ p.who = q.who /\ p.found = q.found
      /\ p.now = q.now /\ p.count = q.count /\ p.at = q.at + 1
  BY <1>1, NextPlace
<1>5. q.at \in Nat /\ p.at # 0
  BY <1>1, <1>4 DEF Request
<1>6. Faithful(p, forms', OldLetters("chi")')
  BY <1>1, <1>2, <1>4, <1>5 DEF Faithful, Asked, OneLetter, HasRead, Affords
<1>7. AllFaithful'
  BY <1>2, <1>3, <1>6, SlotFaithful
<1>8. swept' = swept /\ swept' \in BOOLEAN
  BY <1>1, <1>3, NoSweep DEF SweptStep
<1>9. Running = req[s] /\ Running' = p
  BY <1>2, <1>3, SlotRuns
<1>10. p # Nil
  <2>1. p \in Request
    BY <1>1 DEF Request
  <2>. QED
    BY <2>1, RequestAssumption
<1>. QED
  BY <1>4, <1>7, <1>8, <1>9, <1>10

\* A page's request ends.
LEMMA Ends ==
  ASSUME DataInv, AloneInv, SeenInv, SweptStep, NEW s \in Slots,
         NEW op, op \notin JobOps, NEW write, At(s, op, write),
         req[s].at = Len(Plan(op)), Done(s)
  PROVE  /\ Running = req[s] /\ Running' = Nil
         /\ swept' = swept /\ swept' \in BOOLEAN
         /\ AllFaithful'
<1>. DEFINE q == req[s]
            f == [q.found EXCEPT ![q.now] = Nil]
<1>1. q # Nil /\ q \in Request /\ q.op = op
  BY AtMeans DEF At
<1>2. OthersIdle(s) /\ Faithful(q, forms, OldLetters("chi"))
  BY <1>1, RunsAlone, RunsFaithful
<1>3. f = Nothing
  <2>1. q.found \in [Letters -> LetterRecord \cup {Nil}]
    BY <1>1 DEF Request
  <2>2. \A m \in Letters : f[m] = Nil
    BY <1>1, <1>2, <2>1 DEF Faithful, OneLetter
  <2>. QED
    BY <2>1, <2>2 DEF Nothing
<1>4. Takes(s, q.op, q.who, f)
  BY <1>1 DEF Done
<1>. HIDE DEF f
<1>5. req' = [req EXCEPT ![s] = Nil]
  BY <1>3, <1>4 DEF Takes
<1>6. AllFaithful'
  BY <1>2, <1>5, SlotFaithful
<1>7. swept' = swept /\ swept' \in BOOLEAN
  BY <1>1, <1>5, NoSweep DEF SweptStep
<1>8. Running = req[s] /\ Running' = Nil
  BY <1>2, <1>5, SlotRuns
<1>. QED
  BY <1>6, <1>7, <1>8

\* What a return has taken off an account it gives back to the desk until
\* the letter is put.
LEMMA ReturnSavesAccountSeen ==
  ASSUME DataInv, AloneInv, SeenInv, SweptStep, NEW s \in Slots,
         SavesAccount(s, "return", req[s].who)
  PROVE  Simulates
<1>. DEFINE q == req[s]
            p == [q EXCEPT !.at = q.at + 1]
            n == q.count - 1
<1>1. /\ At(s, "return", "account") /\ Done(s)
      /\ UNCHANGED <<today, letter, vou_logs, due_logs, forms>>
      /\ jobs' = [jobs EXCEPT ![q.who] = n]
  BY DEF SavesAccount
<1>2. q # Nil /\ q \in Request /\ q.op = "return" /\ q.at = 2
      /\ q.at < Len(Plan("return")) /\ q.who \in Volunteers
  BY <1>1, AtMeans, Places DEF At, Sound, FormOps
<1>3. Undisturbed(q, letter, jobs, vou_logs, due_logs)
  BY <1>2, RunsAlone
<1>4. jobs \in [Volunteers -> Int] /\ q.count = jobs[q.who]
  BY <1>2, <1>3 DEF Undisturbed, Counts, DataInv, TypeOK
<1>5. /\ Running = q /\ Running' = p /\ AllFaithful'
      /\ p # Nil /\ swept' = swept /\ swept' \in BOOLEAN
  <2>1. forms \subseteq forms'
    BY <1>1
  <2>. HIDE DEF p
  <2>2. p = [req[s] EXCEPT !.at = req[s].at + 1]
    BY DEF p
  <2>. QED
    BY <1>1, <1>2, <2>1, <2>2, GoesOn
<1>6. p.op = "return" /\ p.who = q.who /\ p.at = 3
  BY <1>2, NextPlace
<1>. HIDE DEF p
<1>7. AllShown /\ AllShown' /\ LettersStep
  BY <1>1, LettersSame, ShownStays DEF SeenInv
<1>8. Plainly(q) /\ Plainly(p) /\ Quiet(q)
  BY <1>2, <1>6 DEF Plainly, Quiet, JobOps
<1>9. LetterSeen' = LetterSeen /\ DueLogsSeen' = DueLogsSeen /\ FormsSeen' = FormsSeen
  BY <1>1, <1>5, <1>7, <1>8, PlainSeen, PlainSeenNext
<1>10. JobsSeen' = JobsSeen
  <2>1. \A v \in Volunteers : Owed(p, v) = IF v = q.who THEN 1 ELSE 0
    BY <1>5, <1>6 DEF Owed
  <2>2. n = jobs[q.who] - 1 /\ n \in Int
    BY <1>2, <1>4
  <2>. HIDE DEF n
  <2>3. \A v \in Volunteers : jobs'[v] = IF v = q.who THEN n ELSE jobs[v]
    BY <1>1, <1>4
  <2>4. \A v \in Volunteers : jobs'[v] + Owed(p, v) = jobs[v]
    BY <1>4, <2>1, <2>2, <2>3
  <2>5. JobsSeen' = [v \in Volunteers |-> jobs'[v] + Owed(p, v)]
    BY <1>5 DEF JobsSeen
  <2>. QED
    BY <1>4, <1>5, <1>8, <2>4, <2>5, QuietSeen
<1>11. VouLogsSeen' = VouLogsSeen
  <2>1. ReturnLogsOf(p) = {} /\ ReturnLogsOf(q) = {}
    BY <1>2, <1>6 DEF ReturnLogsOf
  <2>. QED
    BY <1>1, <1>5, <2>1 DEF VouLogsSeen
<1>. QED
  BY <1>1, <1>5, <1>7, <1>9, <1>10, <1>11 DEF Simulates, DeskStep, SeenInv, Desk!vars
-----------------------------------------------------------------------------
(***************************************************************************)
(* The put of a page's request is the step of the desk.                    *)
(***************************************************************************)

\* Saved or not, the letter is as the handler made it.
LEMMA SavedIsPut ==
  ASSUME DataInv, AloneInv, AllShown, NEW s \in Slots, NEW op, At(s, op, "letter"),
         ~ HasPut(req[s]), NEW r, Saves(s, r) \/ Persists(s, r)
  PROVE  /\ letter' = [letter EXCEPT ![req[s].now] = r]
         /\ AllShown' /\ forms \subseteq forms' /\ forms' = forms \cup ShownFor(letter')
<1>1. Rec(s) = letter[req[s].now]
  BY RecIsStored
<1>2. letter \in [Letters -> LetterRecord \cup {Nil}]
  BY DEF DataInv, TypeOK
<1>3. CASE letter' = letter /\ forms' = forms /\ r = Rec(s)
  <2>1. letter = [letter EXCEPT ![req[s].now] = letter[req[s].now]]
    BY <1>2
  <2>. QED
    BY <1>1, <1>3, <2>1, ShownStays
<1>4. CASE Puts(req[s].now, r)
  BY <1>4, ShownStays DEF Puts
<1>. QED
  BY <1>3, <1>4 DEF Saves, Persists

\* The desk sees the same put.
LEMMA PlainPut ==
  ASSUME DataInv, AllShown, AllShown', LettersStep,
         Plainly(Running), Plainly(Running'),
         NEW l, NEW r, letter' = [letter EXCEPT ![l] = r],
         forms' = forms \cup ShownFor(letter')
  PROVE  /\ Desk!Puts(l, r)
         /\ LetterSeen = letter /\ FormsSeen = forms
         /\ DueLogsSeen = due_logs /\ DueLogsSeen' = due_logs'
<1>1. /\ LetterSeen = letter /\ FormsSeen = forms /\ DueLogsSeen = due_logs
      /\ LetterSeen' = letter' /\ FormsSeen' = forms' /\ DueLogsSeen' = due_logs'
  BY PlainSeen, PlainSeenNext
<1>2. Desk!PagesShown
  BY <1>1, DeskShows DEF SeenShown
<1>. QED
  BY <1>1, <1>2 DEF Desk!Puts

\* The account of v as the desk sees it.
LEMMA DeskCredits ==
  ASSUME NEW v \in Volunteers, JobsSeen[v] > - MaxCredits,
         JobsSeen' = [JobsSeen EXCEPT ![v] = JobsSeen[v] - 1]
  PROVE  Desk!Credits(v)
BY DEF Desk!Credits

LEMMA ReturnSavesLetterSeen ==
  ASSUME DataInv, AloneInv, SeenInv, SweptStep, LettersStep, NEW s \in Slots,
         At(s, "return", "letter"), Saves(s, GivenBack(Rec(s)))
  PROVE  Simulates
<1>. DEFINE q == req[s]
            p == [q EXCEPT !.at = q.at + 1]
            v == q.who
            l == q.now
            r == GivenBack(Rec(s))
<1>1. Done(s) /\ UNCHANGED <<today, jobs, vou_logs, due_logs>>
  BY DEF Saves
<1>2. q # Nil /\ q \in Request /\ q.op = "return" /\ q.at = 3
      /\ q.at < Len(Plan("return")) /\ v \in Volunteers /\ l \in Letters
  BY AtMeans, Places DEF At, Sound, FormOps
<1>3. ~ HasPut(q)
  BY <1>2 DEF HasPut
<1>4. /\ letter' = [letter EXCEPT ![l] = r]
      /\ AllShown /\ AllShown' /\ forms \subseteq forms'
      /\ forms' = forms \cup ShownFor(letter')
  BY <1>3, SavedIsPut DEF SeenInv
<1>5. /\ Running = q /\ Running' = p /\ AllFaithful'
      /\ p # Nil /\ swept' = swept /\ swept' \in BOOLEAN
  <2>. HIDE DEF p
  <2>1. p = [req[s] EXCEPT !.at = req[s].at + 1]
    BY DEF p
  <2>. QED
    BY <1>1, <1>2, <1>4, <2>1, GoesOn
<1>6. p.op = "return" /\ p.who = v /\ p.now = l /\ p.found = q.found /\ p.at = 4
  BY <1>2, NextPlace
<1>. HIDE DEF p
<1>7. Plainly(q) /\ Plainly(p)
  BY <1>2, <1>6 DEF Plainly, JobOps
<1>8. /\ Desk!Puts(l, r)
      /\ LetterSeen = letter /\ FormsSeen = forms
      /\ DueLogsSeen = due_logs /\ DueLogsSeen' = due_logs'
  BY <1>4, <1>5, <1>7, PlainPut
<1>9. Undisturbed(q, letter, jobs, vou_logs, due_logs)
      /\ Faithful(q, forms, OldLetters("chi")) /\ Rec(s) = letter[l]
  BY <1>2, <1>3, RunsAlone, RunsFaithful, RecIsStored
<1>10. Desk!Credits(v)
  <2>1. jobs \in [Volunteers -> Int] /\ q.count \in Int /\ jobs[v] = q.count - 1
        /\ q.count > - MaxCredits
    BY <1>2, <1>9 DEF Undisturbed, Counts, Faithful, Affords, DataInv, TypeOK, Request
  <2>2. \A w \in Volunteers : Owed(q, w) = IF w = v THEN 1 ELSE 0
    BY <1>2 DEF Owed
  <2>3. \A w \in Volunteers : Owed(p, w) = 0
    BY <1>6 DEF Owed
  <2>4. JobsSeen = [w \in Volunteers |-> jobs[w] + Owed(q, w)]
        /\ JobsSeen' = [w \in Volunteers |-> jobs[w] + Owed(p, w)]
    BY <1>1, <1>5 DEF JobsSeen
  <2>5. \A w \in Volunteers : /\ JobsSeen[w] = IF w = v THEN q.count ELSE jobs[w]
                              /\ JobsSeen'[w] = jobs[w]
    BY <2>1, <2>2, <2>3, <2>4
  <2>6. JobsSeen' = [JobsSeen EXCEPT ![v] = JobsSeen[v] - 1]
    BY <1>2, <2>1, <2>4, <2>5
  <2>. QED
    BY <1>2, <2>1, <2>5, <2>6, DeskCredits
<1>11. VouLogsSeen' = VouLogsSeen \cup {Desk!VouLogOf(v, l)}
  <2>1. ReturnLogsOf(q) = {}
    BY <1>2 DEF ReturnLogsOf
  <2>2. ReturnLogsOf(p) = {[voulenteer_id |-> v, letter_id |-> l,
                            claim_date |-> letter[l].claim_date]}
    BY <1>5, <1>6, <1>9 DEF ReturnLogsOf, Rec
  <2>. QED
    BY <1>1, <1>5, <1>8, <2>1, <2>2 DEF VouLogsSeen, Desk!VouLogOf
<1>12. <<v, l, "return">> \in FormsSeen
  BY <1>2, <1>8, <1>9 DEF Faithful, Asked, FormOps
<1>13. Desk!ReturnLetter(v, l)
  BY <1>1, <1>5, <1>8, <1>9, <1>10, <1>11, <1>12, DeskRecords DEF Desk!ReturnLetter
<1>. QED
  BY <1>2, <1>4, <1>5, <1>13
     DEF Simulates, DeskStep, SeenInv, Desk!Next, Desk!VolunteerStep
\* Nothing but the log of a return was still to come.
LEMMA ReturnLogsSeen ==
  ASSUME DataInv, AloneInv, SeenInv, SweptStep, NEW s \in Slots,
         At(s, "return", "vou_log"), vou_logs' = vou_logs \cup {VouLogOf(s)}, Done(s),
         UNCHANGED <<today, letter, jobs, due_logs, forms>>
  PROVE  Simulates
<1>. DEFINE q == req[s]
<1>1. q # Nil /\ q.op = "return" /\ q.at = 4 /\ q.at = Len(Plan("return"))
  BY AtMeans, Places DEF At
<1>2. /\ Running = q /\ Running' = Nil /\ AllFaithful'
      /\ swept' = swept /\ swept' \in BOOLEAN
  BY <1>1, Ends DEF JobOps
<1>3. AllShown /\ AllShown' /\ LettersStep
  BY LettersSame, ShownStays DEF SeenInv
<1>4. Plainly(q) /\ Plainly(Nil)
  BY <1>1 DEF Plainly, JobOps
<1>5. LetterSeen' = LetterSeen /\ DueLogsSeen' = DueLogsSeen /\ FormsSeen' = FormsSeen
  BY <1>2, <1>3, <1>4, PlainSeen, PlainSeenNext
<1>6. JobsSeen' = JobsSeen
  <2>1. \A v \in Volunteers : Owed(q, v) = 0 /\ Owed(Nil, v) = 0
    BY <1>1 DEF Owed
  <2>. QED
    BY <1>2, <2>1 DEF JobsSeen
<1>7. VouLogsSeen' = VouLogsSeen
  <2>1. ReturnLogsOf(q) = {VouLogOf(s)} /\ ReturnLogsOf(Nil) = {}
    BY <1>1 DEF ReturnLogsOf, VouLogOf, Rec
  <2>. QED
    BY <1>2, <2>1 DEF VouLogsSeen
<1>. QED
  BY <1>2, <1>3, <1>5, <1>6, <1>7 DEF Simulates, DeskStep, SeenInv, Desk!vars

LEMMA UploadSavesLetterSeen ==
  ASSUME DataInv, AloneInv, SeenInv, SweptStep, LettersStep, NEW s \in Slots,
         At(s, "upload", "letter"), Persists(s, Uploaded(Rec(s), req[s].who, today))
  PROVE  Simulates
<1>. DEFINE q == req[s]
            p == [q EXCEPT !.at = q.at + 1]
            l == q.now
            a == Rec(s).voulenteer_account
            r == Uploaded(Rec(s), q.who, today)
<1>1. Done(s) /\ UNCHANGED <<today, jobs, vou_logs, due_logs>>
  BY DEF Persists
<1>2. q # Nil /\ q \in Request /\ q.op = "upload" /\ q.at = 2
      /\ q.at < Len(Plan("upload")) /\ q.who \in Volunteers /\ l \in Letters
      /\ InOrder(Rec(s))
  BY AtMeans, Places DEF At, Sound, FormOps
<1>3. ~ HasPut(q)
  BY <1>2 DEF HasPut
<1>4. a # Nil /\ a \in Volunteers
  BY <1>2, UploadHasAccount DEF InOrder, LetterRecord
<1>5. /\ letter' = [letter EXCEPT ![l] = r]
      /\ AllShown /\ AllShown' /\ forms \subseteq forms'
      /\ forms' = forms \cup ShownFor(letter')
  BY <1>3, SavedIsPut DEF SeenInv
<1>6. /\ Running = q /\ Running' = p /\ AllFaithful'
      /\ p # Nil /\ swept' = swept /\ swept' \in BOOLEAN
  <2>. HIDE DEF p
  <2>1. p = [req[s] EXCEPT !.at = req[s].at + 1]
    BY DEF p
  <2>. QED
    BY <1>1, <1>2, <1>5, <2>1, GoesOn
<1>7. p.op = "upload" /\ p.now = l /\ p.found = q.found /\ p.at = 3
  BY <1>2, NextPlace
<1>. HIDE DEF p
<1>8. Plainly(q) /\ Plainly(p)
  BY <1>2, <1>7 DEF Plainly, JobOps
<1>9. /\ Desk!Puts(l, r)
      /\ LetterSeen = letter /\ FormsSeen = forms
      /\ DueLogsSeen = due_logs /\ DueLogsSeen' = due_logs'
  BY <1>5, <1>6, <1>8, PlainPut
<1>10. Undisturbed(q, letter, jobs, vou_logs, due_logs)
       /\ Faithful(q, forms, OldLetters("chi")) /\ Rec(s) = letter[l]
  BY <1>2, <1>3, RunsAlone, RunsFaithful, RecIsStored
<1>11. Desk!Credits(a)
  <2>1. jobs \in [Volunteers -> Int] /\ jobs[a] = q.count /\ q.count > - MaxCredits
    BY <1>2, <1>10 DEF Undisturbed, Counts, Faithful, Affords, DataInv, TypeOK, Rec
  <2>2. \A w \in Volunteers : Owed(q, w) = 0
    BY <1>2 DEF Owed
  <2>3. \A w \in Volunteers : Owed(p, w) = IF w = a THEN -1 ELSE 0
    BY <1>6, <1>7 DEF Owed, Rec
  <2>4. JobsSeen = [w \in Volunteers |-> jobs[w] + Owed(q, w)]
        /\ JobsSeen' = [w \in Volunteers |-> jobs[w] + Owed(p, w)]
    BY <1>1, <1>6 DEF JobsSeen
  <2>. HIDE DEF a
  <2>5. \A w \in Volunteers : /\ JobsSeen[w] = jobs[w]
                              /\ JobsSeen'[w] = IF w = a THEN jobs[a] - 1 ELSE jobs[w]
    BY <2>1, <2>2, <2>3, <2>4
  <2>6. JobsSeen' = [JobsSeen EXCEPT ![a] = JobsSeen[a] - 1]
    BY <1>4, <2>1, <2>4, <2>5
  <2>. QED
    BY <1>4, <2>1, <2>5, <2>6, DeskCredits
<1>12. VouLogsSeen' = VouLogsSeen
  <2>1. ReturnLogsOf(q) = {} /\ ReturnLogsOf(p) = {}
    BY <1>2, <1>7 DEF ReturnLogsOf
  <2>. QED
    BY <1>1, <1>6, <2>1 DEF VouLogsSeen
<1>13. <<q.who, l, "upload">> \in FormsSeen
  BY <1>2, <1>9, <1>10 DEF Faithful, Asked, FormOps
<1>14. Desk!ReturnFileUpload(q.who, l)
  BY <1>1, <1>4, <1>6, <1>9, <1>10, <1>11, <1>12, <1>13, DeskRecords
     DEF Desk!ReturnFileUpload
<1>. QED
  BY <1>2, <1>5, <1>6, <1>14
     DEF Simulates, DeskStep, SeenInv, Desk!Next, Desk!VolunteerStep

\* What an upload has still to take off an account the desk has taken.
LEMMA UploadSavesAccountSeen ==
  ASSUME DataInv, AloneInv, SeenInv, SweptStep, NEW s \in Slots,
         SavesAccount(s, "upload", Rec(s).voulenteer_account)
  PROVE  Simulates
<1>. DEFINE q == req[s]
            a == Rec(s).voulenteer_account
            n == q.count - 1
<1>1. /\ At(s, "upload", "account") /\ Done(s)
      /\ UNCHANGED <<today, letter, vou_logs, due_logs, forms>>
      /\ jobs' = [jobs EXCEPT ![a] = n]
  BY DEF SavesAccount
<1>2. q # Nil /\ q.op = "upload" /\ q.at = 3 /\ q.at = Len(Plan("upload"))
      /\ InOrder(Rec(s))
  BY <1>1, AtMeans, Places DEF At
<1>3. a \in Volunteers
  BY <1>1, <1>2, UploadHasAccount DEF InOrder, LetterRecord
<1>4. Undisturbed(q, letter, jobs, vou_logs, due_logs)
  BY <1>2, RunsAlone
<1>5. jobs \in [Volunteers -> Int] /\ q.count = jobs[a]
  BY <1>2, <1>4 DEF Undisturbed, Counts, DataInv, TypeOK, Rec
<1>6. /\ Running = q /\ Running' = Nil /\ AllFaithful'
      /\ swept' = swept /\ swept' \in BOOLEAN
  BY <1>1, <1>2, Ends DEF JobOps
<1>7. AllShown /\ AllShown' /\ LettersStep
  BY <1>1, LettersSame, ShownStays DEF SeenInv
<1>8. Plainly(q) /\ Plainly(Nil)
  BY <1>2 DEF Plainly, JobOps
<1>9. LetterSeen' = LetterSeen /\ DueLogsSeen' = DueLogsSeen /\ FormsSeen' = FormsSeen
  BY <1>1, <1>6, <1>7, <1>8, PlainSeen, PlainSeenNext
<1>10. JobsSeen' = JobsSeen
  <2>1. \A v \in Volunteers : Owed(q, v) = IF v = a THEN -1 ELSE 0
    BY <1>2 DEF Owed, Rec
  <2>2. \A v \in Volunteers : Owed(Nil, v) = 0
    BY DEF Owed
  <2>3. n = jobs[a] - 1 /\ n \in Int
    BY <1>3, <1>5
  <2>. HIDE DEF n, a
  <2>4. \A v \in Volunteers : jobs'[v] = IF v = a THEN n ELSE jobs[v]
    BY <1>1, <1>5
  <2>5. \A v \in Volunteers : jobs'[v] + Owed(Nil, v) = jobs[v] + Owed(q, v)
    BY <1>5, <2>1, <2>2, <2>3, <2>4
  <2>. QED
    BY <1>6, <2>5 DEF JobsSeen
<1>11. VouLogsSeen' = VouLogsSeen
  <2>1. ReturnLogsOf(q) = {} /\ ReturnLogsOf(Nil) = {}
    BY <1>2 DEF ReturnLogsOf
  <2>. QED
    BY <1>1, <1>6, <2>1 DEF VouLogsSeen
<1>. QED
  BY <1>1, <1>6, <1>7, <1>9, <1>10, <1>11 DEF Simulates, DeskStep, SeenInv, Desk!vars
\* The handlers that only put a letter.
OnePutOps == {"update", "delete", "claim", "re_upload"}

LEMMA OnePutSeen ==
  ASSUME DataInv, AloneInv, SeenInv, SweptStep, LettersStep, NEW s \in Slots,
         NEW op \in OnePutOps, At(s, op, "letter"), NEW r, Saves(s, r)
  PROVE  /\ Desk!Puts(req[s].now, r)
         /\ LetterSeen = letter /\ FormsSeen = forms
         /\ UNCHANGED <<today, JobsSeen, VouLogsSeen, DueLogsSeen, swept>>
         /\ SeenInv'
<1>. DEFINE q == req[s]
<1>1. Done(s) /\ UNCHANGED <<today, jobs, vou_logs, due_logs>>
  BY DEF Saves
<1>2. op \notin JobOps /\ op \notin {"return", "upload", "mark_due"}
  BY DEF OnePutOps, JobOps
<1>3. q # Nil /\ q.op = op /\ q.at = Len(Plan(op))
  BY <1>2, AtMeans, Places DEF At
<1>4. ~ HasPut(q)
  BY <1>2, <1>3 DEF HasPut
<1>5. /\ letter' = [letter EXCEPT ![q.now] = r]
      /\ AllShown /\ AllShown' /\ forms' = forms \cup ShownFor(letter')
  BY <1>4, SavedIsPut DEF SeenInv
<1>6. /\ Running = q /\ Running' = Nil /\ AllFaithful'
      /\ swept' = swept /\ swept' \in BOOLEAN
  BY <1>1, <1>2, <1>3, Ends
<1>7. Plainly(q) /\ Plainly(Nil)
  BY <1>2, <1>3 DEF Plainly
<1>8. /\ Desk!Puts(q.now, r)
      /\ LetterSeen = letter /\ FormsSeen = forms
      /\ DueLogsSeen = due_logs /\ DueLogsSeen' = due_logs'
  BY <1>5, <1>6, <1>7, PlainPut
<1>9. (\A v : Owed(q, v) = 0 /\ Owed(Nil, v) = 0)
      /\ ReturnLogsOf(q) = {} /\ ReturnLogsOf(Nil) = {}
  BY <1>2, <1>3 DEF Owed, ReturnLogsOf
<1>10. JobsSeen' = JobsSeen /\ VouLogsSeen' = VouLogsSeen
  BY <1>1, <1>6, <1>9 DEF JobsSeen, VouLogsSeen
<1>. QED
  BY <1>1, <1>5, <1>6, <1>8, <1>10 DEF SeenInv

\* What such a handler knows of its letter.
LEMMA OnePutKnows ==
  ASSUME DataInv, AloneInv, SeenInv, NEW s \in Slots,
         NEW op \in OnePutOps, At(s, op, "letter")
  PROVE  /\ req[s].now \in Letters /\ Rec(s) = letter[req[s].now]
         /\ letter[req[s].now] # Nil /\ letter[req[s].now].employee_id \in Employees
         /\ Fit(op, letter[req[s].now])
         /\ op \in FormOps => /\ req[s].who \in Volunteers
                              /\ <<req[s].who, req[s].now, op>> \in forms
<1>. DEFINE q == req[s]
<1>1. op \notin {"return", "upload"}
  BY DEF OnePutOps
<1>2. q # Nil /\ Sound(q) /\ q.op = op /\ q.now \in Letters /\ InOrder(Rec(s))
  BY AtMeans DEF At
<1>3. Rec(s) = letter[q.now] /\ letter[q.now] # Nil /\ Fit(op, Rec(s))
  BY <1>1, <1>2, RecIsStored DEF HasPut, Exists
<1>4. Faithful(q, forms, OldLetters("chi"))
  BY <1>2, RunsFaithful
<1>5. Rec(s).employee_id \in Employees
  BY <1>2 DEF InOrder, LetterRecord
<1>. QED
  BY <1>2, <1>3, <1>4, <1>5 DEF Sound, Faithful, Asked

LEMMA UpdateLetterSeen ==
  ASSUME DataInv, AloneInv, SeenInv, overlaps = 0, overlaps' = 0, SweptStep, LettersStep,
         NEW s \in Slots, UpdateLetter(s)
  PROVE  Simulates
<1>1. ASSUME NEW l \in Letters, Begins(s, "update", Nil, l)
      PROVE  Simulates
  BY <1>1, BeginsSeen DEF JobOps, FormOps
<1>2. ASSUME At(s, "update", "letter"), NEW days \in ReturnDays \cup {Nil},
             Rec(s).trans_type = "eng" => days = Nil,
             Saves(s, Published(Rec(s), days))
      PROVE  Simulates
  <2>. DEFINE l == req[s].now
              e == letter[l].employee_id
  <2>1. "update" \in OnePutOps
    BY DEF OnePutOps
  <2>2. /\ l \in Letters /\ Rec(s) = letter[l] /\ letter[l] # Nil /\ e \in Employees
    BY <1>2, <2>1, OnePutKnows
  <2>3. /\ Desk!Puts(l, Published(Rec(s), days))
        /\ LetterSeen = letter /\ FormsSeen = forms
        /\ UNCHANGED <<today, JobsSeen, VouLogsSeen, DueLogsSeen, swept>>
        /\ SeenInv'
    BY <1>2, <2>1, OnePutSeen
  <2>4. Desk!UpdateLetter(e, l, days)
    BY <1>2, <2>2, <2>3, DeskRecords DEF Desk!UpdateLetter, Desk!Exists
  <2>. QED
    BY <2>2, <2>3, <2>4 DEF Simulates, DeskStep, Desk!Next, Desk!EmployeeStep
<1>. QED
  BY <1>1, <1>2 DEF UpdateLetter

LEMMA DeleteLetterSeen ==
  ASSUME DataInv, AloneInv, SeenInv, overlaps = 0, overlaps' = 0, SweptStep, LettersStep,
         NEW s \in Slots, DeleteLetter(s)
  PROVE  Simulates
<1>1. ASSUME NEW l \in Letters, Begins(s, "delete", Nil, l)
      PROVE  Simulates
  BY <1>1, BeginsSeen DEF JobOps, FormOps
<1>2. ASSUME At(s, "delete", "letter"), Saves(s, Deleted(Rec(s)))
      PROVE  Simulates
  <2>. DEFINE l == req[s].now
              e == letter[l].employee_id
  <2>1. "delete" \in OnePutOps
    BY DEF OnePutOps
  <2>2. /\ l \in Letters /\ Rec(s) = letter[l] /\ letter[l] # Nil /\ e \in Employees
        /\ Fit("delete", letter[l])
    BY <1>2, <2>1, OnePutKnows
  <2>3. /\ Desk!Puts(l, Deleted(Rec(s)))
        /\ LetterSeen = letter /\ FormsSeen = forms
        /\ UNCHANGED <<today, JobsSeen, VouLogsSeen, DueLogsSeen, swept>>
        /\ SeenInv'
    BY <1>2, <2>1, OnePutSeen
  <2>4. Deletable(letter[l], e)
    BY <2>2 DEF Fit, Deletable
  <2>5. Desk!DeleteLetter(e, l)
    BY <2>2, <2>3, <2>4, DeskRecords, DeskGuards DEF Desk!DeleteLetter, Desk!Exists
  <2>. QED
    BY <2>2, <2>3, <2>5 DEF Simulates, DeskStep, Desk!Next, Desk!EmployeeStep
<1>. QED
  BY <1>1, <1>2 DEF DeleteLetter

LEMMA ClaimLetterSeen ==
  ASSUME DataInv, AloneInv, SeenInv, overlaps = 0, overlaps' = 0, SweptStep, LettersStep,
         NEW s \in Slots, ClaimLetter(s)
  PROVE  Simulates
<1>1. ASSUME NEW v \in Volunteers, NEW l \in Letters, <<v, l, "claim">> \in forms,
             Begins(s, "claim", v, l)
      PROVE  Simulates
  BY <1>1, BeginsSeen DEF JobOps
<1>2. ASSUME At(s, "claim", "letter"), NEW day \in RubyDates(today),
             Saves(s, Claimed(Rec(s), req[s].who, day))
      PROVE  Simulates
  <2>. DEFINE l == req[s].now
              v == req[s].who
  <2>1. "claim" \in OnePutOps /\ "claim" \in FormOps
    BY DEF OnePutOps, FormOps
  <2>2. /\ l \in Letters /\ Rec(s) = letter[l] /\ letter[l] # Nil
        /\ Fit("claim", letter[l]) /\ v \in Volunteers /\ <<v, l, "claim">> \in forms
    BY <1>2, <2>1, OnePutKnows
  <2>3. /\ Desk!Puts(l, Claimed(Rec(s), v, day))
        /\ LetterSeen = letter /\ FormsSeen = forms
        /\ UNCHANGED <<today, JobsSeen, VouLogsSeen, DueLogsSeen, swept>>
        /\ SeenInv'
    BY <1>2, <2>1, OnePutSeen
  <2>4. Desk!ClaimLetter(v, l, day)
    BY <2>2, <2>3, DeskRecords, DeskGuards DEF Desk!ClaimLetter, Fit
  <2>5. day \in Desk!RubyDates(today)
    BY <1>2, DeskGuards
  <2>. QED
    BY <2>2, <2>3, <2>4, <2>5 DEF Simulates, DeskStep, Desk!Next, Desk!VolunteerStep
<1>. QED
  BY <1>1, <1>2 DEF ClaimLetter

LEMMA ReUploadSeen ==
  ASSUME DataInv, AloneInv, SeenInv, overlaps = 0, overlaps' = 0, SweptStep, LettersStep,
         NEW s \in Slots, ReUpload(s)
  PROVE  Simulates
<1>1. ASSUME NEW v \in Volunteers, NEW l \in Letters, <<v, l, "re_upload">> \in forms,
             Begins(s, "re_upload", v, l)
      PROVE  Simulates
  BY <1>1, BeginsSeen DEF JobOps
<1>2. ASSUME At(s, "re_upload", "letter"), Saves(s, ReUploadAsked(Rec(s)))
      PROVE  Simulates
  <2>. DEFINE l == req[s].now
              v == req[s].who
  <2>1. "re_upload" \in OnePutOps /\ "re_upload" \in FormOps
    BY DEF OnePutOps, FormOps
  <2>2. /\ l \in Letters /\ Rec(s) = letter[l] /\ v \in Volunteers
        /\ <<v, l, "re_upload">> \in forms
    BY <1>2, <2>1, OnePutKnows
  <2>3. /\ Desk!Puts(l, ReUploadAsked(Rec(s)))
        /\ LetterSeen = letter /\ FormsSeen = forms
        /\ UNCHANGED <<today, JobsSeen, VouLogsSeen, DueLogsSeen, swept>>
        /\ SeenInv'
    BY <1>2, <2>1, OnePutSeen
  <2>4. Desk!ReUpload(v, l)
    BY <2>2, <2>3, DeskRecords DEF Desk!ReUpload
  <2>. QED
    BY <2>2, <2>3, <2>4 DEF Simulates, DeskStep, Desk!Next, Desk!VolunteerStep
<1>. QED
  BY <1>1, <1>2 DEF ReUpload

LEMMA ReturnLetterSeen ==
  ASSUME DataInv, AloneInv, SeenInv, overlaps = 0, overlaps' = 0, SweptStep, LettersStep,
         NEW s \in Slots, ReturnLetter(s)
  PROVE  Simulates
<1>1. ASSUME NEW v \in Volunteers, NEW l \in Letters, <<v, l, "return">> \in forms,
             Begins(s, "return", v, l)
      PROVE  Simulates
  BY <1>1, BeginsSeen DEF JobOps
<1>2. ASSUME ReadsAccount(s, "return", req[s].who)
      PROVE  Simulates
  BY <1>2, ReadsAccountSeen
<1>. QED
  BY <1>1, <1>2, ReturnSavesAccountSeen, ReturnSavesLetterSeen, ReturnLogsSeen
     DEF ReturnLetter

LEMMA ReturnFileUploadSeen ==
  ASSUME DataInv, AloneInv, SeenInv, overlaps = 0, overlaps' = 0, SweptStep, LettersStep,
         NEW s \in Slots, ReturnFileUpload(s)
  PROVE  Simulates
<1>1. ASSUME NEW v \in Volunteers, NEW l \in Letters, <<v, l, "upload">> \in forms,
             Begins(s, "upload", v, l)
      PROVE  Simulates
  BY <1>1, BeginsSeen DEF JobOps
<1>2. ASSUME ReadsAccount(s, "upload", Rec(s).voulenteer_account)
      PROVE  Simulates
  BY <1>2, ReadsAccountSeen
<1>. QED
  BY <1>1, <1>2, UploadSavesLetterSeen, UploadSavesAccountSeen DEF ReturnFileUpload
-----------------------------------------------------------------------------
(***************************************************************************)
(* Jobs: for the desk all is done when the last query has run.             *)
(***************************************************************************)

\* What a job makes of a letter it found.
JobMark(op, r) ==
  CASE op = "mark_due" -> MarkedDue(r)
    [] op = "mark_old" -> MarkedOld(r)
    [] OTHER           -> Reminded(r)

\* The letters once job op has been through those found.
MarkedAll(op, found, letters) ==
  [l \in Letters |-> IF found[l] # Nil THEN JobMark(op, letters[l]) ELSE letters[l]]

FoundLogs(op, found) ==
  IF op = "mark_due"
    THEN {DueLogOf(l, found[l]) : l \in {m \in Letters : found[m] # Nil}} ELSE {}

LEMMA JobSeen ==
  ASSUME NEW q, q # Nil, q.op \in JobOps, q.at # 0, NEW letters
  PROVE  /\ [l \in Letters |-> Finished(q, l, letters[l])] = MarkedAll(q.op, q.found, letters)
         /\ DueLogsOf(q) = FoundLogs(q.op, q.found)
         /\ Quiet(q)
<1>1. \A l \in Letters :
        Finished(q, l, letters[l])
          = IF q.found[l] # Nil THEN JobMark(q.op, letters[l]) ELSE letters[l]
  BY DEF Finished, Sweeps, JobMark, JobOps
<1>2. DueLogsOf(q) = FoundLogs(q.op, q.found)
  BY DEF DueLogsOf, FoundLogs, Sweeps
<1>. QED
  BY <1>1, <1>2 DEF MarkedAll, Quiet, JobOps

\* Having found nothing is having nothing to do.
LEMMA NothingFound ==
  ASSUME NEW op, NEW letters \in [Letters -> LetterRecord \cup {Nil}]
  PROVE  MarkedAll(op, Nothing, letters) = letters /\ FoundLogs(op, Nothing) = {}
BY DEF MarkedAll, FoundLogs, Nothing

LEMMA TakesSeen ==
  ASSUME DataInv, LettersStep, RestTypes, NEW s \in Slots, OthersIdle(s),
         NEW op \in JobOps, NEW v \in Volunteers \cup {Nil},
         NEW found \in [Letters -> LetterRecord \cup {Nil}], Takes(s, op, v, found)
  PROVE  /\ LetterSeen' = MarkedAll(op, found, letter')
         /\ DueLogsSeen' = due_logs' \cup FoundLogs(op, found)
         /\ JobsSeen' = jobs' /\ VouLogsSeen' = vou_logs'
         /\ AllFaithful'
         /\ found # Nothing => req'[s] # Nil /\ req'[s].op = op
<1>1. CASE found = Nothing
  <2>1. req' = [req EXCEPT ![s] = Nil]
    BY <1>1 DEF Takes
  <2>2. Running' = Nil /\ AllFaithful'
    BY <2>1, SlotRuns, SlotFaithful
  <2>3. LetterSeen' = letter' /\ DueLogsSeen' = due_logs'
    BY <2>2, PlainLetters DEF Plainly, LettersStep, LetterSeen, DueLogsSeen
  <2>4. JobsSeen' = jobs' /\ VouLogsSeen' = vou_logs'
    BY <2>2, QuietSeenNext DEF Quiet
  <2>. QED
    BY <1>1, <2>2, <2>3, <2>4, NothingFound DEF LettersStep
<1>2. CASE found # Nothing
  <2>1. PICK l \in Letters :
          req' = [req EXCEPT ![s] = [ op |-> op, who |-> v, found |-> found,
                                      now |-> l, count |-> 0, at |-> 1 ]]
    BY <1>2 DEF Takes
  <2>. DEFINE q == [ op |-> op, who |-> v, found |-> found,
                     now |-> l, count |-> 0, at |-> 1 ]
  <2>2. q \in Request
    BY DEF Request, Ops, JobOps
  <2>3. q.op = op /\ q.found = found /\ q.at = 1
    OBVIOUS
  <2>. HIDE DEF q
  <2>4. req' = [req EXCEPT ![s] = q] /\ q # Nil
    BY <2>1, <2>2, RequestAssumption DEF q
  <2>5. Running' = q
    BY <2>4, SlotRuns
  <2>6. Faithful(q, forms', OldLetters("chi")')
    BY <2>3 DEF Faithful, Asked, OneLetter, HasRead, Affords, JobOps, FormOps
  <2>7. AllFaithful'
    BY <2>4, <2>6, SlotFaithful
  <2>8. /\ LetterSeen' = MarkedAll(op, found, letter')
        /\ DueLogsSeen' = due_logs' \cup FoundLogs(op, found)
        /\ Quiet(q)
    <3>1. q.op \in JobOps /\ q.at # 0
      BY <2>3
    <3>2. /\ [m \in Letters |-> Finished(q, m, letter'[m])]
               = MarkedAll(q.op, q.found, letter')
          /\ DueLogsOf(q) = FoundLogs(q.op, q.found)
          /\ Quiet(q)
      BY <2>4, <3>1, JobSeen
    <3>3. LetterSeen' = [m \in Letters |-> Finished(q, m, letter'[m])]
      BY <2>5 DEF LetterSeen
    <3>4. DueLogsSeen' = due_logs' \cup DueLogsOf(q)
      BY <2>5 DEF DueLogsSeen
    <3>. QED
      BY <2>3, <3>2, <3>3, <3>4
  <2>9. JobsSeen' = jobs' /\ VouLogsSeen' = vou_logs'
    BY <2>5, <2>8, QuietSeenNext
  <2>10. req'[s] = q
    BY <2>4 DEF DataInv, TypeOK
  <2>. QED
    BY <2>3, <2>4, <2>7, <2>8, <2>9, <2>10
<1>. QED
  BY <1>1, <1>2
\* A job has run its last query and found the letters in L; nothing is put.
LEMMA QueryRuns ==
  ASSUME DataInv, AllShown, LettersStep, RestTypes,
         Running = Nil \/ (Plainly(Running) /\ Quiet(Running)),
         UNCHANGED <<today, letter, jobs, vou_logs, due_logs, forms>>,
         NEW s \in Slots, OthersIdle(s),
         NEW op \in JobOps, NEW L \in SUBSET Letters, \A l \in L : letter[l] # Nil,
         NEW found, found = [l \in Letters |-> IF l \in L THEN letter[l] ELSE Nil],
         Takes(s, op, Nil, found)
  PROVE  /\ LetterSeen = letter
         /\ LetterSeen' = [l \in Letters |-> IF l \in L THEN JobMark(op, letter[l])
                                                        ELSE letter[l]]
         /\ DueLogsSeen = due_logs
         /\ DueLogsSeen' = due_logs \cup
              (IF op = "mark_due" THEN {DueLogOf(l, letter[l]) : l \in L} ELSE {})
         /\ Desk!PagesShown
         /\ UNCHANGED <<today, JobsSeen, VouLogsSeen>>
         /\ AllFaithful' /\ AllShown'
         /\ L # {} => req'[s] # Nil /\ req'[s].op = op
<1>1. Plainly(Running) /\ Quiet(Running)
  BY DEF Plainly, Quiet
<1>2. /\ LetterSeen = letter /\ FormsSeen = forms /\ DueLogsSeen = due_logs
      /\ JobsSeen = jobs /\ VouLogsSeen = vou_logs
  BY <1>1, PlainSeen, QuietSeen
<1>3. letter \in [Letters -> LetterRecord \cup {Nil}]
  BY DEF DataInv, TypeOK
<1>4. /\ found \in [Letters -> LetterRecord \cup {Nil}]
      /\ \A l \in Letters : found[l] # Nil <=> l \in L
      /\ \A l \in L : found[l] = letter[l]
  BY <1>3
<1>5. /\ LetterSeen' = MarkedAll(op, found, letter')
      /\ DueLogsSeen' = due_logs' \cup FoundLogs(op, found)
      /\ JobsSeen' = jobs' /\ VouLogsSeen' = vou_logs'
      /\ AllFaithful'
      /\ found # Nothing => req'[s] # Nil /\ req'[s].op = op
  BY <1>4, TakesSeen
<1>6. MarkedAll(op, found, letter') = [l \in Letters |-> IF l \in L THEN JobMark(op, letter[l])
                                                                   ELSE letter[l]]
  BY <1>4 DEF MarkedAll
<1>7. FoundLogs(op, found)
        = IF op = "mark_due" THEN {DueLogOf(l, letter[l]) : l \in L} ELSE {}
  <2>1. {m \in Letters : found[m] # Nil} = L
    BY <1>4
  <2>2. {DueLogOf(l, found[l]) : l \in L} = {DueLogOf(l, letter[l]) : l \in L}
    BY <1>4
  <2>. QED
    BY <2>1, <2>2 DEF FoundLogs
<1>8. Desk!PagesShown
  <2>1. FormsSeen' = forms \cup ShownFor(LetterSeen')
    BY DEF FormsSeen
  <2>. QED
    BY <1>2, <2>1, DeskShows DEF SeenShown
<1>9. L # {} => found # Nothing
  BY <1>4 DEF Nothing
<1>10. AllShown'
  BY ShownStays
<1>. QED
  BY <1>2, <1>5, <1>6, <1>7, <1>8, <1>9, <1>10

LEMMA DueJobBegins ==
  ASSUME DataInv, SeenInv, LettersStep, RestTypes, overlaps = 0, overlaps' = 0, SweptStep,
         NEW s \in Slots,
         BeginsJob(s, "mark_due", {l \in Letters : Exists(l) /\ DueOn(letter[l], today)})
  PROVE  Simulates
<1>. DEFINE L == {l \in Letters : Exists(l) /\ DueOn(letter[l], today)}
            found == [l \in Letters |-> IF l \in L THEN letter[l] ELSE Nil]
<1>1. /\ OthersIdle(s) /\ req[s] = Nil /\ L # {} /\ Takes(s, "mark_due", Nil, found)
      /\ UNCHANGED <<today, letter, jobs, vou_logs, due_logs, forms>>
  BY FreeIsIdle DEF BeginsJob
<1>2. Running = Nil
  BY <1>1 DEF Running, OthersIdle
<1>3. (\A l \in L : letter[l] # Nil) /\ L \in SUBSET Letters
  BY DEF Exists
<1>4. "mark_due" \in JobOps /\ AllShown
  BY DEF JobOps, SeenInv
<1>. HIDE DEF L
<1>5. found = [l \in Letters |-> IF l \in L THEN letter[l] ELSE Nil]
  OBVIOUS
<1>. HIDE DEF found
<1>6. /\ LetterSeen = letter
      /\ LetterSeen' = [l \in Letters |-> IF l \in L THEN JobMark("mark_due", letter[l])
                                                     ELSE letter[l]]
      /\ DueLogsSeen = due_logs
      /\ DueLogsSeen' = due_logs \cup
           (IF "mark_due" = "mark_due" THEN {DueLogOf(l, letter[l]) : l \in L} ELSE {})
      /\ Desk!PagesShown
      /\ UNCHANGED <<today, JobsSeen, VouLogsSeen>>
      /\ AllFaithful' /\ AllShown'
      /\ L # {} => req'[s] # Nil /\ req'[s].op = "mark_due"
  BY <1>1, <1>2, <1>3, <1>4, <1>5, QueryRuns
<1>7. swept' = TRUE
  BY <1>1, <1>6 DEF SweptStep, SweepBegins
<1>8. Desk!DueLetters = L
  BY <1>6, DeskGuards DEF Desk!DueLetters, Desk!Exists, Exists, L
<1>9. LetterSeen' = [l \in Letters |-> IF l \in Desk!DueLetters
                                         THEN Desk!MarkedDue(LetterSeen[l]) ELSE LetterSeen[l]]
  BY <1>6, <1>8, DeskRecords DEF JobMark
<1>10. DueLogsSeen' = DueLogsSeen \cup {Desk!DueLogOf(l) : l \in Desk!DueLetters}
  <2>1. \A l : Desk!DueLogOf(l) = DueLogOf(l, letter[l])
    BY <1>6 DEF Desk!DueLogOf, DueLogOf
  <2>. QED
    BY <1>6, <1>8, <2>1
<1>11. Desk!MarkDueLetters
  BY <1>6, <1>7, <1>9, <1>10 DEF Desk!MarkDueLetters
<1>. QED
  BY <1>6, <1>7, <1>11 DEF Simulates, DeskStep, SeenInv, Desk!Next, Desk!JobStep

LEMMA ReminderBegins ==
  ASSUME DataInv, SeenInv, LettersStep, RestTypes, overlaps = 0, overlaps' = 0, SweptStep,
         NEW s \in Slots,
         BeginsJob(s, "due_reminder",
                   {l \in Letters : Exists(l) /\ RemindOn(letter[l], today)})
  PROVE  Simulates
<1>. DEFINE L == {l \in Letters : Exists(l) /\ RemindOn(letter[l], today)}
            found == [l \in Letters |-> IF l \in L THEN letter[l] ELSE Nil]
<1>1. /\ OthersIdle(s) /\ req[s] = Nil /\ L # {} /\ Takes(s, "due_reminder", Nil, found)
      /\ UNCHANGED <<today, letter, jobs, vou_logs, due_logs, forms>>
  BY FreeIsIdle DEF BeginsJob
<1>2. Running = Nil
  BY <1>1 DEF Running, OthersIdle
<1>3. (\A l \in L : letter[l] # Nil) /\ L \in SUBSET Letters
  BY DEF Exists
<1>4. "due_reminder" \in JobOps /\ AllShown
  BY DEF JobOps, SeenInv
<1>. HIDE DEF L
<1>5. found = [l \in Letters |-> IF l \in L THEN letter[l] ELSE Nil]
  OBVIOUS
<1>. HIDE DEF found
<1>6. /\ LetterSeen = letter
      /\ LetterSeen' = [l \in Letters |-> IF l \in L THEN JobMark("due_reminder", letter[l])
                                                     ELSE letter[l]]
      /\ DueLogsSeen = due_logs
      /\ DueLogsSeen' = due_logs \cup
           (IF "due_reminder" = "mark_due" THEN {DueLogOf(l, letter[l]) : l \in L} ELSE {})
      /\ Desk!PagesShown
      /\ UNCHANGED <<today, JobsSeen, VouLogsSeen>>
      /\ AllFaithful' /\ AllShown'
      /\ L # {} => req'[s] # Nil /\ req'[s].op = "due_reminder"
  BY <1>1, <1>2, <1>3, <1>4, <1>5, QueryRuns
<1>7. swept' = swept /\ swept' \in BOOLEAN
  <2>1. req' = [req EXCEPT ![s] = req'[s]]
    BY <1>1 DEF Takes, DataInv, TypeOK
  <2>. QED
    BY <1>1, <1>6, <2>1, NoSweep DEF SweptStep
<1>8. LetterSeen' = [l \in Letters |->
                       IF Desk!Exists(l) /\ Desk!RemindOn(LetterSeen[l], today)
                         THEN Desk!Reminded(LetterSeen[l]) ELSE LetterSeen[l]]
  BY <1>6, DeskRecords, DeskGuards DEF JobMark, Desk!Exists, Exists, L
<1>9. DueLogsSeen' = DueLogsSeen
  BY <1>6
<1>10. Desk!DueReminder
  BY <1>6, <1>7, <1>8, <1>9 DEF Desk!DueReminder
<1>. QED
  BY <1>6, <1>7, <1>10 DEF Simulates, DeskStep, SeenInv, Desk!Next, Desk!JobStep
\* The due job writes a log the desk has taken for written.
LEMMA DueJobLogsSeen ==
  ASSUME DataInv, AloneInv, SeenInv, SweptStep, RestTypes, NEW s \in Slots,
         At(s, "mark_due", "due_log"),
         due_logs' = due_logs \cup {DueLogOf(req[s].now, Rec(s))}, Done(s),
         UNCHANGED <<today, letter, jobs, vou_logs, forms>>
  PROVE  Simulates
<1>. DEFINE q == req[s]
            p == [q EXCEPT !.at = q.at + 1]
<1>1. q # Nil /\ q \in Request /\ Sound(q) /\ q.op = "mark_due" /\ q.at = 1
      /\ q.at < Len(Plan("mark_due"))
  BY AtMeans, Places DEF At
<1>2. /\ Running = q /\ Running' = p /\ AllFaithful'
      /\ p # Nil /\ swept' = swept /\ swept' \in BOOLEAN
  <2>1. forms \subseteq forms'
    OBVIOUS
  <2>. HIDE DEF p
  <2>2. p = [req[s] EXCEPT !.at = req[s].at + 1]
    BY DEF p
  <2>. QED
    BY <1>1, <2>1, <2>2, GoesOn
<1>3. p.op = q.op /\ p.found = q.found /\ p.at = 2
  BY <1>1, NextPlace
<1>. HIDE DEF p
<1>. DEFINE found == q.found
<1>4. /\ LetterSeen = MarkedAll("mark_due", found, letter)
      /\ DueLogsSeen = due_logs \cup FoundLogs("mark_due", found)
      /\ Quiet(q)
  BY <1>1, <1>2, JobSeen DEF LetterSeen, DueLogsSeen, JobOps
<1>5. /\ LetterSeen' = MarkedAll("mark_due", found, letter)
      /\ DueLogsSeen' = due_logs' \cup FoundLogs("mark_due", found)
      /\ Quiet(p)
  <2>1. p.op \in JobOps /\ p.at # 0 /\ p.op = "mark_due" /\ p.found = found
    BY <1>1, <1>3 DEF JobOps
  <2>2. /\ [m \in Letters |-> Finished(p, m, letter[m])] = MarkedAll(p.op, p.found, letter)
        /\ DueLogsOf(p) = FoundLogs(p.op, p.found)
        /\ Quiet(p)
    BY <1>2, <2>1, JobSeen
  <2>3. LetterSeen' = [m \in Letters |-> Finished(p, m, letter[m])]
    BY <1>2 DEF LetterSeen
  <2>4. DueLogsSeen' = due_logs' \cup DueLogsOf(p)
    BY <1>2 DEF DueLogsSeen
  <2>. QED
    BY <2>1, <2>2, <2>3, <2>4
<1>6. DueLogOf(q.now, Rec(s)) \in FoundLogs("mark_due", found)
  BY <1>1 DEF FoundLogs, Rec, Sound
<1>7. JobsSeen' = JobsSeen /\ VouLogsSeen' = VouLogsSeen
  BY <1>2, <1>4, <1>5, QuietSeen, QuietSeenNext
<1>8. LetterSeen' = LetterSeen /\ DueLogsSeen' = DueLogsSeen
  BY <1>4, <1>5, <1>6
<1>9. FormsSeen' = FormsSeen
  BY <1>8 DEF FormsSeen
<1>10. AllShown'
  BY ShownStays DEF SeenInv
<1>. QED
  BY <1>2, <1>7, <1>8, <1>9, <1>10 DEF Simulates, DeskStep, SeenInv, Desk!vars

\* A job puts a letter the desk has taken for put.
LEMMA JobPutsSeen ==
  ASSUME DataInv, AloneInv, SeenInv, SweptStep, LettersStep, RestTypes, NEW s \in Slots,
         NEW op \in JobOps, At(s, op, "letter"), Persists(s, JobMark(op, Rec(s)))
  PROVE  Simulates
<1>. DEFINE q == req[s]
            l == q.now
            r == JobMark(op, Rec(s))
            found == q.found
            f == [found EXCEPT ![l] = Nil]
<1>1. Done(s) /\ UNCHANGED <<today, jobs, vou_logs, due_logs>>
  BY DEF Persists
<1>2. q # Nil /\ q \in Request /\ Sound(q) /\ q.op = op /\ q.at = Len(Plan(op))
      /\ q.at # 0 /\ l \in Letters /\ (op = "mark_due" => q.at = 2)
  <2>1. q # Nil /\ q \in Request /\ Sound(q) /\ q.op = op /\ l \in Letters
    BY AtMeans DEF At
  <2>2. CASE op = "mark_due"
    <3>1. q.at = 2 /\ Len(Plan(op)) = 2
      BY <2>2, Places
    <3>. QED
      BY <2>1, <3>1
  <2>3. CASE op # "mark_due"
    <3>1. op \notin {"return", "upload", "mark_due"}
      BY <2>3 DEF JobOps
    <3>2. q.at = 1 /\ Len(Plan(op)) = 1
      BY <3>1, Places
    <3>. QED
      BY <2>1, <2>3, <3>2
  <2>. QED
    BY <2>2, <2>3
<1>3. ~ HasPut(q)
  BY <1>2 DEF HasPut, JobOps
<1>4. /\ letter' = [letter EXCEPT ![l] = r]
      /\ AllShown /\ AllShown' /\ forms' = forms \cup ShownFor(letter')
  BY <1>3, SavedIsPut DEF SeenInv
<1>5. OthersIdle(s) /\ Undisturbed(q, letter, jobs, vou_logs, due_logs)
  BY <1>2, RunsAlone
<1>6. Rec(s) = letter[l] /\ found[l] # Nil /\ found[l] = Rec(s)
  BY <1>2, <1>3, RecIsStored DEF Sound, Rec
<1>7. /\ found \in [Letters -> LetterRecord \cup {Nil}]
      /\ f \in [Letters -> LetterRecord \cup {Nil}]
      /\ \A m \in Letters : f[m] = IF m = l THEN Nil ELSE found[m]
      /\ q.who \in Volunteers \cup {Nil}
  BY <1>2 DEF Request
<1>8. Takes(s, op, q.who, f)
  BY <1>1, <1>2 DEF Done
<1>9. Running = q
  <2>1. req' = [req EXCEPT ![s] = req'[s]]
    BY <1>8 DEF Takes, DataInv, TypeOK
  <2>. QED
    BY <1>5, <2>1, SlotRuns
<1>10. swept' = swept /\ swept' \in BOOLEAN
  <2>1. req' = [req EXCEPT ![s] = req'[s]]
    BY <1>8 DEF Takes, DataInv, TypeOK
  <2>. QED
    BY <1>2, <2>1, NoSweep DEF SweptStep
<1>11. /\ LetterSeen = MarkedAll(op, found, letter)
       /\ DueLogsSeen = due_logs \cup FoundLogs(op, found)
       /\ Quiet(q)
  BY <1>2, <1>9, JobSeen DEF LetterSeen, DueLogsSeen
<1>. HIDE DEF f
<1>12. /\ LetterSeen' = MarkedAll(op, f, letter')
       /\ DueLogsSeen' = due_logs' \cup FoundLogs(op, f)
       /\ JobsSeen' = jobs' /\ VouLogsSeen' = vou_logs'
       /\ AllFaithful'
  BY <1>5, <1>7, <1>8, TakesSeen
<1>13. letter \in [Letters -> LetterRecord \cup {Nil}]
  BY DEF DataInv, TypeOK
<1>. HIDE DEF r
<1>14. letter'[l] = r /\ \A m \in Letters : m # l => letter'[m] = letter[m]
  BY <1>2, <1>4, <1>13
<1>15. r = JobMark(op, letter[l])
  BY <1>6 DEF r
<1>16. LetterSeen' = LetterSeen
  <2>1. \A m \in Letters :
          (IF f[m] # Nil THEN JobMark(op, letter'[m]) ELSE letter'[m])
            = (IF found[m] # Nil THEN JobMark(op, letter[m]) ELSE letter[m])
    BY <1>6, <1>7, <1>14, <1>15
  <2>. QED
    BY <1>11, <1>12, <2>1 DEF MarkedAll
<1>17. DueLogsSeen' = DueLogsSeen
  <2>1. CASE op = "mark_due"
    <3>1. DueLogOf(l, found[l]) \in due_logs
      BY <1>2, <1>5, <2>1 DEF Undisturbed, Logged
    <3>2. {m \in Letters : found[m] # Nil} = {m \in Letters : f[m] # Nil} \cup {l}
      BY <1>2, <1>6, <1>7
    <3>3. FoundLogs(op, found) = FoundLogs(op, f) \cup {DueLogOf(l, found[l])}
      <4>1. \A m \in Letters : f[m] # Nil => f[m] = found[m]
        BY <1>7
      <4>. HIDE DEF found
      <4>. QED
        BY <2>1, <3>2, <4>1 DEF FoundLogs
    <3>. QED
      BY <1>1, <1>11, <1>12, <3>1, <3>3
  <2>2. CASE op # "mark_due"
    BY <1>1, <1>11, <1>12, <2>2 DEF FoundLogs
  <2>. QED
    BY <2>1, <2>2
<1>18. FormsSeen' = FormsSeen
  <2>1. LetterSeen[l] = r
    BY <1>2, <1>6, <1>11, <1>15 DEF MarkedAll
  <2>2. ASSUME NEW g \in ShownFor(letter')
        PROVE  g \in FormsSeen
    <3>1. g \in Forms /\ letter'[g[2]] # Nil /\ g[3] \in FormsFor(letter'[g[2]], g[1])
      BY <2>2 DEF ShownFor
    <3>2. g[2] \in Letters
      BY <3>1 DEF Forms
    <3>3. CASE g[2] = l
      BY <1>14, <2>1, <3>1, <3>3 DEF FormsSeen, ShownFor
    <3>4. CASE g[2] # l
      BY <1>4, <1>14, <3>1, <3>2, <3>4 DEF FormsSeen, ShownFor, AllShown
    <3>. QED
      BY <3>3, <3>4
  <2>3. FormsSeen' = forms' \cup ShownFor(LetterSeen)
    BY <1>16 DEF FormsSeen
  <2>. QED
    BY <1>4, <2>2, <2>3 DEF FormsSeen
<1>19. JobsSeen' = JobsSeen /\ VouLogsSeen' = VouLogsSeen
  BY <1>1, <1>9, <1>11, <1>12, QuietSeen
<1>. QED
  BY <1>1, <1>4, <1>10, <1>12, <1>16, <1>17, <1>18, <1>19
     DEF Simulates, DeskStep, SeenInv, Desk!vars
LEMMA MarkDueLettersSeen ==
  ASSUME DataInv, AloneInv, SeenInv, overlaps = 0, overlaps' = 0,
         SweptStep, LettersStep, RestTypes, NEW s \in Slots, MarkDueLetters(s)
  PROVE  Simulates
<1>1. ASSUME At(s, "mark_due", "letter"), Persists(s, MarkedDue(Rec(s)))
      PROVE  Simulates
  <2>1. JobMark("mark_due", Rec(s)) = MarkedDue(Rec(s)) /\ "mark_due" \in JobOps
    BY DEF JobMark, JobOps
  <2>. QED
    BY <1>1, <2>1, JobPutsSeen
<1>. QED
  BY <1>1, DueJobBegins, DueJobLogsSeen DEF MarkDueLetters

LEMMA DueReminderSeen ==
  ASSUME DataInv, AloneInv, SeenInv, overlaps = 0, overlaps' = 0,
         SweptStep, LettersStep, RestTypes, NEW s \in Slots, DueReminder(s)
  PROVE  Simulates
<1>1. ASSUME At(s, "due_reminder", "letter"), Persists(s, Reminded(Rec(s)))
      PROVE  Simulates
  <2>1. JobMark("due_reminder", Rec(s)) = Reminded(Rec(s)) /\ "due_reminder" \in JobOps
    BY DEF JobMark, JobOps
  <2>. QED
    BY <1>1, <2>1, JobPutsSeen
<1>. QED
  BY <1>1, ReminderBegins DEF DueReminder

\* The first of two queries: the desk sees nothing of it.
LEMMA OldJobBegins ==
  ASSUME DataInv, SeenInv, overlaps = 0, overlaps' = 0, SweptStep, NEW s \in Slots,
         Free(s), NEW chi,
         chi = [l \in Letters |-> IF l \in OldLetters("chi") THEN letter[l] ELSE Nil],
         NEW q, q = [ op |-> "mark_old", who |-> Nil, found |-> chi, now |-> Nil,
                      count |-> 0, at |-> 0 ],
         req' = [req EXCEPT ![s] = q],
         UNCHANGED <<today, letter, jobs, vou_logs, due_logs, forms>>
  PROVE  Simulates
<1>1. OthersIdle(s) /\ req[s] = Nil
  BY FreeIsIdle
<1>2. q.op = "mark_old" /\ q.at = 0 /\ q.found = chi
  OBVIOUS
<1>3. swept' = swept /\ swept' \in BOOLEAN
  BY <1>2, NoSweep DEF SweptStep
<1>4. Plainly(req[s]) /\ Plainly(q) /\ Quiet(req[s]) /\ Quiet(q)
  BY <1>1, <1>2 DEF Plainly, Quiet
<1>5. UNCHANGED Desk!vars /\ AllShown'
  BY <1>1, <1>3, <1>4, PlainStutter
<1>6. OldLetters("chi")' = OldLetters("chi")
  BY DEF OldLetters, Exists
<1>7. \A l \in Letters : chi[l] # Nil <=> l \in OldLetters("chi")
  BY DEF OldLetters, Exists
<1>8. Faithful(q, forms', OldLetters("chi")')
  BY <1>2, <1>6, <1>7 DEF Faithful, Asked, OneLetter, HasRead, Affords, FormOps, JobOps
<1>9. AllFaithful'
  BY <1>1, <1>8, SlotFaithful
<1>. QED
  BY <1>3, <1>5, <1>9 DEF Simulates, DeskStep, SeenInv

\* The second: it is done.
LEMMA OldJobQueries ==
  ASSUME DataInv, AloneInv, SeenInv, SweptStep, LettersStep, RestTypes, NEW s \in Slots,
         req[s] # Nil, req[s].op = "mark_old", req[s].at = 0, NEW both,
         both = [l \in Letters |-> IF l \in OldLetters("eng") THEN letter[l]
                                                              ELSE req[s].found[l]],
         Takes(s, "mark_old", Nil, both),
         UNCHANGED <<today, letter, jobs, vou_logs, due_logs, forms>>
  PROVE  Simulates
<1>. DEFINE q == req[s]
            L == OldLetters("chi") \cup OldLetters("eng")
<1>1. /\ OthersIdle(s) /\ Undisturbed(q, letter, jobs, vou_logs, due_logs)
      /\ Faithful(q, forms, OldLetters("chi"))
  BY RunsAlone, RunsFaithful
<1>2. \A l \in Letters : /\ q.found[l] # Nil <=> l \in OldLetters("chi")
                         /\ q.found[l] # Nil => q.found[l] = letter[l]
  BY <1>1 DEF Undisturbed, Current, HasPut, Faithful, HasRead
<1>3. both = [l \in Letters |-> IF l \in L THEN letter[l] ELSE Nil]
  BY <1>2
<1>4. L \in SUBSET Letters /\ \A l \in L : letter[l] # Nil
  BY DEF OldLetters, Exists
<1>5. "mark_old" \in JobOps /\ AllShown
  BY DEF JobOps, SeenInv
<1>6. req' = [req EXCEPT ![s] = req'[s]]
  BY DEF Takes, DataInv, TypeOK
<1>7. Plainly(Running) /\ Quiet(Running)
  <2>1. Running = q
    BY <1>1, <1>6, SlotRuns
  <2>. QED
    BY <2>1 DEF Plainly, Quiet
<1>8. swept' = swept /\ swept' \in BOOLEAN
  BY <1>6, NoSweep DEF SweptStep
<1>9. L = {l \in Letters : Exists(l) /\ OldOn(letter[l], today)}
  <2>1. \A l \in Letters : Exists(l) => letter[l].trans_type \in {"chi", "eng"}
    BY EntityAssumption DEF DataInv, InOrder, LetterRecord
  <2>. QED
    BY <2>1 DEF OldLetters
<1>. HIDE DEF L
<1>10. /\ LetterSeen = letter
       /\ LetterSeen' = [l \in Letters |-> IF l \in L THEN JobMark("mark_old", letter[l])
                                                      ELSE letter[l]]
       /\ DueLogsSeen = due_logs
       /\ DueLogsSeen' = due_logs \cup
            (IF "mark_old" = "mark_due" THEN {DueLogOf(l, letter[l]) : l \in L} ELSE {})
       /\ Desk!PagesShown
       /\ UNCHANGED <<today, JobsSeen, VouLogsSeen>>
       /\ AllFaithful' /\ AllShown'
       /\ L # {} => req'[s] # Nil /\ req'[s].op = "mark_old"
  BY <1>1, <1>3, <1>4, <1>5, <1>7, QueryRuns
<1>11. Desk!OldLetters = L
  BY <1>9, <1>10, DeskGuards DEF Desk!OldLetters, Desk!Exists, Exists
<1>12. LetterSeen' = [l \in Letters |-> IF l \in Desk!OldLetters
                                          THEN Desk!MarkedOld(LetterSeen[l]) ELSE LetterSeen[l]]
  BY <1>10, <1>11, DeskRecords DEF JobMark
<1>13. DueLogsSeen' = DueLogsSeen
  BY <1>10
<1>14. Desk!MarkOldLetters
  BY <1>8, <1>10, <1>12, <1>13 DEF Desk!MarkOldLetters
<1>. QED
  BY <1>8, <1>10, <1>14 DEF Simulates, DeskStep, SeenInv, Desk!Next, Desk!JobStep

LEMMA MarkOldLettersSeen ==
  ASSUME DataInv, AloneInv, SeenInv, overlaps = 0, overlaps' = 0,
         SweptStep, LettersStep, RestTypes, NEW s \in Slots, MarkOldLetters(s)
  PROVE  Simulates
<1>. DEFINE chi == [l \in Letters |-> IF l \in OldLetters("chi") THEN letter[l] ELSE Nil]
            both == [l \in Letters |-> IF l \in OldLetters("eng") THEN letter[l]
                                                                  ELSE req[s].found[l]]
            q == [ op |-> "mark_old", who |-> Nil, found |-> chi, now |-> Nil,
                   count |-> 0, at |-> 0 ]
<1>1. CASE /\ Free(s) /\ req' = [req EXCEPT ![s] = q]
           /\ UNCHANGED <<today, letter, jobs, vou_logs, due_logs, forms>>
  <2>. HIDE DEF chi
  <2>1. chi = [l \in Letters |-> IF l \in OldLetters("chi") THEN letter[l] ELSE Nil]
    BY DEF chi
  <2>. HIDE DEF q
  <2>2. q = [ op |-> "mark_old", who |-> Nil, found |-> chi, now |-> Nil,
              count |-> 0, at |-> 0 ]
    BY DEF q
  <2>. QED
    BY <1>1, <2>1, <2>2, OldJobBegins
<1>2. CASE /\ req[s] # Nil
           /\ req[s].op = "mark_old"
           /\ req[s].at = 0
           /\ Takes(s, "mark_old", Nil, both)
           /\ UNCHANGED <<today, letter, jobs, vou_logs, due_logs, forms, overlaps>>
  <2>. HIDE DEF both
  <2>1. both = [l \in Letters |-> IF l \in OldLetters("eng") THEN letter[l]
                                                             ELSE req[s].found[l]]
    BY DEF both
  <2>. QED
    BY <1>2, <2>1, OldJobQueries
<1>3. ASSUME At(s, "mark_old", "letter"), Persists(s, MarkedOld(Rec(s)))
      PROVE  Simulates
  <2>1. JobMark("mark_old", Rec(s)) = MarkedOld(Rec(s)) /\ "mark_old" \in JobOps
    BY DEF JobMark, JobOps
  <2>. QED
    BY <1>3, <2>1, JobPutsSeen
<1>. QED
  BY <1>1, <1>2, <1>3 DEF MarkOldLetters
-----------------------------------------------------------------------------
(***************************************************************************)
(* New letters and new days.                                               *)
(***************************************************************************)

\* A letter created today is not old.
LEMMA NewIsNotOld ==
  ASSUME NEW e, NEW type, NEW day \in Nat
  PROVE  ~ OldOn(NewLetter(e, type, day), day)
<1>. DEFINE r == NewLetter(e, type, day)
<1>1. r.create_date = day
  BY DEF NewLetter
<1>2. OldAge(r) \in {2, 7}
  BY DEF OldAge
<1>. HIDE DEF r
<1>3. ~ IsOld(Noon(r.create_date), CronTime(day), OldAge(r))
  BY <1>1, <1>2 DEF IsOld, Noon, CronTime, JavaCurrentDate, OldCutoff, Day, EightHours
<1>. QED
  BY <1>3 DEF OldOn, r

\* What runs has not found a letter that does not exist.
LEMMA NotFound ==
  ASSUME DataInv, AloneInv, NEW l \in Letters, letter[l] = Nil, NEW r
  PROVE  Finished(Running, l, r) = r
<1>1. CASE \A s \in Slots : req[s] = Nil
  <2>1. Running = Nil
    BY <1>1 DEF Running
  <2>. QED
    BY <2>1 DEF Finished, Sweeps
<1>2. ASSUME NEW s \in Slots, req[s] # Nil
      PROVE  Finished(Running, l, r) = r
  <2>1. OthersIdle(s) /\ Undisturbed(req[s], letter, jobs, vou_logs, due_logs)
    BY <1>2, RunsAlone
  <2>2. Running = req[s]
    <3>1. {t \in Slots : req[t] # Nil} = {s}
      BY <1>2, <2>1 DEF OthersIdle
    <3>. QED
      BY <3>1 DEF Running
  <2>3. req[s].op \in JobOps => req[s].found[l] = Nil
    BY <2>1 DEF Undisturbed, Current, HasPut, JobOps
  <2>. QED
    BY <2>2, <2>3 DEF Finished, Sweeps, JobOps
<1>. QED
  BY <1>1, <1>2

LEMMA FileUploadSeen ==
  ASSUME DataInv, AloneInv, SeenInv, SweptStep, LettersStep,
         NEW e \in Employees, NEW l \in Letters, NEW type \in TransTypes,
         FileUpload(e, l, type)
  PROVE  Simulates
<1>. DEFINE r == NewLetter(e, type, today)
<1>1. /\ letter[l] = Nil /\ Puts(l, r)
      /\ UNCHANGED <<today, jobs, vou_logs, due_logs, req>>
  BY DEF FileUpload, Exists
<1>2. letter \in [Letters -> LetterRecord \cup {Nil}] /\ today \in Nat
  BY DEF DataInv, TypeOK
<1>3. ~ OldOn(r, today)
  BY <1>2, NewIsNotOld
<1>4. \A x : Finished(Running, l, x) = x
  BY <1>1, NotFound
<1>. HIDE DEF r
<1>5. letter'[l] = r /\ \A m \in Letters : m # l => letter'[m] = letter[m]
  BY <1>1, <1>2 DEF Puts
<1>6. AllShown /\ AllShown' /\ forms \subseteq forms' /\ forms' = forms \cup ShownFor(letter')
  BY <1>1, ShownStays DEF Puts, SeenInv
<1>7. Running' = Running
  BY <1>1 DEF Running
<1>8. /\ LetterSeen[l] = Nil
      /\ LetterSeen' = [LetterSeen EXCEPT ![l] = r]
      /\ LetterSeen'[l] = r
      /\ \A m \in Letters : m # l => LetterSeen'[m] = LetterSeen[m]
  <2>1. LetterSeen' = [m \in Letters |-> Finished(Running, m, letter'[m])]
    BY <1>7 DEF LetterSeen
  <2>2. \A m \in Letters : LetterSeen'[m] = IF m = l THEN r ELSE LetterSeen[m]
    BY <1>4, <1>5, <2>1 DEF LetterSeen
  <2>3. LetterSeen[l] = Nil
    BY <1>1, <1>4 DEF LetterSeen
  <2>. QED
    BY <2>1, <2>2, <2>3 DEF LetterSeen
<1>9. JobsSeen' = JobsSeen /\ VouLogsSeen' = VouLogsSeen /\ DueLogsSeen' = DueLogsSeen
  BY <1>1, <1>7 DEF JobsSeen, VouLogsSeen, DueLogsSeen
<1>10. SeenShown
  <2>1. ASSUME NEW g \in ShownFor(letter')
        PROVE  g \in forms \/ g \in ShownFor(LetterSeen')
    <3>1. g \in Forms /\ letter'[g[2]] # Nil /\ g[3] \in FormsFor(letter'[g[2]], g[1])
      BY <2>1 DEF ShownFor
    <3>2. g[2] \in Letters
      BY <3>1 DEF Forms
    <3>3. CASE g[2] = l
      BY <1>5, <1>8, <3>1, <3>3 DEF ShownFor
    <3>4. CASE g[2] # l
      BY <1>5, <1>6, <3>1, <3>2, <3>4 DEF ShownFor, AllShown
    <3>. QED
      BY <3>3, <3>4
  <2>2. ASSUME NEW g \in ShownFor(LetterSeen)
        PROVE  g \in ShownFor(LetterSeen')
    <3>1. g \in Forms /\ LetterSeen[g[2]] # Nil
      BY <2>2 DEF ShownFor
    <3>2. g[2] \in Letters /\ g[2] # l
      BY <1>8, <3>1 DEF Forms
    <3>. QED
      BY <1>8, <2>2, <3>2 DEF ShownFor
  <2>3. FormsSeen' = forms' \cup ShownFor(LetterSeen')
    BY DEF FormsSeen
  <2>. QED
    BY <1>6, <2>1, <2>2, <2>3 DEF SeenShown, FormsSeen
<1>11. swept' = swept /\ swept' \in BOOLEAN
  <2>1. ~ SweepBegins
    BY <1>1 DEF SweepBegins
  <2>. QED
    BY <2>1 DEF SweptStep, SeenInv
<1>12. OldLetters("chi")' = OldLetters("chi")
  <2>1. \A m \in Letters : m \in OldLetters("chi")' <=> m \in OldLetters("chi")
    BY <1>1, <1>3, <1>5 DEF OldLetters, Exists
  <2>. QED
    BY <2>1 DEF OldLetters
<1>13. AllFaithful'
  <2>1. ASSUME NEW s \in Slots, req[s] # Nil
        PROVE  Faithful(req[s], forms', OldLetters("chi"))
    BY <1>6, <2>1, RunsFaithful DEF Faithful, Asked
  <2>. QED
    BY <1>1, <1>12, <2>1 DEF AllFaithful
<1>14. Desk!FileUpload(e, l, type)
  <2>1. Desk!NewLetter(e, type, today) = r
    BY DeskRecords DEF r
  <2>. QED
    BY <1>1, <1>8, <1>9, <1>10, <1>11, <2>1, DeskShows
       DEF Desk!FileUpload, Desk!Exists, Desk!Puts
<1>. QED
  BY <1>6, <1>11, <1>13, <1>14
     DEF Simulates, DeskStep, SeenInv, Desk!Next, Desk!EmployeeStep

LEMMA NextDaySeen ==
  ASSUME DataInv, SeenInv, NextDay, swept' = FALSE
  PROVE  Simulates
<1>1. /\ \A s \in Slots : req[s] = Nil
      /\ today < MaxDay /\ today' = today + 1
      /\ UNCHANGED <<letter, jobs, vou_logs, due_logs, forms, req>>
  BY DEF NextDay
<1>2. Running = Nil /\ Running' = Nil
  BY <1>1 DEF Running
<1>3. UNCHANGED <<LetterSeen, JobsSeen, VouLogsSeen, DueLogsSeen, FormsSeen>>
  BY <1>1, <1>2 DEF LetterSeen, JobsSeen, VouLogsSeen, DueLogsSeen, FormsSeen
<1>4. Desk!NextDay
  BY <1>1, <1>3 DEF Desk!NextDay
<1>5. SeenInv'
  BY <1>1 DEF SeenInv, AllFaithful, AllShown
<1>. QED
  BY <1>4, <1>5 DEF Simulates, DeskStep, Desk!Next

\* Cutting a request off is no step of the desk, but what is known of the
\* others stays true.
LEMMA CutKeeps ==
  ASSUME DataInv, AloneInv, SeenInv, NEW s \in Slots, Abort(s), swept' = swept
  PROVE  SeenInv'
<1>1. OthersIdle(s) /\ AllShown'
  BY RunsAlone, ShownStays DEF Abort, SeenInv
<1>2. AllFaithful'
  BY <1>1, SlotFaithful DEF Abort
<1>. QED
  BY <1>1, <1>2 DEF SeenInv
-----------------------------------------------------------------------------
(***************************************************************************)
(* The invariant, and the simulation.                                      *)
(***************************************************************************)
RequestInv ==
  /\ ManyInv
  /\ overlaps = 0 => SeenInv

LEMMA NextSeen ==
  ASSUME DataInv, AloneInv, SeenInv, overlaps = 0, overlaps' = 0,
         EmployeeStep \/ VolunteerStep \/ JobStep, SweptStep
  PROVE  Simulates
<1>1. Next
  BY DEF Next
<1>2. LettersStep /\ RestTypes
  BY <1>1, NextSteps, NextTypes
<1>3. CASE EmployeeStep
  BY <1>2, <1>3, FileUploadSeen, UpdateLetterSeen, DeleteLetterSeen DEF EmployeeStep
<1>4. CASE VolunteerStep
  BY <1>2, <1>4, ClaimLetterSeen, ReturnLetterSeen, ReturnFileUploadSeen, ReUploadSeen
     DEF VolunteerStep
<1>5. CASE JobStep
  BY <1>2, <1>5, MarkDueLettersSeen, MarkOldLettersSeen, DueReminderSeen DEF JobStep
<1>. QED
  BY <1>3, <1>4, <1>5

LEMMA RequestNextIsNext ==
  ASSUME [RequestNext]_requestVars
  PROVE  [Next]_vars
BY DEF RequestNext, requestVars, Next, Cuts

\* Every step of a request that runs alone and is not cut off.
LEMMA RequestNextSeen ==
  ASSUME RequestInv, [RequestNext]_requestVars, overlaps' = 0
  PROVE  SeenInv' /\ (DeskStep \/ (Cuts /\ cut' = TRUE))
<1>1. [Next]_vars
  BY RequestNextIsNext
<1>2. DataInv /\ overlaps \in Nat /\ overlaps' \in Nat
  BY <1>1, NextDataInv DEF RequestInv, ManyInv, DataInv, TypeOK
<1>3. overlaps = 0
  BY <1>1, <1>2, OverlapsGrow
<1>4. AloneInv /\ SeenInv
  BY <1>3 DEF RequestInv, ManyInv
<1>5. CASE NextDay /\ swept' = FALSE
  BY <1>2, <1>4, <1>5, NextDaySeen DEF Simulates
<1>6. CASE /\ EmployeeStep \/ VolunteerStep \/ JobStep
           /\ swept' = (swept \/ SweepBegins)
  BY <1>2, <1>3, <1>4, <1>6, NextSeen DEF Simulates, SweptStep
<1>7. CASE Cuts /\ cut' = TRUE /\ swept' = swept
  BY <1>2, <1>4, <1>7, CutKeeps DEF Cuts
<1>8. CASE UNCHANGED requestVars
  <2>1. UNCHANGED <<today, letter, jobs, vou_logs, due_logs, forms, req, swept>>
    BY <1>8 DEF requestVars, vars
  <2>2. Running' = Running
    BY <2>1 DEF Running
  <2>3. UNCHANGED <<LetterSeen, JobsSeen, VouLogsSeen, DueLogsSeen, FormsSeen>>
    BY <2>1, <2>2 DEF LetterSeen, JobsSeen, VouLogsSeen, DueLogsSeen, FormsSeen
  <2>4. SeenInv'
    BY <1>4, <2>1 DEF SeenInv, AllFaithful, AllShown, OldLetters, Exists
  <2>. QED
    BY <2>1, <2>3, <2>4 DEF DeskStep, Desk!vars
<1>. QED
  BY <1>5, <1>6, <1>7, <1>8 DEF RequestNext
LEMMA InitRequestInv == RequestInit => RequestInv
<1>. SUFFICES ASSUME RequestInit PROVE RequestInv
  OBVIOUS
<1>1. ManyInv
  BY InitManyInv DEF RequestInit
<1>2. AllFaithful
  BY DEF RequestInit, Init, AllFaithful
<1>3. AllShown
  BY DEF RequestInit, Init, AllShown, ShownFor, Forms
<1>. QED
  BY <1>1, <1>2, <1>3 DEF RequestInv, SeenInv, RequestInit

LEMMA NextRequestInv == RequestInv /\ [RequestNext]_requestVars => RequestInv'
<1>. SUFFICES ASSUME RequestInv, [RequestNext]_requestVars PROVE RequestInv'
  OBVIOUS
<1>1. ManyInv'
  BY RequestNextIsNext, NextManyInv DEF RequestInv
<1>2. overlaps' = 0 => SeenInv'
  BY RequestNextSeen
<1>. QED
  BY <1>1, <1>2 DEF RequestInv

LEMMA RequestInvariant == RequestSpec => []RequestInv
BY InitRequestInv, NextRequestInv, PTL DEF RequestSpec

\* The history variables add nothing to what the requests do: all that is
\* proved of the datastore's handlers holds of them here.
THEOREM RequestsAreCalls == RequestSpec => Spec
<1>1. RequestInit => Init
  BY DEF RequestInit
<1>. QED
  BY <1>1, RequestNextIsNext, PTL DEF RequestSpec, Spec

LEMMA InitSeen == RequestInit => Desk!Init
<1>. SUFFICES ASSUME RequestInit PROVE Desk!Init
  OBVIOUS
<1>1. Running = Nil
  BY DEF RequestInit, Init, Running
<1>2. /\ letter \in [Letters -> LetterRecord \cup {Nil}]
      /\ jobs \in [Volunteers -> Int]
  BY DEF RequestInit, Init
<1>3. LetterSeen = letter /\ DueLogsSeen = due_logs
  BY <1>1, <1>2, PlainLetters DEF Plainly, LetterSeen, DueLogsSeen
<1>4. JobsSeen = jobs /\ VouLogsSeen = vou_logs
  BY <1>1, <1>2, QuietAccounts DEF Quiet, JobsSeen, VouLogsSeen
<1>5. FormsSeen = {}
  BY <1>3 DEF RequestInit, Init, FormsSeen, ShownFor, Forms
<1>. QED
  BY <1>3, <1>4, <1>5 DEF RequestInit, Init, Desk!Init

\* Until two requests overlap, every call a handler or a job makes to the
\* datastore is a step of the desk or none, after a cut as well as before
\* one: only the cut itself, which loses what the request had still to put,
\* is none of the desk's actions.
THEOREM CallsAreDeskSteps ==
  RequestSpec => [][overlaps' = 0 => UNCHANGED Desk!vars \/ Desk!Next \/ Cuts]_requestVars
<1>1. RequestInv /\ [RequestNext]_requestVars =>
        [overlaps' = 0 => UNCHANGED Desk!vars \/ Desk!Next \/ Cuts]_requestVars
  BY RequestNextSeen DEF DeskStep
<1>. QED
  BY <1>1, RequestInvariant, PTL DEF RequestSpec

\* Requests that run one at a time and to their end implement the desk: with
\* LetterSeen, JobsSeen, VouLogsSeen, DueLogsSeen and FormsSeen for its
\* variables, each handler and job of worldvision.rb and of the queue, with
\* all its reads and puts, does what one action of LetterDesk does.
THEOREM RequestsImplementDesk == RequestSpec => DeskUnlessCut
<1>1. RequestInv /\ [RequestNext]_requestVars =>
        [overlaps' = 0 /\ ~ cut' => UNCHANGED Desk!vars \/ Desk!Next]_requestVars
  BY RequestNextSeen DEF DeskStep
<1>. QED
  BY <1>1, InitSeen, RequestInvariant, PTL DEF RequestSpec, DeskUnlessCut
=============================================================================
