-------------------------- MODULE LetterEntityProofs --------------------------
(***************************************************************************)
(* Each handler, given a record that is in order, computes a record that   *)
(* is in order.  LetterDeskProofs and LetterDatastoreProofs rest on these  *)
(* lemmas, whatever stands between the reads and the writes.               *)
(***************************************************************************)
EXTENDS LetterEntity, TLAPS

\* A record of the right type whose fields agree.
InOrder(r) == r \in LetterRecord /\ CustodyAgrees(r) /\ FileAgrees(r)

LEMMA NewLetterInOrder ==
  ASSUME NEW e \in Employees, NEW type \in TransTypes, NEW day \in Int
  PROVE  InOrder(NewLetter(e, type, day))
<1>. DEFINE r == NewLetter(e, type, day)
<1>1. r \in LetterRecord
  BY DEF LetterRecord, NewLetter, Statuses
<1>2. CustodyAgrees(r)
  BY EntityAssumption DEF NewLetter, CustodyAgrees
<1>3. FileAgrees(r)
  BY EntityAssumption DEF NewLetter, FileAgrees
<1>. QED
  BY <1>1, <1>2, <1>3 DEF InOrder

LEMMA PublishedInOrder ==
  ASSUME NEW r, InOrder(r), NEW days \in ReturnDays \cup {Nil}
  PROVE  InOrder(Published(r, days))
<1>. DEFINE n == IF days = Nil THEN r.return_days ELSE days
            p == [r EXCEPT !.show = TRUE, !.return_days = n]
<1>1. n \in Int \cup {Nil}
  BY EntityAssumption DEF InOrder, LetterRecord
<1>. HIDE DEF n
<1>2. InOrder(p)
  BY <1>1 DEF InOrder, LetterRecord, CustodyAgrees, FileAgrees
<1>. QED
  BY <1>2 DEF Published, n

LEMMA DeletedInOrder ==
  ASSUME NEW r, InOrder(r)
  PROVE  InOrder(Deleted(r))
BY DEF InOrder, LetterRecord, Deleted, CustodyAgrees, FileAgrees, Statuses

LEMMA TermInt ==
  ASSUME NEW r \in LetterRecord
  PROVE  Term(r) \in Int
BY EntityAssumption DEF LetterRecord, Term

LEMMA ClaimedInOrder ==
  ASSUME NEW r, InOrder(r), NEW v \in Volunteers, NEW day \in Int
  PROVE  InOrder(Claimed(r, v, day))
<1>1. day + Term(r) \in Int
  BY TermInt DEF InOrder
<1>. QED
  BY <1>1, EntityAssumption
     DEF InOrder, LetterRecord, Claimed, CustodyAgrees, FileAgrees, Statuses

LEMMA GivenBackInOrder ==
  ASSUME NEW r, InOrder(r)
  PROVE  InOrder(GivenBack(r))
BY DEF InOrder, LetterRecord, GivenBack, CustodyAgrees, FileAgrees, Statuses

LEMMA UploadedInOrder ==
  ASSUME NEW r, InOrder(r), r.voulenteer_account # Nil,
         NEW v \in Volunteers, NEW day \in Int
  PROVE  InOrder(Uploaded(r, v, day))
BY EntityAssumption
   DEF InOrder, LetterRecord, Uploaded, CustodyAgrees, FileAgrees, Statuses

LEMMA ReUploadAskedInOrder ==
  ASSUME NEW r, InOrder(r)
  PROVE  InOrder(ReUploadAsked(r))
BY DEF InOrder, LetterRecord, ReUploadAsked, CustodyAgrees, FileAgrees, Statuses

LEMMA MarkedDueInOrder ==
  ASSUME NEW r, InOrder(r)
  PROVE  InOrder(MarkedDue(r))
BY DEF InOrder, LetterRecord, MarkedDue, CustodyAgrees, FileAgrees, Statuses

LEMMA MarkedOldInOrder ==
  ASSUME NEW r, InOrder(r), r.status = "unclaimed"
  PROVE  InOrder(MarkedOld(r))
BY DEF InOrder, LetterRecord, MarkedOld, CustodyAgrees, FileAgrees, Statuses

LEMMA RemindedInOrder ==
  ASSUME NEW r, InOrder(r)
  PROVE  InOrder(Reminded(r))
BY DEF InOrder, LetterRecord, Reminded, CustodyAgrees, FileAgrees, Statuses

\* The due job's cutoff on the morning it runs.
LEMMA ThreeDaysLate ==
  ASSUME NEW due \in Int, NEW day \in Int
  PROVE  IsDue(due, CronTime(day), 2) <=> due + 3 <= day
<1>1. TaipeiDay(CronTime(day)) = day
  BY DEF CronTime, TaipeiDay, Day, EightHours
<1>2. IsDue(due, CronTime(day), 2) <=> due * 216 < (day - 2) * 216 - 72
  BY <1>1 DEF IsDue, StoredDate, DueCutoff, Day, EightHours
<1>. QED
  BY <1>2

\* What the due job selects is three days late, in whole days.
LEMMA DueOnMeansThreeDays ==
  ASSUME NEW r, InOrder(r), NEW day \in Int, DueOn(r, day)
  PROVE  /\ r.due_date \in Int
         /\ r.due_date + 3 <= day
         /\ r.return_file_url = Nil
         /\ r.voulenteer_id # Nil
<1>1. r.due_date \in Int
  BY EntityAssumption DEF DueOn, PastDue, InOrder, LetterRecord
<1>2. IsDue(r.due_date, CronTime(day), 2)
  BY DEF DueOn, PastDue
<1>3. r.due_date + 3 <= day
  BY <1>1, <1>2, ThreeDaysLate
<1>4. r.due_date # Nil /\ r.return_file_url = Nil
  BY DEF DueOn, PastDue
<1>5. r.voulenteer_id # Nil
  BY <1>4 DEF InOrder, CustodyAgrees
<1>. QED
  BY <1>1, <1>3, <1>4, <1>5
-----------------------------------------------------------------------------
(***************************************************************************)
(* What is published, and what a volunteer is shown.                       *)
(***************************************************************************)

\* Published once, though perhaps deleted since.
Public(r) == r.show \/ r.deleted

\* A form is rendered only for a letter that is public or held.
LEMMA FormsNeedPublic ==
  ASSUME NEW r, InOrder(r), NEW v \in Volunteers, NEW k \in FormsFor(r, v)
  PROVE  Public(r) \/ r.voulenteer_id # Nil
BY DEF FormsFor, Offered, HeldBy, Public, InOrder, CustodyAgrees

LEMMA RecordIsNotNil ==
  ASSUME NEW r, InOrder(r)
  PROVE  r # Nil
BY EntityAssumption DEF InOrder

-----------------------------------------------------------------------------
(***************************************************************************)
(* What each handler's record means in the life cycle of LetterCustody.    *)
(***************************************************************************)
CustodyOrNil(x) == IF x = Nil THEN Nil ELSE CustodyOf(x)

\* Seen as custody, a step from record c to record d moves or stays.
Keeps(c, d) == \/ CustodyOrNil(d) = CustodyOrNil(c)
               \/ Life!Moves(CustodyOrNil(c), CustodyOrNil(d))

LEMMA KeepsSame == \A c : Keeps(c, c)
BY DEF Keeps

LEMMA NewLetterMoves ==
  ASSUME NEW e \in Employees, NEW type \in TransTypes, NEW day \in Int
  PROVE  Keeps(Nil, NewLetter(e, type, day))
<1>. DEFINE r == NewLetter(e, type, day)
<1>1. r # Nil
  BY NewLetterInOrder, RecordIsNotNil
<1>2. CustodyOf(r) = [stage |-> "draft", holder |-> Nil, mark |-> "unclaimed"]
  BY DEF CustodyOf, NewLetter
<1>. QED
  BY <1>1, <1>2 DEF Keeps, CustodyOrNil, Life!Moves, Life!Arrives, Life!Fresh

\* A record in order stands for some custody.
LEMMA CustodyOfRecord ==
  ASSUME NEW r, InOrder(r)
  PROVE  /\ CustodyOrNil(r) = CustodyOf(r)
         /\ CustodyOf(r) \in Life!Custody
         /\ CustodyOf(r) # Nil
<1>1. CustodyOf(r) \in Life!Custody
  BY DEF InOrder, LetterRecord, Statuses, CustodyOf, Life!Custody
<1>. QED
  BY <1>1, RecordIsNotNil, CustodyAssumption DEF CustodyOrNil

LEMMA PublishedMoves ==
  ASSUME NEW r, InOrder(r), NEW days \in ReturnDays \cup {Nil}
  PROVE  Keeps(r, Published(r, days))
<1>. DEFINE d == Published(r, days)
<1>1. InOrder(d)
  BY PublishedInOrder
<1>2. /\ CustodyOf(d).holder = CustodyOf(r).holder
      /\ CustodyOf(d).mark = CustodyOf(r).mark
      /\ d.deleted = r.deleted
      /\ d.show
  BY DEF InOrder, LetterRecord, Published, CustodyOf
<1>3. CustodyOf(d) = CustodyOf(r) \/ Life!Opens(CustodyOf(r), CustodyOf(d))
  BY <1>2 DEF CustodyOf, Life!Opens
<1>. QED
  BY <1>1, <1>3, CustodyOfRecord DEF Keeps, Life!Moves

LEMMA DeletedMoves ==
  ASSUME NEW r, InOrder(r), r.claim_date = Nil
  PROVE  Keeps(r, Deleted(r))
<1>1. InOrder(Deleted(r))
  BY DeletedInOrder
<1>2. Life!Withdrawn(CustodyOf(r), CustodyOf(Deleted(r)))
  BY DEF InOrder, CustodyAgrees, LetterRecord, Deleted, CustodyOf, Life!Withdrawn
<1>. QED
  BY <1>1, <1>2, CustodyOfRecord DEF Keeps, Life!Moves

LEMMA ClaimedMoves ==
  ASSUME NEW r, InOrder(r), Claimable(r), Public(r),
         NEW v \in Volunteers, NEW day \in Int
  PROVE  Keeps(r, Claimed(r, v, day))
<1>1. InOrder(Claimed(r, v, day))
  BY ClaimedInOrder
<1>2. Life!Taken(CustodyOf(r), CustodyOf(Claimed(r, v, day)))
  <2>. DEFINE d == Claimed(r, v, day)
              c == CustodyOf(r)
  <2>1. /\ d.voulenteer_id = v
        /\ d.status = "claimed"
        /\ d.show = r.show
        /\ d.deleted = r.deleted
    BY DEF InOrder, LetterRecord, Claimed
  <2>2. CustodyOf(d) = [stage |-> c.stage, holder |-> v, mark |-> "claimed"]
    BY <2>1 DEF CustodyOf
  <2>3. c.holder = Nil /\ c.stage # "draft"
    BY DEF CustodyOf, Claimable, Public
  <2>. QED
    BY <2>2, <2>3 DEF Life!Taken
<1>. QED
  BY <1>1, <1>2, CustodyOfRecord DEF Keeps, Life!Moves

\* Taking the holder off a record, as a return and the due job both do.
LEMMA ReleasedCustody ==
  ASSUME NEW r, InOrder(r), NEW d, r.voulenteer_id # Nil,
         d.voulenteer_id = Nil, d.status = "emergent", d.deleted = r.deleted,
         d.show = r.show \/ (d.show /\ r.deleted)
  PROVE  Life!Released(CustodyOf(r), CustodyOf(d))
<1>. DEFINE c == CustodyOf(r)
<1>1. CustodyOf(d) = [stage |-> c.stage, holder |-> Nil, mark |-> "emergent"]
  BY DEF CustodyOf
<1>2. c.holder # Nil
  BY DEF CustodyOf
<1>. QED
  BY <1>1, <1>2 DEF Life!Released

LEMMA GivenBackMoves ==
  ASSUME NEW r, InOrder(r)
  PROVE  Keeps(r, GivenBack(r))
<1>1. InOrder(GivenBack(r))
  BY GivenBackInOrder
<1>2. CASE r.voulenteer_id # Nil
  <2>1. /\ GivenBack(r).voulenteer_id = Nil
        /\ GivenBack(r).status = "emergent"
        /\ GivenBack(r).show = r.show
        /\ GivenBack(r).deleted = r.deleted
    BY DEF InOrder, LetterRecord, GivenBack
  <2>2. Life!Released(CustodyOf(r), CustodyOf(GivenBack(r)))
    BY <1>2, <2>1, ReleasedCustody
  <2>. QED
    BY <1>1, <2>2, CustodyOfRecord DEF Keeps, Life!Moves
<1>3. CASE r.voulenteer_id = Nil
  <2>1. r.status \in {"unclaimed", "emergent"}
    BY <1>3 DEF InOrder, CustodyAgrees, LetterRecord, Statuses
  <2>2. \/ CustodyOf(GivenBack(r)) = CustodyOf(r)
        \/ Life!GrowsUrgent(CustodyOf(r), CustodyOf(GivenBack(r)))
    BY <1>3, <2>1 DEF InOrder, LetterRecord, GivenBack, CustodyOf, Life!GrowsUrgent
  <2>. QED
    BY <1>1, <2>2, CustodyOfRecord DEF Keeps, Life!Moves
<1>. QED
  BY <1>2, <1>3

LEMMA UploadedMoves ==
  ASSUME NEW r, InOrder(r), r.voulenteer_account # Nil,
         NEW v \in Volunteers, NEW day \in Int
  PROVE  Keeps(r, Uploaded(r, v, day))
<1>1. InOrder(Uploaded(r, v, day))
  BY UploadedInOrder
<1>2. Life!Delivered(CustodyOf(r), CustodyOf(Uploaded(r, v, day)))
  BY DEF InOrder, CustodyAgrees, LetterRecord, Uploaded, CustodyOf, Life!Delivered
<1>. QED
  BY <1>1, <1>2, CustodyOfRecord DEF Keeps, Life!Moves

LEMMA FlagsMove ==
  ASSUME NEW r, InOrder(r)
  PROVE  Keeps(r, ReUploadAsked(r)) /\ Keeps(r, Reminded(r))
<1>1. InOrder(ReUploadAsked(r)) /\ InOrder(Reminded(r))
  BY ReUploadAskedInOrder, RemindedInOrder
<1>2. /\ CustodyOf(ReUploadAsked(r)) = CustodyOf(r)
      /\ CustodyOf(Reminded(r)) = CustodyOf(r)
  BY DEF InOrder, LetterRecord, ReUploadAsked, Reminded, CustodyOf
<1>. QED
  BY <1>1, <1>2, CustodyOfRecord DEF Keeps

LEMMA MarkedDueMoves ==
  ASSUME NEW r, InOrder(r), r.voulenteer_id # Nil, Public(r)
  PROVE  Keeps(r, MarkedDue(r))
<1>1. InOrder(MarkedDue(r))
  BY MarkedDueInOrder
<1>2. Life!Released(CustodyOf(r), CustodyOf(MarkedDue(r)))
  <2>1. /\ MarkedDue(r).voulenteer_id = Nil
        /\ MarkedDue(r).status = "emergent"
        /\ MarkedDue(r).show = TRUE
        /\ MarkedDue(r).deleted = r.deleted
        /\ r.show \in BOOLEAN
    BY DEF InOrder, LetterRecord, MarkedDue
  <2>. QED
    BY <2>1, ReleasedCustody DEF Public
<1>. QED
  BY <1>1, <1>2, CustodyOfRecord DEF Keeps, Life!Moves

LEMMA MarkedOldMoves ==
  ASSUME NEW r, InOrder(r), r.status = "unclaimed"
  PROVE  Keeps(r, MarkedOld(r))
<1>1. InOrder(MarkedOld(r))
  BY MarkedOldInOrder
<1>2. Life!GrowsUrgent(CustodyOf(r), CustodyOf(MarkedOld(r)))
  BY DEF InOrder, LetterRecord, MarkedOld, CustodyOf, Life!GrowsUrgent
<1>. QED
  BY <1>1, <1>2, CustodyOfRecord DEF Keeps, Life!Moves

\* A held record that moves keeps its holder, or is released.
LEMMA HeldMoves ==
  ASSUME NEW c, NEW d, InOrder(c), InOrder(d), Keeps(c, d), c.voulenteer_id # Nil
  PROVE  \/ d.voulenteer_id = c.voulenteer_id
         \/ /\ d.voulenteer_id = Nil
            /\ d.status = "emergent"
            /\ CustodyOf(d).stage = CustodyOf(c).stage
<1>. DEFINE x == CustodyOf(c)
            y == CustodyOf(d)
<1>1. x.holder # Nil /\ x.holder = c.voulenteer_id /\ y.holder = d.voulenteer_id
      /\ y.mark = d.status /\ x.mark = c.status
  BY DEF CustodyOf
<1>2. y = x \/ Life!Moves(x, y)
  BY CustodyOfRecord DEF Keeps
<1>3. x \in Life!Custody /\ x # Nil
  BY CustodyOfRecord
<1>4. CASE y = x
  BY <1>1, <1>4
<1>5. CASE Life!Opens(x, y) \/ Life!Delivered(x, y) \/ Life!GrowsUrgent(x, y)
  <2>1. y.holder = x.holder
    BY <1>3, <1>5 DEF Life!Opens, Life!Delivered, Life!GrowsUrgent, Life!Custody
  <2>. QED
    BY <1>1, <2>1
<1>6. CASE Life!Released(x, y)
  <2>1. y.holder = Nil /\ y.mark = "emergent" /\ y.stage = x.stage
    BY <1>6 DEF Life!Released
  <2>. QED
    BY <1>1, <2>1
<1>. QED
  BY <1>1, <1>2, <1>3, <1>4, <1>5, <1>6 DEF Life!Moves, Life!Withdrawn, Life!Taken

\* Public, in the words of the life cycle.
LEMMA PublicStage ==
  ASSUME NEW r, InOrder(r)
  PROVE  Public(r) <=> CustodyOf(r).stage # "draft"
BY DEF Public, CustodyOf, InOrder, LetterRecord

\* What is public stays so, and only what is public gets into hands.
LEMMA KeepsPublic ==
  ASSUME NEW c, NEW d, InOrder(c), InOrder(d), Keeps(c, d),
         c.voulenteer_id # Nil => Public(c)
  PROVE  /\ Public(c) => Public(d)
         /\ d.voulenteer_id # Nil => Public(d)
<1>. DEFINE x == CustodyOf(c)
            y == CustodyOf(d)
<1>1. /\ x.holder = c.voulenteer_id /\ y.holder = d.voulenteer_id
      /\ Public(c) <=> x.stage # "draft"
      /\ Public(d) <=> y.stage # "draft"
  BY PublicStage DEF CustodyOf
<1>2. y = x \/ Life!Moves(x, y)
  BY CustodyOfRecord DEF Keeps
<1>3. x \in Life!Custody /\ x # Nil
  BY CustodyOfRecord
<1>. HIDE DEF x, y
<1>4. CASE Life!Opens(x, y) \/ Life!Withdrawn(x, y)
  <2>1. y.stage # "draft"
    BY <1>3, <1>4 DEF Life!Opens, Life!Withdrawn, Life!Custody
  <2>. QED
    BY <1>1, <2>1
<1>5. CASE Life!Delivered(x, y) \/ Life!GrowsUrgent(x, y) \/ Life!Released(x, y)
  <2>1. y.stage = x.stage /\ (y.holder = x.holder \/ y.holder = Nil)
    BY <1>3, <1>5 DEF Life!Delivered, Life!GrowsUrgent, Life!Released, Life!Custody
  <2>. QED
    BY <1>1, <2>1
<1>6. CASE Life!Taken(x, y)
  <2>1. x.stage # "draft" /\ y.stage = x.stage
    BY <1>6 DEF Life!Taken
  <2>. QED
    BY <1>1, <2>1
<1>. QED
  BY <1>1, <1>2, <1>3, <1>4, <1>5, <1>6 DEF Life!Moves

\* What exists goes on to exist.
LEMMA KeepsExisting ==
  ASSUME NEW c, NEW d, InOrder(c), Keeps(c, d)
  PROVE  d # Nil
<1>. SUFFICES ASSUME d = Nil PROVE FALSE
  OBVIOUS
<1>. DEFINE x == CustodyOf(c)
<1>1. x \in Life!Custody /\ x # Nil /\ (Nil = x \/ Life!Moves(x, Nil))
  BY CustodyOfRecord DEF Keeps, CustodyOrNil
<1>. HIDE DEF x
<1>2. Life!Opens(x, Nil) \/ Life!Withdrawn(x, Nil) \/ Life!Delivered(x, Nil)
      \/ Life!GrowsUrgent(x, Nil) => Nil \in Life!Custody
  BY <1>1 DEF Life!Opens, Life!Withdrawn, Life!Delivered, Life!GrowsUrgent, Life!Custody
<1>3. Life!Taken(x, Nil) \/ Life!Released(x, Nil) => Nil \in Life!Custody
  BY <1>1 DEF Life!Taken, Life!Released, Life!Custody
<1>. QED
  BY <1>1, <1>2, <1>3, CustodyAssumption DEF Life!Moves

\* A letter just uploaded is in nobody's hands.
LEMMA NewIsFree ==
  ASSUME NEW d, InOrder(d), Keeps(Nil, d)
  PROVE  d.voulenteer_id = Nil
<1>1. CustodyOf(d) = Life!Fresh
  BY CustodyOfRecord DEF Keeps, CustodyOrNil, Life!Moves, Life!Arrives
<1>. QED
  BY <1>1 DEF Life!Fresh, CustodyOf
================================================================================
