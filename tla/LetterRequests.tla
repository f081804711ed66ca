---------------------------- MODULE LetterRequests ----------------------------
(***************************************************************************)
(* Requests that run one at a time and to their end do what LetterDesk     *)
(* says: the calls to the datastore of LetterDatastore, seen through what  *)
(* the running request still has to do, are the single steps of the desk.  *)
(*                                                                         *)
(* A volunteer's or an employee's request takes effect when it puts its    *)
(* letter, a job when its last query has run.  Until a job has been        *)
(* through what it found, the desk's letters and logs are those the        *)
(* datastore will have by then; a return has taken a job off the account   *)
(* before its step and writes its log after it, an upload takes a job off  *)
(* after its step.                                                         *)
(***************************************************************************)
EXTENDS LetterDatastore

ASSUME RequestAssumption == Nil \notin Request

VARIABLES
  swept,          \* history: the due job has found something to take back today
  cut             \* history: a request has been cut off

requestVars == <<vars, swept, cut>>

RequestInit == Init /\ swept = FALSE /\ cut = FALSE

\* The due job has just found what it will take back.
SweepBegins ==
  \E s \in Slots : req[s] = Nil /\ req'[s] # Nil /\ req'[s].op = "mark_due"

Cuts == \E s \in Slots : Abort(s)

RequestNext ==
  \/ /\ NextDay
     /\ swept' = FALSE
     /\ UNCHANGED cut
  \/ /\ EmployeeStep \/ VolunteerStep \/ JobStep
     /\ swept' = (swept \/ SweepBegins)
     /\ UNCHANGED cut
  \/ /\ Cuts
     /\ cut' = TRUE
     /\ UNCHANGED swept

RequestSpec == RequestInit /\ [][RequestNext]_requestVars
-----------------------------------------------------------------------------
(***************************************************************************)
(* What the desk has done when the datastore is in the middle of it.       *)
(***************************************************************************)

\* The request that runs, if one does.
Running ==
  LET busy == {s \in Slots : req[s] # Nil}
  IN  IF busy = {} THEN Nil ELSE req[CHOOSE s \in busy : TRUE]

\* q has run all its queries and found letter l.
Sweeps(q, l) == q # Nil /\ q.at # 0 /\ q.found[l] # Nil

\* Record r of letter l once q has been through what it found.
Finished(q, l, r) ==
  CASE Sweeps(q, l) /\ q.op = "mark_due"     -> MarkedDue(r)
    [] Sweeps(q, l) /\ q.op = "mark_old"     -> MarkedOld(r)
    [] Sweeps(q, l) /\ q.op = "due_reminder" -> Reminded(r)
    [] OTHER                                 -> r

LetterSeen == [l \in Letters |-> Finished(Running, l, letter[l])]

\* What q has taken off the account of v before its step, or has still to
\* take off after it.
Owed(q, v) ==
  IF q # Nil /\ q.op = "return" /\ q.at = 3 /\ q.who = v THEN 1
  ELSE IF q # Nil /\ q.op = "upload" /\ q.at = 3 /\ q.found[q.now].voulenteer_account = v
         THEN -1
  ELSE 0

JobsSeen == [v \in Volunteers |-> jobs[v] + Owed(Running, v)]

\* The log a return has still to write.
ReturnLogsOf(q) ==
  IF q # Nil /\ q.op = "return" /\ q.at = 4
    THEN {[ voulenteer_id |-> q.who, letter_id |-> q.now,
            claim_date |-> q.found[q.now].claim_date ]}
    ELSE {}

VouLogsSeen == vou_logs \cup ReturnLogsOf(Running)

\* The logs the due job has still to write, or has written for letters it
\* has still to put.
DueLogsOf(q) ==
  {DueLogOf(l, q.found[l]) : l \in {m \in Letters : Sweeps(q, m) /\ q.op = "mark_due"}}

DueLogsSeen == due_logs \cup DueLogsOf(Running)

ShownFor(letters) ==
  {f \in Forms : letters[f[2]] # Nil /\ f[3] \in FormsFor(letters[f[2]], f[1])}

FormsSeen == forms \cup ShownFor(LetterSeen)

Desk == INSTANCE LetterDesk WITH
          letter   <- LetterSeen,
          jobs     <- JobsSeen,
          vou_logs <- VouLogsSeen,
          due_logs <- DueLogsSeen,
          forms    <- FormsSeen

\* Until two requests overlap or one is cut off, every call to the datastore
\* is a step of the desk or none: each handler and job, with all its reads
\* and puts, does what one action of LetterDesk does.
DeskUnlessCut ==
  /\ Desk!Init
  /\ [][overlaps' = 0 /\ ~ cut' => UNCHANGED Desk!vars \/ Desk!Next]_requestVars
=============================================================================
