------------------------------ MODULE LetterLists ------------------------------
(***************************************************************************)
(* The pages that list letters, PAGESIZE at a time, for letters of one     *)
(* direction (a page shows one): the volunteers' page with its tabs of     *)
(* letters to claim, each with links to the pages of the tab, and the      *)
(* employee's page with its two tables.                                    *)
(*                                                                         *)
(* Letters come and go as LetterCustody says, which LetterDesk implements, *)
(* one at a time: the jobs put them back one at a time too.  Meanwhile     *)
(* somebody reads one tab in a browser and follows links that were         *)
(* computed when the page it holds was rendered.                           *)
(*                                                                         *)
(* Letters are numbered in the order of create_date, by which the tabs are *)
(* sorted.  All tabs of a page come from one request, so reading the first *)
(* page of another tab is the same as having opened the page for that tab. *)
(***************************************************************************)
EXTENDS Integers, FiniteSets

CONSTANTS
  Letters,        \* the letters of this direction, numbered
  Volunteers,
  Nil,
  TransType,      \* the direction: "eng" or "chi"
  HandWritten,    \* those whose letter_source_type is handwritten
  PAGESIZE

ASSUME ListsAssumption ==
  /\ Letters \subseteq Nat
  /\ IsFiniteSet(Letters)
  /\ TransType \in {"eng", "chi"}
  /\ PAGESIZE \in Nat \ {0}

VARIABLES
  custody,        \* what each letter is up to; Nil before its upload
  browser,        \* the page being read, Nil before the first
  owed            \* history: what a reading of the tab has yet to come to

vars == <<custody, browser, owed>>

C == INSTANCE LetterCustody
-----------------------------------------------------------------------------
(***************************************************************************)
(* Slices and links.                                                       *)
(***************************************************************************)

\* How many of S come before l.
Before(l, S) == Cardinality({m \in S : m < l})

\* Mutated form of PagesFor: a list that fills its pages gets one more.
PagesForOneMore(n) == n \div PAGESIZE + 1

\* get_paginator: links to pages 1 to n / PAGESIZE, rounded up
PagesFor(n) == (n + PAGESIZE - 1) \div PAGESIZE

\* Mutated form of get_offset: with the lines that are commented out.
get_offset_plus_one(start) ==
  (start - 1) * PAGESIZE + (IF start > 1 THEN 1 ELSE 0)

get_offset(start) == (start - 1) * PAGESIZE

\* A list no longer than a page is shown whole, whatever the link says.
Sliced(S, start) ==
  IF Cardinality(S) > PAGESIZE
    THEN {l \in S : /\ get_offset(start) <= Before(l, S)
                    /\ Before(l, S) < get_offset(start) + PAGESIZE}
    ELSE S

\* Ruby's slice from beyond the end of an array is nil, and the page fails
\* on it; from just at the end it is empty.
SliceIsNil(S, start) ==
  Cardinality(S) > PAGESIZE /\ get_offset(start) > Cardinality(S)
-----------------------------------------------------------------------------
(***************************************************************************)
(* GET /volunteer                                                          *)
(***************************************************************************)
Tabs == IF TransType = "eng" THEN {"emergent", "hand_writing", "typing"}
                             ELSE {"emergent", "letters"}

\* Neither deleted nor with a due date, and to be shown.
Offered(l) ==
  custody[l] # Nil /\ custody[l].stage = "open" /\ custody[l].holder = Nil

TabOf(l) ==
  CASE custody[l].mark = "emergent" -> "emergent"
    [] OTHER -> IF TransType = "chi"    THEN "letters"
                ELSE IF l \in HandWritten THEN "hand_writing" ELSE "typing"

Listed(tab) == {l \in Letters : Offered(l) /\ TabOf(l) = tab}

\* The page as rendered: its number, the links it shows and the count.
Rendered(tab, start) ==
  [ tab     |-> tab,
    at      |-> start,
    links   |-> PagesFor(Cardinality(Listed(tab))),
    count   |-> Cardinality(Listed(tab)),
    outcome |-> IF Sliced(Listed(tab), start) = {} THEN "blank" ELSE "letters" ]

\* A reading of a tab begins with page 1 and goes on page by page.  It owes
\* its reader every letter that has been on the list since it began and not
\* on a page read, unless a letter before it has left the list: then the
\* pages shift under the reader.
NewReading(tab) == Listed(tab) \ Sliced(Listed(tab), 1)
-----------------------------------------------------------------------------
Init ==
  /\ C!Init
  /\ browser = Nil
  /\ owed = {}

\* A handler or a job puts letter l.
LetterMoves(l) ==
  /\ \E d \in C!Custody :
       C!Moves(custody[l], d) /\ custody' = [custody EXCEPT ![l] = d]
  /\ UNCHANGED browser
  /\ LET was == Listed(browser.tab)
         is  == Listed(browser.tab)'
     IN  owed' = {m \in owed : m \in is /\ \A k \in was \ is : ~ (k < m)}

Open(tab) ==
  /\ browser' = Rendered(tab, 1)
  /\ owed' = NewReading(tab)
  /\ UNCHANGED custody

\* Mutated form of Follow: the page knows itself by its offset.
FollowByOffset(start) ==
  /\ browser # Nil
  /\ start \in 1..browser.links
  /\ browser' = [Rendered(browser.tab, start) EXCEPT !.at = get_offset(start)]
  /\ owed' = {}
  /\ UNCHANGED custody

\* A link of the page, with the list as it is by now.  Where the page fails,
\* going back leads to the old one and its links.
Follow(start) ==
  /\ browser # Nil
  /\ start \in 1..browser.links
  /\ LET tab == browser.tab
         new == Listed(tab)
     IN  \/ /\ SliceIsNil(new, start)
            /\ browser' = [browser EXCEPT !.outcome = "failed"]
            /\ UNCHANGED owed
         \/ /\ ~ SliceIsNil(new, start)
            /\ browser' = Rendered(tab, start)
            /\ owed' = IF start = 1 THEN NewReading(tab)
                       ELSE IF start = browser.at + 1
                         THEN owed \ Sliced(new, start)
                         ELSE {}
  /\ UNCHANGED custody

Next ==
  \/ \E l \in Letters : LetterMoves(l)
  \/ \E tab \in Tabs : Open(tab)
  \/ \E start \in 1..Cardinality(Letters) : Follow(start)

Spec == Init /\ [][Next]_vars
-----------------------------------------------------------------------------
(***************************************************************************)
(* GET /employee: the letters of one employee.  `links' of the first table *)
(* are counted over three statuses, of which it shows one; both tables are *)
(* sliced with the same start.                                             *)
(***************************************************************************)
Own(mark) ==
  {l \in Letters : /\ custody[l] # Nil
                   /\ custody[l].stage # "gone"
                   /\ custody[l].mark = mark}

\* Mutated form of EmployeeLinks: only the status shown by default counts.
EmployeeLinksOfUnclaimed == PagesFor(Cardinality(Own("unclaimed")))

EmployeeLinks ==
  PagesFor(Cardinality(Own("emergent")) + Cardinality(Own("claimed"))
             + Cardinality(Own("unclaimed")))

ReturnLinks == PagesFor(Cardinality(Own("returned")))
-----------------------------------------------------------------------------
Page == [ tab     : Tabs,
          at      : Nat \ {0},
          links   : Nat,
          count   : Nat,
          outcome : {"letters", "blank", "failed"} ]

TypeOK ==
  /\ custody \in [Letters -> C!Custody \cup {Nil}]
  /\ browser \in Page \cup {Nil}
  /\ owed \in SUBSET Letters

\* Every letter a volunteer may claim is on exactly one linked page of
\* exactly one tab: the division into tabs, the count behind the links and
\* the offsets behind the slices are computed apart and have to fit.
OfferedOnOnePage ==
  \A l \in Letters : Offered(l) =>
    \E tab \in Tabs : \E p \in 1..PagesFor(Cardinality(Listed(tab))) :
      \A t \in Tabs : \A q \in 1..PagesFor(Cardinality(Listed(t))) :
        l \in Sliced(Listed(t), q) <=> t = tab /\ q = p

\* Every letter of the employee is on some page linked from the table of
\* its status.
EmployeeFindsAll ==
  \A l \in Letters, mark \in {"unclaimed", "emergent", "claimed", "returned"} :
    l \in Own(mark) =>
      \E p \in 1..(IF mark = "returned" THEN ReturnLinks ELSE EmployeeLinks) :
        l \in Sliced(Own(mark), p)

\* Whoever reads a tab from page 1 to the last page linked there has seen
\* every letter that was on it all the time, unless one before it left the
\* list meanwhile: only then do the pages shift under the reader.
WalkMissesNothing ==
  browser # Nil /\ browser.at >= browser.links => owed = {}

\* A link leads to letters as long as the list is as long as it was when
\* the link was shown.
LinksLeadToLetters ==
  [][\A start \in 1..Cardinality(Letters) :
       browser' # browser /\ browser'.outcome # "letters" /\ Follow(start)
         => Cardinality(Listed(browser.tab)) < browser.count]_vars
=============================================================================
