----------------------------- MODULE BrowserProofs -----------------------------
(***************************************************************************)
(* The properties of Browser hold for any accounts, households and number  *)
(* of letters, and with any number of saves on their way.                  *)
(***************************************************************************)
EXTENDS Browser, FiniteSetTheorems, TLAPS

\* Sessions and cookies as TypeOK has them.
Sessions == [user : users \cup {Nil}, refused : BOOLEAN]
Jars == [hash : AllSections \cup {Nil}, counts : [Counted -> Nat] \cup {Nil},
         by : Employees \cup {Nil}]
Pages == {Login, Away} \cup VolunteerPages \cup EmployeePages

\* A request that leads to a volunteer's page, in the session s: on a page
\* that tells of a refusal no part of a list is asked for.
VolunteerOpening(s) ==
  \E asked \in Types \cup {Nil}, start \in Starts \cup {Nil}, anchor \in AllSections \cup {Nil} :
    /\ s.refused => start = Nil
    /\ OpensVolunteer(s, asked, start, anchor)

\* A request that leads to an employee's page: without a query, or from a
\* page of his own.
EmployeeOpening(s) ==
  \E asked \in Types \cup {Nil}, status \in Statuses \cup {Nil}, start \in BOOLEAN :
    /\ \/ CountsSaved(asked, status, start)
       \/ page.kind = "employee" /\ s.user \in {page.user, Nil}
    /\ OpensEmployee(s, asked, status, start)

\* The window leaves its page for one the server sends.
OpenStep ==
  /\ Leaves
  /\ letter' \in [Letters -> LetterRecord]
  /\ \E s \in Sessions :
       /\ session.refused => s.refused
       /\ VolunteerOpening(s) \/ EmployeeOpening(s) \/ OpensLogin(s)

\* The section the anchor names, and the first one otherwise.
OpenAt(p) == Show({DefaultTab(p.type)}, p.hash, p.type)

\* What the section of a form's page is found by: the cookie agrees with the
\* anchor, and what is marked is what they say.
TabsInv ==
  page.kind = "volunteer" =>
    /\ page.hash = jar.hash
    /\ ~ session.refused
    /\ page.active \cap AllSections # {} /\ (page.hash # Nil \/ page.start = Nil) =>
         page.visible = OpenAt(page)

\* The session is that of the page's account, or over.
SameSession ==
  page.kind \in {"volunteer", "employee"} => session.user \in {page.user, Nil}

\* The cookies are not older than the page's login.
CountsInv ==
  page.kind = "employee" /\ jar.counts # Nil => jar.by = page.user

\* The letter is as the page has sent it.
Stored(l) == /\ letter[l].note = page.sent[l]
             /\ letter[l].show \/ letter[l].deleted

\* Of the owner's last save, if it is a sure one: no other is on its way, it
\* will find him logged in, and once it is handled the letter keeps it.
SavesInv ==
  page.kind = "employee" =>
    /\ page.user \in users
    /\ \A l \in Letters :
         page.sure[l] /\ Owner[l] = page.user =>
           /\ page.msg[l] = "done" => Stored(l)
           /\ \A x \in saves : x.letter = l =>
                /\ x.note = page.sent[l]
                /\ x.handled => Stored(l)
                /\ ~ x.handled => session.user = page.user

BrowserInv == /\ TypeOK
              /\ SameSession
              /\ TabsInv /\ OneTabOpen
              /\ CountsInv /\ CountsAreOwn
              /\ SavesInv

-----------------------------------------------------------------------------
(***************************************************************************)
(* Facts about the pages the server and the scripts make.                  *)
(***************************************************************************)
LEMMA SectionFacts ==
  /\ \A type : DefaultTab(type) \in Sections(type) /\ Sections(type) \subseteq AllSections
  /\ Nil \notin AllSections
  /\ "link" \notin AllSections
  /\ \A start, asked : Started(start, asked) \in AllSections \cup {Nil}
  /\ \A asked : Started(Nil, asked) = Nil
  /\ \A asked : Started("em_start", asked) # Nil
<1>1. \A type : DefaultTab(type) \in Sections(type) /\ Sections(type) \subseteq AllSections
  BY DEF DefaultTab, Sections, AllSections, TabsOf
<1>2. Nil \notin AllSections /\ Nil \notin Starts
  BY BrowserAssumption
<1>3. "link" \notin AllSections
  BY DEF Sections, AllSections, TabsOf, Shared
<1>4. \A start, asked : Started(start, asked) \in AllSections \cup {Nil}
  BY DEF Started, Sections, AllSections, TabsOf
<1>5. \A asked : Started(Nil, asked) = Nil
  BY <1>2 DEF Started, Starts
<1>6. \A asked : Started("em_start", asked) # Nil
  BY <1>2 DEF Started, Sections, AllSections, TabsOf
<1>. QED
  BY <1>1, <1>2, <1>3, <1>4, <1>5, <1>6

-----------------------------------------------------------------------------
(***************************************************************************)
(* What the three ways to open a page make of session, cookies and page.   *)
(***************************************************************************)
LEMMA VolunteerOpens ==
  ASSUME NEW s \in Sessions, jar \in Jars, VolunteerOpening(s)
  PROVE  /\ session' \in Sessions /\ session'.user = s.user
         /\ jar' \in Jars
         /\ \/ page' = Login /\ session' = s
            \/ page' = Away
            \/ /\ page' \in VolunteerPages /\ page'.kind = "volunteer"
               /\ page'.user = s.user /\ page'.hash = jar'.hash
               /\ ~ session'.refused
               /\ \E x \in Sections(page'.type) : page'.visible = {x}
               /\ page'.active \subseteq page'.visible
               /\ page'.active # {} /\ (page'.hash # Nil \/ page'.start = Nil) =>
                    page'.visible = OpenAt(page')
               /\ s.refused =>
                    \/ page'.told = "shown"
                    \/ page'.told = "hidden" /\ page'.visible = {page'.hash}
<1>1. PICK asked \in Types \cup {Nil}, start \in Starts \cup {Nil}, anchor \in AllSections \cup {Nil} :
         /\ s.refused => start = Nil
         /\ OpensVolunteer(s, asked, start, anchor)
  BY DEF VolunteerOpening
<1>. DEFINE told == [s EXCEPT !.refused = FALSE]
<1>2. told \in Sessions /\ told.user = s.user /\ ~ told.refused
  BY DEF Sessions
<1>3. CASE s.user \notin Volunteers
  BY <1>1, <1>3 DEF OpensVolunteer, OpensLogin
<1>4. CASE s.user \in Volunteers /\ Lost(s, told)
  BY <1>2, <1>4 DEF Lost
<1>5. CASE /\ s.user \in Volunteers
           /\ session' = told
           /\ page' = VolunteerPage(s.user, asked, start, anchor, s.refused)
           /\ jar' = [jar EXCEPT !.hash = page'.hash]
  <2>1. s.refused \in BOOLEAN
    BY DEF Sessions
  <2>2. /\ page' \in VolunteerPages
        /\ page'.kind = "volunteer" /\ page'.user = s.user /\ page'.start = start
        /\ \E x \in Sections(page'.type) : page'.visible = {x}
        /\ page'.active \subseteq page'.visible
        /\ page'.active # {} /\ (page'.hash # Nil \/ start = Nil) =>
             page'.visible = OpenAt(page')
        /\ page'.told = "nothing" => ~ s.refused
        /\ page'.told = "hidden" /\ start = Nil => page'.visible = {page'.hash}
    <3>. DEFINE p == page'
                q == Started(start, asked)
                hash == Anchor(anchor, jar.hash)
                type == p.type
    <3>1. /\ p.kind = "volunteer" /\ p.user = s.user /\ p.start = start /\ p.asked = asked
          /\ p.hash = hash
          /\ type = IF asked # Nil THEN asked
                    ELSE IF VouType[s.user] = "both" THEN "chi" ELSE VouType[s.user]
          /\ p.visible = Show(Show({DefaultTab(type)}, q, type), hash, type)
          /\ p.active = Sections(type) \cap (IF hash # Nil THEN {hash}
                                   ELSE IF start = "em_start" THEN {}
                                   ELSE IF q # Nil THEN {q} ELSE {DefaultTab(type)})
          /\ p.told = IF ~ s.refused THEN "nothing"
                      ELSE IF {q, hash} \cap Sections(type) = {} THEN "shown" ELSE "hidden"
          /\ p.offered \subseteq Letters
          /\ DOMAIN p = {"kind", "user", "asked", "start", "type", "hash", "visible",
                         "active", "told", "offered"}
      BY <1>5 DEF VolunteerPage
    <3>2. type \in Types
      <4>1. VouType[s.user] \in Types \cup {"both"}
        BY <1>5, BrowserAssumption
      <4>. QED
        BY <3>1, <4>1 DEF Types
    <3>3. hash \in AllSections \cup {Nil}
      BY DEF Jars, Anchor
    <3>4. \E x \in Sections(type) : p.visible = {x}
      BY <3>1, SectionFacts DEF Show
    <3>5. p.active \subseteq p.visible
      BY <3>1, SectionFacts DEF Show
    <3>6. p.active # {} /\ (p.hash # Nil \/ start = Nil) =>
            p.visible = OpenAt(p)
      BY <3>1, SectionFacts DEF Show, OpenAt
    <3>7. start = Nil => p.visible = OpenAt(p)
      BY <3>1, SectionFacts DEF Show, OpenAt
    <3>8. p.told = "nothing" => ~ s.refused
      BY <3>1
    <3>9. p.told = "hidden" /\ start = Nil => p.visible = {p.hash}
      <4>1. Nil \notin Sections(type)
        BY SectionFacts
      <4>. QED
        BY <3>1, <4>1, SectionFacts DEF Show
    <3>10. p \in VolunteerPages
      <4>1. p.visible \subseteq AllSections /\ p.active \subseteq AllSections
        BY <3>4, <3>5, SectionFacts
      <4>2. p.told \in {"nothing", "shown", "hidden"}
        BY <3>1
      <4>. QED
        BY <1>5, <3>1, <3>2, <3>3, <4>1, <4>2 DEF VolunteerPages, VolunteerPage
    <3>. QED
      BY <3>1, <3>4, <3>5, <3>6, <3>7, <3>8, <3>9, <3>10
  <2>3. page'.hash \in AllSections \cup {Nil} /\ page'.told \in {"nothing", "shown", "hidden"}
    BY <2>2 DEF VolunteerPages
  <2>4. jar' \in Jars /\ jar'.hash = page'.hash
    BY <1>5, <2>3 DEF Jars
  <2>. QED
    BY <1>1, <1>2, <1>5, <2>1, <2>2, <2>3, <2>4
<1>. QED
  BY <1>1, <1>3, <1>4, <1>5 DEF OpensVolunteer

LEMMA EmployeeOpens ==
  ASSUME NEW s \in Sessions, jar \in Jars, CountsInv, EmployeeOpening(s)
  PROVE  /\ session' = s
         /\ jar' \in Jars
         /\ \/ page' = Login
            \/ page' = Away
            \/ /\ page' \in EmployeePages /\ page'.kind = "employee"
               /\ page'.user = s.user /\ page'.by = s.user
               /\ page'.msg = [l \in Letters |-> "nothing"]
               /\ page'.sure = [l \in Letters |-> FALSE]
               /\ jar'.counts # Nil => jar'.by = s.user
<1>1. PICK asked \in Types \cup {Nil}, status \in Statuses \cup {Nil}, start \in BOOLEAN :
         /\ \/ CountsSaved(asked, status, start)
            \/ page.kind = "employee" /\ s.user \in {page.user, Nil}
         /\ OpensEmployee(s, asked, status, start)
  BY DEF EmployeeOpening
<1>2. CASE s.user \notin Employees
  BY <1>1, <1>2 DEF OpensEmployee, OpensLogin
<1>3. CASE s.user \in Employees /\ Lost(s, s)
  BY <1>3 DEF Lost
<1>4. CASE /\ s.user \in Employees
           /\ session' = s
           /\ page' = EmployeePage(s.user, asked, status, start)
           /\ jar' = IF CountsSaved(asked, status, start)
                       THEN [jar EXCEPT !.counts = page'.shown, !.by = s.user]
                       ELSE jar
  <2>1. s.user # Nil
    BY <1>4, BrowserAssumption
  <2>2. ~ CountsSaved(asked, status, start) /\ jar.counts # Nil => jar.by = s.user
    BY <1>1, <2>1 DEF CountsInv
  <2>3. CountsRestored(asked, status, start) => jar.by = s.user
    BY <2>2 DEF CountsRestored
  <2>4. /\ page' \in EmployeePages
        /\ page'.kind = "employee" /\ page'.user = s.user /\ page'.by = s.user
        /\ page'.shown \in [Counted -> Nat]
        /\ page'.msg = [l \in Letters |-> "nothing"]
        /\ page'.sure = [l \in Letters |-> FALSE]
    <3>. DEFINE p == page'
                u == s.user
                type == IF asked = Nil THEN "eng" ELSE asked
    <3>1. \A st : WithStatus(u, type, st) \subseteq Letters
      BY DEF WithStatus
    <3>2. Tally(u, type) \in [Counted -> Nat]
      <4>. SUFFICES ASSUME NEW c \in Counted
                    PROVE  Tally(u, type)[c] \in Nat
        BY DEF Tally
      <4>. DEFINE S == UNION {WithStatus(u, type, st) : st \in IF c = "all" THEN Listed ELSE {c}}
      <4>1. S \subseteq Letters
        BY <3>1
      <4>2. IsFiniteSet(S)
        BY <4>1, BrowserAssumption, FS_Subset
      <4>3. Cardinality(S) \in Nat
        BY <4>2, FS_CardinalityType
      <4>4. Tally(u, type)[c] = Cardinality(S)
        BY DEF Tally
      <4>. QED
        BY <4>3, <4>4
    <3>3. /\ p.kind = "employee" /\ p.user = u /\ p.asked = asked /\ p.status = status
          /\ p.start = start
          /\ p.shown = [c \in Counted |->
                          IF CountsRestored(asked, status, start) /\ c \in Remembered
                            THEN jar.counts[c] ELSE Tally(u, type)[c]]
          /\ p.by = IF CountsRestored(asked, status, start) THEN jar.by ELSE u
          /\ p.rows = WithStatus(u, type, IF status \in Listed THEN status ELSE "unclaimed")
                        \cup WithStatus(u, type, "returned")
          /\ p.savable \subseteq p.rows
          /\ p.msg = [l \in Letters |-> "nothing"]
          /\ p.sent = [l \in Letters |-> Nil]
          /\ p.sure = [l \in Letters |-> FALSE]
      BY <1>4 DEF EmployeePage
    <3>4. p.shown \in [Counted -> Nat]
      <4>1. CountsRestored(asked, status, start) => jar.counts \in [Counted -> Nat]
        BY DEF CountsRestored, Jars
      <4>. QED
        BY <3>2, <3>3, <4>1
    <3>5. p.rows \subseteq Letters /\ p.savable \subseteq Letters
      BY <3>1, <3>3
    <3>6. p.by \in Employees
      BY <1>4, <2>3, <3>3
    <3>7. p \in EmployeePages
      BY <1>4, <3>3, <3>4, <3>5, <3>6 DEF EmployeePages, EmployeePage
    <3>. QED
      BY <1>4, <2>3, <3>3, <3>4, <3>7
  <2>5. jar' \in Jars /\ (jar'.counts # Nil => jar'.by = s.user)
    BY <1>4, <2>2, <2>4 DEF Jars
  <2>. QED
    BY <1>4, <2>4, <2>5
<1>. QED
  BY <1>1, <1>2, <1>3, <1>4 DEF OpensEmployee

\* Whoever is listened to no more.
LEMMA LeavesUnheard ==
  ASSUME saves \subseteq SaveRecord, Leaves
  PROVE  /\ saves' \subseteq SaveRecord /\ users' = users
         /\ \A x \in saves' : ~ x.heard /\ ~ x.handled
<1>. SUFFICES ASSUME NEW x \in saves'
              PROVE  x \in SaveRecord /\ ~ x.heard /\ ~ x.handled
  BY DEF Leaves
<1>1. PICK y \in saves : ~ y.handled /\ x = [y EXCEPT !.heard = FALSE]
  BY DEF Leaves
<1>. QED
  BY <1>1 DEF SaveRecord

LEMMA KindOfPage ==
  ASSUME page \in Pages
  PROVE  /\ page.kind = "volunteer" => page \in VolunteerPages
         /\ page.kind = "employee" => page \in EmployeePages
         /\ page.kind \in {"login", "away", "volunteer", "employee"}
BY DEF Pages, Login, Away, VolunteerPages, EmployeePages

LEMMA TypeFacts ==
  ASSUME TypeOK
  PROVE  /\ session \in Sessions /\ jar \in Jars /\ page \in Pages
         /\ session.user \in users \cup {Nil} /\ session.refused \in BOOLEAN
         /\ page.kind = "volunteer" => page \in VolunteerPages
         /\ page.kind = "employee" => page \in EmployeePages
         /\ page.kind \in {"login", "away", "volunteer", "employee"}
<1>1. session \in Sessions /\ jar \in Jars /\ page \in Pages
  BY DEF TypeOK, Sessions, Jars, Pages
<1>2. session.user \in users \cup {Nil} /\ session.refused \in BOOLEAN
  BY <1>1 DEF Sessions
<1>. QED
  BY <1>1, <1>2, KindOfPage

-----------------------------------------------------------------------------
(***************************************************************************)
(* Every step that opens a page is an OpenStep.                            *)
(***************************************************************************)
LEMMA LandingOpens ==
  ASSUME NEW s \in Sessions, Landing(s)
  PROVE  VolunteerOpening(s) \/ EmployeeOpening(s)
<1>1. CASE s.user \in Employees
  <2>1. OpensEmployee(s, Nil, Nil, FALSE) /\ CountsSaved(Nil, Nil, FALSE)
    BY <1>1 DEF Landing, CountsSaved
  <2>. QED
    BY <2>1 DEF EmployeeOpening
<1>2. CASE s.user \notin Employees
  BY <1>2 DEF Landing, VolunteerOpening
<1>. QED
  BY <1>1, <1>2

LEMMA LogInOpens ==
  ASSUME TypeOK, NEW u \in users, LogIn(u)
  PROVE  OpenStep
<1>. DEFINE si == [session EXCEPT !.user = u]
            so == [session EXCEPT !.user = Nil]
<1>1. /\ si \in Sessions /\ si.refused = session.refused
      /\ so \in Sessions /\ so.refused = session.refused
  BY TypeFacts DEF Sessions
<1>2. Leaves /\ letter' \in [Letters -> LetterRecord]
  BY DEF LogIn, TypeOK
<1>3. CASE Landing(si)
  BY <1>1, <1>2, <1>3, LandingOpens DEF OpenStep
<1>4. CASE OpensLogin(so)
  BY <1>1, <1>2, <1>4 DEF OpenStep
<1>. QED
  BY <1>3, <1>4 DEF LogIn

LEMMA LogOutOpens ==
  ASSUME TypeOK, LogOut
  PROVE  OpenStep
<1>. DEFINE so == [session EXCEPT !.user = Nil]
<1>1. so \in Sessions /\ so.refused = session.refused
  BY TypeFacts DEF Sessions
<1>2. Leaves /\ letter' \in [Letters -> LetterRecord] /\ OpensLogin(so)
  BY DEF LogOut, TypeOK
<1>. QED
  BY <1>1, <1>2 DEF OpenStep

LEMMA ComeBackOpens ==
  ASSUME TypeOK, ComeBack
  PROVE  OpenStep
<1>1. Leaves /\ letter' \in [Letters -> LetterRecord] /\ Landing(session)
  BY DEF ComeBack, TypeOK
<1>. QED
  BY <1>1, TypeFacts, LandingOpens DEF OpenStep

LEMMA FollowOnVolunteerOpens ==
  ASSUME TypeOK, TabsInv, FollowOnVolunteer
  PROVE  OpenStep
<1>1. Leaves /\ letter' \in [Letters -> LetterRecord]
  BY DEF FollowOnVolunteer, TypeOK
<1>2. page.kind = "volunteer" /\ page \in VolunteerPages /\ ~ session.refused
  BY TypeFacts DEF FollowOnVolunteer, TabsInv
<1>3. /\ page.type \in Types /\ page.asked \in Types \cup {Nil}
      /\ page.start \in Starts \cup {Nil} /\ page.hash \in AllSections \cup {Nil}
      /\ page.visible \subseteq AllSections
  BY <1>2 DEF VolunteerPages
<1>4. VolunteerOpening(session)
  <2>1. CASE \E s \in page.visible \cap TabsOf(page.type) :
               OpensVolunteer(session, page.type, StartOf(s), s)
    <3>1. PICK s \in page.visible \cap TabsOf(page.type) :
                 OpensVolunteer(session, page.type, StartOf(s), s)
      BY <2>1
    <3>2. StartOf(s) \in Starts \cup {Nil}
      BY DEF TabsOf, StartOf, Starts
    <3>3. s \in AllSections \cup {Nil}
      BY <1>3
    <3>. QED
      BY <1>2, <1>3, <3>1, <3>2, <3>3 DEF VolunteerOpening
  <2>2. CASE \E t \in Types : OpensVolunteer(session, t, Nil, Nil)
    BY <2>2 DEF VolunteerOpening
  <2>3. CASE OpensVolunteer(session, Nil, Nil, Nil)
    BY <2>3 DEF VolunteerOpening
  <2>4. CASE OpensVolunteer(session, page.asked, page.start, page.hash)
    BY <1>2, <1>3, <2>4 DEF VolunteerOpening
  <2>. QED
    BY <2>1, <2>2, <2>3, <2>4 DEF FollowOnVolunteer
<1>. QED
  BY <1>1, <1>4, TypeFacts DEF OpenStep

LEMMA ClaimOpens ==
  ASSUME TypeOK, NEW l \in Letters, Claim(l)
  PROVE  OpenStep
<1>. DEFINE taken == session.user \in Volunteers /\ Claimable(letter[l])
            s == [session EXCEPT !.refused = @ \/ (session.user \in Volunteers /\ ~ taken)]
<1>1. s \in Sessions /\ (session.refused => s.refused)
  BY TypeFacts DEF Sessions
<1>2. letter' \in [Letters -> LetterRecord]
  <2>1. letter[l] \in LetterRecord
    BY DEF TypeOK
  <2>2. [letter EXCEPT ![l].status = "claimed"] \in [Letters -> LetterRecord]
    <3>1. [letter[l] EXCEPT !.status = "claimed"] \in LetterRecord
      BY <2>1 DEF LetterRecord, Statuses
    <3>. QED
      BY <3>1 DEF TypeOK
  <2>. QED
    BY <2>2 DEF Claim, TypeOK
<1>3. Leaves /\ OpensVolunteer(s, Nil, Nil, Nil)
  BY DEF Claim
<1>4. VolunteerOpening(s)
  BY <1>3 DEF VolunteerOpening
<1>. QED
  BY <1>1, <1>2, <1>3, <1>4 DEF OpenStep

LEMMA SendFormOpens ==
  ASSUME TypeOK, SendForm
  PROVE  OpenStep
<1>1. Leaves /\ letter' \in [Letters -> LetterRecord]
  BY DEF SendForm, TypeOK
<1>2. VolunteerOpening(session)
  BY DEF SendForm, VolunteerOpening
<1>. QED
  BY <1>1, <1>2, TypeFacts DEF OpenStep

LEMMA EmployeeStays ==
  ASSUME TypeOK, SameSession, page.kind = "employee",
         NEW asked \in Types \cup {Nil}, NEW status \in Statuses \cup {Nil},
         NEW start \in BOOLEAN, OpensEmployee(session, asked, status, start)
  PROVE  EmployeeOpening(session)
<1>1. session.user \in {page.user, Nil}
  BY DEF SameSession
<1>. QED
  BY <1>1 DEF EmployeeOpening

LEMMA FollowOnEmployeeOpens ==
  ASSUME TypeOK, SameSession, FollowOnEmployee
  PROVE  OpenStep
<1>1. Leaves /\ letter' \in [Letters -> LetterRecord]
  BY DEF FollowOnEmployee, TypeOK
<1>2. page.kind = "employee" /\ page \in EmployeePages
  BY TypeFacts DEF FollowOnEmployee
<1>3. /\ page.asked \in Types \cup {Nil} /\ page.status \in Statuses \cup {Nil}
      /\ page.start \in BOOLEAN
  BY <1>2 DEF EmployeePages
<1>4. EmployeeOpening(session)
  <2>. DEFINE type == IF page.asked = Nil THEN "eng" ELSE page.asked
  <2>1. type \in Types \cup {Nil} /\ (IF type = "chi" THEN type ELSE Nil) \in Types \cup {Nil}
    BY <1>3 DEF Types
  <2>2. CASE OpensEmployee(session, Nil, Nil, FALSE)
    BY <1>2, <2>2, EmployeeStays
  <2>3. CASE \E t \in Types : OpensEmployee(session, t, Nil, FALSE)
    BY <1>2, <2>3, EmployeeStays
  <2>4. CASE \E st \in Statuses : OpensEmployee(session, type, st, FALSE)
    BY <1>2, <2>1, <2>4, EmployeeStays
  <2>5. CASE OpensEmployee(session, IF type = "chi" THEN type ELSE Nil, page.status, TRUE)
    BY <1>2, <1>3, <2>1, <2>5, EmployeeStays
  <2>6. CASE OpensEmployee(session, page.asked, page.status, page.start)
    BY <1>2, <1>3, <2>6, EmployeeStays
  <2>. QED
    BY <2>2, <2>3, <2>4, <2>5, <2>6 DEF FollowOnEmployee
<1>. QED
  BY <1>1, <1>4, TypeFacts DEF OpenStep

LEMMA UploadOpens ==
  ASSUME TypeOK, SameSession, NEW l \in Letters, Upload(l)
  PROVE  OpenStep
<1>1. New \in LetterRecord
  BY DEF New, LetterRecord, Statuses
<1>2. letter' \in [Letters -> LetterRecord]
  BY <1>1 DEF Upload, TypeOK
<1>3. EmployeeOpening(session) /\ Leaves
  BY EmployeeStays DEF Upload
<1>. QED
  BY <1>2, <1>3, TypeFacts DEF OpenStep

LEMMA DeleteTyped ==
  ASSUME TypeOK, NEW S \in SUBSET Letters, DeleteChecked(S)
  PROVE  letter' \in [Letters -> LetterRecord]
<1>. SUFFICES ASSUME NEW l \in Letters
              PROVE  letter'[l] \in LetterRecord
  BY DEF DeleteChecked
<1>1. letter[l] \in LetterRecord
  BY DEF TypeOK
<1>2. [letter[l] EXCEPT !.deleted = TRUE, !.show = FALSE] \in LetterRecord
  BY <1>1 DEF LetterRecord
<1>. QED
  BY <1>1, <1>2 DEF DeleteChecked

LEMMA DeleteOpens ==
  ASSUME TypeOK, SameSession, NEW S \in SUBSET Letters, DeleteChecked(S),
         OpensEmployee(session, page.asked, page.status, page.start), Leaves
  PROVE  OpenStep
<1>1. page.kind = "employee" /\ page \in EmployeePages
  BY TypeFacts DEF DeleteChecked
<1>2. /\ page.asked \in Types \cup {Nil} /\ page.status \in Statuses \cup {Nil}
      /\ page.start \in BOOLEAN
  BY <1>1 DEF EmployeePages
<1>3. EmployeeOpening(session)
  BY <1>1, <1>2, EmployeeStays
<1>. QED
  BY <1>3, DeleteTyped, TypeFacts DEF OpenStep

-----------------------------------------------------------------------------
(***************************************************************************)
(* Every step keeps the invariant.                                         *)
(***************************************************************************)
LEMMA OpenKeeps ==
  ASSUME BrowserInv, OpenStep
  PROVE  BrowserInv'
<1>1. /\ saves' \subseteq SaveRecord /\ users' = users
      /\ \A x \in saves' : ~ x.heard /\ ~ x.handled
  BY LeavesUnheard DEF BrowserInv, TypeOK, OpenStep
<1>2. PICK s \in Sessions : /\ session.refused => s.refused
                            /\ VolunteerOpening(s) \/ EmployeeOpening(s) \/ OpensLogin(s)
  BY DEF OpenStep
<1>3. jar \in Jars /\ CountsInv /\ users \in Households
  BY TypeFacts DEF BrowserInv, TypeOK
<1>4. s.user \in users \cup {Nil}
  BY DEF Sessions
<1>5. Nil \notin Volunteers /\ Nil \notin Employees
  BY BrowserAssumption
<1>6. ASSUME session' \in Sessions, jar' \in Jars, page' \in Pages,
             page'.kind # "employee" \/ page'.msg = [l \in Letters |-> "nothing"]
      PROVE  TypeOK'
  BY <1>1, <1>3, <1>6 DEF OpenStep, TypeOK, Sessions, Jars, Pages
<1>7. CASE VolunteerOpening(s)
  <2>1. /\ session' \in Sessions /\ session'.user = s.user
        /\ jar' \in Jars
        /\ \/ page' = Login
           \/ page' = Away
           \/ /\ page' \in VolunteerPages /\ page'.kind = "volunteer"
              /\ page'.user = s.user /\ page'.hash = jar'.hash
              /\ ~ session'.refused
              /\ \E x \in Sections(page'.type) : page'.visible = {x}
              /\ page'.active \subseteq page'.visible
              /\ page'.active # {} /\ (page'.hash # Nil \/ page'.start = Nil) =>
                   page'.visible = OpenAt(page')
    BY <1>3, <1>7, VolunteerOpens
  <2>2. page'.kind # "employee" /\ page' \in Pages
    BY <2>1 DEF Login, Away, Pages
  <2>3. TypeOK'
    BY <1>6, <2>1, <2>2
  <2>4. SameSession'
    BY <2>1 DEF SameSession, Login, Away
  <2>5. TabsInv'
    <3>1. OpenAt(page)' = OpenAt(page')
      BY DEF OpenAt
    <3>. QED
      BY <2>1, <3>1 DEF TabsInv, Login, Away
  <2>6. OneTabOpen'
    BY <2>1 DEF OneTabOpen, Login, Away
  <2>7. CountsInv' /\ CountsAreOwn' /\ SavesInv'
    BY <2>2 DEF CountsInv, CountsAreOwn, SavesInv
  <2>. QED
    BY <2>3, <2>4, <2>5, <2>6, <2>7 DEF BrowserInv
<1>8. CASE EmployeeOpening(s)
  <2>1. /\ session' = s
        /\ jar' \in Jars
        /\ \/ page' = Login
           \/ page' = Away
           \/ /\ page' \in EmployeePages /\ page'.kind = "employee"
              /\ page'.user = s.user /\ page'.by = s.user
              /\ page'.msg = [l \in Letters |-> "nothing"]
              /\ page'.sure = [l \in Letters |-> FALSE]
              /\ jar'.counts # Nil => jar'.by = s.user
    BY <1>3, <1>8, EmployeeOpens
  <2>2. page'.kind # "volunteer" /\ page' \in Pages
    BY <2>1 DEF Login, Away, Pages
  <2>3. TypeOK'
    BY <1>6, <2>1, <2>2 DEF Login, Away
  <2>4. SameSession' /\ CountsInv' /\ CountsAreOwn'
    BY <2>1 DEF SameSession, CountsInv, CountsAreOwn, Login, Away
  <2>5. TabsInv' /\ OneTabOpen'
    BY <2>2 DEF TabsInv, OneTabOpen
  <2>6. SavesInv'
    <3>1. page'.kind = "employee" => page'.user \in users'
      BY <1>1, <1>4, <1>5, <2>1 DEF EmployeePages, Login, Away
    <3>. QED
      BY <2>1, <3>1 DEF SavesInv, Login, Away
  <2>. QED
    BY <2>3, <2>4, <2>5, <2>6 DEF BrowserInv
<1>9. CASE OpensLogin(s)
  <2>1. session' = s /\ page' = Login /\ jar' = jar
    BY <1>9 DEF OpensLogin
  <2>2. page'.kind = "login" /\ page' \in Pages
    BY <2>1 DEF Login, Pages
  <2>3. TypeOK'
    BY <1>3, <1>6, <2>1, <2>2
  <2>. QED
    BY <2>2, <2>3 DEF BrowserInv, SameSession, TabsInv, OneTabOpen, CountsInv, CountsAreOwn,
                      SavesInv
<1>. QED
  BY <1>2, <1>7, <1>8, <1>9

\* Others leave what is stored, and the owner's own steps go through this
\* window.
LEMMA ElsewhereKeeps ==
  ASSUME BrowserInv, NEW l \in Letters, Elsewhere(l)
  PROVE  BrowserInv'
<1>1. UNCHANGED <<users, session, jar, page, saves>>
  BY DEF Elsewhere
<1>2. letter[l] \in LetterRecord
  BY DEF BrowserInv, TypeOK
<1>3. PICK r \in ByOthers(letter[l]) \cup
                 (IF Owner[l] \in users THEN {} ELSE ByOwner(letter[l])) :
             letter' = [letter EXCEPT ![l] = r]
  BY DEF Elsewhere
<1>4. r \in ByOthers(letter[l]) =>
        /\ r \in LetterRecord
        /\ r.note = letter[l].note
        /\ letter[l].show \/ letter[l].deleted => r.show \/ r.deleted
  <2>. SUFFICES ASSUME r \in ByOthers(letter[l])
                PROVE  /\ r \in LetterRecord
                       /\ r.note = letter[l].note
                       /\ letter[l].show \/ letter[l].deleted => r.show \/ r.deleted
    OBVIOUS
  <2>. DEFINE old == letter[l]
  <2>1. \/ r = [old EXCEPT !.status = "claimed"]
        \/ r = [old EXCEPT !.status = "emergent"]
        \/ r = [old EXCEPT !.status = "returned"]
        \/ r = [old EXCEPT !.status = "emergent", !.show = TRUE]
    BY Zenon DEF ByOthers
  <2>2. old.show \in BOOLEAN
    BY <1>2 DEF LetterRecord
  <2>. QED
    BY <1>2, <2>1, <2>2 DEF LetterRecord, Statuses
<1>5. r \in ByOwner(letter[l]) => r \in LetterRecord
  <2>1. New \in LetterRecord
    BY DEF New, LetterRecord, Statuses
  <2>2. /\ [letter[l] EXCEPT !.show = TRUE] \in LetterRecord
        /\ [letter[l] EXCEPT !.deleted = TRUE, !.show = FALSE] \in LetterRecord
    BY <1>2 DEF LetterRecord
  <2>3. ByOwner(letter[l]) \subseteq
          {New, [letter[l] EXCEPT !.show = TRUE], [letter[l] EXCEPT !.deleted = TRUE, !.show = FALSE]}
    BY DEF ByOwner
  <2>. QED
    BY <2>1, <2>2, <2>3
<1>6. letter' \in [Letters -> LetterRecord]
  BY <1>3, <1>4, <1>5 DEF BrowserInv, TypeOK
<1>7. TypeOK'
  BY <1>1, <1>6 DEF BrowserInv, TypeOK
<1>8. SavesInv'
  <2>1. ASSUME page.kind = "employee", NEW k \in Letters, Owner[k] = page.user, Stored(k)
        PROVE  Stored(k)'
    <3>1. CASE k = l
      <4>1. Owner[l] \in users
        BY <2>1, <3>1 DEF BrowserInv, SavesInv
      <4>2. r \in ByOthers(letter[l])
        BY <1>3, <4>1
      <4>3. letter'[k] = r
        BY <1>3, <3>1 DEF BrowserInv, TypeOK
      <4>. QED
        BY <1>1, <1>4, <2>1, <3>1, <4>2, <4>3 DEF Stored
    <3>2. CASE k # l
      BY <1>1, <1>3, <2>1, <3>2 DEF Stored, BrowserInv, TypeOK
    <3>. QED
      BY <3>1, <3>2
  <2>. QED
    BY <1>1, <2>1 DEF BrowserInv, SavesInv
<1>. QED
  BY <1>1, <1>7, <1>8 DEF BrowserInv, SameSession, TabsInv, OpenAt, OneTabOpen, CountsInv,
                          CountsAreOwn

LEMMA LogOutElsewhereKeeps ==
  ASSUME BrowserInv, LogOutElsewhere
  PROVE  BrowserInv'
<1>. DEFINE surer == [l \in Letters |-> page.sure[l] /\ \A x \in saves : x.letter # l]
<1>1. /\ session' = [session EXCEPT !.user = Nil]
      /\ UNCHANGED <<users, letter, jar, saves>>
      /\ page.kind # "employee" => page' = page
      /\ page.kind = "employee" => page' = [page EXCEPT !.sure = surer]
  BY DEF LogOutElsewhere
<1>2. /\ session \in Sessions /\ page \in Pages
      /\ page.kind = "employee" => page \in EmployeePages
  BY TypeFacts DEF BrowserInv
<1>3. session' \in Sessions /\ session'.user = Nil /\ session'.refused = session.refused
  BY <1>1, <1>2 DEF Sessions
<1>4. surer \in [Letters -> BOOLEAN]
  OBVIOUS
<1>5. page.kind = "employee" =>
        /\ page' \in EmployeePages
        /\ page'.kind = "employee" /\ page'.user = page.user /\ page'.by = page.by
        /\ page'.msg = page.msg /\ page'.sent = page.sent /\ page'.sure = surer
  BY <1>1, <1>2, <1>4 DEF EmployeePages
<1>6. TypeOK'
  <2>1. page' \in Pages /\ page'.kind = page.kind
        /\ (page.kind = "employee" => page'.msg = page.msg)
    BY <1>1, <1>2, <1>5 DEF Pages
  <2>. QED
    BY <1>1, <1>3, <2>1 DEF BrowserInv, TypeOK, Sessions, Pages
<1>7. SameSession'
  BY <1>1, <1>3, <1>5 DEF SameSession
<1>8. TabsInv' /\ OneTabOpen'
  BY <1>1, <1>3, <1>5 DEF BrowserInv, TabsInv, OpenAt, OneTabOpen
<1>9. CountsInv' /\ CountsAreOwn'
  BY <1>1, <1>5 DEF BrowserInv, CountsInv, CountsAreOwn
<1>10. SavesInv'
  <2>. SUFFICES ASSUME page'.kind = "employee"
                PROVE  /\ page'.user \in users'
                       /\ \A l \in Letters :
                            page'.sure[l] /\ Owner[l] = page'.user =>
                              /\ page'.msg[l] = "done" => Stored(l)'
                              /\ \A x \in saves' : x.letter # l
    BY DEF SavesInv
  <2>1. page.kind = "employee"
    BY <1>1
  <2>2. \A l \in Letters : Stored(l) => Stored(l)'
    BY <1>1, <1>5, <2>1 DEF Stored
  <2>. QED
    BY <1>1, <1>5, <2>1, <2>2 DEF BrowserInv, SavesInv
<1>. QED
  BY <1>6, <1>7, <1>8, <1>9, <1>10 DEF BrowserInv

LEMMA GoAwayKeeps ==
  ASSUME BrowserInv, GoAway
  PROVE  BrowserInv'
<1>1. /\ saves' \subseteq SaveRecord /\ users' = users
      /\ \A x \in saves' : ~ x.heard /\ ~ x.handled
  BY LeavesUnheard DEF BrowserInv, TypeOK, GoAway
<1>2. page'.kind = "away" /\ page' \in Pages /\ UNCHANGED <<letter, session, jar>>
  BY DEF GoAway, Away, Pages
<1>3. TypeOK'
  BY <1>1, <1>2 DEF BrowserInv, TypeOK, Pages
<1>. QED
  BY <1>2, <1>3 DEF BrowserInv, SameSession, TabsInv, OneTabOpen, CountsInv, CountsAreOwn,
                    SavesInv

LEMMA ClickTabKeeps ==
  ASSUME BrowserInv, NEW s \in AllSections, ClickTab(s)
  PROVE  BrowserInv'
<1>1. /\ page \in VolunteerPages /\ page.kind = "volunteer" /\ s \in Sections(page.type)
      /\ session \in Sessions /\ jar \in Jars
  BY TypeFacts DEF ClickTab, BrowserInv
<1>2. page.visible \subseteq AllSections
  BY <1>1 DEF VolunteerPages
<1>3. Show(page.visible, s, page.type) = {s}
  BY <1>1 DEF Show
<1>4. /\ page' = [page EXCEPT !.active = {s}, !.visible = {s}, !.hash = s,
                              !.told = IF @ = "nothing" THEN @ ELSE "hidden"]
      /\ jar' = [jar EXCEPT !.hash = s]
      /\ UNCHANGED <<users, letter, session, saves>>
  BY <1>3 DEF ClickTab
<1>5. /\ page' \in VolunteerPages
      /\ page'.kind = "volunteer" /\ page'.user = page.user /\ page'.type = page.type
      /\ page'.active = {s} /\ page'.visible = {s} /\ page'.hash = s
  BY <1>1, <1>4 DEF VolunteerPages
<1>6. jar' \in Jars /\ jar'.hash = s
  BY <1>1, <1>4 DEF Jars
<1>7. TypeOK'
  <2>1. page' \in Pages
    BY <1>5 DEF Pages
  <2>. QED
    BY <1>1, <1>4, <1>5, <1>6, <2>1 DEF BrowserInv, TypeOK, Jars, Pages
<1>8. OneTabOpen'
  BY <1>1, <1>5 DEF OneTabOpen
<1>9. TabsInv'
  BY <1>1, <1>4, <1>5, <1>6 DEF BrowserInv, TabsInv, OpenAt, Show
<1>. QED
  BY <1>1, <1>4, <1>5, <1>7, <1>8, <1>9
     DEF BrowserInv, SameSession, CountsInv, CountsAreOwn, SavesInv

LEMMA ClickLinkKeeps ==
  ASSUME BrowserInv, ClickLink
  PROVE  BrowserInv'
<1>1. /\ page \in VolunteerPages /\ page.kind = "volunteer"
      /\ session \in Sessions /\ jar \in Jars
  BY TypeFacts DEF ClickLink, BrowserInv
<1>2. PICK h \in {page.hash, Nil} :
        /\ page' = [page EXCEPT !.active = {"link"}, !.hash = h]
        /\ jar' = [jar EXCEPT !.hash = h]
        /\ UNCHANGED <<users, letter, session, saves>>
  <2>1. CASE /\ page' = [page EXCEPT !.active = {"link"}, !.hash = Nil]
             /\ jar' = [jar EXCEPT !.hash = Nil]
    BY <2>1 DEF ClickLink
  <2>2. CASE page' = [page EXCEPT !.active = {"link"}] /\ UNCHANGED jar
    <3>1. page' = [page EXCEPT !.active = {"link"}, !.hash = page.hash]
      BY <1>1, <2>2 DEF VolunteerPages
    <3>2. page.hash = jar.hash
      BY <1>1 DEF BrowserInv, TabsInv
    <3>3. jar' = [jar EXCEPT !.hash = page.hash]
      BY <1>1, <2>2, <3>2 DEF Jars
    <3>. QED
      BY <3>1, <3>3 DEF ClickLink
  <2>. QED
    BY <2>1, <2>2 DEF ClickLink
<1>3. /\ page' \in VolunteerPages
      /\ page'.kind = "volunteer" /\ page'.user = page.user /\ page'.type = page.type
      /\ page'.active = {"link"} /\ page'.visible = page.visible /\ page'.hash = h
  BY <1>1, <1>2 DEF VolunteerPages
<1>4. jar' \in Jars /\ jar'.hash = h
  BY <1>1, <1>2 DEF Jars, VolunteerPages
<1>5. TypeOK'
  <2>1. page' \in Pages
    BY <1>3 DEF Pages
  <2>. QED
    BY <1>1, <1>2, <1>3, <1>4, <2>1 DEF BrowserInv, TypeOK, Jars, Pages
<1>6. page'.active \cap AllSections = {}
  BY <1>3, SectionFacts
<1>7. OneTabOpen'
  BY <1>1, <1>3, <1>6 DEF BrowserInv, OneTabOpen
<1>8. TabsInv'
  BY <1>1, <1>2, <1>3, <1>4, <1>6 DEF BrowserInv, TabsInv
<1>. QED
  BY <1>1, <1>2, <1>3, <1>5, <1>7, <1>8
     DEF BrowserInv, SameSession, CountsInv, CountsAreOwn, SavesInv

\* A letter deleted by its owner keeps what is written in it.
LEMMA DeleteKeeps ==
  ASSUME BrowserInv, NEW S \in SUBSET Letters, DeleteChecked(S),
         UNCHANGED <<users, session, jar, page, saves>>
  PROVE  BrowserInv'
<1>1. letter' \in [Letters -> LetterRecord]
  BY DeleteTyped DEF BrowserInv
<1>2. TypeOK'
  BY <1>1 DEF BrowserInv, TypeOK
<1>3. ASSUME NEW l \in Letters, Stored(l)
      PROVE  Stored(l)'
  <2>1. letter[l] \in LetterRecord
    BY DEF BrowserInv, TypeOK
  <2>2. \/ letter'[l] = letter[l]
        \/ letter'[l] = [letter[l] EXCEPT !.deleted = TRUE, !.show = FALSE]
    BY DEF DeleteChecked
  <2>. QED
    BY <1>3, <2>1, <2>2 DEF Stored, LetterRecord
<1>4. SavesInv'
  BY <1>3 DEF BrowserInv, SavesInv
<1>. QED
  BY <1>2, <1>4 DEF BrowserInv, SameSession, TabsInv, OpenAt, OneTabOpen, CountsInv,
                    CountsAreOwn

\* A step that changes nothing on the employee's page but what is reported of
\* its saves, and leaves session and cookies.
LEMMA ReportKeeps ==
  ASSUME BrowserInv, TypeOK', SavesInv', UNCHANGED <<users, session, jar>>,
         page'.kind = page.kind,
         page.kind # "employee" => page' = page,
         page.kind = "employee" => page'.user = page.user /\ page'.by = page.by
  PROVE  BrowserInv'
BY DEF BrowserInv, SameSession, TabsInv, OpenAt, OneTabOpen, CountsInv, CountsAreOwn

LEMMA SaveKeeps ==
  ASSUME BrowserInv, NEW l \in Letters, NEW n \in Notes, Save(l, n)
  PROVE  BrowserInv'
<1>. DEFINE x == [letter |-> l, note |-> n, handled |-> FALSE, heard |-> TRUE]
            sure == session.user = page.user /\ \A y \in saves : y.letter # l
<1>1. /\ page.kind = "employee" /\ page \in EmployeePages
      /\ saves' = saves \cup {x}
      /\ page' = [page EXCEPT !.msg[l] = "sent", !.sent[l] = n, !.sure[l] = sure]
      /\ UNCHANGED <<users, letter, session, jar>>
  BY TypeFacts DEF Save, BrowserInv
<1>2. /\ page' \in EmployeePages /\ page'.kind = "employee"
      /\ page'.user = page.user /\ page'.by = page.by
      /\ page'.msg = [page.msg EXCEPT ![l] = "sent"]
      /\ page'.sent = [page.sent EXCEPT ![l] = n]
      /\ page'.sure = [page.sure EXCEPT ![l] = sure]
  <2>1. sure \in BOOLEAN
    OBVIOUS
  <2>. HIDE DEF sure
  <2>. QED
    BY <1>1, <2>1 DEF EmployeePages
<1>3. TypeOK'
  <2>1. page' \in Pages /\ x \in SaveRecord
    BY <1>2 DEF Pages, SaveRecord
  <2>2. page.msg \in [Letters -> {"nothing", "sent", "done", "failed"}]
    BY <1>1 DEF EmployeePages
  <2>3. /\ x.handled => x.heard
        /\ page'.msg[x.letter] # "nothing"
    BY <1>2, <2>2
  <2>4. ASSUME NEW y \in saves
        PROVE  /\ y.handled => y.heard
               /\ y.heard => page'.kind = "employee" /\ page'.msg[y.letter] # "nothing"
    BY <1>2, <2>2 DEF BrowserInv, TypeOK, SaveRecord
  <2>. HIDE DEF x
  <2>. QED
    BY <1>1, <1>2, <2>1, <2>3, <2>4 DEF BrowserInv, TypeOK, Pages
<1>4. SavesInv'
  <2>. SUFFICES ASSUME NEW k \in Letters, page'.sure[k], Owner[k] = page'.user
                PROVE  /\ page'.msg[k] = "done" => Stored(k)'
                       /\ \A y \in saves' : y.letter = k =>
                            /\ y.note = page'.sent[k]
                            /\ y.handled => Stored(k)'
                            /\ ~ y.handled => session'.user = page'.user
    <3>1. page'.user \in users'
      BY <1>1, <1>2 DEF BrowserInv, SavesInv
    <3>. QED
      BY <3>1 DEF SavesInv
  <2>1. /\ page.msg \in [Letters -> {"nothing", "sent", "done", "failed"}]
        /\ page.sent \in [Letters -> Notes \cup {Nil}]
        /\ page.sure \in [Letters -> BOOLEAN]
    BY <1>1 DEF EmployeePages
  <2>2. CASE k = l
    <3>1. page'.msg[k] = "sent" /\ page'.sent[k] = n /\ sure
      <4>1. page'.msg[k] = "sent" /\ page'.sent[k] = n
        BY <1>2, <2>1, <2>2
      <4>2. page'.sure[k] = sure
        BY Zenon, <1>2, <2>1, <2>2
      <4>. QED
        BY <4>1, <4>2
    <3>2. \A y \in saves' : y.letter = k => y = x
      BY <1>1, <2>2, <3>1
    <3>. QED
      BY <1>1, <1>2, <3>1, <3>2
  <2>3. CASE k # l
    <3>1. page'.msg[k] = page.msg[k] /\ page'.sent[k] = page.sent[k] /\ page.sure[k]
      BY <1>2, <2>1, <2>3
    <3>2. Stored(k)' <=> Stored(k)
      BY <1>1, <3>1 DEF Stored
    <3>3. \A y \in saves' : y.letter = k => y \in saves
      BY <1>1, <2>3
    <3>. QED
      BY <1>1, <1>2, <3>1, <3>2, <3>3 DEF BrowserInv, SavesInv
  <2>. QED
    BY <2>2, <2>3
<1>. QED
  BY <1>1, <1>2, <1>3, <1>4, ReportKeeps

\* The server's answer to a save: the owner's is in the letter.
LEMMA HandleSaveKeeps ==
  ASSUME BrowserInv, NEW x \in saves, HandleSave(x)
  PROVE  BrowserInv'
<1>. DEFINE done == [x EXCEPT !.handled = TRUE]
<1>1. /\ ~ x.handled /\ x \in SaveRecord
      /\ saves' = (saves \ {x}) \cup (IF x.heard THEN {done} ELSE {})
      /\ UNCHANGED <<users, session, jar, page>>
  BY DEF HandleSave, BrowserInv, TypeOK
<1>2. letter[x.letter] \in LetterRecord /\ x.letter \in Letters /\ x.note \in Notes
  BY <1>1 DEF SaveRecord, BrowserInv, TypeOK
<1>3. \/ session.user # Owner[x.letter] /\ letter' = letter
      \/ /\ session.user = Owner[x.letter]
         /\ letter' = [letter EXCEPT ![x.letter] = Saved(letter[x.letter], x.note)]
  BY DEF HandleSave
<1>4. /\ Saved(letter[x.letter], x.note) \in LetterRecord
      /\ Saved(letter[x.letter], x.note).note = x.note
      /\ Saved(letter[x.letter], x.note).show
  BY <1>2 DEF Saved, LetterRecord
<1>5. letter' \in [Letters -> LetterRecord]
  BY <1>3, <1>4 DEF BrowserInv, TypeOK
<1>6. /\ done \in SaveRecord /\ done.letter = x.letter /\ done.note = x.note
      /\ done.handled /\ done.heard = x.heard
  BY <1>1 DEF SaveRecord
<1>7. \A y \in saves' : y \in saves \/ (y = done /\ x.heard)
  BY <1>1
<1>. HIDE DEF done
<1>8. TypeOK'
  BY <1>1, <1>5, <1>6, <1>7 DEF BrowserInv, TypeOK, Pages
<1>9. SavesInv'
  <2>. SUFFICES ASSUME page.kind = "employee",
                       NEW k \in Letters, page.sure[k], Owner[k] = page.user
                PROVE  /\ page.msg[k] = "done" => Stored(k)'
                       /\ \A y \in saves' : y.letter = k =>
                            /\ y.note = page.sent[k]
                            /\ y.handled => Stored(k)'
                            /\ ~ y.handled => session.user = page.user
    BY <1>1 DEF BrowserInv, SavesInv
  <2>1. /\ page.msg[k] = "done" => Stored(k)
        /\ \A y \in saves : y.letter = k =>
             /\ y.note = page.sent[k]
             /\ y.handled => Stored(k)
             /\ ~ y.handled => session.user = page.user
    BY DEF BrowserInv, SavesInv
  <2>2. CASE x.letter = k
    <3>1. x.note = page.sent[k] /\ session.user = Owner[k]
      BY <1>1, <2>1, <2>2
    <3>2. letter'[k] = Saved(letter[x.letter], x.note)
      BY <1>3, <2>2, <3>1 DEF BrowserInv, TypeOK
    <3>3. Stored(k)'
      BY <1>1, <1>4, <3>1, <3>2 DEF Stored
    <3>. QED
      BY <1>6, <1>7, <2>1, <3>1, <3>3
  <2>3. CASE x.letter # k
    <3>1. Stored(k) => Stored(k)'
      BY <1>1, <1>3, <2>3 DEF Stored, BrowserInv, TypeOK
    <3>2. \A y \in saves' : y.letter = k => y \in saves
      BY <1>6, <1>7, <2>3
    <3>. QED
      BY <2>1, <3>1, <3>2
  <2>. QED
    BY <2>2, <2>3
<1>. QED
  BY <1>1, <1>8, <1>9, ReportKeeps

LEMMA AnswerSaveKeeps ==
  ASSUME BrowserInv, NEW x \in saves, AnswerSave(x)
  PROVE  BrowserInv'
<1>1. /\ x.handled /\ x \in SaveRecord
      /\ saves' = saves \ {x}
      /\ page' = [page EXCEPT !.msg[x.letter] = "done"]
      /\ UNCHANGED <<users, letter, session, jar>>
  BY DEF AnswerSave, BrowserInv, TypeOK
<1>2. x.letter \in Letters
  BY <1>1 DEF SaveRecord
<1>3. page.kind = "employee" /\ page \in EmployeePages
  BY <1>1, TypeFacts DEF BrowserInv, TypeOK
<1>4. /\ page' \in EmployeePages /\ page'.kind = "employee"
      /\ page'.user = page.user /\ page'.by = page.by
      /\ page'.msg = [page.msg EXCEPT ![x.letter] = "done"]
      /\ page'.sent = page.sent /\ page'.sure = page.sure
  BY <1>1, <1>3 DEF EmployeePages
<1>5. page.msg \in [Letters -> {"nothing", "sent", "done", "failed"}]
  BY <1>3 DEF EmployeePages
<1>6. TypeOK'
  <2>1. page' \in Pages
    BY <1>4 DEF Pages
  <2>2. ASSUME NEW y \in saves
        PROVE  /\ y.handled => y.heard
               /\ y.heard => page'.kind = "employee" /\ page'.msg[y.letter] # "nothing"
    BY <1>4, <1>5 DEF BrowserInv, TypeOK, SaveRecord
  <2>. QED
    BY <1>1, <1>4, <2>1, <2>2 DEF BrowserInv, TypeOK, Pages
<1>7. SavesInv'
  <2>1. \A k \in Letters : Stored(k)' <=> Stored(k)
    BY <1>1, <1>4 DEF Stored
  <2>2. \A k \in Letters : page'.msg[k] = "done" => page.msg[k] = "done" \/ k = x.letter
    BY <1>4, <1>5
  <2>. QED
    BY <1>1, <1>2, <1>3, <1>4, <2>1, <2>2 DEF BrowserInv, SavesInv
<1>. QED
  BY <1>1, <1>3, <1>4, <1>6, <1>7, ReportKeeps

LEMMA FailSaveKeeps ==
  ASSUME BrowserInv, NEW x \in saves, FailSave(x)
  PROVE  BrowserInv'
<1>. DEFINE deaf == [x EXCEPT !.heard = FALSE]
<1>1. /\ x.heard /\ x \in SaveRecord
      /\ \/ saves' = saves \ {x}
         \/ ~ x.handled /\ saves' = (saves \ {x}) \cup {deaf}
      /\ page' = [page EXCEPT !.msg[x.letter] = "failed"]
      /\ UNCHANGED <<users, letter, session, jar>>
  BY DEF FailSave, BrowserInv, TypeOK
<1>2. x.letter \in Letters
  BY <1>1 DEF SaveRecord
<1>3. page.kind = "employee" /\ page \in EmployeePages
  BY <1>1, TypeFacts DEF BrowserInv, TypeOK
<1>4. /\ page' \in EmployeePages /\ page'.kind = "employee"
      /\ page'.user = page.user /\ page'.by = page.by
      /\ page'.msg = [page.msg EXCEPT ![x.letter] = "failed"]
      /\ page'.sent = page.sent /\ page'.sure = page.sure
  BY <1>1, <1>3 DEF EmployeePages
<1>5. page.msg \in [Letters -> {"nothing", "sent", "done", "failed"}]
  BY <1>3 DEF EmployeePages
<1>6. /\ deaf \in SaveRecord /\ deaf.letter = x.letter /\ deaf.note = x.note
      /\ deaf.handled = x.handled /\ ~ deaf.heard
  BY <1>1 DEF SaveRecord
<1>7. \A y \in saves' : y \in saves \/ (y = deaf /\ ~ x.handled)
  BY <1>1
<1>. HIDE DEF deaf
<1>8. TypeOK'
  <2>1. page' \in Pages
    BY <1>4 DEF Pages
  <2>2. ASSUME NEW y \in saves
        PROVE  /\ y \in SaveRecord
               /\ y.handled => y.heard
               /\ y.heard => page'.kind = "employee" /\ page'.msg[y.letter] # "nothing"
    BY <1>4, <1>5 DEF BrowserInv, TypeOK, SaveRecord
  <2>3. \A y \in saves' :
          /\ y \in SaveRecord
          /\ y.handled => y.heard
          /\ y.heard => page'.kind = "employee" /\ page'.msg[y.letter] # "nothing"
    BY <1>6, <1>7, <2>2
  <2>. QED
    BY <1>1, <1>4, <2>1, <2>3 DEF BrowserInv, TypeOK, Pages
<1>9. SavesInv'
  <2>1. \A k \in Letters : Stored(k)' <=> Stored(k)
    BY <1>1, <1>4 DEF Stored
  <2>2. \A k \in Letters : page'.msg[k] = "done" => page.msg[k] = "done"
    BY <1>4, <1>5
  <2>. QED
    BY <1>1, <1>3, <1>4, <1>6, <1>7, <2>1, <2>2 DEF BrowserInv, SavesInv
<1>. QED
  BY <1>1, <1>3, <1>4, <1>8, <1>9, ReportKeeps

LEMMA DropSaveKeeps ==
  ASSUME BrowserInv, NEW x \in saves, DropSave(x)
  PROVE  BrowserInv'
<1>1. saves' = saves \ {x} /\ UNCHANGED <<users, letter, session, jar, page>>
  BY DEF DropSave
<1>2. TypeOK'
  BY <1>1 DEF BrowserInv, TypeOK, Pages
<1>3. SavesInv'
  BY <1>1 DEF BrowserInv, SavesInv, Stored
<1>. QED
  BY <1>1, <1>2, <1>3, ReportKeeps

-----------------------------------------------------------------------------
(***************************************************************************)
(* The theorems.                                                           *)
(***************************************************************************)
LEMMA BrowserInit == Init => BrowserInv
<1>. SUFFICES ASSUME Init
              PROVE  BrowserInv
  OBVIOUS
<1>1. page.kind = "login" /\ page \in Pages
  BY DEF Init, Login, Pages
<1>2. letter \in [Letters -> LetterRecord]
  BY DEF Init, Unused, New, LetterRecord, Statuses
<1>3. TypeOK
  BY <1>1, <1>2 DEF Init, TypeOK, Pages
<1>. QED
  BY <1>1, <1>3 DEF BrowserInv, SameSession, TabsInv, OneTabOpen, CountsInv, CountsAreOwn,
                    SavesInv

\* What a step may be: the steps that stay on the page, or an OpenStep.
LEMMA NextCases ==
  ASSUME BrowserInv, Next
  PROVE  \/ OpenStep
         \/ \E l \in Letters : Elsewhere(l)
         \/ LogOutElsewhere
         \/ GoAway
         \/ \E s \in AllSections : ClickTab(s)
         \/ ClickLink
         \/ \E S \in SUBSET Letters :
              DeleteChecked(S) /\ UNCHANGED <<users, session, jar, page, saves>>
         \/ \E l \in Letters, n \in Notes : Save(l, n)
         \/ OnSaves
<1>1. TypeOK /\ SameSession /\ TabsInv
  BY DEF BrowserInv
<1>2. CASE OnLetters
  BY <1>2 DEF OnLetters
<1>3. CASE OnSession
  BY <1>1, <1>3, LogInOpens, LogOutOpens, ComeBackOpens DEF OnSession
<1>4. CASE OnVolunteer
  BY <1>1, <1>4, FollowOnVolunteerOpens, SendFormOpens, ClaimOpens DEF OnVolunteer
<1>5. CASE OnEmployee
  <2>1. ASSUME NEW S \in SUBSET Letters, DeleteChecked(S)
        PROVE  OpenStep \/ UNCHANGED <<users, session, jar, page, saves>>
    <3>1. CASE OpensEmployee(session, page.asked, page.status, page.start) /\ Leaves
      BY <1>1, <2>1, <3>1, DeleteOpens
    <3>. QED
      BY <2>1, <3>1 DEF DeleteChecked
  <2>. QED
    BY <1>1, <1>5, <2>1, FollowOnEmployeeOpens, UploadOpens DEF OnEmployee
<1>. QED
  BY <1>2, <1>3, <1>4, <1>5 DEF Next

LEMMA BrowserStep == BrowserInv /\ [Next]_vars => BrowserInv'
<1>. SUFFICES ASSUME BrowserInv, [Next]_vars
              PROVE  BrowserInv'
  OBVIOUS
<1>1. CASE OpenStep
  BY <1>1, OpenKeeps
<1>2. CASE \E l \in Letters : Elsewhere(l)
  BY <1>2, ElsewhereKeeps
<1>3. CASE LogOutElsewhere
  BY <1>3, LogOutElsewhereKeeps
<1>4. CASE GoAway
  BY <1>4, GoAwayKeeps
<1>5. CASE \E s \in AllSections : ClickTab(s)
  BY <1>5, ClickTabKeeps
<1>6. CASE ClickLink
  BY <1>6, ClickLinkKeeps
<1>7. CASE \E S \in SUBSET Letters :
             DeleteChecked(S) /\ UNCHANGED <<users, session, jar, page, saves>>
  BY <1>7, DeleteKeeps
<1>8. CASE \E l \in Letters, n \in Notes : Save(l, n)
  BY <1>8, SaveKeeps
<1>9. CASE OnSaves
  BY <1>9, HandleSaveKeeps, AnswerSaveKeeps, FailSaveKeeps, DropSaveKeeps DEF OnSaves
<1>10. CASE UNCHANGED vars
  BY <1>10 DEF vars, BrowserInv, TypeOK, SameSession, TabsInv, OpenAt, OneTabOpen, CountsInv,
               CountsAreOwn, SavesInv, Stored
<1>. QED
  BY <1>1, <1>2, <1>3, <1>4, <1>5, <1>6, <1>7, <1>8, <1>9, <1>10, NextCases

\* The invariant of the window, its cookies, its session and its saves.
THEOREM BrowserInvariant == Spec => []BrowserInv
BY BrowserInit, BrowserStep, PTL DEF Spec

\* The variables have their types, and an answer that is waited for belongs
\* to the page in the window.
THEOREM BrowserType == Spec => []TypeOK
BY BrowserInvariant, PTL DEF BrowserInv

\* Exactly one section is open, whatever query, anchor and cookie say (view).
THEOREM OneTabIsOpen == Spec => []OneTabOpen
BY BrowserInvariant, PTL DEF BrowserInv

\* Nobody is shown another employee's counts: a login lands without a query
\* and writes the cookies anew (wv2.js init).
THEOREM CountsShownAreOwn == Spec => []CountsAreOwn
BY BrowserInvariant, PTL DEF BrowserInv

\* A sure save that is reported done is in its letter (post '/update_letter').
THEOREM DoneSavesAreStored == Spec => []DoneIsStored
<1>1. BrowserInv => DoneIsStored
  BY DEF BrowserInv, SavesInv, Stored, DoneIsStored
<1>. QED
  BY <1>1, BrowserInvariant, PTL

\* The page that answers a form opens what the cookie remembers.
LEMMA FormReturns ==
  ASSUME NEW s, OpensVolunteer(s, Nil, Nil, Nil), page'.kind = "volunteer"
  PROVE  page'.hash = jar.hash /\ page'.visible = OpenAt(page')
<1>1. page' = VolunteerPage(s.user, Nil, Nil, Nil, s.refused)
  BY DEF OpensVolunteer, OpensLogin, Lost, Login, Away
<1>2. /\ page'.hash = jar.hash
      /\ page'.visible = Show(Show({DefaultTab(page'.type)}, Nil, page'.type),
                              page'.hash, page'.type)
  BY <1>1, SectionFacts DEF VolunteerPage, Anchor
<1>3. Nil \notin Sections(page'.type)
  BY SectionFacts
<1>. QED
  BY <1>2, <1>3 DEF Show, OpenAt

\* A form leads back to the section it was sent from: cookie and anchor agree
\* on every page, and the redirect asks for nothing else.
THEOREM FormsKeepTheirTab == Spec => FormKeepsTab
<1>1. ASSUME BrowserInv,
             (\E l \in Letters : Claim(l)) \/ SendForm,
             page.active \cap AllSections # {},
             page.hash # Nil \/ page.start = Nil,
             page'.kind = "volunteer",
             page'.type = page.type
      PROVE  page'.visible = page.visible
  <2>1. page.kind = "volunteer" /\ \E s : OpensVolunteer(s, Nil, Nil, Nil)
    BY <1>1 DEF Claim, SendForm
  <2>2. page.hash = jar.hash /\ page.visible = OpenAt(page)
    BY <1>1, <2>1 DEF BrowserInv, TabsInv
  <2>3. page'.hash = jar.hash /\ page'.visible = OpenAt(page')
    BY <1>1, <2>1, FormReturns
  <2>. QED
    BY <1>1, <2>2, <2>3 DEF OpenAt
<1>2. BrowserInv /\ [Next]_vars =>
        [ /\ (\E l \in Letters : Claim(l)) \/ SendForm
          /\ page.active \cap AllSections # {}
          /\ page.hash # Nil \/ page.start = Nil
          /\ page'.kind = "volunteer"
          /\ page'.type = page.type
          => page'.visible = page.visible ]_vars
  BY <1>1
<1>. QED
  BY <1>2, BrowserInvariant, PTL DEF Spec, FormKeepsTab

\* The mark of a refused claim goes with a page that tells of it, or is lost
\* with the page.
THEOREM RefusalsAreTold == Spec => RefusalIsTold
<1>1. ASSUME BrowserInv, Next, session.refused, ~ session'.refused
      PROVE  \/ page' = Away
             \/ /\ page'.kind = "volunteer"
                /\ \/ page'.told = "shown"
                   \/ page'.told = "hidden" /\ page'.visible = {page'.hash}
  <2>1. CASE OpenStep
    <3>1. PICK s \in Sessions : /\ session.refused => s.refused
                                /\ VolunteerOpening(s) \/ EmployeeOpening(s) \/ OpensLogin(s)
      BY <2>1 DEF OpenStep
    <3>2. session' # s /\ s.refused
      BY <1>1, <3>1
    <3>3. jar \in Jars /\ CountsInv
      BY <1>1, TypeFacts DEF BrowserInv
    <3>4. ~ OpensLogin(s)
      BY <3>2 DEF OpensLogin
    <3>5. ~ EmployeeOpening(s)
      BY <3>2, <3>3, EmployeeOpens
    <3>. QED
      BY <3>1, <3>2, <3>3, <3>4, <3>5, VolunteerOpens
  <2>2. CASE ~ OpenStep
    <3>1. session \in Sessions
      BY <1>1, TypeFacts DEF BrowserInv
    <3>2. CASE LogOutElsewhere
      BY <1>1, <3>1, <3>2 DEF LogOutElsewhere, Sessions
    <3>3. CASE ~ LogOutElsewhere
      <4>1. session' = session
        BY <1>1, <2>2, <3>3, NextCases
           DEF Elsewhere, GoAway, ClickTab, ClickLink, Save, OnSaves, HandleSave, AnswerSave,
               FailSave, DropSave
      <4>. QED
        BY <1>1, <4>1
    <3>. QED
      BY <3>2, <3>3
  <2>. QED
    BY <2>1, <2>2
<1>2. BrowserInv /\ [Next]_vars =>
        [session.refused /\ ~ session'.refused =>
           \/ page' = Away
           \/ /\ page'.kind = "volunteer"
              /\ page'.told = "shown" \/ (page'.told = "hidden" /\ page'.visible = {page'.hash})
        ]_vars
  BY <1>1
<1>. QED
  BY <1>2, BrowserInvariant, PTL DEF Spec, RefusalIsTold
=============================================================================
