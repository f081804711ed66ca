-------------------------------- MODULE Browser --------------------------------
(***************************************************************************)
(* One browser window, its cookies and its session, as the scripts of the  *)
(* pages drive them: wv.js on the volunteer's page, wv2.js on the          *)
(* employee's, and the saves of app.js, which are answered while the page  *)
(* stays open.                                                             *)
(*                                                                         *)
(* The volunteer's page is made of sections, of which one is open; cookie  *)
(* "hash" remembers which, so that the redirect after a form opens it      *)
(* again.  The employee's page shows five counts; cookies remember four of *)
(* them, and a page opened with a query shows those.  Cookies outlive a    *)
(* logout.  Pages without these scripts (help, countries, an error) are    *)
(* all "away", and from there the window comes back without a query: the   *)
(* history and bookmarks are left out.                                     *)
(*                                                                         *)
(* Other people and the jobs change the letters meanwhile (LetterDesk).    *)
(***************************************************************************)
EXTENDS Naturals, FiniteSets

CONSTANTS
  Volunteers,     \* accounts of volunteers
  Employees,      \* accounts of employees
  Households,     \* sets of accounts: who may share the window
  VouType,        \* voulenteer_type of each volunteer
  Supervisor,     \* the account that is shown everybody's letters
  Letters,        \* ids of letters
  Owner,          \* employee_id of each letter
  TransType,      \* trans_type of each letter
  Notes,          \* what can be written into a letter
  MaxSaves,       \* bound on the saves in flight
  Nil             \* nobody, not given, nothing remembered

Types == {"eng", "chi"}
Shared == {"recieved", "show-all-news"}

TabsOf(type) == IF type = "eng" THEN {"tabs-1", "tabs-2", "tabs-3"}
                                ELSE {"tabs-4", "tabs-5"}

Sections(type) == TabsOf(type) \cup Shared
AllSections == Sections("eng") \cup Sections("chi")
Starts == {"em_start", "hw_start", "ty_start", "start"}

ASSUME BrowserAssumption ==
  /\ VouType \in [Volunteers -> Types \cup {"both"}]
  /\ Owner \in [Letters -> Employees]
  /\ TransType \in [Letters -> Types]
  /\ Volunteers \cap Employees = {}
  /\ \A h \in Households : h \subseteq Volunteers \cup Employees
  /\ IsFiniteSet(Letters)
  /\ MaxSaves \in Nat
  /\ Nil \notin Volunteers \cup Employees \cup AllSections \cup Starts \cup Types \cup Notes

VARIABLES
  users,          \* who shares the window
  letter,         \* the letters on the server
  session,        \* session[:user] and session[:has_been_claimed]
  jar,            \* the cookies the scripts keep, and whose counts they are
  page,           \* the page in the window
  saves           \* the saves on their way and not answered yet

vars == <<users, letter, session, jar, page, saves>>

Statuses == {"unclaimed", "emergent", "claimed", "returned"}
Listed == {"unclaimed", "emergent", "claimed"}
\* Counts of the employee's page.  The one of unclaimed letters is never
\* restored: its cookie is written and read under different names.
Remembered == {"all", "emergent", "claimed", "returned"}
Counted == Remembered \cup {"unclaimed"}

\* A letter can be claimed, whether the page offers it or no longer does.
Claimable(r) == r.status \in {"unclaimed", "emergent"}
-----------------------------------------------------------------------------
(***************************************************************************)
(* The volunteer's page.                                                   *)
(***************************************************************************)
DefaultTab(type) == IF type = "eng" THEN "tabs-1" ELSE "tabs-4"

\* The section a page of which the query asks for.
Started(start, asked) ==
  CASE start = "em_start" -> IF asked = "eng" THEN "tabs-1" ELSE "tabs-4"
    [] start = "hw_start" -> "tabs-2"
    [] start = "ty_start" -> "tabs-3"
    [] start = "start"    -> "tabs-5"
    [] OTHER              -> Nil

\* Mutated form of Show: what was shown stays.
ShowToo(visible, s, type) == IF s \in Sections(type) THEN visible \cup {s} ELSE visible

\* $('#s').siblings().hide(); $('#s').show(): nothing if the page has no s.
Show(visible, s, type) == IF s \in Sections(type) THEN {s} ELSE visible

\* Mutated form of Anchor: what the cookie remembers is not fetched.
AnchorGiven(anchor, remembered) == anchor

\* fetchCookie
Anchor(anchor, remembered) == IF anchor = Nil THEN remembered ELSE anchor

\* get '/volunteer' and view() for account u.
VolunteerPage(u, asked, start, anchor, refused) ==
  LET type == IF asked # Nil THEN asked
              ELSE IF VouType[u] = "both" THEN "chi" ELSE VouType[u]
      hash == Anchor(anchor, jar.hash)
      s    == Started(start, asked)
      here == Sections(type)
  IN  [ kind    |-> "volunteer",
        user    |-> u,
        asked   |-> asked,
        start   |-> start,
        type    |-> type,
        hash    |-> hash,
        visible |-> Show(Show({DefaultTab(type)}, s, type), hash, type),
        active  |-> here \cap (IF hash # Nil THEN {hash}
                               ELSE IF start = "em_start" THEN {}
                               ELSE IF s # Nil THEN {s} ELSE {DefaultTab(type)}),
        told    |-> IF ~ refused THEN "nothing"
                    ELSE IF {s, hash} \cap here = {} THEN "shown" ELSE "hidden",
        offered |-> {l \in Letters : /\ TransType[l] = type
                                     /\ letter'[l].show /\ ~ letter'[l].deleted
                                     /\ Claimable(letter'[l])} ]
-----------------------------------------------------------------------------
(***************************************************************************)
(* The employee's page.                                                    *)
(***************************************************************************)
WithStatus(u, type, s) ==
  {l \in Letters : /\ u = Supervisor \/ Owner[l] = u
                   /\ TransType[l] = type
                   /\ letter'[l].status = s /\ ~ letter'[l].deleted}

Tally(u, type) ==
  [c \in Counted |->
     Cardinality(UNION {WithStatus(u, type, s) :
                          s \in IF c = "all" THEN Listed ELSE {c}})]

\* The comment of wv2.js:8 asks for the lists without a status; the test says
\* `false in params', so that the counts are saved only where there is no
\* query at all.
CountsSaved(asked, status, start) == asked = Nil /\ status = Nil /\ ~ start

CountsRestored(asked, status, start) ==
  ~ CountsSaved(asked, status, start) /\ asked # "chi" /\ jar.counts # Nil

\* get '/employee' and init() for account u.  `by' tells for whom the counts
\* shown were counted; `sure' for which letters the last save was sent in
\* u's session with no other save of the letter on its way.
EmployeePage(u, asked, status, start) ==
  LET type  == IF asked = Nil THEN "eng" ELSE asked
      tally == Tally(u, type)
      old   == CountsRestored(asked, status, start)
      rows  == WithStatus(u, type, IF status \in Listed THEN status ELSE "unclaimed")
                 \cup WithStatus(u, type, "returned")
  IN  [ kind   |-> "employee",
        user   |-> u,
        asked  |-> asked,
        status |-> status,
        start  |-> start,
        shown  |-> [c \in Counted |->
                      IF old /\ c \in Remembered THEN jar.counts[c] ELSE tally[c]],
        by     |-> IF old THEN jar.by ELSE u,
        rows   |-> rows,
        savable |-> {l \in rows : letter'[l].status = "claimed" => ~ letter'[l].show},
        msg    |-> [l \in Letters |-> "nothing"],
        sent   |-> [l \in Letters |-> Nil],
        sure   |-> [l \in Letters |-> FALSE] ]
-----------------------------------------------------------------------------
(***************************************************************************)
(* Opening a page.  It shows the letters as the request has left them.     *)
(***************************************************************************)
Login == [kind |-> "login"]
Away  == [kind |-> "away"]

\* Mutated form of Leaves: the answers are still waited for.
LeavesListening == saves' = saves /\ UNCHANGED users

\* Nobody listens any more to the saves of the page that is left.
Leaves ==
  /\ saves' = {[x EXCEPT !.heard = FALSE] : x \in {y \in saves : ~ y.handled}}
  /\ UNCHANGED users

\* The server sends to the login page, with the session s.
OpensLogin(s) == session' = s /\ page' = Login /\ UNCHANGED jar

\* The page is lost, and the server may have written it or not.
Lost(s, written) == session' \in {s, written} /\ page' = Away /\ UNCHANGED jar

\* Mutated form of OpensVolunteer: the mark is taken before the account is
\* looked at.
OpensVolunteerForgetting(s, asked, start, anchor) ==
  LET told == [s EXCEPT !.refused = FALSE]
  IN  IF s.user \notin Volunteers
        THEN OpensLogin(told)
        ELSE \/ /\ session' = told
                /\ page' = VolunteerPage(s.user, asked, start, anchor, s.refused)
                /\ jar' = [jar EXCEPT !.hash = page'.hash]
             \/ Lost(s, told)

\* get '/volunteer' and init() of wv.js: hash and cookie agree from then on.
OpensVolunteer(s, asked, start, anchor) ==
  LET told == [s EXCEPT !.refused = FALSE]
  IN  IF s.user \notin Volunteers
        THEN OpensLogin(s)
        ELSE \/ /\ session' = told
                /\ page' = VolunteerPage(s.user, asked, start, anchor, s.refused)
                /\ jar' = [jar EXCEPT !.hash = page'.hash]
             \/ Lost(s, told)

\* get '/employee' and init() of wv2.js.
OpensEmployee(s, asked, status, start) ==
  IF s.user \notin Employees
    THEN OpensLogin(s)
    ELSE \/ /\ session' = s
            /\ page' = EmployeePage(s.user, asked, status, start)
            /\ jar' = IF CountsSaved(asked, status, start)
                        THEN [jar EXCEPT !.counts = page'.shown, !.by = s.user]
                        ELSE jar
         \/ Lost(s, s)

\* Mutated form of Landing: an employee lands on the list of one direction.
LandingOnList(s) ==
  IF s.user \in Employees THEN OpensEmployee(s, "eng", Nil, FALSE)
                          ELSE OpensVolunteer(s, Nil, Nil, Nil)

\* Where a login leads, and a visit without a query.
Landing(s) ==
  IF s.user \in Employees THEN OpensEmployee(s, Nil, Nil, FALSE)
                          ELSE OpensVolunteer(s, Nil, Nil, Nil)
-----------------------------------------------------------------------------
(***************************************************************************)
(* Letters change elsewhere: what the owner does goes through this window  *)
(* if he is one of its users, and from any other otherwise.                *)
(***************************************************************************)
New == [status |-> "unclaimed", deleted |-> FALSE, show |-> FALSE, note |-> Nil]
Unused == [New EXCEPT !.status = "unused"]

ByOthers(r) ==
  (IF Claimable(r) /\ (r.show \/ r.deleted) THEN {[r EXCEPT !.status = "claimed"]} ELSE {})
    \cup
  (IF r.status = "unclaimed" THEN {[r EXCEPT !.status = "emergent"]} ELSE {})
    \cup
  (IF r.status \in {"claimed", "returned"}
     THEN {[r EXCEPT !.status = "emergent"], [r EXCEPT !.status = "emergent", !.show = TRUE],
           [r EXCEPT !.status = "returned"]}
     ELSE {})

ByOwner(r) ==
  CASE r.status = "unused" -> {New}
    [] Claimable(r)        -> {[r EXCEPT !.show = TRUE],
                               [r EXCEPT !.deleted = TRUE, !.show = FALSE]}
    [] OTHER               -> {}

Elsewhere(l) ==
  /\ \E r \in ByOthers(letter[l]) \cup
              (IF Owner[l] \in users THEN {} ELSE ByOwner(letter[l])) :
       letter' = [letter EXCEPT ![l] = r]
  /\ UNCHANGED <<users, session, jar, page, saves>>
-----------------------------------------------------------------------------
(***************************************************************************)
(* Login, logout.                                                          *)
(***************************************************************************)
LogIn(u) ==
  /\ page.kind = "login"
  /\ UNCHANGED letter
  /\ \/ Landing([session EXCEPT !.user = u])
     \/ OpensLogin([session EXCEPT !.user = Nil])     \* wrong password
  /\ Leaves

LogOut ==
  /\ page.kind # "login"
  /\ OpensLogin([session EXCEPT !.user = Nil])
  /\ Leaves
  /\ UNCHANGED letter

\* A logout in another tab.  The page stays, and a save on its way may find
\* nobody logged in.
LogOutElsewhere ==
  /\ session.user # Nil
  /\ session' = [session EXCEPT !.user = Nil]
  /\ page' = IF page.kind # "employee" THEN page
              ELSE [page EXCEPT !.sure = [l \in Letters |->
                      @[l] /\ \A x \in saves : x.letter # l]]
  /\ UNCHANGED <<users, letter, jar, saves>>

\* A link or form leads to a page without these scripts.
GoAway ==
  /\ page.kind \in {"volunteer", "employee"}
  /\ page' = Away
  /\ Leaves
  /\ UNCHANGED <<letter, session, jar>>

ComeBack ==
  /\ page.kind = "away"
  /\ UNCHANGED letter
  /\ Landing(session)
  /\ Leaves
-----------------------------------------------------------------------------
(***************************************************************************)
(* On the volunteer's page.                                                *)
(***************************************************************************)
StartOf(s) == CASE s \in {"tabs-1", "tabs-4"} -> "em_start"
                [] s = "tabs-2" -> "hw_start"
                [] s = "tabs-3" -> "ty_start"
                [] s = "tabs-5" -> "start"

\* The click handler of bindEvents.
ClickTab(s) ==
  /\ page.kind = "volunteer"
  /\ s \in Sections(page.type)
  /\ page' = [page EXCEPT !.active  = {s},
                          !.visible = Show(@, s, page.type),
                          !.hash    = s,
                          !.told    = IF @ = "nothing" THEN @ ELSE "hidden"]
  /\ jar' = [jar EXCEPT !.hash = s]
  /\ UNCHANGED <<users, letter, session, saves>>

\* The same handler on a link of the list that names no section: "#", of an
\* item of news, or a file, where it throws once the mark has moved.
ClickLink ==
  /\ page.kind = "volunteer"
  /\ \/ /\ page' = [page EXCEPT !.active = {"link"}, !.hash = Nil]
        /\ jar' = [jar EXCEPT !.hash = Nil]
     \/ /\ page' = [page EXCEPT !.active = {"link"}]
        /\ UNCHANGED jar
  /\ UNCHANGED <<users, letter, session, saves>>

\* A link to a page of the list in a tab, to a direction or to the start,
\* and the browser's own button.
FollowOnVolunteer ==
  /\ page.kind = "volunteer"
  /\ UNCHANGED letter
  /\ \/ \E s \in page.visible \cap TabsOf(page.type) :
          OpensVolunteer(session, page.type, StartOf(s), s)
     \/ \E t \in Types :
          /\ VouType[page.user] \in {t, "both"}
          /\ OpensVolunteer(session, t, Nil, Nil)
     \/ OpensVolunteer(session, Nil, Nil, Nil)
     \/ OpensVolunteer(session, page.asked, page.start, page.hash)
  /\ Leaves

\* post '/claim_letter', which looks at the letter and not at what the page
\* has shown of it.
Claim(l) ==
  /\ page.kind = "volunteer"
  /\ l \in page.offered
  /\ LET taken == session.user \in Volunteers /\ Claimable(letter[l])
     IN  /\ letter' = IF taken THEN [letter EXCEPT ![l].status = "claimed"] ELSE letter
         /\ OpensVolunteer([session EXCEPT !.refused =
                               @ \/ (session.user \in Volunteers /\ ~ taken)],
                           Nil, Nil, Nil)
  /\ Leaves

\* The forms of the letters he has: what they do to a letter is a step of
\* ByOthers, and they too end in redirect '/volunteer'.
SendForm ==
  /\ page.kind = "volunteer"
  /\ UNCHANGED letter
  /\ page.visible = {"recieved"}
  /\ OpensVolunteer(session, Nil, Nil, Nil)
  /\ Leaves
-----------------------------------------------------------------------------
(***************************************************************************)
(* On the employee's page.                                                 *)
(***************************************************************************)
\* The links of the page, and the browser's own button.
FollowOnEmployee ==
  /\ page.kind = "employee"
  /\ UNCHANGED letter
  /\ LET type == IF page.asked = Nil THEN "eng" ELSE page.asked
     IN  \/ OpensEmployee(session, Nil, Nil, FALSE)
         \/ \E t \in Types : OpensEmployee(session, t, Nil, FALSE)
         \/ \E s \in Statuses : OpensEmployee(session, type, s, FALSE)
         \/ OpensEmployee(session, IF type = "chi" THEN type ELSE Nil, page.status, TRUE)
         \/ OpensEmployee(session, page.asked, page.status, page.start)
  /\ Leaves

\* The upload names the account the page was written for.
Upload(l) ==
  /\ page.kind = "employee"
  /\ letter[l] = Unused /\ Owner[l] = page.user
  /\ letter' = [letter EXCEPT ![l] = New]
  /\ OpensEmployee(session, Nil, Nil, FALSE)
  /\ Leaves

\* delete_letters_submit and get '/delete_letter': whatever the server did
\* with the letters, the page is loaded again, unless the answer is lost.
DeleteChecked(checked) ==
  /\ page.kind = "employee"
  /\ checked # {} /\ checked \subseteq page.rows
  /\ letter' = [l \in Letters |->
                  IF l \in checked /\ Owner[l] = session.user /\ Claimable(letter[l])
                    THEN [letter[l] EXCEPT !.deleted = TRUE, !.show = FALSE]
                    ELSE letter[l]]
  /\ \/ UNCHANGED <<users, session, jar, page, saves>>
     \/ OpensEmployee(session, page.asked, page.status, page.start) /\ Leaves

\* check_updating_letters, once the form is filled in.
Save(l, n) ==
  /\ page.kind = "employee"
  /\ l \in page.savable
  /\ Cardinality(saves) < MaxSaves
  /\ LET x == [letter |-> l, note |-> n, handled |-> FALSE, heard |-> TRUE]
     IN  /\ x \notin saves
         /\ saves' = saves \cup {x}
  /\ page' = [page EXCEPT !.msg[l]  = "sent",
                          !.sent[l] = n,
                          !.sure[l] = /\ session.user = page.user
                                      /\ \A x \in saves : x.letter # l]
  /\ UNCHANGED <<users, letter, session, jar>>

\* Mutated form of Saved: a letter is shown by an action of its own.
SavedHidden(r, n) == [r EXCEPT !.note = n]

Saved(r, n) == [r EXCEPT !.note = n, !.show = TRUE]

\* post '/update_letter' says "success" whether it has saved or not, and
\* to nobody at all it shows the login page, which is an answer as well.
HandleSave(x) ==
  /\ ~ x.handled
  /\ letter' = IF session.user # Owner[x.letter] THEN letter
               ELSE [letter EXCEPT ![x.letter] = Saved(@, x.note)]
  /\ saves' = (saves \ {x}) \cup (IF x.heard THEN {[x EXCEPT !.handled = TRUE]} ELSE {})
  /\ UNCHANGED <<users, session, jar, page>>

\* done()
AnswerSave(x) ==
  /\ x.handled
  /\ page' = [page EXCEPT !.msg[x.letter] = "done"]
  /\ saves' = saves \ {x}
  /\ UNCHANGED <<users, letter, session, jar>>

\* fail(): the answer is lost; a save not handled yet may still arrive.
FailSave(x) ==
  /\ x.heard
  /\ page' = [page EXCEPT !.msg[x.letter] = "failed"]
  /\ \/ saves' = saves \ {x}
     \/ ~ x.handled /\ saves' = (saves \ {x}) \cup {[x EXCEPT !.heard = FALSE]}
  /\ UNCHANGED <<users, letter, session, jar>>

\* A save of a page that is left, and that never arrives.
DropSave(x) ==
  /\ ~ x.heard
  /\ saves' = saves \ {x}
  /\ UNCHANGED <<users, letter, session, jar, page>>
-----------------------------------------------------------------------------
Init ==
  /\ users \in Households
  /\ letter = [l \in Letters |-> Unused]
  /\ session = [user |-> Nil, refused |-> FALSE]
  /\ jar = [hash |-> Nil, counts |-> Nil, by |-> Nil]
  /\ page = Login
  /\ saves = {}

OnLetters == \E l \in Letters : Elsewhere(l)
OnSession == \/ \E u \in users : LogIn(u)
             \/ LogOut \/ LogOutElsewhere \/ GoAway \/ ComeBack
OnVolunteer == \/ \E s \in AllSections : ClickTab(s)
               \/ ClickLink \/ FollowOnVolunteer \/ SendForm
               \/ \E l \in Letters : Claim(l)
OnEmployee == \/ FollowOnEmployee
              \/ \E l \in Letters : Upload(l)
              \/ \E S \in SUBSET Letters : DeleteChecked(S)
              \/ \E l \in Letters, n \in Notes : Save(l, n)
OnSaves == \E x \in saves :
             HandleSave(x) \/ AnswerSave(x) \/ FailSave(x) \/ DropSave(x)

Next == OnLetters \/ OnSession \/ OnVolunteer \/ OnEmployee \/ OnSaves

Spec == Init /\ [][Next]_vars
-----------------------------------------------------------------------------
(***************************************************************************)
(* Properties.                                                             *)
(***************************************************************************)
VolunteerPages ==
  [ kind    : {"volunteer"},
    user    : Volunteers,
    asked   : Types \cup {Nil},
    start   : Starts \cup {Nil},
    type    : Types,
    hash    : AllSections \cup {Nil},
    visible : SUBSET AllSections,
    active  : SUBSET (AllSections \cup {"link"}),
    told    : {"nothing", "shown", "hidden"},
    offered : SUBSET Letters ]

EmployeePages ==
  [ kind    : {"employee"},
    user    : Employees,
    asked   : Types \cup {Nil},
    status  : Statuses \cup {Nil},
    start   : BOOLEAN,
    shown   : [Counted -> Nat],
    by      : Employees,
    rows    : SUBSET Letters,
    savable : SUBSET Letters,
    msg     : [Letters -> {"nothing", "sent", "done", "failed"}],
    sent    : [Letters -> Notes \cup {Nil}],
    sure    : [Letters -> BOOLEAN] ]

LetterRecord == [status : Statuses \cup {"unused"}, deleted : BOOLEAN,
                 show : BOOLEAN, note : Notes \cup {Nil}]

SaveRecord == [letter : Letters, note : Notes, handled : BOOLEAN, heard : BOOLEAN]

\* The variables are what the comments above say, and a save that is still
\* listened to belongs to the page in the window.
TypeOK ==
  /\ users \in Households
  /\ letter \in [Letters -> LetterRecord]
  /\ session \in [user : users \cup {Nil}, refused : BOOLEAN]
  /\ jar \in [hash : AllSections \cup {Nil}, counts : [Counted -> Nat] \cup {Nil},
              by : Employees \cup {Nil}]
  /\ page \in {Login, Away} \cup VolunteerPages \cup EmployeePages
  /\ saves \subseteq SaveRecord
  /\ \A x \in saves :
       /\ x.handled => x.heard
       /\ x.heard => page.kind = "employee" /\ page.msg[x.letter] # "nothing"

\* Exactly one section of the volunteer's page is open, whichever of query,
\* anchor and cookie named it and even if it is a section of the other
\* direction's page; and the list marks no other (wv.js view, bindEvents).
OneTabOpen ==
  page.kind = "volunteer" =>
    /\ \E s \in Sections(page.type) : page.visible = {s}
    /\ page.active \cap AllSections \subseteq page.visible

\* A form sent from an open and marked section leads back to that section,
\* if the page comes back in the same direction (fetchCookie): the redirect
\* of the server names none.  Not so for a section that only the query of the
\* page names, which is the case on a list loaded again after a click on an
\* item of news has emptied the anchor.
FormKeepsTab ==
  [][ /\ (\E l \in Letters : Claim(l)) \/ SendForm
      /\ page.active \cap AllSections # {}
      /\ page.hash # Nil \/ page.start = Nil
      /\ page'.kind = "volunteer"
      /\ page'.type = page.type
      => page'.visible = page.visible ]_vars

\* A refused claim is told: the mark in the session outlives a login page, a
\* logout and pages without it, and goes with a volunteer's page that has
\* the notice, unless the page is lost on its way.  The notice is out of
\* sight only where a section named by the anchor was opened over it.
RefusalIsTold ==
  [][ session.refused /\ ~ session'.refused =>
        \/ page' = Away
        \/ /\ page'.kind = "volunteer"
           /\ page'.told = "shown" \/ (page'.told = "hidden" /\ page'.visible = {page'.hash})
    ]_vars

\* The counts on an employee's page were counted for him, although the
\* cookies stay when somebody else logs in at the same window (wv2.js).
CountsAreOwn == page.kind = "employee" => page.by = page.user

\* A save reported done is in the letter and has published it, if it was the
\* owner's, in his session, and sent while no other save of the letter was
\* on its way (check_updating_letters, post '/update_letter').  Nothing of
\* this follows from "done" alone.
DoneIsStored ==
  page.kind = "employee" =>
    \A l \in Letters :
      page.msg[l] = "done" /\ page.sure[l] /\ Owner[l] = page.user =>
        /\ letter[l].note = page.sent[l]
        /\ letter[l].show \/ letter[l].deleted
=============================================================================
