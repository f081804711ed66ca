------------------------------- MODULE Accounts -------------------------------
(***************************************************************************)
(* Accounts: created, changed and deleted by the administrator, found by   *)
(* name by everything else.  Sessions, letters and logs know an account    *)
(* only by its name, so a change of name is a change to all of them, one   *)
(* datastore call at a time, without a transaction.                        *)
(*                                                                         *)
(* A letter is here the name of the account it is with.  Volunteers and    *)
(* the due job act in one step each, on pages as they are: their own races *)
(* and stale pages are the subject of LetterDatastore and LetterDesk.      *)
(***************************************************************************)
EXTENDS Naturals, FiniteSetsExt

CONSTANTS
  Ids,            \* the keys accounts may get
  Names,          \* what may be typed for a name
  Stripped,       \* a typed name without the blanks around it
  Roles,          \* the roles in use
  Letters,
  Browsers,       \* of volunteers
  Slots,          \* the administrator's requests that may run at a time
  MaxOverlaps,    \* bound on what happens while one of them runs
  Nil

ASSUME AccountsAssumption ==
  /\ Ids \subseteq Nat
  /\ Stripped \in [Names -> Names]
  /\ \A n \in Names : Stripped[Stripped[n]] = Stripped[n]
  /\ Roles \subseteq {"voulenteer", "employee"}
  /\ Nil \notin Names \cup Ids
  /\ MaxOverlaps \in Nat

VARIABLES
  account,        \* the Account entities, Nil for a key not in use
  holder,         \* voulenteer_account of each letter, Nil if nobody has it
  logged,         \* the names in the VoulenteerLog and VoulenteerDueLog entities
  session,        \* session[:user] of each browser
  req,            \* the administrator's request in each slot, or Nil
  strays,         \* history: names that may be left without an account
  overlaps        \* history: steps taken while a request was running

vars == <<account, holder, logged, session, req, strays, overlaps>>

\* The form to change an account offers its placeholder as a role, and the
\* handler, which expects another wording of it, stores it.
AccountRecord ==
  [account : Names, role : Roles \cup {"placeholder"}, allow_login : BOOLEAN]

Request ==
  [ op   : {"create", "update"},
    id   : Ids \cup {Nil},                 \* the account an update changes
    old  : AccountRecord \cup {Nil},       \* as the update read it
    new  : AccountRecord,                  \* what is to be put
    todo : SUBSET Letters,                 \* letters still to be renamed
    at   : {"query", "letters", "account"} ]

ASSUME RecordAssumption == Nil \notin AccountRecord \cup Request

\* Account.all(:account => n)
Named(n) == {i \in Ids : account[i] # Nil /\ account[i].account = n}

NamesInUse == {account[i].account : i \in {j \in Ids : account[j] # Nil}}

\* current_user: the first account by the session's name.
IsVolunteer(b) ==
  /\ session[b] # Nil
  /\ Named(session[b]) # {}
  /\ account[Min(Named(session[b]))].role = "voulenteer"

Idle == \A s \in Slots : req[s] = Nil

\* A step of somebody else, while requests run or not.
Overlaps ==
  IF Idle THEN UNCHANGED overlaps
          ELSE overlaps < MaxOverlaps /\ overlaps' = overlaps + 1

Begins(s, r) ==
  /\ req[s] = Nil
  /\ req' = [req EXCEPT ![s] = r]
  /\ Overlaps
  /\ UNCHANGED <<account, holder, logged, session, strays>>

At(s, op, at) == req[s] # Nil /\ req[s].op = op /\ req[s].at = at

Ends(s) == req' = [req EXCEPT ![s] = Nil]
-----------------------------------------------------------------------------
Init ==
  /\ account = [i \in Ids |-> Nil]
  /\ holder = [l \in Letters |-> Nil]
  /\ logged = {}
  /\ session = [b \in Browsers |-> Nil]
  /\ req = [s \in Slots |-> Nil]
  /\ strays = {}
  /\ overlaps = 0

\* The name is looked up as typed and stored stripped.
CreateAccount(s) ==
  \/ \E typed \in Names, role \in Roles :
       /\ Named(typed) = {}
       /\ Begins(s, [ op |-> "create", id |-> Nil, old |-> Nil,
                      new |-> [ account |-> Stripped[typed], role |-> role,
                                allow_login |-> TRUE ],
                      todo |-> {}, at |-> "account" ])
  \/ /\ At(s, "create", "account")
     /\ \E i \in Ids :
          /\ account[i] = Nil
          /\ account' = [account EXCEPT ![i] = req[s].new]
     /\ Ends(s)
     /\ UNCHANGED <<holder, logged, session, strays, overlaps>>

\* The form posts every field, the name included, as its page shows them or
\* as they were typed over.
BeginsUpdate(s) ==
  \E i \in Ids, new \in AccountRecord :
    /\ account[i] # Nil
    /\ Begins(s, [ op |-> "update", id |-> i, old |-> account[i], new |-> new,
                   todo |-> {}, at |-> "query" ])

Looks(s) ==
  /\ At(s, "update", "query")
  /\ req' = [req EXCEPT ![s].todo = {l \in Letters : holder[l] = req[s].old.account},
                        ![s].at   = "letters"]
  /\ UNCHANGED <<account, holder, logged, session, strays, overlaps>>

\* A letter is put back as the query found it, under the new name; one
\* whose name stays is not put at all.
PutsLetter(s) ==
  /\ At(s, "update", "letters")
  /\ \E l \in req[s].todo :
       /\ req' = [req EXCEPT ![s].todo = req[s].todo \ {l}]
       /\ holder' = IF req[s].new.account = req[s].old.account
                      THEN holder ELSE [holder EXCEPT ![l] = req[s].new.account]
  /\ UNCHANGED <<account, logged, session, strays, overlaps>>

PutsAccount(s) ==
  /\ At(s, "update", "letters")
  /\ req[s].todo = {}
  /\ account' = IF req[s].new = req[s].old
                  THEN account ELSE [account EXCEPT ![req[s].id] = req[s].new]
  /\ Ends(s)
  /\ UNCHANGED <<holder, logged, session, strays, overlaps>>

\* Mutated form of UpdateAccount: only the first of the letters is renamed.
UpdateFirstLetter(s) ==
  \/ BeginsUpdate(s)
  \/ Looks(s)
  \/ PutsLetter(s)
  \/ /\ At(s, "update", "letters")
     /\ account' = [account EXCEPT ![req[s].id] = req[s].new]
     /\ Ends(s)
     /\ UNCHANGED <<holder, logged, session, strays, overlaps>>

\* Mutated form of UpdateAccount: the account is saved before its letters.
UpdateAccountFirst(s) ==
  \/ BeginsUpdate(s)
  \/ /\ At(s, "update", "query")
     /\ account' = [account EXCEPT ![req[s].id] = req[s].new]
     /\ req' = [req EXCEPT ![s].at = "letters",
                  ![s].todo = {l \in Letters : holder[l] = req[s].old.account}]
     /\ UNCHANGED <<holder, logged, session, strays, overlaps>>
  \/ PutsLetter(s)
  \/ PutsAccount(s)

UpdateAccount(s) ==
  BeginsUpdate(s) \/ Looks(s) \/ PutsLetter(s) \/ PutsAccount(s)

\* The letters of a deleted account stay under its name.
DeleteAccount(i) ==
  /\ account[i] # Nil
  /\ account' = [account EXCEPT ![i] = Nil]
  /\ strays' = strays \cup {account[i].account}
  /\ Overlaps
  /\ UNCHANGED <<holder, logged, session, req>>

\* A request is cut off: an exception, a deadline, the end of its instance.
Abort(s) ==
  /\ req[s] # Nil
  /\ Ends(s)
  /\ strays' = IF req[s].op = "update" THEN strays \cup {req[s].new.account} ELSE strays
  /\ UNCHANGED <<account, holder, logged, session, overlaps>>

Login(b, n) ==
  /\ \E i \in Named(n) : account[i].allow_login
  /\ session' = [session EXCEPT ![b] = n]
  /\ Overlaps
  /\ UNCHANGED <<account, holder, logged, req, strays>>

Logout(b) ==
  /\ session[b] # Nil
  /\ session' = [session EXCEPT ![b] = Nil]
  /\ Overlaps
  /\ UNCHANGED <<account, holder, logged, req, strays>>

ClaimLetter(b, l) ==
  /\ IsVolunteer(b)
  /\ holder[l] = Nil
  /\ holder' = [holder EXCEPT ![l] = session[b]]
  /\ Overlaps
  /\ UNCHANGED <<account, logged, session, req, strays>>

\* Mutated form of ReturnLetter: it logs the name in the letter, reset by now.
ReturnLogsLetter(b, l) ==
  /\ IsVolunteer(b)
  /\ holder[l] = session[b]
  /\ holder' = [holder EXCEPT ![l] = Nil]
  /\ logged' = logged \cup {holder'[l]}
  /\ Overlaps
  /\ UNCHANGED <<account, session, req, strays>>

ReturnLetter(b, l) ==
  /\ IsVolunteer(b)
  /\ holder[l] = session[b]
  /\ holder' = [holder EXCEPT ![l] = Nil]
  /\ logged' = logged \cup {session[b]}
  /\ Overlaps
  /\ UNCHANGED <<account, session, req, strays>>

\* L is what is overdue: the job looks at letters, not at accounts.
MarkDueLetters(L) ==
  /\ L # {}
  /\ \A l \in L : holder[l] # Nil
  /\ holder' = [l \in Letters |-> IF l \in L THEN Nil ELSE holder[l]]
  /\ logged' = logged \cup {holder[l] : l \in L}
  /\ Overlaps
  /\ UNCHANGED <<account, session, req, strays>>

AdminStep ==
  \/ \E s \in Slots : CreateAccount(s) \/ UpdateAccount(s) \/ Abort(s)
  \/ \E i \in Ids : DeleteAccount(i)

VolunteerStep ==
  \E b \in Browsers :
    \/ \E n \in Names : Login(b, n)
    \/ Logout(b)
    \/ \E l \in Letters : ClaimLetter(b, l) \/ ReturnLetter(b, l)

JobStep == \E L \in SUBSET Letters : MarkDueLetters(L)

Next == AdminStep \/ VolunteerStep \/ JobStep

Spec == Init /\ [][Next]_vars
-----------------------------------------------------------------------------
TypeOK ==
  /\ account \in [Ids -> AccountRecord \cup {Nil}]
  /\ holder \in [Letters -> Names \cup {Nil}]
  /\ logged \in SUBSET Names
  /\ session \in [Browsers -> Names \cup {Nil}]
  /\ req \in [Slots -> Request \cup {Nil}]
  /\ strays \in SUBSET Names
  /\ overlaps \in Nat

\* The new names of updates that have begun to rename letters.
NamesUnderway ==
  {req[s].new.account : s \in {t \in Slots : At(t, "update", "letters")}}

\* When the administrator's requests run alone, every letter in somebody's
\* hands is with an account, or with the one an update is about to name, or
\* else under a name that an account was deleted with, or that an update
\* cut off half-way was to give.
HoldersAreAccounts ==
  \A l \in Letters :
    holder[l] # Nil => holder[l] \in NamesInUse \cup NamesUnderway \cup strays

\* When the administrator's requests run alone, an account gives up its name
\* only after the last of its letters has: an update cut off anywhere, and
\* made again, finds the letters the first one left behind.
NameLeavesLast ==
  [][\A i \in Ids :
       account[i] # Nil /\ account'[i] # Nil /\ account'[i].account # account[i].account
         => \A l \in Letters : holder[l] # account[i].account]_vars
-----------------------------------------------------------------------------
(***************************************************************************)
(* What the program's texts say and the program does not do.               *)
(***************************************************************************)

\* worldvision.rb:597, when an account changes its name: all its claimed
\* letters are updated, also those claimed meanwhile.
ClaimedLettersFollow == HoldersAreAccounts
=============================================================================
