---------------------------- MODULE AccountsProofs ----------------------------
(***************************************************************************)
(* Theorems about Accounts.  Types hold however requests interleave; that  *)
(* a change of name loses no letter is proved for requests that nothing    *)
(* else happens during, which is what MaxOverlaps = 0 says.                *)
(***************************************************************************)
EXTENDS Accounts, TLAPS

\* The account an update works on is still as the update read it.
UpToDate(s) ==
  At(s, "update", "query") \/ At(s, "update", "letters") =>
    /\ req[s].id \in Ids
    /\ req[s].old # Nil
    /\ account[req[s].id] = req[s].old

\* Whatever is under the old name is among the letters still to be renamed.
Pending(s) ==
  At(s, "update", "letters") /\ req[s].new.account # req[s].old.account =>
    \A l \in Letters : holder[l] = req[s].old.account => l \in req[s].todo

\* One request runs at a time, and nothing happens meanwhile.
Alone ==
  /\ overlaps = 0
  /\ \A s, t \in Slots : req[s] # Nil /\ req[t] # Nil => s = t

RenameInv ==
  /\ TypeOK
  /\ Alone
  /\ \A s \in Slots : UpToDate(s) /\ Pending(s)
  /\ HoldersAreAccounts
-----------------------------------------------------------------------------
LEMMA TypeInit == Init => TypeOK
BY AccountsAssumption DEF Init, TypeOK

\* Records put and names written are of their type, whoever writes them.
LEMMA TypeStep == TypeOK /\ [Next]_vars => TypeOK'
<1> SUFFICES ASSUME TypeOK, [Next]_vars PROVE TypeOK'
  OBVIOUS
<1> USE AccountsAssumption, RecordAssumption DEF TypeOK
<1>0. overlaps' \in Nat
  BY DEF Next, vars, AdminStep, VolunteerStep, JobStep, Overlaps, CreateAccount,
     UpdateAccount, BeginsUpdate, Begins, Looks, PutsLetter, PutsAccount, Abort,
     DeleteAccount, Login, Logout, ClaimLetter, ReturnLetter, MarkDueLetters
<1>1. ASSUME NEW s \in Slots, CreateAccount(s) PROVE TypeOK'
  <2>1. CASE \E typed \in Names, role \in Roles :
               Begins(s, [ op |-> "create", id |-> Nil, old |-> Nil,
                      new |-> [ account |-> Stripped[typed], role |-> role,
                                allow_login |-> TRUE ],
                      todo |-> {}, at |-> "account" ])
    <3>1. PICK typed \in Names, role \in Roles :
               Begins(s, [ op |-> "create", id |-> Nil, old |-> Nil,
                      new |-> [ account |-> Stripped[typed], role |-> role,
                                allow_login |-> TRUE ],
                      todo |-> {}, at |-> "account" ])
      BY <2>1
    <3>2. [ account |-> Stripped[typed], role |-> role, allow_login |-> TRUE ]
            \in AccountRecord
      BY DEF AccountRecord
    <3> QED BY <3>1, <3>2, <1>0 DEF Begins, Request
  <2>2. CASE At(s, "create", "account")
    <3>1. req[s] \in Request /\ req[s].new \in AccountRecord
      BY <2>2 DEF At, Request
    <3>2. PICK i \in Ids : \/ account' = [account EXCEPT ![i] = req[s].new]
                           \/ account' = account
      BY <1>1, <2>2 DEF CreateAccount, Begins, At
    <3> QED BY <1>1, <2>2, <3>1, <3>2, <1>0 DEF CreateAccount, Begins, At, Ends
  <2> QED BY <1>1, <2>1, <2>2 DEF CreateAccount
<1>2. ASSUME NEW s \in Slots, UpdateAccount(s) PROVE TypeOK'
  <2>1. CASE BeginsUpdate(s)
    <3>1. PICK i \in Ids, new \in AccountRecord :
            /\ account[i] # Nil
            /\ Begins(s, [ op |-> "update", id |-> i, old |-> account[i], new |-> new,
                           todo |-> {}, at |-> "query" ])
      BY <2>1 DEF BeginsUpdate
    <3>2. [ op |-> "update", id |-> i, old |-> account[i], new |-> new,
            todo |-> {}, at |-> "query" ] \in Request
      BY DEF Request
    <3> QED BY <3>1, <3>2, <1>0 DEF Begins
  <2>2. CASE Looks(s)
    <3>1. req[s] \in Request
      BY <2>2 DEF Looks, At
    <3>2. req'[s] \in Request /\ req' \in [Slots -> Request \cup {Nil}]
      BY <2>2, <3>1 DEF Looks, Request
    <3> QED BY <2>2, <3>2, <1>0 DEF Looks
  <2>3. CASE PutsLetter(s)
    <3>1. req[s] \in Request
      BY <2>3 DEF PutsLetter, At
    <3>2. req' \in [Slots -> Request \cup {Nil}]
      BY <2>3, <3>1 DEF PutsLetter, Request
    <3>3. req[s].new.account \in Names
      BY <3>1 DEF Request, AccountRecord
    <3> QED BY <2>3, <3>2, <3>3, <1>0 DEF PutsLetter
  <2>4. CASE PutsAccount(s)
    <3>1. req[s].new \in AccountRecord
      BY <2>4 DEF PutsAccount, At, Request
    <3> QED BY <2>4, <3>1, <1>0 DEF PutsAccount, Ends
  <2> QED BY <1>2, <2>1, <2>2, <2>3, <2>4 DEF UpdateAccount
<1>3. ASSUME NEW s \in Slots, Abort(s) PROVE TypeOK'
  <2>1. req[s].new.account \in Names
    BY <1>3 DEF Abort, Request, AccountRecord
  <2> QED BY <1>3, <2>1, <1>0 DEF Abort, Ends
<1>4. ASSUME NEW i \in Ids, DeleteAccount(i) PROVE TypeOK'
  <2>1. account[i].account \in Names
    BY <1>4 DEF DeleteAccount, AccountRecord
  <2> QED BY <1>4, <2>1, <1>0 DEF DeleteAccount
<1>5. ASSUME NEW b \in Browsers, NEW n \in Names, Login(b, n) PROVE TypeOK'
  BY <1>5, <1>0 DEF Login
<1>6. ASSUME NEW b \in Browsers, Logout(b) PROVE TypeOK'
  BY <1>6, <1>0 DEF Logout
<1>7. ASSUME NEW b \in Browsers, NEW l \in Letters, ClaimLetter(b, l) PROVE TypeOK'
  BY <1>7, <1>0 DEF ClaimLetter, IsVolunteer
<1>8. ASSUME NEW b \in Browsers, NEW l \in Letters, ReturnLetter(b, l) PROVE TypeOK'
  BY <1>8, <1>0 DEF ReturnLetter, IsVolunteer
<1>9. ASSUME NEW L \in SUBSET Letters, MarkDueLetters(L) PROVE TypeOK'
  <2>1. {holder[l] : l \in L} \in SUBSET Names
    BY <1>9 DEF MarkDueLetters
  <2> QED BY <1>9, <2>1, <1>0 DEF MarkDueLetters
<1>10. CASE UNCHANGED vars
  BY <1>10 DEF vars
<1> QED
  BY <1>1, <1>2, <1>3, <1>4, <1>5, <1>6, <1>7, <1>8, <1>9, <1>10
  DEF Next, AdminStep, VolunteerStep, JobStep

\* Accounts, letters, logs, sessions and requests keep their types, however
\* many requests interleave and wherever they are cut off.
THEOREM AccountsTypeCorrect == Spec => []TypeOK
<1>1. Init => TypeOK
  BY TypeInit
<1>2. TypeOK /\ [Next]_vars => TypeOK'
  BY TypeStep
<1> QED BY <1>1, <1>2, PTL DEF Spec
-----------------------------------------------------------------------------
\* A request begins only when no other runs.
LEMMA BeginsAlone ==
  ASSUME MaxOverlaps = 0, Alone, NEW s \in Slots, NEW r, r # Nil,
         TypeOK, Begins(s, r)
  PROVE  /\ Idle
         /\ \A t \in Slots : req[t] = Nil
         /\ req'[s] = r
         /\ \A t \in Slots : t # s => req'[t] = Nil
         /\ Alone'
BY DEF Begins, Overlaps, Alone, Idle, TypeOK

\* A step of somebody else happens only when no request runs.
LEMMA OthersAlone ==
  ASSUME MaxOverlaps = 0, Alone, Overlaps, UNCHANGED req
  PROVE  /\ \A t \in Slots : req[t] = Nil /\ req'[t] = Nil
         /\ Alone'
         /\ \A t \in Slots : UpToDate(t)' /\ Pending(t)'
BY DEF Overlaps, Alone, Idle, UpToDate, Pending, At

\* One request goes on: the other slots stay empty.
LEMMA GoesOn ==
  ASSUME Alone, TypeOK, NEW s \in Slots, req[s] # Nil, NEW r,
         req' = [req EXCEPT ![s] = r], UNCHANGED overlaps
  PROVE  /\ req'[s] = r
         /\ \A t \in Slots : t # s => req[t] = Nil /\ req'[t] = Nil
         /\ Alone'
         /\ \A t \in Slots : t # s => UpToDate(t)' /\ Pending(t)'
BY DEF Alone, TypeOK, UpToDate, Pending, At

LEMMA RenameInit == Init => RenameInv
<1> SUFFICES ASSUME Init PROVE RenameInv
  OBVIOUS
<1>1. TypeOK
  BY TypeInit
<1>2. \A s \in Slots : req[s] = Nil
  BY DEF Init
<1>3. Alone /\ HoldersAreAccounts
  BY <1>2 DEF Init, Alone, HoldersAreAccounts
<1> QED BY <1>1, <1>2, <1>3 DEF RenameInv, UpToDate, Pending, At

\* What a step does to names and holders keeps every letter with an account,
\* because an update gives its account the new name last.
LEMMA RenameStep ==
  ASSUME MaxOverlaps = 0
  PROVE  RenameInv /\ [Next]_vars => RenameInv'
<1> SUFFICES ASSUME RenameInv, [Next]_vars PROVE RenameInv'
  OBVIOUS
<1>0. TypeOK /\ TypeOK' /\ Alone /\ HoldersAreAccounts
  BY TypeStep DEF RenameInv
<1>1. ASSUME NEW s \in Slots, CreateAccount(s) PROVE RenameInv'
  <2>1. CASE At(s, "create", "account") /\ Ends(s)
    <3>1. req[s] # Nil /\ req' = [req EXCEPT ![s] = Nil]
          /\ UNCHANGED <<holder, strays, overlaps>>
      BY <1>1, <2>1 DEF CreateAccount, At, Ends, Begins
    <3>2. /\ Alone' /\ req'[s] = Nil
          /\ \A t \in Slots : UpToDate(t)' /\ Pending(t)'
      BY <1>0, <3>1, GoesOn DEF UpToDate, Pending, At
    <3>3. NamesInUse \subseteq NamesInUse'
      <4>1. PICK i \in Ids : account[i] = Nil /\ account' = [account EXCEPT ![i] = req[s].new]
        BY <1>1, <2>1 DEF CreateAccount, Begins, At
      <4>2. \A j \in Ids : account[j] # Nil => account'[j] = account[j]
        BY <1>0, <4>1 DEF TypeOK
      <4> QED BY <4>2 DEF NamesInUse
    <3>4. NamesUnderway = {} 
      BY <1>0, <2>1, <3>1 DEF NamesUnderway, At, Alone
    <3>5. HoldersAreAccounts'
      BY <1>0, <3>1, <3>3, <3>4 DEF HoldersAreAccounts
    <3> QED BY <1>0, <3>2, <3>5 DEF RenameInv
  <2>2. CASE ~ (At(s, "create", "account") /\ Ends(s))
    <3>1. PICK r \in Request : r.op = "create" /\ Begins(s, r)
      <4>1. PICK typed \in Names, role \in Roles :
               Begins(s, [ op |-> "create", id |-> Nil, old |-> Nil,
                      new |-> [ account |-> Stripped[typed], role |-> role,
                                allow_login |-> TRUE ],
                      todo |-> {}, at |-> "account" ])
        BY <1>1, <2>2 DEF CreateAccount
      <4> QED BY <4>1, AccountsAssumption DEF Request, AccountRecord
    <3>2. /\ \A t \in Slots : req[t] = Nil
          /\ \A t \in Slots : req'[t] = Nil \/ req'[t].op = "create"
          /\ Alone'
      BY <1>0, <3>1, BeginsAlone, RecordAssumption
    <3>3. /\ \A t \in Slots : UpToDate(t)' /\ Pending(t)'
          /\ NamesUnderway = {}
      BY <3>2 DEF UpToDate, Pending, At, NamesUnderway
    <3>4. HoldersAreAccounts'
      BY <1>0, <3>1, <3>3 DEF HoldersAreAccounts, Begins, NamesInUse
    <3> QED BY <1>0, <3>2, <3>3, <3>4 DEF RenameInv
  <2> QED BY <2>1, <2>2
<1>2. ASSUME NEW s \in Slots, BeginsUpdate(s) PROVE RenameInv'
  <2>1. PICK i \in Ids, new \in AccountRecord :
          /\ account[i] # Nil
          /\ Begins(s, [ op |-> "update", id |-> i, old |-> account[i], new |-> new,
                         todo |-> {}, at |-> "query" ])
    BY <1>2 DEF BeginsUpdate
  <2> DEFINE r == [ op |-> "update", id |-> i, old |-> account[i], new |-> new,
                    todo |-> {}, at |-> "query" ]
  <2>2. r \in Request /\ r # Nil
    BY <1>0, <2>1, RecordAssumption DEF TypeOK, Request
  <2> HIDE DEF r
  <2>3. /\ \A t \in Slots : req[t] = Nil
        /\ req'[s] = r
        /\ \A t \in Slots : t # s => req'[t] = Nil
        /\ Alone'
    BY <1>0, <2>1, <2>2, BeginsAlone DEF r
  <2>4. \A t \in Slots : UpToDate(t)' /\ Pending(t)'
    BY <2>1, <2>3 DEF UpToDate, Pending, At, Begins, r
  <2>5. NamesUnderway = {}
    BY <2>3 DEF NamesUnderway, At
  <2>6. HoldersAreAccounts'
    BY <1>0, <2>1, <2>5 DEF HoldersAreAccounts, Begins, NamesInUse
  <2> QED BY <1>0, <2>3, <2>4, <2>6 DEF RenameInv
<1>3. ASSUME NEW s \in Slots, Looks(s) PROVE RenameInv'
  <2> DEFINE q == req[s]
             T == {l \in Letters : holder[l] = q.old.account}
  <2>1. q \in Request /\ q # Nil /\ q.op = "update" /\ q.at = "query"
    BY <1>0, <1>3 DEF Looks, At, TypeOK
  <2>2. PICK r \in Request :
          /\ req' = [req EXCEPT ![s] = r]
          /\ r.op = "update" /\ r.at = "letters" /\ r.todo = T
          /\ r.id = q.id /\ r.old = q.old /\ r.new = q.new
    <3>1. T \in SUBSET Letters
      OBVIOUS
    <3> HIDE DEF T
    <3>2. req' = [req EXCEPT ![s] = [q EXCEPT !.todo = T, !.at = "letters"]]
      BY <1>0, <1>3 DEF Looks, T, TypeOK
    <3>3. [q EXCEPT !.todo = T, !.at = "letters"] \in Request
      BY <2>1, <3>1 DEF Request
    <3> QED BY <2>1, <3>2, <3>3 DEF Request
  <2>3. UNCHANGED <<account, holder, strays, overlaps>>
    BY <1>3 DEF Looks
  <2>4. /\ req'[s] = r /\ Alone'
        /\ \A t \in Slots : t # s => UpToDate(t)' /\ Pending(t)'
    BY <1>0, <2>1, <2>2, <2>3, GoesOn
  <2>5. UpToDate(s)' /\ Pending(s)'
    BY <2>1, <2>2, <2>3, <2>4 DEF RenameInv, UpToDate, Pending, At
  <2>6. NamesUnderway = {}
    BY <1>0, <2>1 DEF NamesUnderway, Alone, At
  <2>7. HoldersAreAccounts'
    BY <1>0, <2>3, <2>6 DEF HoldersAreAccounts, NamesInUse
  <2> QED BY <1>0, <2>4, <2>5, <2>7 DEF RenameInv
<1>4. ASSUME NEW s \in Slots, PutsLetter(s) PROVE RenameInv'
  <2> DEFINE q == req[s]
  <2>1. q \in Request /\ q # Nil /\ q.op = "update" /\ q.at = "letters"
    BY <1>0, <1>4 DEF PutsLetter, At, TypeOK
  <2>2. PICK l \in q.todo :
          /\ req' = [req EXCEPT ![s].todo = q.todo \ {l}]
          /\ holder' = IF q.new.account = q.old.account
                         THEN holder ELSE [holder EXCEPT ![l] = q.new.account]
    BY <1>4 DEF PutsLetter
  <2>3. PICK r \in Request :
          /\ req' = [req EXCEPT ![s] = r]
          /\ r.op = "update" /\ r.at = "letters" /\ r.todo = q.todo \ {l}
          /\ r.id = q.id /\ r.old = q.old /\ r.new = q.new
    <3> DEFINE T == q.todo \ {l}
    <3>1. T \in SUBSET Letters /\ l \in Letters
      BY <2>1, <2>2 DEF Request
    <3>2. req' = [req EXCEPT ![s] = [q EXCEPT !.todo = T]]
      BY <1>0, <2>2 DEF T, TypeOK
    <3> HIDE DEF T
    <3>3. [q EXCEPT !.todo = T] \in Request
      BY <2>1, <3>1 DEF Request
    <3>4. T = q.todo \ {l}
      BY DEF T
    <3> QED BY <2>1, <3>2, <3>3, <3>4 DEF Request
  <2>4. UNCHANGED <<account, strays, overlaps>> /\ l \in Letters
    BY <1>4, <2>1, <2>2 DEF PutsLetter, Request
  <2>5. /\ req'[s] = r /\ Alone'
        /\ \A t \in Slots : t # s => UpToDate(t)' /\ Pending(t)'
    BY <1>0, <2>1, <2>3, <2>4, GoesOn
  <2>6. UpToDate(s)'
    BY <2>1, <2>3, <2>4, <2>5 DEF RenameInv, UpToDate, At
  <2>7. Pending(s)'
    BY <1>0, <2>1, <2>2, <2>3, <2>4, <2>5 DEF RenameInv, Pending, At, TypeOK
  <2>8. NamesUnderway \subseteq NamesUnderway' /\ q.new.account \in NamesUnderway'
    BY <1>0, <2>1, <2>3, <2>5, RecordAssumption DEF NamesUnderway, At, Alone
  <2>9. HoldersAreAccounts'
    BY <1>0, <2>2, <2>4, <2>8 DEF HoldersAreAccounts, NamesInUse, TypeOK
  <2> QED BY <1>0, <2>5, <2>6, <2>7, <2>9 DEF RenameInv
<1>5. ASSUME NEW s \in Slots, PutsAccount(s) PROVE RenameInv'
  <2> DEFINE q == req[s]
  <2>1. q \in Request /\ q # Nil /\ q.op = "update" /\ q.at = "letters" /\ q.todo = {}
    BY <1>0, <1>5 DEF PutsAccount, At, TypeOK
  <2>2. /\ req' = [req EXCEPT ![s] = Nil] /\ UNCHANGED <<holder, strays, overlaps>>
        /\ account' = IF q.new = q.old THEN account ELSE [account EXCEPT ![q.id] = q.new]
    BY <1>5 DEF PutsAccount, Ends
  <2>3. q.id \in Ids /\ account[q.id] = q.old /\ q.old # Nil
    BY <2>1 DEF RenameInv, UpToDate, At
  <2>4. \A l \in Letters : holder[l] = q.old.account => q.new.account = q.old.account
    BY <2>1 DEF RenameInv, Pending, At
  <2>5. /\ req'[s] = Nil /\ Alone'
        /\ \A t \in Slots : UpToDate(t)' /\ Pending(t)'
    <3>1. /\ req'[s] = Nil /\ Alone'
          /\ \A t \in Slots : t # s => UpToDate(t)' /\ Pending(t)'
      BY <1>0, <2>1, <2>2, GoesOn
    <3> QED BY <3>1 DEF UpToDate, Pending, At
  <2>6. account'[q.id] = q.new /\ q.new # Nil
        /\ \A i \in Ids : i # q.id => account'[i] = account[i]
    BY <1>0, <2>1, <2>2, <2>3, RecordAssumption DEF TypeOK, Request
  <2>7. q.new.account \in NamesInUse' /\ NamesInUse \subseteq NamesInUse' \cup {q.old.account}
    BY <2>3, <2>6 DEF NamesInUse
  <2>8. NamesUnderway \subseteq {q.new.account}
    BY <1>0, <2>1 DEF NamesUnderway, At, Alone
  <2>9. HoldersAreAccounts'
    BY <1>0, <2>2, <2>4, <2>7, <2>8 DEF HoldersAreAccounts
  <2> QED BY <1>0, <2>5, <2>9 DEF RenameInv
<1>6. ASSUME NEW s \in Slots, Abort(s) PROVE RenameInv'
  <2>1. /\ req[s] # Nil /\ req' = [req EXCEPT ![s] = Nil]
        /\ UNCHANGED <<account, holder, overlaps>>
    BY <1>6 DEF Abort, Ends
  <2>2. /\ req'[s] = Nil /\ Alone'
        /\ \A t \in Slots : UpToDate(t)' /\ Pending(t)'
    BY <1>0, <2>1, GoesOn DEF UpToDate, Pending, At
  <2>3. NamesUnderway \subseteq strays'
    BY <1>0, <1>6, <2>1 DEF Abort, NamesUnderway, At, Alone
  <2>4. strays \subseteq strays'
    BY <1>6 DEF Abort
  <2>5. HoldersAreAccounts'
    BY <1>0, <2>1, <2>3, <2>4 DEF HoldersAreAccounts, NamesInUse
  <2> QED BY <1>0, <2>2, <2>5 DEF RenameInv
<1>7. ASSUME NEW i \in Ids, DeleteAccount(i) PROVE RenameInv'
  <2>1. Overlaps /\ UNCHANGED req
    BY <1>7 DEF DeleteAccount
  <2>2. /\ Alone' /\ NamesUnderway = {}
        /\ \A t \in Slots : UpToDate(t)' /\ Pending(t)'
    BY <1>0, <2>1, OthersAlone DEF NamesUnderway, At
  <2>3. \A j \in Ids : j # i => account'[j] = account[j]
    BY <1>0, <1>7 DEF DeleteAccount, TypeOK
  <2>4. NamesInUse \subseteq NamesInUse' \cup strays' /\ strays \subseteq strays'
    BY <1>7, <2>3 DEF DeleteAccount, NamesInUse
  <2>5. HoldersAreAccounts'
    BY <1>0, <1>7, <2>2, <2>4 DEF DeleteAccount, HoldersAreAccounts
  <2> QED BY <1>0, <2>2, <2>5 DEF RenameInv
<1>8. ASSUME VolunteerStep \/ JobStep PROVE RenameInv'
  <2>1. Overlaps /\ UNCHANGED <<req, account, strays>>
    BY <1>8 DEF VolunteerStep, JobStep, Login, Logout, ClaimLetter, ReturnLetter,
       MarkDueLetters
  <2>2. /\ Alone' /\ NamesUnderway = {}
        /\ \A t \in Slots : UpToDate(t)' /\ Pending(t)'
    BY <1>0, <2>1, OthersAlone DEF NamesUnderway, At
  <2>3. \A l \in Letters : holder'[l] \in {holder[l], Nil} \cup NamesInUse
    <3>1. CASE \E b \in Browsers, m \in Letters : ClaimLetter(b, m)
      <4>1. PICK b \in Browsers, m \in Letters : ClaimLetter(b, m)
        BY <3>1
      <4>2. session[b] \in NamesInUse
        BY <4>1 DEF ClaimLetter, IsVolunteer, Named, NamesInUse
      <4> QED BY <1>0, <4>1, <4>2 DEF ClaimLetter, TypeOK
    <3>2. CASE \E b \in Browsers, m \in Letters : ReturnLetter(b, m)
      BY <1>0, <3>2 DEF ReturnLetter, TypeOK
    <3>3. CASE JobStep
      BY <1>0, <3>3 DEF JobStep, MarkDueLetters, TypeOK
    <3>4. CASE UNCHANGED holder
      BY <3>4
    <3> QED BY <1>8, <3>1, <3>2, <3>3, <3>4 DEF VolunteerStep, Login, Logout
  <2>4. HoldersAreAccounts'
    BY <1>0, <2>1, <2>2, <2>3 DEF HoldersAreAccounts, NamesInUse
  <2> QED BY <1>0, <2>2, <2>4 DEF RenameInv
<1>9. CASE UNCHANGED vars
  BY <1>9 DEF vars, RenameInv, TypeOK, Alone, UpToDate, Pending, At,
     HoldersAreAccounts, NamesInUse, NamesUnderway
<1> QED
  BY <1>1, <1>2, <1>3, <1>4, <1>5, <1>6, <1>7, <1>8, <1>9
  DEF Next, AdminStep, UpdateAccount

\* With nothing happening during a change of name, wherever it is cut off,
\* every letter in somebody's hands is with an account, or can be told why
\* not: an account deleted, an update cut off.
THEOREM LettersStayWithAccounts ==
  ASSUME MaxOverlaps = 0
  PROVE  Spec => []HoldersAreAccounts
<1>1. Init => RenameInv
  BY RenameInit
<1>2. RenameInv /\ [Next]_vars => RenameInv'
  BY RenameStep
<1>3. RenameInv => HoldersAreAccounts
  BY DEF RenameInv
<1> QED BY <1>1, <1>2, <1>3, PTL DEF Spec

\* An account gives up its name after its last letter, so an update cut off
\* and made again finds the letters the first one left behind.
LEMMA NameStep ==
  ASSUME RenameInv, [Next]_vars, NEW i \in Ids,
         account[i] # Nil, account'[i] # Nil, account'[i].account # account[i].account,
         NEW l \in Letters
  PROVE  holder[l] # account[i].account
<1>0. TypeOK
  BY DEF RenameInv
<1>1. \E s \in Slots : CreateAccount(s) \/ PutsAccount(s)
  BY <1>0 DEF Next, vars, AdminStep, VolunteerStep, JobStep, UpdateAccount, BeginsUpdate,
     Begins, Looks, PutsLetter, Abort, DeleteAccount, Login, Logout, ClaimLetter,
     ReturnLetter, MarkDueLetters, TypeOK
<1>2. PICK s \in Slots : CreateAccount(s) \/ PutsAccount(s)
  BY <1>1
<1>3. ~ CreateAccount(s)
  BY <1>0 DEF CreateAccount, Begins, TypeOK
<1>4. PutsAccount(s)
  BY <1>2, <1>3
<1>5. At(s, "update", "letters") /\ req[s].todo = {} /\ UpToDate(s) /\ Pending(s)
  BY <1>4 DEF PutsAccount, RenameInv
<1>6. i = req[s].id /\ account'[i] = req[s].new
  BY <1>0, <1>4, <1>5 DEF PutsAccount, TypeOK, UpToDate
<1> QED BY <1>5, <1>6 DEF UpToDate, Pending

THEOREM NamesAreLeftLast ==
  ASSUME MaxOverlaps = 0
  PROVE  Spec => NameLeavesLast
<1>1. Init => RenameInv
  BY RenameInit
<1>2. RenameInv /\ [Next]_vars => RenameInv'
  BY RenameStep
<1>3. RenameInv /\ [Next]_vars =>
        [\A i \in Ids :
           account[i] # Nil /\ account'[i] # Nil /\ account'[i].account # account[i].account
             => \A l \in Letters : holder[l] # account[i].account]_vars
  BY NameStep
<1> QED BY <1>1, <1>2, <1>3, PTL DEF Spec, NameLeavesLast
=============================================================================
