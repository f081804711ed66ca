--------------------------- MODULE LetterListsProofs ---------------------------
(***************************************************************************)
(* Theorems about LetterLists, for any number of letters and any PAGESIZE. *)
(* A list is known by the ranks of its letters, Before(l, S); they are the *)
(* numbers from 0 to Cardinality(S) - 1, each once (RankExists), and the   *)
(* rest is arithmetic of pages.                                            *)
(***************************************************************************)
EXTENDS LetterLists, FiniteSetTheorems, TLAPS

-----------------------------------------------------------------------------
(***************************************************************************)
(* Ranks.                                                                  *)
(***************************************************************************)

LEMMA RankBounds ==
  ASSUME NEW S, S \subseteq Nat, IsFiniteSet(S), NEW l \in S
  PROVE  /\ Before(l, S) \in Nat
         /\ Cardinality(S) \in Nat
         /\ Before(l, S) < Cardinality(S)
<1>. DEFINE B == {m \in S : m < l}
<1>1. B \subseteq S \ {l}
  OBVIOUS
<1>2. /\ IsFiniteSet(S \ {l})
      /\ Cardinality(S \ {l}) = Cardinality(S) - 1
  BY FS_RemoveElement
<1>3. /\ Cardinality(B) <= Cardinality(S \ {l})
      /\ IsFiniteSet(B)
  BY <1>1, <1>2, FS_Subset
<1>4. Cardinality(B) \in Nat /\ Cardinality(S) \in Nat
  BY <1>3, FS_CardinalityType
<1>. QED
  BY <1>2, <1>3, <1>4 DEF Before

\* A letter further down the list has a higher rank.
LEMMA RankGrows ==
  ASSUME NEW S, S \subseteq Nat, IsFiniteSet(S), NEW l \in S, NEW k \in S, l < k
  PROVE  Before(l, S) < Before(k, S)
<1>. DEFINE B == {m \in S : m < l}
            D == {m \in S : m < k}
<1>1. D \subseteq S /\ B \subseteq D \ {l} /\ l \in D
  <2>1. ASSUME NEW m \in S, m < l
        PROVE  m < k /\ m # l
    <3>1. m \in Nat /\ l \in Nat /\ k \in Nat
      OBVIOUS
    <3>. QED
      BY <2>1, <3>1
  <2>. QED
    BY <2>1
<1>2. IsFiniteSet(D)
  BY <1>1, FS_Subset
<1>3. IsFiniteSet(D \ {l}) /\ Cardinality(D \ {l}) = Cardinality(D) - 1
  BY <1>1, <1>2, FS_RemoveElement
<1>4. IsFiniteSet(B) /\ Cardinality(B) <= Cardinality(D \ {l})
  BY <1>1, <1>3, FS_Subset
<1>5. Cardinality(B) \in Nat /\ Cardinality(D) \in Nat
  BY <1>2, <1>4, FS_CardinalityType
<1>. QED
  BY <1>3, <1>4, <1>5 DEF Before

LEMMA FirstNumbers ==
  ASSUME NEW n \in Nat
  PROVE  IsFiniteSet(0..(n - 1)) /\ Cardinality(0..(n - 1)) = n
<1>1. /\ IsFiniteSet(0..(n - 1))
      /\ Cardinality(0..(n - 1)) = IF 0 > n - 1 THEN 0 ELSE n - 1 - 0 + 1
  <2>1. 0 \in Int /\ n - 1 \in Int
    OBVIOUS
  <2>. QED
    BY <2>1, FS_Interval
<1>. QED
  BY <1>1

\* Every position of a list is some letter's.
LEMMA RankExists ==
  ASSUME NEW S, S \subseteq Nat, IsFiniteSet(S),
         NEW r \in Nat, r < Cardinality(S)
  PROVE  \E l \in S : Before(l, S) = r
<1>. DEFINE n == Cardinality(S)
            T == 0..(n - 1)
            f == [l \in S |-> Before(l, S)]
<1>1. n \in Nat
  BY FS_CardinalityType
<1>2. f \in [S -> T]
  <2>1. ASSUME NEW l \in S
        PROVE  Before(l, S) \in T
    <3>1. Before(l, S) \in Nat /\ Before(l, S) < n
      BY RankBounds
    <3>. QED
      BY <1>1, <3>1
  <2>. QED
    BY <2>1
<1>3. ASSUME NEW l \in S, NEW k \in S, f[l] = f[k]
      PROVE  l = k
  <2>1. Before(l, S) = Before(k, S) /\ Before(l, S) \in Nat
    BY <1>3, RankBounds
  <2>2. Before(k, S) \in Nat
    BY RankBounds
  <2>3. l < k => Before(l, S) < Before(k, S)
    BY RankGrows
  <2>4. k < l => Before(k, S) < Before(l, S)
    BY RankGrows
  <2>5. ~ (l < k) /\ ~ (k < l)
    BY <2>1, <2>2, <2>3, <2>4
  <2>6. l \in Nat /\ k \in Nat
    OBVIOUS
  <2>. QED
    BY <2>5, <2>6
<1>4. f \in Injection(S, T)
  BY <1>2, <1>3 DEF Injection, IsInjective
<1>5. IsFiniteSet(T) /\ Cardinality(T) = n
  BY <1>1, FirstNumbers
<1>6. f \in Surjection(S, T)
  BY <1>4, <1>5, FS_Injection
<1>7. r \in T
  BY <1>1
<1>8. PICK l \in S : f[l] = r
  BY <1>6, <1>7 DEF Surjection
<1>. QED
  BY <1>8

-----------------------------------------------------------------------------
(***************************************************************************)
(* Pages.                                                                  *)
(***************************************************************************)

LEMMA Quotient ==
  ASSUME NEW a \in Nat
  PROVE  /\ a \div PAGESIZE \in Nat
         /\ (a \div PAGESIZE) * PAGESIZE <= a
         /\ a < (a \div PAGESIZE) * PAGESIZE + PAGESIZE
BY ListsAssumption, Z3

LEMMA Cancel ==
  ASSUME NEW a \in Int, NEW b \in Int, a * PAGESIZE < b * PAGESIZE
  PROVE  a < b
BY ListsAssumption, Z3

\* As many pages as needed, and no more.
LEMMA PagesEnough ==
  ASSUME NEW n \in Nat
  PROVE  /\ PagesFor(n) \in Nat
         /\ n <= PagesFor(n) * PAGESIZE
         /\ (PagesFor(n) - 1) * PAGESIZE < n
<1>. DEFINE q == PagesFor(n)
<1>1. /\ q \in Nat
      /\ q * PAGESIZE <= n + PAGESIZE - 1
      /\ n + PAGESIZE - 1 < q * PAGESIZE + PAGESIZE
  BY ListsAssumption, Quotient DEF PagesFor
<1>2. (q - 1) * PAGESIZE = q * PAGESIZE - PAGESIZE /\ q * PAGESIZE \in Int
  BY <1>1, ListsAssumption
<1>. QED
  BY <1>1, <1>2, ListsAssumption

LEMMA OffsetOf ==
  ASSUME NEW p \in Int
  PROVE  /\ get_offset(p) \in Int
         /\ get_offset(p) = p * PAGESIZE - PAGESIZE
         /\ p * PAGESIZE \in Int
BY ListsAssumption DEF get_offset

\* Rank r falls on one page, and the links reach it.
LEMMA RankOnOnePage ==
  ASSUME NEW n \in Nat, NEW r \in Nat, r < n
  PROVE  \E p \in 1..PagesFor(n) :
           \A q \in 1..PagesFor(n) :
             (get_offset(q) <= r /\ r < get_offset(q) + PAGESIZE) <=> q = p
<1>. DEFINE p == r \div PAGESIZE + 1
<1>1. /\ p \in Nat /\ p - 1 \in Nat
      /\ (p - 1) * PAGESIZE <= r
      /\ r < (p - 1) * PAGESIZE + PAGESIZE
  BY Quotient
<1>. HIDE DEF p
<1>2. get_offset(p) <= r /\ r < get_offset(p) + PAGESIZE
  BY <1>1 DEF get_offset
<1>3. p \in 1..PagesFor(n)
  <2>1. PagesFor(n) \in Nat /\ n <= PagesFor(n) * PAGESIZE
    BY PagesEnough
  <2>2. (p - 1) * PAGESIZE \in Int /\ PagesFor(n) * PAGESIZE \in Int
    BY <1>1, <2>1, ListsAssumption
  <2>3. (p - 1) * PAGESIZE < PagesFor(n) * PAGESIZE
    BY <1>1, <2>1, <2>2
  <2>4. p - 1 < PagesFor(n)
    BY <1>1, <2>1, <2>3, Cancel
  <2>. QED
    BY <1>1, <2>1, <2>4
<1>4. ASSUME NEW q \in 1..PagesFor(n),
             get_offset(q) <= r, r < get_offset(q) + PAGESIZE
      PROVE  q = p
  <2>1. q \in Int /\ p \in Int /\ PAGESIZE \in Int
    BY <1>1, PagesEnough, ListsAssumption
  <2>2. /\ q * PAGESIZE - PAGESIZE <= r /\ r < q * PAGESIZE
        /\ p * PAGESIZE - PAGESIZE <= r /\ r < p * PAGESIZE
        /\ q * PAGESIZE \in Int /\ p * PAGESIZE \in Int
    BY <1>2, <1>4, <2>1, OffsetOf
  <2>3. /\ (q - 1) * PAGESIZE = q * PAGESIZE - PAGESIZE
        /\ (p - 1) * PAGESIZE = p * PAGESIZE - PAGESIZE
    BY <2>1, OffsetOf DEF get_offset
  <2>4. (q - 1) * PAGESIZE < p * PAGESIZE /\ (p - 1) * PAGESIZE < q * PAGESIZE
    BY <2>1, <2>2, <2>3
  <2>5. q - 1 < p /\ p - 1 < q
    BY <2>1, <2>4, Cancel
  <2>. QED
    BY <2>1, <2>5
<1>. QED
  BY <1>2, <1>3, <1>4

\* A list that fits on a page has one link, or none.
LEMMA OnePageIsOne ==
  ASSUME NEW n \in Nat, n <= PAGESIZE
  PROVE  PagesFor(n) = IF n = 0 THEN 0 ELSE 1
<1>1. /\ PagesFor(n) \in Nat
      /\ n <= PagesFor(n) * PAGESIZE
      /\ (PagesFor(n) - 1) * PAGESIZE < n
  BY PagesEnough
<1>2. /\ (PagesFor(n) - 1) * PAGESIZE < 1 * PAGESIZE
      /\ n = 0 => (PagesFor(n) - 1) * PAGESIZE < 0 * PAGESIZE
  BY <1>1, ListsAssumption
<1>3. PagesFor(n) - 1 < 1 /\ (n = 0 => PagesFor(n) - 1 < 0)
  BY <1>1, <1>2, Cancel
<1>4. PagesFor(n) = 0 => PagesFor(n) * PAGESIZE = 0
  BY ListsAssumption
<1>. QED
  BY <1>1, <1>3, <1>4

\* In any list, a letter is on exactly one of the linked pages.
LEMMA ListedOnOnePage ==
  ASSUME NEW S, S \subseteq Nat, IsFiniteSet(S), NEW l \in S
  PROVE  \E p \in 1..PagesFor(Cardinality(S)) :
           \A q \in 1..PagesFor(Cardinality(S)) : l \in Sliced(S, q) <=> q = p
<1>1. /\ Before(l, S) \in Nat /\ Cardinality(S) \in Nat
      /\ Before(l, S) < Cardinality(S)
  BY RankBounds
<1>2. CASE Cardinality(S) > PAGESIZE
  BY <1>1, <1>2, RankOnOnePage DEF Sliced
<1>3. CASE ~ (Cardinality(S) > PAGESIZE)
  <2>1. PagesFor(Cardinality(S)) = 1
    BY <1>1, <1>3, OnePageIsOne, ListsAssumption
  <2>. QED
    BY <1>3, <2>1 DEF Sliced
<1>. QED
  BY <1>2, <1>3

LEMMA ListIsFinite ==
  ASSUME NEW S, S \subseteq Letters
  PROVE  S \subseteq Nat /\ IsFiniteSet(S) /\ Cardinality(S) \in Nat
BY ListsAssumption, FS_Subset, FS_CardinalityType
-----------------------------------------------------------------------------
(***************************************************************************)
(* What holds of the lists at any time, whatever the letters are up to.    *)
(***************************************************************************)

LEMMA ListedIsList ==
  ASSUME NEW tab
  PROVE  Listed(tab) \subseteq Letters
BY DEF Listed

LEMMA TabOfLetter ==
  ASSUME NEW l
  PROVE  TabOf(l) \in Tabs
BY ListsAssumption DEF TabOf, Tabs

\* Whatever is offered is on one page of one tab, for any number of letters,
\* any page size and either direction.
THEOREM OfferedAlwaysOnOnePage == Spec => []OfferedOnOnePage
<1>1. OfferedOnOnePage
  <2>. SUFFICES ASSUME NEW l \in Letters, Offered(l)
                PROVE  \E tab \in Tabs : \E p \in 1..PagesFor(Cardinality(Listed(tab))) :
                         \A t \in Tabs : \A q \in 1..PagesFor(Cardinality(Listed(t))) :
                           l \in Sliced(Listed(t), q) <=> t = tab /\ q = p
    BY DEF OfferedOnOnePage
  <2>. DEFINE tab == TabOf(l)
  <2>1. tab \in Tabs /\ l \in Listed(tab)
    BY TabOfLetter DEF Listed
  <2>2. PICK p \in 1..PagesFor(Cardinality(Listed(tab))) :
          \A q \in 1..PagesFor(Cardinality(Listed(tab))) :
            l \in Sliced(Listed(tab), q) <=> q = p
    BY <2>1, ListedIsList, ListIsFinite, ListedOnOnePage
  <2>3. ASSUME NEW t \in Tabs, t # tab, NEW q
        PROVE  l \notin Sliced(Listed(t), q)
    BY <2>3 DEF Sliced, Listed
  <2>. QED
    BY <2>1, <2>2, <2>3
<1>. QED
  BY <1>1, PTL

\* More letters, no fewer pages.
LEMMA PagesGrow ==
  ASSUME NEW n \in Nat, NEW k \in Nat, n <= k
  PROVE  PagesFor(n) <= PagesFor(k)
<1>1. /\ PagesFor(n) \in Nat /\ PagesFor(k) \in Nat
      /\ (PagesFor(n) - 1) * PAGESIZE < n
      /\ k <= PagesFor(k) * PAGESIZE
  BY PagesEnough
<1>2. (PagesFor(n) - 1) * PAGESIZE \in Int /\ PagesFor(k) * PAGESIZE \in Int
  BY <1>1, ListsAssumption
<1>3. (PagesFor(n) - 1) * PAGESIZE < PagesFor(k) * PAGESIZE
  BY <1>1, <1>2
<1>4. PagesFor(n) - 1 < PagesFor(k)
  BY <1>1, <1>3, Cancel
<1>. QED
  BY <1>1, <1>4

\* Counting three statuses links enough pages for each of them.
THEOREM EmployeeAlwaysFindsAll == Spec => []EmployeeFindsAll
<1>1. ASSUME NEW l \in Letters,
             NEW mark \in {"unclaimed", "emergent", "claimed", "returned"},
             l \in Own(mark)
      PROVE  \E p \in 1..(IF mark = "returned" THEN ReturnLinks ELSE EmployeeLinks) :
               l \in Sliced(Own(mark), p)
  <2>. DEFINE links == IF mark = "returned" THEN ReturnLinks ELSE EmployeeLinks
  <2>1. \A m : Own(m) \subseteq Nat /\ IsFiniteSet(Own(m)) /\ Cardinality(Own(m)) \in Nat
    <3>1. \A m : Own(m) \subseteq Letters
      BY DEF Own
    <3>. QED
      BY <3>1, ListIsFinite
  <2>2. PagesFor(Cardinality(Own(mark))) <= links
    <3>1. CASE mark = "returned"
      BY <2>1, <3>1, PagesEnough DEF ReturnLinks
    <3>2. CASE mark # "returned"
      <4>. DEFINE sum == Cardinality(Own("emergent")) + Cardinality(Own("claimed"))
                           + Cardinality(Own("unclaimed"))
      <4>1. sum \in Nat /\ Cardinality(Own(mark)) <= sum
        BY <2>1, <3>2
      <4>. QED
        BY <2>1, <3>2, <4>1, PagesGrow DEF EmployeeLinks
    <3>. QED
      BY <3>1, <3>2
  <2>3. PICK p \in 1..PagesFor(Cardinality(Own(mark))) : l \in Sliced(Own(mark), p)
    BY <1>1, <2>1, ListedOnOnePage
  <2>4. links \in Nat /\ PagesFor(Cardinality(Own(mark))) \in Nat
    BY <2>1, PagesEnough DEF ReturnLinks, EmployeeLinks
  <2>. QED
    BY <2>2, <2>3, <2>4
<1>2. EmployeeFindsAll
  BY <1>1 DEF EmployeeFindsAll
<1>. QED
  BY <1>2, PTL
-----------------------------------------------------------------------------
(***************************************************************************)
(* Types, and that the links of a page are those for its count.            *)
(***************************************************************************)
PageInv ==
  /\ TypeOK
  /\ browser # Nil => browser.links = PagesFor(browser.count)

LEMMA RenderedPage ==
  ASSUME NEW tab \in Tabs, NEW start \in Nat \ {0}
  PROVE  /\ Rendered(tab, start) \in Page
         /\ Rendered(tab, start).links = PagesFor(Rendered(tab, start).count)
<1>1. Cardinality(Listed(tab)) \in Nat
  BY ListedIsList, ListIsFinite
<1>2. PagesFor(Cardinality(Listed(tab))) \in Nat
  BY <1>1, PagesEnough
<1>. QED
  BY <1>1, <1>2 DEF Rendered, Page

LEMMA ReadingTypes ==
  \A tab : NewReading(tab) \in SUBSET Letters
BY ListedIsList DEF NewReading

LEMMA InitPageInv == Init => PageInv
BY DEF Init, C!Init, PageInv, TypeOK

LEMMA NextPageInv == PageInv /\ [Next]_vars => PageInv'
<1>. SUFFICES ASSUME PageInv, [Next]_vars PROVE PageInv'
  OBVIOUS
<1>. USE DEF PageInv, TypeOK
<1>1. CASE UNCHANGED vars
  BY <1>1 DEF vars
<1>2. ASSUME NEW l \in Letters, LetterMoves(l)
      PROVE  PageInv'
  <2>1. custody' \in [Letters -> C!Custody \cup {Nil}] /\ browser' = browser
    BY <1>2 DEF LetterMoves
  <2>2. owed' \in SUBSET Letters
    BY <1>2 DEF LetterMoves
  <2>. QED
    BY <2>1, <2>2
<1>3. ASSUME NEW tab \in Tabs, Open(tab)
      PROVE  PageInv'
  <2>1. /\ browser' = Rendered(tab, 1)
        /\ owed' = NewReading(tab)
        /\ custody' = custody
    BY <1>3 DEF Open
  <2>2. Rendered(tab, 1) \in Page /\ Rendered(tab, 1).links = PagesFor(Rendered(tab, 1).count)
    BY RenderedPage
  <2>. QED
    BY <2>1, <2>2, ReadingTypes
<1>4. ASSUME NEW start \in 1..Cardinality(Letters), Follow(start)
      PROVE  PageInv'
  <2>1. /\ browser \in Page /\ browser # Nil
        /\ browser.tab \in Tabs /\ browser.links = PagesFor(browser.count)
        /\ start \in 1..browser.links /\ start \in Nat \ {0}
        /\ custody' = custody
    BY <1>4 DEF Follow, Page
  <2>2. CASE browser' = [browser EXCEPT !.outcome = "failed"] /\ owed' = owed
    BY <2>1, <2>2 DEF Page
  <2>3. CASE /\ browser' = Rendered(browser.tab, start)
             /\ owed' \in SUBSET Letters
    <3>. DEFINE r == Rendered(browser.tab, start)
    <3>1. r \in Page /\ r.links = PagesFor(r.count)
      BY <2>1, RenderedPage
    <3>. HIDE DEF r
    <3>. QED
      BY <2>1, <2>3, <3>1 DEF r
  <2>4. ASSUME owed' = IF start = 1 THEN NewReading(browser.tab)
                       ELSE IF start = browser.at + 1
                         THEN owed \ Sliced(Listed(browser.tab), start)
                         ELSE {}
        PROVE  owed' \in SUBSET Letters
    BY <2>4, ReadingTypes
  <2>. QED
    BY <1>4, <2>2, <2>3, <2>4 DEF Follow
<1>. QED
  BY <1>1, <1>2, <1>3, <1>4 DEF Next

LEMMA PageInvariant == Spec => []PageInv
BY InitPageInv, NextPageInv, PTL DEF Spec

\* Custody, page and history keep their types.
THEOREM ListsTypeCorrect == Spec => []TypeOK
<1>1. PageInv => TypeOK
  BY DEF PageInv
<1>. QED
  BY <1>1, PageInvariant, PTL
-----------------------------------------------------------------------------
(***************************************************************************)
(* Stale links.                                                            *)
(***************************************************************************)

\* A page up to the end of the list has letters on it.
LEMMA SliceHasLetters ==
  ASSUME NEW S, S \subseteq Nat, IsFiniteSet(S), NEW start \in Nat \ {0},
         get_offset(start) < Cardinality(S)
  PROVE  Sliced(S, start) # {} /\ ~ SliceIsNil(S, start)
<1>1. Cardinality(S) \in Nat
  BY FS_CardinalityType
<1>2. get_offset(start) \in Nat
  BY ListsAssumption DEF get_offset
<1>3. PICK l \in S : Before(l, S) = get_offset(start)
  BY <1>1, <1>2, RankExists
<1>4. l \in Sliced(S, start)
  BY <1>2, <1>3, ListsAssumption DEF Sliced
<1>. QED
  BY <1>1, <1>2, <1>4 DEF SliceIsNil

\* A link fails or leads to an empty page only if the list has become
\* shorter since the link was shown.
THEOREM LinksAlwaysLead == Spec => LinksLeadToLetters
<1>. DEFINE Step == \A start \in 1..Cardinality(Letters) :
                      browser' # browser /\ browser'.outcome # "letters" /\ Follow(start)
                        => Cardinality(Listed(browser.tab)) < browser.count
<1>1. ASSUME PageInv, NEW start \in 1..Cardinality(Letters),
             Follow(start), browser'.outcome # "letters"
      PROVE  Cardinality(Listed(browser.tab)) < browser.count
  <2>. DEFINE S == Listed(browser.tab)
  <2>1. /\ browser \in Page /\ browser.count \in Nat
        /\ browser.links = PagesFor(browser.count)
        /\ start \in 1..browser.links
    BY <1>1 DEF Follow, PageInv, TypeOK, Page
  <2>2. S \subseteq Nat /\ IsFiniteSet(S) /\ Cardinality(S) \in Nat
    BY ListedIsList, ListIsFinite
  <2>3. get_offset(start) \in Int /\ get_offset(start) < browser.count
    <3>1. /\ browser.links \in Nat
          /\ (browser.links - 1) * PAGESIZE < browser.count
      BY <2>1, PagesEnough
    <3>2. start \in Nat /\ start - 1 <= browser.links - 1
      BY <2>1, <3>1
    <3>3. (start - 1) * PAGESIZE <= (browser.links - 1) * PAGESIZE
      BY <3>1, <3>2, ListsAssumption, Z3
    <3>4. (start - 1) * PAGESIZE \in Int /\ (browser.links - 1) * PAGESIZE \in Int
      BY <3>1, <3>2, ListsAssumption
    <3>. QED
      BY <2>1, <3>1, <3>3, <3>4 DEF get_offset
  <2>4. ~ (get_offset(start) < Cardinality(S))
    <3>1. SUFFICES ASSUME get_offset(start) < Cardinality(S) PROVE FALSE
      OBVIOUS
    <3>2. start \in Nat \ {0}
      BY <2>1
    <3>3. Sliced(S, start) # {} /\ ~ SliceIsNil(S, start)
      BY <2>2, <3>1, <3>2, SliceHasLetters
    <3>4. browser' = Rendered(browser.tab, start)
      BY <1>1, <3>3 DEF Follow
    <3>. QED
      BY <1>1, <3>3, <3>4 DEF Rendered
  <2>. QED
    BY <2>1, <2>2, <2>3, <2>4
<1>2. PageInv /\ [Next]_vars => [Step]_vars
  BY <1>1
<1>. QED
  BY <1>2, PageInvariant, PTL DEF Spec, LinksLeadToLetters
-----------------------------------------------------------------------------
(***************************************************************************)
(* Reading a tab from page 1 on.  A letter still owed to the reader is     *)
(* behind the page read last, which then is not the last page linked.      *)
(***************************************************************************)
Ahead(l) ==
  /\ browser.at < browser.links
  /\ browser.at * PAGESIZE <= Before(l, Listed(browser.tab))

WalkInv ==
  \A l \in owed : browser \in Page /\ l \in Listed(browser.tab) /\ Ahead(l)

ReadInv == PageInv /\ WalkInv

\* What page `start' does not show of the rest of the list comes later, and
\* there is a link to it.
LEMMA RestIsAhead ==
  ASSUME NEW S, S \subseteq Nat, IsFiniteSet(S), NEW start \in Nat \ {0},
         NEW l \in S, l \notin Sliced(S, start),
         get_offset(start) <= Before(l, S)
  PROVE  /\ start < PagesFor(Cardinality(S))
         /\ start * PAGESIZE <= Before(l, S)
<1>1. /\ Before(l, S) \in Nat /\ Cardinality(S) \in Nat
      /\ Before(l, S) < Cardinality(S)
  BY RankBounds
<1>2. /\ get_offset(start) \in Int /\ start * PAGESIZE \in Int
      /\ get_offset(start) + PAGESIZE = start * PAGESIZE
  BY OffsetOf, ListsAssumption
<1>3. start * PAGESIZE <= Before(l, S)
  BY <1>1, <1>2, ListsAssumption DEF Sliced
<1>4. /\ PagesFor(Cardinality(S)) \in Nat
      /\ Cardinality(S) <= PagesFor(Cardinality(S)) * PAGESIZE
  BY <1>1, PagesEnough
<1>5. PagesFor(Cardinality(S)) * PAGESIZE \in Int
  BY <1>4, ListsAssumption
<1>6. start * PAGESIZE < PagesFor(Cardinality(S)) * PAGESIZE
  BY <1>1, <1>2, <1>3, <1>4, <1>5
<1>7. start < PagesFor(Cardinality(S))
  BY <1>4, <1>6, Cancel
<1>. QED
  BY <1>3, <1>7

\* Letters that join a list, or leave it behind l, do not bring l forward.
LEMMA RankKept ==
  ASSUME NEW S, S \subseteq Nat, IsFiniteSet(S),
         NEW T, T \subseteq Nat, IsFiniteSet(T), NEW l \in Nat,
         \A m \in S \ T : ~ (m < l)
  PROVE  Before(l, S) \in Nat /\ Before(l, T) \in Nat /\ Before(l, S) <= Before(l, T)
<1>. DEFINE B == {m \in S : m < l}
            D == {m \in T : m < l}
<1>1. B \subseteq D /\ D \subseteq T /\ B \subseteq S
  OBVIOUS
<1>2. IsFiniteSet(D) /\ IsFiniteSet(B)
  BY <1>1, FS_Subset
<1>3. Cardinality(B) <= Cardinality(D)
  BY <1>1, <1>2, FS_Subset
<1>. QED
  BY <1>2, <1>3, FS_CardinalityType DEF Before

LEMMA MoveKeepsWalk ==
  ASSUME ReadInv, NEW x \in Letters, LetterMoves(x)
  PROVE  WalkInv'
<1>. DEFINE tab == browser.tab
            S == Listed(tab)
            T == Listed(tab)'
<1>1. /\ browser' = browser
      /\ owed' = {m \in owed : m \in T /\ \A k \in S \ T : ~ (k < m)}
  BY DEF LetterMoves
<1>2. /\ S \subseteq Nat /\ IsFiniteSet(S)
      /\ T \subseteq Nat /\ IsFiniteSet(T)
  <2>1. S \subseteq Letters /\ T \subseteq Letters
    BY DEF Listed
  <2>. QED
    BY <2>1, ListIsFinite
<1>3. ASSUME NEW l \in owed'
      PROVE  browser' \in Page /\ l \in Listed(browser.tab)' /\ Ahead(l)'
  <2>1. /\ l \in owed /\ l \in T
        /\ \A k \in S \ T : ~ (k < l)
    BY <1>1, <1>3
  <2>2. browser \in Page /\ Ahead(l)
    BY <2>1 DEF ReadInv, WalkInv
  <2>3. Before(l, S) \in Nat /\ Before(l, T) \in Nat /\ Before(l, S) <= Before(l, T)
    <3>1. l \in Nat
      BY <1>2, <2>1
    <3>. HIDE DEF S, T
    <3>. QED
      BY <1>2, <2>1, <3>1, RankKept
  <2>4. browser.at * PAGESIZE \in Int
    BY <2>2, ListsAssumption DEF Page
  <2>5. /\ browser.at < browser.links
        /\ browser.at * PAGESIZE <= Before(l, T)
    BY <2>2, <2>3, <2>4 DEF Ahead
  <2>6. Before(l, T) = Before(l, Listed(browser.tab))'
    BY <1>1 DEF Before
  <2>. QED
    BY <1>1, <2>1, <2>2, <2>5, <2>6 DEF Ahead
<1>. QED
  BY <1>3 DEF WalkInv

\* A reading that begins with the page just rendered.
LEMMA NewWalkInv ==
  ASSUME NEW tab \in Tabs,
         browser' = Rendered(tab, 1), owed' = NewReading(tab), custody' = custody
  PROVE  WalkInv'
<1>. DEFINE S == Listed(tab)
<1>1. /\ S \subseteq Nat /\ IsFiniteSet(S)
      /\ Listed(tab)' = S
  BY ListedIsList, ListIsFinite DEF Listed, Offered, TabOf
<1>2. /\ browser' \in Page
      /\ browser'.tab = tab /\ browser'.at = 1
      /\ browser'.links = PagesFor(Cardinality(S))
  BY RenderedPage DEF Rendered
<1>3. owed' = S \ Sliced(S, 1)
  BY DEF NewReading
<1>4. ASSUME NEW l \in owed'
      PROVE  1 < PagesFor(Cardinality(S)) /\ 1 * PAGESIZE <= Before(l, S)
  <2>1. l \in S /\ l \notin Sliced(S, 1)
    BY <1>3, <1>4
  <2>2. get_offset(1) <= Before(l, S)
    <3>1. Before(l, S) \in Nat
      BY <1>1, <2>1, RankBounds
    <3>2. get_offset(1) = 0
      BY ListsAssumption DEF get_offset
    <3>. QED
      BY <3>1, <3>2
  <2>3. S \subseteq Nat /\ IsFiniteSet(S) /\ 1 \in Nat \ {0}
    BY <1>1
  <2>. HIDE DEF S
  <2>. QED
    BY <2>1, <2>2, <2>3, RestIsAhead
<1>5. Listed(browser.tab)' = S
  BY <1>1, <1>2 DEF Listed, Offered, TabOf
<1>6. ASSUME NEW l \in owed'
      PROVE  Ahead(l)'
  BY <1>2, <1>4, <1>5, <1>6 DEF Ahead, Before
<1>. QED
  BY <1>2, <1>3, <1>5, <1>6 DEF WalkInv

LEMMA FollowKeepsWalk ==
  ASSUME ReadInv, NEW start \in 1..Cardinality(Letters), Follow(start)
  PROVE  WalkInv'
<1>. DEFINE tab == browser.tab
            S == Listed(tab)
<1>1. /\ browser \in Page /\ tab \in Tabs
      /\ custody' = custody
      /\ start \in Nat \ {0}
  BY DEF ReadInv, PageInv, TypeOK, Follow, Page
<1>2. CASE browser' = [browser EXCEPT !.outcome = "failed"] /\ owed' = owed
  <2>1. /\ browser' \in Page
        /\ browser'.tab = tab /\ browser'.at = browser.at
        /\ browser'.links = browser.links
    BY <1>1, <1>2 DEF Page
  <2>2. Listed(browser.tab)' = S
    BY <1>1, <2>1 DEF Listed, Offered, TabOf
  <2>3. \A l : Ahead(l)' <=> Ahead(l)
    BY <2>1, <2>2 DEF Ahead, Before
  <2>. QED
    BY <1>2, <2>1, <2>2, <2>3 DEF ReadInv, WalkInv
<1>3. CASE browser' = Rendered(tab, start) /\ start = 1 /\ owed' = NewReading(tab)
  BY <1>1, <1>3, NewWalkInv
<1>4. CASE owed' = {}
  BY <1>4 DEF WalkInv
<1>5. CASE /\ browser' = Rendered(tab, start)
           /\ start = browser.at + 1
           /\ owed' = owed \ Sliced(S, start)
  <2>1. /\ browser' \in Page
        /\ browser'.tab = tab /\ browser'.at = start
        /\ browser'.links = PagesFor(Cardinality(S))
    BY <1>1, <1>5, RenderedPage DEF Rendered
  <2>2. Listed(browser.tab)' = S /\ S \subseteq Nat /\ IsFiniteSet(S)
    BY <1>1, <2>1, ListedIsList, ListIsFinite DEF Listed, Offered, TabOf
  <2>3. ASSUME NEW l \in owed'
        PROVE  l \in S /\ Ahead(l)'
    <3>1. l \in S /\ l \notin Sliced(S, start) /\ Ahead(l)
      BY <1>5, <2>3 DEF ReadInv, WalkInv
    <3>2. get_offset(start) <= Before(l, S)
      <4>1. browser.at \in Nat /\ start - 1 = browser.at
        BY <1>1, <1>5 DEF Page
      <4>. QED
        BY <3>1, <4>1 DEF Ahead, get_offset
    <3>3. /\ start < PagesFor(Cardinality(S))
          /\ start * PAGESIZE <= Before(l, S)
      <4>. HIDE DEF S
      <4>. QED
        BY <1>1, <2>2, <3>1, <3>2, RestIsAhead
    <3>. QED
      BY <2>1, <2>2, <3>1, <3>3 DEF Ahead, Before
  <2>. QED
    BY <2>1, <2>2, <2>3 DEF WalkInv
<1>. QED
  BY <1>2, <1>3, <1>4, <1>5 DEF Follow

LEMMA NextReadInv == ReadInv /\ [Next]_vars => ReadInv'
<1>. SUFFICES ASSUME ReadInv, [Next]_vars PROVE ReadInv'
  OBVIOUS
<1>1. PageInv'
  BY NextPageInv DEF ReadInv
<1>2. CASE UNCHANGED vars
  <2>1. Listed(browser.tab)' = Listed(browser.tab)
    BY <1>2 DEF vars, Listed, Offered, TabOf
  <2>2. \A l : Ahead(l)' <=> Ahead(l)
    BY <1>2, <2>1 DEF vars, Ahead, Before
  <2>3. WalkInv'
    BY <1>2, <2>1, <2>2 DEF vars, ReadInv, WalkInv
  <2>. QED
    BY <1>1, <2>3 DEF ReadInv
<1>3. ASSUME NEW tab \in Tabs, Open(tab)
      PROVE  WalkInv'
  BY <1>3, NewWalkInv DEF Open
<1>. QED
  BY <1>1, <1>2, <1>3, MoveKeepsWalk, FollowKeepsWalk DEF Next, ReadInv

\* Whoever reads a tab to its last linked page misses only letters behind
\* one that left the list meanwhile, however many letters come, go and move
\* between the tabs during the reading.
THEOREM WalksMissNothing == Spec => []WalkMissesNothing
<1>1. Init => ReadInv
  BY InitPageInv DEF Init, ReadInv, WalkInv
<1>2. ReadInv => WalkMissesNothing
  <2>. SUFFICES ASSUME ReadInv, browser.at >= browser.links, NEW l \in owed
                PROVE  FALSE
    BY DEF WalkMissesNothing
  <2>1. browser \in Page /\ Ahead(l)
    BY DEF ReadInv, WalkInv
  <2>2. browser.at \in Nat /\ browser.links \in Nat
    BY <2>1 DEF Page
  <2>. QED
    BY <2>1, <2>2 DEF Ahead
<1>. QED
  BY <1>1, <1>2, NextReadInv, PTL DEF Spec
================================================================================
