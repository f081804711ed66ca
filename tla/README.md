# A verification of the NEX-T letter desk

The program is the volunteer translation desk of a child-sponsorship charity.
Employees upload scanned letters (English to Chinese, `eng`, or Chinese to
English, `chi`), publish them, and volunteers claim, translate, upload or give
back. It runs on Google App Engine as one application made of two parts that
share a datastore: a Ruby/Sinatra program (`src/worldvision-ruby/worldvision.rb`)
with the pages and most handlers, and Java servlets
(`src/worldvision-java/src/org/worldvision/`) for uploads, cron jobs and mail.
Neither part uses a transaction, and there are no tests.

## Inventory

| Part | State it keeps | Operations | Talks to |
|---|---|---|---|
| Letter life cycle (`worldvision.rb` 725-787, 959-1078, `FileUpload.java`) | `Letters` entities: who uploaded, direction, `show`, `deleted`, `status`, holder (`voulenteer_id`, `voulenteer_account`), `claim_date`, `due_date`, `return_date`, `return_file_url`, `re_upload`, `send_due_reminder` | upload, update (publish), delete, claim, return, upload of the translation, re-upload | accounts (`jobs`), return log, mail |
| Daily jobs (`schedule/*.java`, `cron.xml`) | none of their own; due log | `mark_due_letters`, `mark_old_letters`, the due reminder (mapped, not in cron), `reset_due_letters` (dead), `new_letters_job` (sends nothing) | letters, due log, mail |
| Clocks (`DateUtil.java`, `get_today`, `findDueLetters`, `findOldLetters`) | none | four notions of now or today, two cutoffs | everything that writes or compares a date |
| Volunteer page (`worldvision.rb` 791-907, `_vou_*.erb`) | none: what a browser still shows is state all the same | lists letters to claim, letters held, and a form per action | handlers, much later |
| Employee page (616-723, `_emp_*.erb`) | the same | lists own letters by status, forms to publish and delete | handlers |
| Accounts, sessions, roles (157-349, 493-609) | `Account` entities, the session's user name | login, logout, create, update with a cascade over held letters, delete | letters by account name |
| Mail (`queue/`, `mail/`) | a push queue | `fetchAsync` of `/queue_email`, enqueue, worker that reads the letter again and sends | letters, return log |
| Browser scripts (`public/wv.js`, `wv2.js`, `app.js`) | the open page: its sections, anchor, counts, messages; cookies for the anchor and for four counts; saves without a page load | open a section, keep and restore cookies, save, delete, upload | Ruby handlers, whose session they share with every other tab |
| Administrator's lists, CSV export | none | queries over letters and logs | logs |
| Files (`FileUpload.java`, the blobstore) | blobs, the keys in letters and countries | upload (the blobstore stores, then calls back), serve | letters, countries |
| Countries (`worldvision.rb`, `doCountryUpload`) | `Countries` entities with three files each | create, upload, delete | files |
| Migration (`MigrationServlet.java`) | `__BlobMigration__`, old key to new key | replaces the keys in recent letters | letters |
| Template files, news | reference data | single puts | pages |

**What is hard here.** Volunteers act on pages rendered long ago; the forms are
not checked against the letter's present holder. Every handler loads an entity,
changes some of its fields and puts all of it back, so two that overlap undo
each other. A return is three saves, an upload two, the due job two per letter,
and any of them may be cut off in between. The same fact (somebody holds this
letter) is kept in five fields which no handler writes all alike and which the
page, the guards and the jobs each look up in a different one. A file is stored
before anybody knows whether there is something to attach it to, and the migration
puts back letters it read in one query some time ago. A window is shared by
accounts one after another; its cookies outlive a logout, its session may end in
another tab, answers to its saves come in any order or not at all. Dates come from
four clocks. `PROJECT.json` lists each hazard at its line with the properties
that would notice it going wrong.

**What makes each part correct.**
- Letters: the fields agree; what a page offers can be claimed; a draft never
  gets out; nobody loses a letter to another volunteer; a letter that comes back
  is on offer again at once, its release is logged, the volunteer credited.
- Jobs: nothing overdue stays with a volunteer past the third day, nothing else
  is taken, everything taken is logged first; what nobody claims becomes urgent.
- Clocks: the cutoffs mean whole days in Taipei.
- Accounts: names are unique, a change of name loses no letter.
- Mail: the right people are told, once, and what a mail says is true.
- Files: a link opens the file it names; nothing put up is lost, nothing deleted
  comes back; after a migration no recent letter has an old key.
- Browser: one section is open; a form leads back to it; whoever was refused is
  told; nobody is shown another's counts; "done" means saved.

## Modules

| Module | Contents |
|---|---|
| `TaipeiClock` | the clocks, the cutoffs of the jobs and the periods of the reports, as operators on instants |
| `LetterEntity` | one `Letters` record: what each handler does to it, what each query and guard asks of it |
| `LetterCustody` | abstract specification: the life cycle of a letter |
| `LetterDesk` | every handler and job as one atomic step, stale pages included |
| `LetterDatastore` | the same handlers, one action per datastore call, any number of them at once, cut off anywhere |
| `LetterRequests` | what the desk has done while a request of `LetterDatastore` is under way: the refinement mapping from calls to handlers |
| `LetterMail` | `LetterDesk` with the mails its handlers ask for, the queue and the worker |
| `LetterLists` | the pages that list letters: tabs, counts, page links, and a browser that follows links of an older page |
| `LetterReports` | who the administrator's page takes for in service |
| `Accounts` | accounts, sessions, and the change of a name one datastore call at a time |
| `FileShelf` | abstract specification: a shelf of files, a place for each kind of each thing |
| `StoredFiles` | blobs, the keys that letters and countries hold, uploads, deletions and the migration, one datastore call at a time |
| `Browser` | one window with its page, cookies, session and saves in flight, and the handlers its requests reach |
| `TaipeiClockProofs`, `LetterEntityProofs`, `LetterDeskProofs`, `LetterDatastoreProofs`, `AccountsProofs`, `LetterListsProofs`, `StoredFilesProofs`, `BrowserProofs` | theorems |
| `MCTaipeiClock`, `MCLetterDesk`, `MCLetterDatastore`, `MCLetterMail`, `MCAccounts`, `MCLetterLists`, `MCStoredFiles`, `MCBrowser` | instances for TLC |

`LetterDesk` and `LetterDatastore` both extend `LetterEntity`, which extends
`TaipeiClock`; both implement `LetterCustody` under the same mapping `CustodyOf`
(in `LetterEntity`), and `LetterRequests` shows the datastore, as long as requests
run one at a time and to their end, to implement the desk.
`LetterMail` extends `LetterDesk`: its actions are the desk's, conjoined with what
they ask to be mailed; `LetterReports` extends it with what the administrator reads.
`LetterLists` moves its letters as the abstract `LetterCustody` allows, which the
desk implements, and the datastore as long as requests come one at a time.
`Accounts` stands alone, with letters reduced to the name they are under.
`StoredFiles` implements `FileShelf` while its requests do not overlap; its letters
are reduced to the keys they hold. `Browser` has letters with the four fields its
pages show, changed elsewhere in the ways the desk changes them.
Definitions that open with "Mutated form of" are plausible bugs, used only to
confirm that a property notices them; no specification refers to them.

### How the model corresponds to the code

- A record of `LetterEntity` keeps the field names of `Letter`/`Letters`.
  `voulenteer_id` is the number an administrator typed for a volunteer and may be
  an empty string but never nil; it stands here for the account itself.
  Left out are the fields nothing here depends on (names, country, note, number
  of letters, handwritten or typed) and `due_date_3`, always three days after
  `due_date` and read only by the dead job.
- Each handler's effect is one operator (`Claimed`, `GivenBack`, `Uploaded`,
  `MarkedDue`, ...), each guard or query another (`Claimable`, `Offered`,
  `DueOn`, ...). `LetterDesk` and `LetterDatastore` use the same ones.
- `forms` holds every form any volunteer's page ever showed; volunteers are
  assumed to look at their pages after every change, which only adds forms.
  A volunteer's action needs its form and nothing else, as in the code.
  Employees' handlers check the owner themselves, and the employee page lists
  every letter its owner has.
- In `LetterDesk` an upload with no account in the letter does nothing, because
  the Java handler fails with a null pointer before its first put
  (`FileUpload.java:209`); a return from a stale page does everything.
- `LetterDatastore` keeps, per running request, the record it read (`found`), the
  letter it works on (`now`), the `jobs` it read (`count`) and its place in
  `Plan` (`at`). `Saves` is dm-core's save (nothing if nothing changed),
  `Persists` is `makePersistent`; both put the whole record. `Abort` ends a
  request at any point. The two queries of `mark_old_letters` are two steps.
- `LetterRequests` says when a handler takes effect: a volunteer's or an employee's
  request at the put of its letter, a job when its last query has run. Until then,
  or from then on, the desk's letters, accounts and logs are those stored with what
  the running request has still to write, or has written ahead (`LetterSeen`,
  `JobsSeen`, `VouLogsSeen`, `DueLogsSeen`), and a page shows what a job is about to
  put (`FormsSeen`). `swept` is the desk's history; `cut` notes that a request was
  cut off.
- Days: jobs run at 08:00 in Taipei, as cron.xml says; the day moves on only
  between requests, which live seconds. The Ruby program may take yesterday for
  today (`RubyDates`), which `TaipeiClock` shows happens in the first 13 minutes
  of a day.
- `LetterMail` keeps every mail ever asked for in `asked`. Between the handler and
  the worker are a fetch nobody waits for and a push queue that runs a task at
  least once; both only delay, lose or repeat, so they are no actions of their
  own: the worker may run for a mail never, later, or again. It reads `letter`
  and `vou_logs` when it runs. A mail's history field `since` says that another upload
  of its letter was asked for (`ReUploadUntold`) after the mail was.
  Whether sending fails is the mail service's affair. Accounts made in the
  application have no e-mail address until an update stores one, so `WithEmail` is a constant.
- `Accounts` keeps the administrator's requests in `req`, at the datastore call
  they come to next. Requests of volunteers and the due job are one step each.
  A letter is `holder[l]`, its `voulenteer_account`. `NamesUnderway` and `strays`
  account for letters renamed ahead of their account and for those an aborted
  update or a deleted account leaves under a name of their own. The built-in
  administrator has no account entity.
- `LetterLists` numbers the letters of one direction in the order of
  `create_date`; a tab is a set, a page the members of it whose rank lies between
  two offsets (`Sliced`). `browser` is the page being read, with the links it was
  rendered with; `owed` is a history: what a reading from the first page on has yet
  to come to. A
  letter moves as `LetterCustody` allows, one at a time, because the jobs put
  letters one at a time as well. The volunteers' page links all pages of a tab,
  and a failed page leaves the reader with the one before. The employee's tables
  are operators on the same state; the second is sorted by `return_date`, the
  model numbers it like the first, and whether a letter is on a linked page does
  not depend on the order.
- `StoredFiles` keeps a request's letter or country as it was read (`found`) until
  it is put. `BlobStored` is the blobstore, from how the forms and `FileUpload` use
  it: a file under a fresh key first, the callback after. The model tells files
  apart by the key they were first stored under, so that a copy under a new key is
  the same file. `filed`, `migrated` and `overlaps` are histories. The migration
  reads the letters of the last 90 days (`Recent`) in one query and puts them one
  by one; countries are none of its business. `doCountryUpload` knows a fourth kind of
  file, `background`, which nothing sends: its form is commented out
  (`admin_country_index.erb:103`). It is left out, and `background_url` with it.
- `Browser` has a page record per kind of page; pages without these scripts are all
  `away`. The browser's history and bookmarks are left out, its reload button is
  not. A save is in `saves` until it is answered, dropped, or handled with nobody
  waiting; saves are handled and answered in any order, and a save whose page was
  left may still be handled. `by`, `sent` and `sure` are histories: who counted the
  counts shown, what was last saved, and whether that save was sent in the page's
  own session with no other save of the letter under way. The
  supervisor is the one account (`srdvs@worldvision.org.tw`) whose page lists
  everybody's letters. `Households` says which accounts share a window.
- Logs are sets of records without their ids. Two returns of one volunteer for
  the same letter and claim date count as one log entry.

## What is checked

| Run | Instance | Shows |
|---|---|---|
| `clock` | every 400 s of ten days | the due cutoff is whole Taipei days at any hour; the old cutoff is at most eight hours late, and whole days at the hour cron runs (`OldMeansDays`); Ruby's date lags only 13 minutes; a report and its export differ only on the last day of the period |
| `desk` | 1 letter, 2 volunteers, both directions, 5 days, 1 credit each | all safety properties of `LetterDesk`, `StatusPageAgrees` and the refinement |
| `desk_liveness` | 1 letter, 1 volunteer, `eng`, 11 days | `OverdueComesBack`, `UnclaimedBecomesUrgent` |
| `datastore` | 1 slot, 1 `chi` letter, 2 volunteers, 3 days | handlers cut off after any call: fields agree, credit before log, log before release, refinement of `LetterCustody`; of `LetterDesk` until a request is cut off (`DeskUnlessCut`) |
| `double_claim` | 2 slots, 2 volunteers | violation: the double claim |
| `not_uploaded` | as `desk`, 2 credits | violation: an old translation shields a new holder |
| `lists` | 4 letters, 2 of them handwritten, one to a page, 1 volunteer | every letter on one linked page, links and readings that survive a changing list |
| `mail` | 1 `chi` letter, 2 volunteers of whom 1 has an address, 3 days, 2 credits, 4 mails | one notice per unclaimed letter; every credit told to its volunteer or employee; an upload announced as another one only if another was asked for since the last |
| `accounts` | 2 accounts, 2 names that differ in a blank, 2 letters, 1 browser, 1 request at a time | a change of name, cut off anywhere, leaves no letter behind |
| `rename_race` | 1 overlapping step | violation: a letter claimed during a change of name |
| `files` | a letter with two migrated files, a country with one that was not copied, one letter and one country yet to come, 2 requests of which 1 may overlap | links open their own files under any interleaving; a migration alone leaves no old key; requests one at a time keep the shelf |
| `browser` | 1 `eng` letter, 3 possible pairs of accounts at the window (a volunteer of both directions, one of `eng`, the owner, the supervisor), 2 notes, 2 saves in flight | sections, forms and notices of the volunteer's page; counts of the employee's; what a save reported done has done |

**Bounds.** The type invariants of `lists`, `accounts` and `datastore`, and the desk's
`OfferedIsClaimable`, which follows from `RecordsAgree`, are theorems
and not among their runs' properties. `datastore` is the largest run (2.1 million
states, about two minutes); with one slot it says nothing of requests that overlap,
of which `RecordsAgreeUnderRaces` is the theorem and `double_claim` the run. `MaxDay` bounds the calendar, `MaxCredits` how often a volunteer's
`jobs` may go down, `MaxOverlaps` how many requests may begin while another
runs. `MCReturnDays` is `{1}`: a `chi` letter is due the day it is claimed, so
that its due date, its third overdue day and a second claim fit in five days;
`eng` letters, and `chi` letters published without a term, keep the seven-day
default and are neither overdue nor old in five days. In `desk_liveness`
eleven days are enough for a seven-day term, three days more and a spare one.
One letter is enough for every property of `desk` because no handler but the two
sweeping jobs looks at two, and what these do to several letters at once is
proved for any number (`SweepLeavesNothingLate`, `EveryReleaseIsLogged`).
`lists` has four letters, one to a page: a link to the last page of a list that has
lost two of them is the least for which Ruby's slice is nil. Volunteers,
letters and slots are interchangeable, hence the symmetry in the safety runs;
the liveness run uses none. `mail` has one letter
and four mails: the shortest way to a mail about the wrong volunteer (a claim
without an address, swept, a claim by another with two mails, an upload from the
first one's stale page with two more) asks for four; a second notice of an old
letter needs two. Two credits, because a second upload follows a first. `accounts` needs two letters for a
change of name to stop between them, and a second account for a name to move
to. `files` has one letter and one country the old application left files with,
and one of each that is created; two keys still unused allow two uploads to meet
the migration, and two requests of which one may overlap already undo each
other. `browser` has one letter, because the counts then differ between any two
accounts and no handler but the deletion looks at two; two notes and two saves
tell an answer from the answer to another save. `MaxSent` bounds how often one task sends. Deadlock is checked everywhere but in
`clock`, whose clock stops at its bound.

**Fairness.** Only of `NextDay`, `MarkDueLetters` and `MarkOldLetters`: days
pass, and App Engine's cron calls the two jobs `cron.xml` lists every day. Each
is weak fairness, and the actions stay enabled, so no job is assumed to run on
any particular day. Nothing is assumed of people, nor of the due reminder, which
is commented out of cron.xml.

**What the violations say** is in `PROJECT.json` under `findings`, each with the
line of the program's own texts it contradicts.

**Divergences without a run**, met while modelling:
- The due job waits three days for either direction
  (`MarkDueLettersJobServlet.java:27`); the reminder of a letter that is due says three
  for `eng` and two for `chi` (`MailTemplate.java:98`). So a `chi` letter comes back
  a day later than the reminder says. `ReleaseIsLogged` takes the days from the
  reminder (`DaysPromised`): nothing is taken back sooner than its volunteer was told.
  `SweptClean`, `NotUploadedComesBack` and `OverdueComesBack` ask for three days, which
  the reminder implies for both.
- The upload handler resets `re_upload` (`FileUpload.java:199`) before the worker
  reads it (`EmailWorker.java:103`), so a re-upload is announced as a first upload
  (`MailTemplate.java:55`) unless yet another was asked for in between, which is
  what `AgainMeansAskedSince` says.
- The comment at `wv2.js:8` is to save the counts of lists without a status; the
  test `! 'letter_status' in` compares `false`, so that they are saved only where
  there is no query at all. The counts of `chi` are then never saved, and the count
  of unclaimed letters is written and read under two names and never restored.
- `session[:has_been_claimed]` survives a logout: the next account at the window is
  told of another's refusal; a page that gets lost takes the notice with it.
- A click on an item of news ("#") empties the anchor and the cookie.
- `update_letter` answers "success" to whoever does not own the letter, the
  supervisor included, and an expired session answers with the login page: both
  show 更新完成, and nothing is saved. Hence the words `sure` and "own session" in
  `DoneIsStored`. That property is about saves of the window; another handler that
  puts back a copy of the letter it read before the save would undo it, as
  `LetterDatastore` shows any two overlapping requests may, and is outside `Browser`.
- `em_start` with `eng` takes the mark off the section it has just opened
  (`wv.js:38`). The login page does not load the cookie plugin its warning about
  old browsers needs.
- After a deletion in a list with a query, the counts restored are those from
  before.
- A file uploaded to a letter or country that is gone stays in the blobstore
  without a place; an upload that read a country before its deletion puts it back.
- The form of the template files posts the number of nothing, so the one
  `Templates` entity is never created. `GET /migrate` of the Ruby program checks no
  role and asks for the new keys from a model that declares no key.
- `update_letter` leaves the country of a letter as it was when it knows none of
  that name, and says "success".
- An upload from a stale page credits and thanks whoever the letter names at that
  moment (`FileUpload.java:205`), not the volunteer who uploaded
  (`MailTemplate.java:41`).
- Mail 4 tells the employee that a letter has become urgent
  (`MailTemplate.java:143`); the reminder job leaves its status claimed.
- The mail of a return quotes any one log of that volunteer and letter
  (`VoulenteerLogModel.java:50`).
- `create_account` looks a name up as typed and stores it stripped, so a blank
  makes a second account of the same name (`worldvision.rb:504`,
  `admin_index.erb:57`), and an update may give a name that is in use.
- A change of name is to update "claimed letters, and logs"
  (`worldvision.rb:597`); no log is ever updated.
- The export of due logs filters by `return_date` (`VoulenteerDueLogModel.java`,
  `findDueLogs`), which a due log does not have; the page lists them by `due_date`
  (`worldvision.rb:425`). The columns of the log export are in another order than
  its heading (`ExportCSVFile.java:147`, 150-156).
- `generateVouReport` quotes the filter of the page it exports
  (`ExportCSVFile.java:60`) and leaves out the last day of the period that page
  includes; `ExportsLackOnlyTheLastDay` in run `clock` says exactly what differs.
- A volunteer who holds a letter delivered once by somebody else, given back from
  a stale page and claimed anew, is shown as available, with the other's return
  date (`worldvision.rb:476`); same cause as run `not_uploaded`.
- The employee page's link to all letters counts three statuses
  (`employee_index.erb:26`) and links pages for them, but shows only the unclaimed
  ones (`worldvision.rb:662`), so its later pages may be empty.
- The form to change an account offers `請選擇` as a role (`admin_index.erb:124`),
  the handler ignores only `please select`: the placeholder is stored.

## What is proved

All theorems hold for any sets of people, letters, slots and any bounds, under
the named assumptions of the modules (`EntityAssumption`, `DeskAssumption`,
`CustodyAssumption`, `MailAssumption`, `DatastoreAssumption`, `RequestAssumption`,
`AccountsAssumption`, `RecordAssumption`, `FilesAssumption`, `BrowserAssumption`,
`MaxDayAssumption`, `ListsAssumption`: finitely many numbered letters in the lists, at
least one to a page; the unset value is not a date, a volunteer, a record, a letter
or a request; directions are `eng` or `chi`; who has an e-mail address is a
volunteer; nobody is both a volunteer and an employee; letters are no countries, new
keys no old ones, and no two files were copied to one key).

- *Clock* (`TaipeiClockProofs`): that the two cutoffs mean days (`DueOn`, three days
  past due, is what the desk's theorems use), when Ruby's date lags, what reports
  and their exports select; first for any instant, then, since an instant is
  midnight plus less than a day, for every state of the ticking clock.
- *Records* (`LetterEntityProofs`): each handler's operator keeps a record's type
  and, from a record whose fields agree, yields one whose fields agree.
- *Desk* (`LetterDeskProofs`). The properties are not inductive alone: that an
  offered letter is claimable needs the fields to agree; that a letter which
  comes back is offered needs that it had been published, which needs that no
  form for a draft was ever shown. `DeskInv` collects types, `RecordsAgree` and
  `ShownIsPublished`. Every step relates each letter's old and new record by one
  handler's operator, or leaves it; `DeskInv` is preserved case by case, and the
  action properties (`NoHandover`, `ReleasedIsOfferedAgain`, `ReleaseIsLogged`)
  and the refinement of `LetterCustody` are read off the same cases.
- *Counts and reports* (in `LetterDeskProofs` too). `SweptClean` under `SweepInv`: even
  a claim dated the day before by a Ruby clock that lags, with a term that ends the
  day before its claim, is not three days late from the start, so nothing becomes three days late on a day already swept
  (`ReturnDays` must be natural numbers). `ReturnsAreCredited` by counting the log
  entries a step adds against `jobs`. `StatusPageAgrees` under `WorkInv`: a new
  upload is only asked for where there is an old one, stale forms included.
- *Lists* (`LetterListsProofs`), for any number of letters and any page size. The
  ranks of a finite set of numbers are 0 to n - 1, each once (the ranks are
  distinct and there are n of them), so each letter falls into one slice and a
  link exists for it. `WalkInv` adds that whatever a reading still owes
  stands behind the pages read, and that there is a link to go on by.
- *Accounts* (`AccountsProofs`). Types for any interleaving. That every letter is
  with an account, and that an account gives up its name last, for any number of
  accounts, letters and browsers, provided nothing else happens during a request
  (`MaxOverlaps = 0`; `rename_race` shows that the provision is needed). The
  invariant `RenameInv` adds that the account an update works on is as it read it
  (`UpToDate`) and that every letter still under the old name is among those left
  to rename (`Pending`).
- *Files* (`StoredFilesProofs`). `FilesInv` holds under any interleaving, aborts
  included: no key is given out twice, and every key an entity or a request holds
  names a file of that thing and kind, so a put of something read long ago may
  lose a file but never mixes two up. `AloneInv` says in addition, for
  `overlaps = 0`, that a request's copy is the entity itself; from it follow that a
  migration misses no letter and that each step keeps the shelf.
- *Browser* (`BrowserProofs`), for any accounts, households, letters, notes and any
  number of saves. `BrowserInv` says: the page belongs to the session's account or
  the session is over (`SameSession`); the cookie agrees with the anchor of an open
  volunteer's page, and that page's marks agree with what is open (`TabsInv`); counts in the
  cookies were counted for the account shown them (`CountsInv`); if
  the last save of a letter is a sure one, any save of it on its way is that one, finds its
  sender logged in, and once handled is in the letter (`SavesInv`).
- *Mail* (in `LetterDeskProofs`). `LetterMail` is the desk with mails
  (`MailImplementsDesk`), so `DeskInv` holds of it. `MailInv` adds that a letter an
  employee was told of is unclaimed no more, and is told of once: no handler ever
  makes a letter unclaimed again (`NeverUnclaimedAgain`), and the old-letters job tells
  of one that still was. It adds that a letter whose `re_upload` is set has the mails
  of its earlier uploads marked `since`: only the form for another upload sets it.
  `CreditsAreTold` is an equation between a volunteer's `jobs` and the number of mails
  that tell of them: an upload and a return each take one job and ask for one such
  mail more, everything else, the jobs' mails for a whole set of letters included, asks
  for none. That those sets are finite is what `IsFiniteSet(ExistingLetters)` is in
  the invariant for.
- *Datastore, racing* (`LetterDatastoreProofs`). `RecordsAgree` under any interleaving:
  the invariant `DataInv` adds that every record a request carries agrees too
  (`Sound` requests). Since puts write whole records computed from whole records,
  races bring old records back but never mix two.
- *Datastore, one request at a time* (in the same module). `AloneInv`, for
  `overlaps = 0`: the one request that runs has read what is stored (`Current`), the
  letters it found are still such as its query or guard asked for (`Fit`), a return
  past its account has been credited (`Ahead`) and the due job past its log has logged
  (`Logged`). `ManyInv` is that invariant under `overlaps = 0`, and is inductive because
  `overlaps` never falls. From it: `AloneReturnsCredited`, `AloneReleaseComesLast`,
  `AloneNeverHandedOver` (so the violation of `double_claim` takes two requests that
  overlap, not one cut off) and `AloneImplementsCustody`, all with requests cut off
  anywhere. `AloneReleaseComesLast` and `AloneImplementsCustody` assume `MaxOverlaps = 0`,
  as their run does, because the properties speak of every step; the others hold of
  any behaviour up to its first overlap.
- *Datastore and desk* (last part of the module). The simulation proved in
  `RequestsImplementDesk`: under the mapping of `LetterRequests` each call of a
  handler is its one desk action (the put of the letter; the last query of a job) or
  none. It needs `SeenInv` besides: a request was asked for on a form that was shown
  (`Asked`), works on one letter unless it is a job (`OneLetter`), the first of two
  queries found what is still old (`HasRead`), the account it takes from could afford
  it (`Affords`), and what pages show now is among `forms` (`AllShown`).
  `CallsAreDeskSteps` states the same of behaviours with cuts: all but the cuts
  themselves are desk steps, later requests included. What is proved of whole
  handlers, `StatusPageAgrees` or `SweptClean`, so holds under that mapping as long as
  requests neither overlap nor stop halfway: between two requests, of what is stored.

**Only model-checked**: the two liveness properties, `OverdueComesBack` and
`UnclaimedBecomesUrgent`, which are out of the prover's reach. Every other property
of a passing run is a theorem. The three violations are runs, not theorems.

## What is not modelled

- The datastore's eventual consistency of queries: a query here sees the last put.
- The lifetime of blob upload URLs, the search form of the employee page (its
  handler ignores it).
- In `LetterLists`: accounts that see both directions by default and the one account
  that sees every employee's letters, which `Browser` has.
- In the browser: the numbers marked in page links, check boxes that select all,
  dialogs, the warning about old browsers, bookmarks and history.
- `reset_due_letters` (dead: it asks for a status nobody stores) and
  `new_letters_job` (its mail is commented out).
- `GET /send_thank_you_email`, which no page links.
- In accounts: passwords, names, notes, types, the employee's letters, which keep
  the employee's old name in `employee_id` after a change.
- News (records created, changed and deleted by the one administrator, each in a
  request of its own), the one `Templates` entity, the serving of files. Of the
  reports, the text of the files.
- Vendored gems and libraries. They are nearly all of the repository's JavaScript
  (jQuery 1.4.4, which no page loads, Bootstrap, CKEditor and its plugins, a file
  input, a cookie plugin, against some 350 lines of the program's own, which `Browser`
  models): the program itself is Ruby, templates and Java.

## Plan

Done: clocks, letters, desk, datastore, mail, accounts, lists, reports, files and
migration, browser. Left, in this order:

1. *Mail under races*: `LetterMail` over `LetterDatastore` instead of the desk.
2. *Proofs*: what remains true of requests that do overlap beyond `RecordsAgree`:
   which of the desk's properties a single overlap can break, and by how much
   `jobs` may then be wrong.
