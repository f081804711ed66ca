----------------------------- MODULE TaipeiClock -----------------------------
(***************************************************************************)
(* The four clocks the two applications read, the cutoffs the daily jobs   *)
(* compute from them, and the periods the administrator's reports select.  *)
(* An instant is a number of 400-second units since a UTC midnight: 400 s  *)
(* is the greatest common divisor of a day, of the eight hours that        *)
(* separate Taipei from UTC and of the 28000 seconds the Ruby application  *)
(* adds instead of 28800.  A calendar date is the number of its day; the   *)
(* datastore keeps it as the UTC midnight that opens the day.              *)
(***************************************************************************)
EXTENDS Integers

Day         == 216      \* 24 h
EightHours  == 72       \* 28800 s, Taipei is eight hours ahead of UTC
RubyOffset  == 70       \* 28000 s, what worldvision.rb adds

\* The calendar day in Taipei at instant t.
TaipeiDay(t) == (t + EightHours) \div Day

\* Mutated form of RubyToday: the offset of Taipei added on top of its own.
RubyTodayTwice(t) == (t + RubyOffset + EightHours) \div Day

\* get_today() and the claim handler: the date they believe it is.
RubyToday(t) == (t + RubyOffset) \div Day

\* Mutated form of JavaCurrentDate: the shift in the wrong direction.
JavaCurrentDateBack(t) == t - EightHours

\* getCurrentDate(): the instant, eight hours in the future, that is stored
\* as create_date and return_date.
JavaCurrentDate(t) == t + EightHours

\* A Date property as the datastore keeps it.
StoredDate(d) == d * Day

\* Mutated form of DueCutoff: the time of day is not cleared.
DueCutoffNow(t, days) == t - days * Day

\* findDueLetters: midnight in Taipei, `days' days back.
DueCutoff(t, days) == (TaipeiDay(t) - days) * Day - EightHours

\* Mutated form of OldCutoff: cleared to midnight as findDueLetters does.
OldCutoffMidnight(t, days) == (TaipeiDay(t) - days) * Day - EightHours

\* findOldLetters: this very time of day, `days' days back.
OldCutoff(t, days) == t - days * Day

\* due_date < date
IsDue(d, t, days) == StoredDate(d) < DueCutoff(t, days)

\* create_date < date, for a letter uploaded at instant c
IsOld(c, t, days) == JavaCurrentDate(c) < OldCutoff(t, days)

\* cron.xml: the jobs run at 08:00 Taipei.
CronTime(d) == d * Day

\* An instant of day d: 12:00 in Taipei.
Noon(d) == d * Day + 36

\* The dates the Ruby application may take for today on day d.
RubyDates(d) == {d - 1, d}
-----------------------------------------------------------------------------
(***************************************************************************)
(* The administrator's reports over a period of dates s to e.  Each is a   *)
(* page of the Ruby application with a link to an export of the Java one.  *)
(***************************************************************************)

\* Whether a stored instant, read back as a Date, lies in the period.
DateWithin(stored, s, e) == s <= stored \div Day /\ stored \div Day <= e

\* findLogs and findReturnedLetters: the instant itself, against the days
\* the export parses, which are midnights.
InstantWithin(stored, s, e) ==
  StoredDate(s) <= stored /\ stored <= StoredDate(e)

\* The return_date return_letter logs at instant t.
LoggedReturn(t) == StoredDate(RubyToday(t))

\* Logs of returns at t: the page and the export.
LogListed(t, s, e)   == DateWithin(LoggedReturn(t), s, e)
LogExported(t, s, e) == InstantWithin(LoggedReturn(t), s, e)

\* Mutated form of ReturnedListed: up to the last day, exclusive.
ReturnedListedBefore(t, s, e) ==
  s <= JavaCurrentDate(t) \div Day /\ JavaCurrentDate(t) \div Day < e

\* Letters whose translation came in at t: the page and the export.
ReturnedListed(t, s, e)   == DateWithin(JavaCurrentDate(t), s, e)
ReturnedExported(t, s, e) == InstantWithin(JavaCurrentDate(t), s, e)
=============================================================================
