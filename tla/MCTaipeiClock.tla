---------------------------- MODULE MCTaipeiClock ----------------------------
(***************************************************************************)
(* The clock ticks through MaxDay days; at every instant the invariants    *)
(* compare what the code computes with the calendar a person in Taipei     *)
(* reads.                                                                  *)
(***************************************************************************)
EXTENDS TaipeiClock

CONSTANT MaxDay         \* the clock stops at the end of this day
ASSUME MaxDayAssumption == MaxDay \in Nat

VARIABLE now

Init == now = 0
Tick == now < MaxDay * Day /\ now' = now + 1
Spec == Init /\ [][Tick]_now

Dates == -4 .. MaxDay + 1
Terms == 0 .. 8

\* The due job (days = 2) and the reminder job (days = 0) work on whole
\* Taipei days although they compare a UTC midnight with a Taipei midnight:
\* a date is past the cutoff exactly from the day `days + 1' days after it
\* on, whatever the time of day the job runs (LetterModel.findDueLetters).
DueCutoffIsWholeDays ==
  \A d \in Dates, days \in Terms :
    IsDue(d, now, days) <=> d + days + 1 <= TaipeiDay(now)

\* A letter is never taken for old before `days' full days have passed
\* since its upload, nor later than eight hours after that: create_date is
\* stored eight hours ahead and compared with a cutoff that is not
\* (DateUtil.getCurrentDate against LetterModel.findOldLetters).
OldByTheHour(days) ==
  \A c \in 0 .. now :
    /\ IsOld(c, now, days) => now - c > days * Day
    /\ now - c > days * Day + EightHours => IsOld(c, now, days)

\* At the hour cron runs the job the two eight-hour shifts cancel: a letter
\* is old exactly when it was uploaded on a Taipei day more than `days' days
\* back, whatever the hour of its upload.
OldByTheDay(days) ==
  \A d \in 0 .. MaxDay :
    IsOld(now, CronTime(d), days) <=> TaipeiDay(now) + days + 1 <= d

\* So old letters are old by the hour, and by the day when cron asks.
OldMeansDays == \A days \in {2, 7} : OldByTheHour(days) /\ OldByTheDay(days)

\* The Ruby application adds 28000 s instead of 28800 s: between midnight
\* and 00:13:20 in Taipei it still dates claims and returns the day before,
\* and never otherwise.
RubyTodayLagsAfterMidnight ==
  /\ RubyToday(now) \in RubyDates(TaipeiDay(now))
  /\ RubyToday(now) = TaipeiDay(now) - 1
       <=> (now + EightHours) % Day < EightHours - RubyOffset

\* A report and its export list the same, except letters that came in on
\* the last day of the period: those the export leaves out, unless they came
\* in at midnight sharp, because it compares their instant with the midnight
\* that opens that day.  Return logs, stored as midnights, are not affected
\* (ExportCSVFile, LetterModel.findReturnedLetters, VoulenteerLogModel).
ExportsLackOnlyTheLastDay ==
  \A s, e \in Dates :
    /\ LogExported(now, s, e) <=> LogListed(now, s, e)
    /\ ReturnedExported(now, s, e)
         <=> /\ ReturnedListed(now, s, e)
             /\ TaipeiDay(now) = e => (now + EightHours) % Day = 0
=============================================================================
