--------------------------- MODULE TaipeiClockProofs ---------------------------
(***************************************************************************)
(* What the jobs' cutoffs mean in whole Taipei days, for every instant and *)
(* every number of days.  LetterEntity works with days; these theorems are *)
(* why it may.  The last section concludes that the invariants of the      *)
(* ticking clock hold however many days it ticks.                          *)
(***************************************************************************)
EXTENDS MCTaipeiClock, TLAPS

\* The instant t lies in the Taipei day TaipeiDay(t).
LEMMA TaipeiDayBounds ==
  ASSUME NEW t \in Int
  PROVE  /\ TaipeiDay(t) \in Int
         /\ TaipeiDay(t) * 216 <= t + 72
         /\ t + 72 < TaipeiDay(t) * 216 + 216
  BY DEF TaipeiDay, Day, EightHours

\* findDueLetters works on whole days: a date is past the cutoff exactly
\* from the day `days + 1' days after it on, at whatever hour the job runs.
THEOREM DueByWholeDays ==
  ASSUME NEW t \in Int, NEW d \in Int, NEW days \in Int
  PROVE  IsDue(d, t, days) <=> d + days + 1 <= TaipeiDay(t)
<1>1. TaipeiDay(t) \in Int
  BY TaipeiDayBounds
<1>2. IsDue(d, t, days) <=> d * 216 < (TaipeiDay(t) - days) * 216 - 72
  BY DEF IsDue, StoredDate, DueCutoff, Day, EightHours
<1>. QED
  BY <1>1, <1>2

\* At the hour of the cron job the Taipei day is the day of the job.
THEOREM CronRunsOnItsDay ==
  ASSUME NEW d \in Int
  PROVE  CronTime(d) \in Int /\ TaipeiDay(CronTime(d)) = d
  BY DEF CronTime, TaipeiDay, Day, EightHours

\* findOldLetters at the cron hour: the eight hours added to create_date are
\* the eight hours of the morning, so the age is counted in whole days.
THEOREM OldByWholeDays ==
  ASSUME NEW c \in Int, NEW d \in Int, NEW days \in Int
  PROVE  IsOld(c, CronTime(d), days) <=> TaipeiDay(c) + days + 1 <= d
<1>1. /\ TaipeiDay(c) \in Int
      /\ TaipeiDay(c) * 216 <= c + 72
      /\ c + 72 < TaipeiDay(c) * 216 + 216
  BY TaipeiDayBounds
<1>2. IsOld(c, CronTime(d), days) <=> c + 72 < d * 216 - days * 216
  BY DEF IsOld, JavaCurrentDate, OldCutoff, CronTime, Day, EightHours
<1>. QED
  BY <1>1, <1>2

\* Whatever the hour, a letter is not old before `days' full days have
\* passed, and is old once eight more hours have.
THEOREM OldAfterDaysAndEightHours ==
  ASSUME NEW c \in Int, NEW t \in Int, NEW days \in Nat
  PROVE  /\ IsOld(c, t, days) => t - c > days * Day
         /\ t - c > days * Day + EightHours => IsOld(c, t, days)
  BY DEF IsOld, JavaCurrentDate, OldCutoff, Day, EightHours

\* The Ruby application's date is Taipei's, or the day before in the first
\* 800 seconds of the day.
THEOREM RubyDateLags ==
  ASSUME NEW t \in Int
  PROVE  /\ RubyToday(t) \in RubyDates(TaipeiDay(t))
         /\ RubyToday(t) = TaipeiDay(t) - 1
              <=> (t + EightHours) % Day < EightHours - RubyOffset
  BY DEF RubyToday, RubyDates, TaipeiDay, Day, EightHours, RubyOffset

\* A day's instants are those that fall on it, noon among them.
THEOREM NoonIsOnItsDay ==
  ASSUME NEW d \in Int
  PROVE  Noon(d) \in Int /\ TaipeiDay(Noon(d)) = d
  BY DEF Noon, TaipeiDay, Day, EightHours

\* A report of return logs and its export list the same logs.
THEOREM LogExportIsLogPage ==
  ASSUME NEW t \in Int, NEW s \in Int, NEW e \in Int
  PROVE  LogExported(t, s, e) <=> LogListed(t, s, e)
<1>1. RubyToday(t) \in Int
  BY DEF RubyToday, Day, RubyOffset
<1>2. (RubyToday(t) * 216) \div 216 = RubyToday(t)
  BY <1>1
<1>. QED
  BY <1>1, <1>2
     DEF LogExported, LogListed, InstantWithin, DateWithin, LoggedReturn,
         StoredDate, Day

\* A report of returned letters lists all its export does, and more only
\* when they came in on the last day of the period, after midnight.
THEOREM ReturnedExportLacksLastDay ==
  ASSUME NEW t \in Int, NEW s \in Int, NEW e \in Int
  PROVE  ReturnedExported(t, s, e)
           <=> /\ ReturnedListed(t, s, e)
               /\ TaipeiDay(t) = e => (t + EightHours) % Day = 0
  BY DEF ReturnedExported, ReturnedListed, InstantWithin, DateWithin,
         JavaCurrentDate, StoredDate, TaipeiDay, Day, EightHours
-----------------------------------------------------------------------------
\* The clock shows an instant.
LEMMA ClockShowsInstant == Spec => [](now \in Nat)
<1>1. Init => now \in Nat
  BY DEF Init
<1>2. now \in Nat /\ [Tick]_now => (now \in Nat)'
  BY DEF Tick
<1>. QED
  BY <1>1, <1>2, PTL DEF Spec

\* The due job and the reminder job work on whole Taipei days at every hour
\* of every day (LetterModel.findDueLetters).
THEOREM DueCutoffAlwaysWholeDays == Spec => []DueCutoffIsWholeDays
<1>1. now \in Nat => DueCutoffIsWholeDays
  BY DueByWholeDays, MaxDayAssumption DEF DueCutoffIsWholeDays, Dates, Terms
<1>. QED
  BY <1>1, ClockShowsInstant, PTL

\* The old-letters query is never early and at most eight hours late, and at
\* the hour of cron.xml it counts whole days (LetterModel.findOldLetters).
THEOREM OldAlwaysMeansDays == Spec => []OldMeansDays
<1>1. ASSUME now \in Nat
      PROVE  OldMeansDays
  <2>. SUFFICES ASSUME NEW days \in {2, 7}
                PROVE  OldByTheHour(days) /\ OldByTheDay(days)
    BY DEF OldMeansDays
  <2>1. now \in Int /\ days \in Nat
    BY <1>1
  <2>2. OldByTheHour(days)
    BY <2>1, OldAfterDaysAndEightHours DEF OldByTheHour
  <2>3. ASSUME NEW d \in 0 .. MaxDay
        PROVE  IsOld(now, CronTime(d), days) <=> TaipeiDay(now) + days + 1 <= d
    <3>1. d \in Int /\ days \in Int
      BY <2>1, MaxDayAssumption
    <3>. QED
      BY <2>1, <3>1, OldByWholeDays
  <2>. QED
    BY <2>2, <2>3 DEF OldByTheDay
<1>. QED
  BY <1>1, ClockShowsInstant, PTL

\* worldvision.rb dates claims and returns as Taipei does, except in the
\* first 800 seconds of a day.
THEOREM RubyTodayAlwaysLagsAfterMidnight == Spec => []RubyTodayLagsAfterMidnight
<1>1. now \in Nat => RubyTodayLagsAfterMidnight
  BY RubyDateLags DEF RubyTodayLagsAfterMidnight
<1>. QED
  BY <1>1, ClockShowsInstant, PTL

\* Reports and their exports differ only on the last day of the period, for
\* letters and logs that came in at any instant (ExportCSVFile).
THEOREM ExportsAlwaysLackOnlyTheLastDay == Spec => []ExportsLackOnlyTheLastDay
<1>1. ASSUME now \in Nat
      PROVE  ExportsLackOnlyTheLastDay
  <2>. SUFFICES ASSUME NEW s \in Dates, NEW e \in Dates
                PROVE  /\ LogExported(now, s, e) <=> LogListed(now, s, e)
                       /\ ReturnedExported(now, s, e)
                            <=> /\ ReturnedListed(now, s, e)
                                /\ TaipeiDay(now) = e
                                     => (now + EightHours) % Day = 0
    BY DEF ExportsLackOnlyTheLastDay
  <2>1. now \in Int /\ s \in Int /\ e \in Int
    BY <1>1, MaxDayAssumption DEF Dates
  <2>. QED
    BY <2>1, LogExportIsLogPage, ReturnedExportLacksLastDay
<1>. QED
  BY <1>1, ClockShowsInstant, PTL
================================================================================
