--------------------------- MODULE CronExpression ---------------------------
(***************************************************************************)
(* When a cron expression fires next: the field matchers of CronExpression *)
(* and the two searches built on them, which skip a whole day at a time    *)
(* once the day cannot match: nextRunAfter, by the clock of the process,   *)
(* and nextRunAfterIn, by the clock of a time zone.                        *)
(*                                                                         *)
(* Instants are minutes.  A clock differs from them by one offset before   *)
(* some instant and by another from then on, so that it may skip an hour or*)
(* repeat one.  A Date is read and moved by the clock of the process, its  *)
(* home; that of another zone is read by wallClockIn.  Expressions are     *)
(* valid, and parsed: a field is "*" (Star) or a set of tokens             *)
(* [from, to, step, any], any standing for a range of "*".                 *)
(***************************************************************************)
EXTENDS Integers

CONSTANTS
  Hour, Day,  \* minutes of an hour, and of a day
  Cycle,      \* days after which the calendar repeats
  Calendar,   \* day of the cycle -> its date, month and weekday
  Horizon,    \* minutes searched
  Expression, \* expressions searched for
  Search      \* searches: which, home and zone (the home of nextRunAfter), from when

Date == [date: 1..31, month: 1..12, weekday: 0..6]
Token == [any: BOOLEAN, from: Nat, to: Nat, step: Nat \ {0}]
Fields == {"minute", "hour", "dom", "month", "dow"}
Clock == [at: Int, before: Int, after: Int]

(* What a change of a clock skips or repeats is short against a day and part  *)
(* of one date; so is the hour after one that is skipped.                     *)
Tame(clock) ==
  LET change == clock.after - clock.before
      low == clock.at + (IF change < 0 THEN clock.after ELSE clock.before)
      high == low + (IF change < 0 THEN -change ELSE 2 * change)
  IN /\ 2 * change <= Day /\ -2 * change <= Day
     /\ high <= (low \div Day + 1) * Day

ASSUME CronAssumption ==
  /\ Hour \in Nat \ {0} /\ Day \in Nat \ {0} /\ Horizon \in Nat
  /\ Cycle \in Nat \ {0} /\ Calendar \in [0..Cycle-1 -> Date]
  /\ \A c \in Expression : DOMAIN c = Fields /\ \A f \in Fields : c[f] \subseteq Token
  /\ Search \subseteq [by: {"process", "zone"}, home: Clock, zone: Clock, from: Int]
  /\ \A s \in Search : /\ Tame(s.home) /\ Tame(s.zone)
                       /\ s.by = "process" => s.zone = s.home

VARIABLES
  cron,   \* the expression
  search, \* the search under way
  cursor, \* the minute it has come to
  result  \* "none" yet, "found" at the cursor, or "null"

searchVars == <<cron, search, cursor, result>>
-----------------------------------------------------------------------------
Star == {}

(* _matchField: a step of "*" counts from the field's smallest value. *)
FieldMatches_fromZero(field, value, min) ==
  \/ field = Star
  \/ \E token \in field :
       /\ token.any \/ value \in token.from..token.to
       /\ (value - (IF token.any THEN 0 ELSE token.from)) % token.step = 0
FieldMatches(field, value, min) ==
  \/ field = Star
  \/ \E token \in field :
       /\ token.any \/ value \in token.from..token.to
       /\ (value - (IF token.any THEN min ELSE token.from)) % token.step = 0

(* _dayMatches: Sunday is 0 and 7; when both day fields are restricted,       *)
(* either will do.                                                            *)
DayMatches(c, day) ==
  LET date == Calendar[day % Cycle]
      dow == \/ FieldMatches(c.dow, date.weekday, 0)
             \/ date.weekday = 0 /\ FieldMatches(c.dow, 7, 0)
      dom == FieldMatches(c.dom, date.date, 1)
  IN /\ FieldMatches(c.month, date.month, 1)
     /\ IF c.dom # Star /\ c.dow # Star THEN dom \/ dow ELSE dom /\ dow

TimeMatches(c, minute) ==
  /\ FieldMatches(c.minute, minute % Hour, 0)
  /\ FieldMatches(c.hour, minute \div Hour, 0)

(* What a clock shows. *)
Local(z, t) == t + (IF t < z.at THEN z.before ELSE z.after)

(* The instant a Date is set to by its local fields: the first of two, and in *)
(* a gap the one that many minutes past its start.                            *)
Instant(z, local) ==
  IF local - z.before < z.at \/ local - z.after < z.at
  THEN local - z.before ELSE local - z.after

(* What the matchers read of an instant: in the home's zone its clock, in     *)
(* another a Date that wallClockIn sets to what that zone's clock shows.      *)
Wall(s, t) == Local(s.home, Instant(s.home, Local(s.zone, t)))

(* matches, matchesIn: what ScheduledTask's tick asks every minute. *)
Fires(c, s, t) ==
  DayMatches(c, Wall(s, t) \div Day) /\ TimeMatches(c, Wall(s, t) % Day)
-----------------------------------------------------------------------------
(* setMinutes(getMinutes() + minutes), and setDate *)
Later(s, t, minutes) == Instant(s.home, Local(s.home, t) + minutes)

SearchInit ==
  /\ cron \in Expression /\ search \in Search
  /\ cursor = Later(search, search.from, 1)
  /\ result = "none"

(* nextRunAfter sets the clock to 00:00 of the next date; nextRunAfterIn adds *)
(* the minutes that remain of a day of MINUTES_PER_DAY.                       *)
NextDay_thisMidnight(s, t) ==
  IF s.by = "zone" THEN Later(s, t, (Day - (Wall(s, t) % Day)) % Day)
  ELSE Instant(s.home, (Local(s.home, t) \div Day + 1) * Day)
NextDay(s, t) ==
  IF s.by = "zone" THEN Later(s, t, Day - (Wall(s, t) % Day))
  ELSE Instant(s.home, (Local(s.home, t) \div Day + 1) * Day)

Scan ==
  /\ result = "none" /\ cursor <= Later(search, search.from, Horizon)
  /\ IF ~DayMatches(cron, Wall(search, cursor) \div Day)
     THEN cursor' = NextDay(search, cursor) /\ UNCHANGED result
     ELSE IF Fires(cron, search, cursor)
     THEN result' = "found" /\ UNCHANGED cursor
     ELSE cursor' = Later(search, cursor, 1) /\ UNCHANGED result
  /\ UNCHANGED <<cron, search>>

Exhaust ==
  /\ result = "none" /\ cursor > Later(search, search.from, Horizon)
  /\ result' = "null"
  /\ UNCHANGED <<cron, search, cursor>>

SearchNext == Scan \/ Exhaust

SearchSpec == SearchInit /\ [][SearchNext]_searchVars
(* A search is a loop. *)
FairSearch == SearchSpec /\ WF_searchVars(SearchNext)
-----------------------------------------------------------------------------
(* Types; the cursor is never the second of two instants that the home's      *)
(* clock shows alike.                                                         *)
SearchTypeOK ==
  /\ cron \in Expression /\ search \in Search
  /\ cursor \in Int /\ Later(search, cursor, 0) = cursor
  /\ result \in {"none", "found", "null"}

(* The search moves on with every step. *)
MovesOn == [][cursor' > cursor \/ result' # "none"]_searchVars

(* Crontab's own terms: a token stands for the values from, from + step, ...  *)
(* up to its last, those of "*" starting at the field's smallest; and a       *)
(* minute is due when every field holds, the two day fields as one.           *)
InField(field, value, min) ==
  \/ field = Star
  \/ \E token \in field, k \in 0..value :
       /\ value = (IF token.any THEN min ELSE token.from) + k * token.step
       /\ token.any \/ value <= token.to

Due(c, z, t) ==
  LET minute == Local(z, t) % Day
      date == Calendar[(Local(z, t) \div Day) % Cycle]
      onWeekday == \E w \in {date.weekday, date.weekday + 7} \cap 0..7 :
                      InField(c.dow, w, 0)
      onDate == InField(c.dom, date.date, 1)
  IN /\ InField(c.minute, minute % Hour, 0) /\ InField(c.hour, minute \div Hour, 0)
     /\ InField(c.month, date.month, 1)
     /\ IF c.dom = Star THEN onWeekday
         ELSE onDate \/ (c.dow # Star /\ onWeekday)

(* The search passes over no due minute, by whatever clock it reads and       *)
(* whatever days it skips: "a DST change costs an hour of extra probes and    *)
(* nothing else" (nextRunAfterIn).                                            *)
NothingSkipped == \A t \in search.from+1..cursor-1 : ~Due(cron, search.zone, t)

(* What it costs: a Date cannot be moved to the second of two instants that   *)
(* the home's clock shows alike, nor show a time that the home's clock skips; *)
(* and where the zone's clock gains on the home's, the skip from a minute of  *)
(* one day overshoots the zone's midnight by as many minutes.  A skip that    *)
(* ends in minutes the home's clock skips has not gained what these are.      *)
Unseen(s, t) == Later(s, t, 0) # t \/ Wall(s, t) # Local(s.zone, t)
Gain(z, u, t) == (Local(z, t) - t) - (Local(z, u) - u)
Overshot(s, t) ==
  \E u \in Later(s, s.from, 1)..t :
    LET gain == Gain(s.zone, u, t)
        home == Gain(s.home, u, t)
    IN /\ Local(s.zone, u) \div Day + 1 = Local(s.zone, t) \div Day
       /\ \/ Local(s.zone, t) % Day < gain - home
          \/ Local(s.zone, t) % Day < gain /\ t < s.home.at + home

(* But for these minutes the search's result is the first due minute after    *)
(* the start, if it gives one, and none lies within the horizon otherwise:    *)
(* whatever days are skipped, and when the home's clock, the zone's or both   *)
(* change.                                                                    *)
FirstFound ==
  /\ \A t \in search.from+1..cursor-1 :
       Due(cron, search.zone, t) => Unseen(search, t) \/ Overshot(search, t)
  /\ result = "found" => Due(cron, search.zone, cursor) \/ Unseen(search, cursor)

(* An expression says when it never fires. *)
SearchEnds == result = "none" ~> result # "none"
=============================================================================
