------------------------------ MODULE LocalTime ------------------------------
(***************************************************************************)
(* The times a bot is due: the calendar and the time zones of tz.rs and    *)
(* the slots of schedule.rs, computed from one count of time, beside a     *)
(* clock on the wall that only ticks.  The wall clock knows the calendar   *)
(* by counting days and is put forward and back when its zone says so; it  *)
(* notes when it shows a time of the schedule.  Time is counted in half    *)
(* hours, which every zone offered and every rule is a multiple of.        *)
(***************************************************************************)
EXTENDS Integers, FiniteSets, FiniteSetsExt, Functions

CONSTANTS Zones,         \* ZONES: offset, and daylight saving or NoDst
          NoDst,
          Starts,        \* bound: the midnights from which clocks are watched
          Schedules,     \* of times of day, or every so many half hours
          Days           \* bound: how long they are watched

Day == 48
LocalTimeAssumption ==
  /\ Days \in Nat
  /\ \A s \in Schedules : s.every \in Nat /\ s.times \subseteq 0..Day - 1 /\ (s.every = 0 <=> s.times # {})
  /\ \A s \in Starts : s.zone \in DOMAIN Zones

VARIABLES now,       \* half hours since 1970, UTC
          zone, schedule,
          wall,      \* what the wall clock shows
          summer,    \* it was put forward
          skipped,   \* times it left out today
          shown,     \* times it has shown today
          last,      \* when it last showed one of the schedule, or 0
          since      \* when the watch began

vars == <<now, zone, schedule, wall, summer, skipped, shown, last, since>>

(***************************************************************************)
(* The calendar.                                                           *)
(***************************************************************************)
DaysFromCivil(year, m, d) ==
  LET y == IF m <= 2 THEN year - 1 ELSE year
      yoe == y % 400
      doy == (153 * (IF m > 2 THEN m - 3 ELSE m + 9) + 2) \div 5 + d - 1
  IN (y \div 400) * 146097 + yoe * 365 + yoe \div 4 - yoe \div 100 + doy - 719468
CivilFromDays(days) ==
  LET z == days + 719468
      doe == z % 146097
      yoe == (doe - doe \div 1460 + doe \div 36524 - doe \div 146096) \div 365
      doy == doe - (365 * yoe + yoe \div 4 - yoe \div 100)
      mp == (5 * doy + 2) \div 153
      m == IF mp < 10 THEN mp + 3 ELSE mp - 9
  IN [y |-> yoe + (z \div 146097) * 400 + (IF m <= 2 THEN 1 ELSE 0), m |-> m,
      d |-> doy - (153 * mp + 2) \div 5 + 1]
Weekday(days) == (days + 4) % 7
DaysInMonth(y, m) ==
  (IF m = 12 THEN DaysFromCivil(y + 1, 1, 1) ELSE DaysFromCivil(y, m + 1, 1)) - DaysFromCivil(y, m, 1)
\* Rule::date: week 5 is the last of the month.
RuleDate(rule, y) ==
  LET first == DaysFromCivil(y, rule.month, 1)
      day == 1 + ((rule.day + 7 - Weekday(first)) % 7) + (rule.week - 1) * 7
  IN first - 1 + Max({x \in {day, day - 7} : x <= DaysInMonth(y, rule.month)})

(***************************************************************************)
(* Time zones.                                                             *)
(***************************************************************************)
\* offset_at: a change is written in the time in force before it.
OffsetAt(z, utc) ==
  LET y == CivilFromDays((utc + z.std) \div Day).y
      start == RuleDate(z.dst.start, y) * Day + z.dst.start.at - z.std
      end == RuleDate(z.dst.end, y) * Day + z.dst.end.at - z.std - 2
  IN IF z.dst = NoDst THEN z.std
     ELSE IF (start < end /\ start <= utc /\ utc < end) \/ (start >= end /\ (utc >= start \/ utc < end))
     THEN z.std + 2 ELSE z.std
Local(z, utc) ==
  LET t == utc + OffsetAt(z, utc)
  IN [date |-> CivilFromDays(t \div Day), at |-> t % Day, weekday |-> Weekday(t \div Day)]
\* Mutant: of a time that comes twice, the second.
UtcLate(z, day, at) ==
  LET at0 == day * Day + at
      valid == {at0 - o : o \in {p \in {z.std} \cup (IF z.dst = NoDst THEN {} ELSE {z.std + 2}) :
                                   OffsetAt(z, at0 - p) = p}}
  IN IF valid = {} THEN at0 - z.std ELSE Max(valid)
\* utc_ms: of a time that comes twice the first, of one that never comes an hour later.
Utc(z, day, at) ==
  LET at0 == day * Day + at
      valid == {at0 - o : o \in {p \in {z.std} \cup (IF z.dst = NoDst THEN {} ELSE {z.std + 2}) :
                                   OffsetAt(z, at0 - p) = p}}
  IN IF valid = {} THEN at0 - z.std ELSE Min(valid)

(***************************************************************************)
(* Slots.                                                                  *)
(***************************************************************************)
NextAfter(z, s, after) ==
  LET date == Local(z, after).date
      today == DaysFromCivil(date.y, date.m, date.d)
      slots(ahead) == {x \in {Utc(z, today + ahead, at) : at \in s.times} : x > after}
      ahead == Min({a \in 0..2 : slots(a) # {}})
  IN IF s.every > 0 THEN (after \div s.every + 1) * s.every ELSE Min(slots(ahead))
LatestAt(z, s, at) ==
  LET Latest[x \in Nat] == IF NextAfter(z, s, x) <= at THEN Latest[NextAfter(z, s, x)] ELSE x
  IN Latest[NextAfter(z, s, at - 2 * Day)]

(***************************************************************************)
(* The clock on the wall.                                                  *)
(***************************************************************************)
Leap(y) == y % 4 = 0 /\ (y % 100 # 0 \/ y % 400 = 0)
Length(y, m) == CASE m = 2 -> IF Leap(y) THEN 29 ELSE 28 [] m \in {4, 6, 9, 11} -> 30 [] OTHER -> 31
Tomorrow(date) ==
  IF date.d < Length(date.y, date.m) THEN [date EXCEPT !.d = @ + 1]
  ELSE IF date.m < 12 THEN [date EXCEPT !.m = @ + 1, !.d = 1]
  ELSE [y |-> date.y + 1, m |-> 1, d |-> 1]
Ticked(w) ==
  IF w.at < Day - 1 THEN [w EXCEPT !.at = @ + 1]
  ELSE [date |-> Tomorrow(w.date), at |-> 0, weekday |-> (w.weekday + 1) % 7]
\* The clock shows the moment of this rule: the n-th, or last, such weekday of the month.
Rings(rule, w) ==
  /\ w.date.m = rule.month /\ w.weekday = rule.day /\ w.at = rule.at
  /\ IF rule.week = 5 THEN w.date.d + 7 > Length(w.date.y, w.date.m) ELSE (w.date.d - 1) \div 7 = rule.week - 1
Changes(rule, w) == Zones[zone].dst # NoDst /\ Rings(rule, w)

\* It shows a time of the schedule for the first time today, or an hour
\* past one that it left out.
Due(w, left, before) ==
  IF schedule.every > 0 THEN now' % schedule.every = 0
  ELSE \/ w.at \in schedule.times \ before
       \/ w.at - 2 \in schedule.times \cap left

Tick ==
  /\ now < since + Days * Day /\ now' = now + 1
  /\ LET next == Ticked(wall)
         newDay == next.at = 0
         forward == ~summer /\ Changes(Zones[zone].dst.start, next)
         back == summer /\ Changes(Zones[zone].dst.end, next)
         left == IF forward THEN {next.at, next.at + 1} ELSE IF newDay THEN {} ELSE skipped
         before == IF newDay THEN {} ELSE shown
     IN /\ wall' = [next EXCEPT !.at = IF forward THEN @ + 2 ELSE IF back THEN @ - 2 ELSE @]
        /\ summer' = IF forward THEN TRUE ELSE IF back THEN FALSE ELSE summer
        /\ skipped' = left
        /\ shown' = before \cup {wall'.at}
        /\ last' = IF Due(wall', left, before) THEN now' ELSE last
  /\ UNCHANGED <<zone, schedule, since>>

Init ==
  /\ \E s \in Starts :
       /\ zone = s.zone /\ summer = s.summer
       /\ wall = [date |-> s.date, at |-> 0, weekday |-> s.weekday]
       /\ since = s.day * Day - Zones[zone].std - (IF summer THEN 2 ELSE 0)
       /\ now = since
  /\ schedule \in Schedules
  /\ skipped = {} /\ shown = {0} /\ last = 0
Spec == Init /\ [][Tick]_vars

(***************************************************************************)
(* Properties.                                                             *)
(***************************************************************************)
\* What tz.rs computes from the count of time alone is what a clock on the
\* wall shows that was put forward and back by hand: date, day of the week and
\* time, over month ends, leap days, new years and both changes of each zone.
ClockAgrees ==
  /\ Local(Zones[zone], now) = wall
  /\ (OffsetAt(Zones[zone], now) # Zones[zone].std) = summer

\* The slot a bot finds to be due last is the last time that the wall clock
\* showed a time of its schedule, and the one it waits for is the next: none
\* is skipped and none comes twice on the days that have 23 or 25 hours.
SlotsAgreeStep ==
  /\ last # 0 => LatestAt(Zones[zone], schedule, now) = last
  /\ (NextAfter(Zones[zone], schedule, now) = now') = (last' = now')
SlotsAgree == [][SlotsAgreeStep]_vars
=============================================================================
