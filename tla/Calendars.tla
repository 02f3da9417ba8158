----------------------------- MODULE Calendars ------------------------------
(***************************************************************************)
(* Working time (internal/engine/calendar.go): a business calendar and the *)
(* time it counts between two instants.  Instants are natural numbers of   *)
(* ticks, several to the minute; days are numbered, and the day of the     *)
(* week is the number modulo Week.                                         *)
(***************************************************************************)
EXTENDS Integers, FiniteSets

CONSTANTS
  TicksPerMinute, MinutesPerDay,
  Week,       \* days of the week
  WeekDays, WorkStart, WorkEnd,   \* Monday to Friday, nine to six
  MaxDays     \* the guard of the loops over days

ASSUME CalendarsAssumption ==
  {TicksPerMinute, MinutesPerDay, Week, MaxDays} \subseteq Nat \ {0}

TicksPerDay == TicksPerMinute * MinutesPerDay

Day(t) == t \div TicksPerDay

NewCalendar(workdays, startMin, endMin, holidays, extra) ==
  [workdays |-> workdays, startMin |-> startMin, endMin |-> endMin,
   holidays |-> holidays, extra |-> extra]

(* calendarFromRecord: what the record does not say is Monday to Friday,   *)
(* nine to six, whatever the node's calendar; workdays and dates are       *)
(* values of kind "days".                                                  *)
FromRecord(values) ==
  LET number(f, n) == IF f \in DOMAIN values /\ values[f][1] = "num" THEN values[f][2] ELSE n
      days(f, d) == IF f \in DOMAIN values /\ values[f][1] = "days" /\ values[f][2] # {}
                    THEN values[f][2] ELSE d
  IN  NewCalendar(days("workdays", WeekDays),
        number("work_start", WorkStart), number("work_end", WorkEnd),
        days("holidays", {}), days("extra_workdays", {}))

(* A mutant: a transferred workday beats a holiday. *)
WorkdayByExtra(c, d) == d \in c.extra \/ (d % Week \in c.workdays /\ d \notin c.holidays)

IsWorkday(c, d) == d \notin c.holidays /\ (d % Week \in c.workdays \/ d \in c.extra)

Later(a, b) == IF a > b THEN a ELSE b
Earlier(a, b) == IF a < b THEN a ELSE b

(* The working minutes of one day, in whole minutes. *)
MinutesOn(c, d, from, to) ==
  LET s == Later(d * TicksPerDay + c.startMin * TicksPerMinute, from)
      e == Earlier(d * TicksPerDay + c.endMin * TicksPerMinute, to)
  IN  IF IsWorkday(c, d) /\ e > s THEN (e - s) \div TicksPerMinute ELSE 0

(* The loop, over the days from the first to the last the guard allows. *)
SumDays(c, first, last, from, to) ==
  LET sum[d \in (first - 1)..last] ==
        IF d < first THEN 0 ELSE sum[d - 1] + MinutesOn(c, d, from, to)
  IN  sum[last]

BusinessMinutesBetween(c, from, to) ==
  LET last == (to - 1) \div TicksPerDay
  IN  IF to <= from THEN 0
      ELSE SumDays(c, Day(from), Earlier(last, Day(from) + MaxDays - 1), from, to)

BusinessDaysBetween(c, from, to) ==
  IF to <= from THEN 0
  ELSE Cardinality({d \in (Day(from) + 1)..Earlier(Day(to), Day(from) + MaxDays) : IsWorkday(c, d)})

-----------------------------------------------------------------------------
(* The hours of a calendar lie in its day; no code sees to it. *)
HoursInDay(c) == {c.startMin, c.endMin} \subseteq 0..MinutesPerDay

(* The working ticks between two instants, one by one. *)
WorkingTicks(c, from, to) ==
  {t \in from..(to - 1) :
     /\ Day(t) \notin c.holidays
     /\ Day(t) % Week \in c.workdays \/ Day(t) \in c.extra
     /\ (t % TicksPerDay) \div TicksPerMinute \in c.startMin..(c.endMin - 1)}
=============================================================================
