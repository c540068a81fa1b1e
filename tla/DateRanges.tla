------------------------------ MODULE DateRanges ------------------------------
(***************************************************************************)
(* Dates a question names (rag/date_parse.py): a model says which kind of  *)
(* range it is and Python computes it, from the day the search started on; *)
(* what the answering model is told of this and last week is computed from *)
(* the day it is told (api/chat.py), and midnight may lie between.  Days   *)
(* are numbers; the calendar is that of a common year and a leap year.     *)
(***************************************************************************)
EXTENDS Integers, Sequences

CONSTANTS
    QuestionDays,  \* the days questions are asked on, in the second year
    NoRange        \* the reply names no range

VARIABLES
    dateStage,     \* idle, asked, resolved, prompted
    clock,         \* today
    asked,         \* retrieve_with_rerank's today
    kind,          \* the model's reply, with the number in it
    number,
    range,         \* _parse_response's result
    thisWeek, lastWeek  \* as the answering model is told

dateVars == <<dateStage, clock, asked, kind, number, range, thisWeek, lastWeek>>

--------------------------------------------------------------------------------
\* The calendar: 2027 and 2028.
FirstWeekday == 4
Months == 1 .. 24
FirstOf == <<1, 32, 60, 91, 121, 152, 182, 213, 244, 274, 305, 335, 366,
             397, 426, 457, 487, 518, 548, 579, 610, 640, 671, 701, 732>>
CalendarDays == 1 .. FirstOf[25] - 1

\* Monday is 0.
Weekday(d) == (d - 1 + FirstWeekday) % 7
MonthOf(d) == CHOOSE m \in Months : FirstOf[m] <= d /\ d < FirstOf[m + 1]
MonthNumber(m) == ((m - 1) % 12) + 1

ASSUME QuestionDaysAssumption == QuestionDays \subseteq FirstOf[13] .. FirstOf[25] - 1

Kinds == {"NONE", "DATE", "THIS_WEEK", "LAST_WEEK", "THIS_MONTH", "SINCE_MONTH_START", "MONTH"}
Numbers(k) == CASE k = "MONTH" -> 0 .. 13 [] k = "DATE" -> QuestionDays [] OTHER -> {0}
Ranges == {NoRange} \union (Int \X Int)

DateTypeOK ==
    /\ dateStage \in {"idle", "asked", "resolved", "prompted"}
    /\ clock \in CalendarDays \union {0} /\ asked \in CalendarDays \union {0}
    /\ kind \in Kinds /\ number \in Numbers(kind)
    /\ range \in Ranges /\ thisWeek \in Ranges /\ lastWeek \in Ranges

DateInit ==
    /\ dateStage = "idle"
    /\ clock = 0 /\ asked = 0
    /\ kind = "NONE" /\ number = 0
    /\ range = NoRange /\ thisWeek = NoRange /\ lastWeek = NoRange

--------------------------------------------------------------------------------
WeekBounds(today, weeksAgo) ==
    LET monday == today - Weekday(today) - 7 * weeksAgo IN <<monday, monday + 6>>

MonthBounds(m) == <<FirstOf[m], FirstOf[m + 1] - 1>>

\* Mutant: the present month counts as not begun.
MostRecentBefore(n, today) ==
    LET m == MonthOf(today) IN m - MonthNumber(m) + n - IF n < MonthNumber(m) THEN 0 ELSE 12

\* This year's, or last year's if it has not begun.
MostRecent(n, today) ==
    LET m == MonthOf(today) IN m - MonthNumber(m) + n - IF n <= MonthNumber(m) THEN 0 ELSE 12

\* _parse_response and _resolve_named_range.
Resolved(k, n, today) ==
    CASE k = "DATE" -> <<n, n>>
      [] k = "THIS_WEEK" -> WeekBounds(today, 0)
      [] k = "LAST_WEEK" -> WeekBounds(today, 1)
      [] k = "THIS_MONTH" -> MonthBounds(MonthOf(today))
      [] k = "SINCE_MONTH_START" -> <<FirstOf[MonthOf(today)], today>>
      [] k = "MONTH" /\ n \in 1 .. 12 -> MonthBounds(MostRecent(n, today))
      [] OTHER -> NoRange

\* The request is over, answered or with the process.
DropDates ==
    /\ dateStage' = "idle"
    /\ clock' = 0 /\ asked' = 0 /\ kind' = "NONE" /\ number' = 0
    /\ range' = NoRange /\ thisWeek' = NoRange /\ lastWeek' = NoRange

\* retrieve_with_rerank reads the date first.
AskDate(d) ==
    /\ dateStage = "idle" /\ dateStage' = "asked"
    /\ clock' = d /\ asked' = d
    /\ UNCHANGED <<kind, number, range, thisWeek, lastWeek>>

\* A request does not last longer than a day.
Midnight ==
    /\ dateStage \in {"asked", "resolved"} /\ clock = asked /\ clock + 1 \in CalendarDays
    /\ clock' = clock + 1
    /\ UNCHANGED <<dateStage, asked, kind, number, range, thisWeek, lastWeek>>

ResolveDate(k, n) ==
    /\ dateStage = "asked" /\ dateStage' = "resolved"
    /\ kind' = k /\ number' = n /\ range' = Resolved(k, n, asked)
    /\ UNCHANGED <<clock, asked, thisWeek, lastWeek>>

\* Mutant: the weeks told begin on Sundays.
TellWeeksFromSunday ==
    /\ dateStage = "resolved" /\ dateStage' = "prompted"
    /\ thisWeek' = LET w == WeekBounds(clock + 1, 0) IN <<w[1] - 1, w[2] - 1>>
    /\ lastWeek' = LET w == WeekBounds(clock + 1, 1) IN <<w[1] - 1, w[2] - 1>>
    /\ UNCHANGED <<clock, asked, kind, number, range>>

\* _sse_event_stream, once the search is over.
TellWeeks ==
    /\ dateStage = "resolved" /\ dateStage' = "prompted"
    /\ thisWeek' = WeekBounds(clock, 0) /\ lastWeek' = WeekBounds(clock, 1)
    /\ UNCHANGED <<clock, asked, kind, number, range>>

DateNext ==
    \/ \E d \in QuestionDays : AskDate(d)
    \/ \E k \in Kinds : \E n \in Numbers(k) : ResolveDate(k, n)
    \/ Midnight \/ TellWeeks \/ DropDates

DateSpec == DateInit /\ [][DateNext]_dateVars

--------------------------------------------------------------------------------
Within(d) == range[1] <= d /\ d <= range[2]
SameMonth(d, e) == d \in CalendarDays /\ MonthOf(d) = MonthOf(e)

(***************************************************************************)
(* A range is the one its name means: a week is the Monday to Sunday that  *)
(* holds the day asked on, last week the one that ends before it; a month  *)
(* is whole, and a named month the last of that name that has begun, across*)
(* the turn of the year and in a leap year (_resolve_named_range).         *)
(***************************************************************************)
RangeMeansItsName ==
    range # NoRange =>
        CASE kind = "THIS_WEEK" ->
               Weekday(range[1]) = 0 /\ range[2] = range[1] + 6 /\ Within(asked)
          [] kind = "LAST_WEEK" ->
               Weekday(range[1]) = 0 /\ range[2] = range[1] + 6 /\ asked - range[2] \in 1 .. 7
          [] kind = "THIS_MONTH" ->
               \A d \in asked - 32 .. asked + 32 : SameMonth(d, asked) <=> Within(d)
          [] kind = "SINCE_MONTH_START" ->
               \A d \in asked - 32 .. asked + 32 : SameMonth(d, asked) /\ d <= asked <=> Within(d)
          [] kind = "MONTH" ->
               /\ range \in {MonthBounds(m) : m \in Months}
               /\ MonthNumber(MonthOf(range[1])) = number /\ range[1] <= asked
               /\ \A d \in range[2] + 1 .. asked : MonthNumber(MonthOf(d)) # number
          [] OTHER -> TRUE

(***************************************************************************)
(* The weeks the answering model is told are the ones that were searched,  *)
(* unless Sunday's midnight fell into the search ("this can never disagree *)
(* with what was actually retrieved", _sse_event_stream).                  *)
(***************************************************************************)
WeeksAgree ==
    dateStage = "prompted" /\ ~(clock # asked /\ Weekday(clock) = 0) =>
        /\ kind = "THIS_WEEK" => range = thisWeek
        /\ kind = "LAST_WEEK" => range = lastWeek
================================================================================
