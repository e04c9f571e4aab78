\* More than a 33-year cycle from each first day.
CONSTANTS
    FirstDays <- MCFirstDays
    Years = 40
SPECIFICATION CalendarSpec
INVARIANTS ConvertsBothWays TypedAreDates MonthReport
CHECK_DEADLOCK FALSE
