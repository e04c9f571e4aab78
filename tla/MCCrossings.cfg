\* Two threads whose reads and commits cross.
CONSTANTS
    Threads = {t1, t2}
    None = None
    NoDraft = NoDraft
    Workers = {w1}
    Projects = {p1}
    Payments = {y1, y2}
    Expenses = {}
    Receipts = {}
    NoProject = NoProject
    Blank = Blank
    Flags = {TRUE}
    Statuses = {"not_started"}
    Amounts = {1, 2}
    Totals = {Blank}
    PaidAmounts = {1, 2, 3, 4}
    Percents = {}
SPECIFICATION CrossingsSpec
SYMMETRY Interchangeable
INVARIANTS LaborCap
PROPERTIES RequestsImplemented SequentialUnlessCrossed
CHECK_DEADLOCK FALSE
