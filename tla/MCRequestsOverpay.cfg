\* Two threads: a payment that was checked, and then a deletion that takes the share it was for.
CONSTANTS
    Threads = {t1, t2}
    None = None
    Workers = {w1}
    Projects = {p1}
    Payments = {y1, y2}
    Expenses = {}
    Receipts = {}
    NoProject = NoProject
    Blank = Blank
    Flags = {TRUE}
    Statuses = {"not_started"}
    Amounts = {1, 2}
    Totals = {Blank}
    PaidAmounts = {1, 2, 3, 4}
    Percents = {}
SPECIFICATION RequestsSpec
SYMMETRY Interchangeable
PROPERTIES NoOverpayUnlessConfirmed
CHECK_DEADLOCK FALSE
