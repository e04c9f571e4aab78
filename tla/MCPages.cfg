\* Two projects that share the tables of payments and expenses.
CONSTANTS
    Workers = {w1}
    Projects = {p1, p2}
    Payments = {y1}
    Expenses = {e1}
    Receipts = {}
    NoProject = NoProject
    Blank = Blank
    Flags = {TRUE}
    Statuses = {"settled"}
    Amounts = {0, 1}
    Totals = {Blank}
    PaidAmounts = {0, 1}
    Percents = {}
    NoPage = NoPage
    MaxCommits = 2
SPECIFICATION PagesSpec
SYMMETRY Interchangeable
INVARIANTS PagesAddUp BreaksOnlyOnDeletion
CHECK_DEADLOCK FALSE
