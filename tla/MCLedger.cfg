\* Two workers on one project, two payments, an expense and a receipt.
CONSTANTS
    Workers = {w1, w2}
    Projects = {p1}
    Payments = {y1, y2}
    Expenses = {e1}
    Receipts = {r1}
    NoProject = NoProject
    Blank = Blank
    Flags = {TRUE}
    Statuses = {"not_started"}
    Amounts = {0, 1, 2}
    Totals = {Blank}
    PaidAmounts = {0, 1, 2, 3, 4}
    Percents <- HalfOnly
SPECIFICATION LedgerSpec
SYMMETRY Interchangeable
INVARIANTS TypeOK ForeignKeys LaborCap WorkersFiguresAgree ShopFiguresAgree
PROPERTIES UnconfirmedNeverOverpays SettleClears
CHECK_DEADLOCK FALSE
