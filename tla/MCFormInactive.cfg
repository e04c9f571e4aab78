\* A worker deactivated while he has a share: ChosenStay does not hold.
CONSTANTS
    Workers = {w1, w2}
    Labors = {0, 4}
    Totals = {0}
    Percents <- MCPercents
    Amounts = {0, 1}
    DefaultPercent <- MCDefault
    MaxEdits = 2
    Empty = Empty
    Bad = Bad
    Unborn = Unborn
    Gone = Gone
    Closed = Closed
SPECIFICATION FormSpec
SYMMETRY Interchangeable
PROPERTIES ChosenStay
CHECK_DEADLOCK FALSE
