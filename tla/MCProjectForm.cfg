\* Two workers, labor amounts that make ties, and zeros, which a page shows as empty fields.
CONSTANTS
    Workers = {w1, w2}
    Labors = {0, 4}
    Totals = {0}
    Percents <- MCPercents
    Amounts = {0, 1}
    DefaultPercent <- MCDefault
    MaxEdits = 2
    Empty = Empty
    Bad = Bad
    Unborn = Unborn
    Gone = Gone
    Closed = Closed
SPECIFICATION FormSpec
SYMMETRY Interchangeable
INVARIANTS FormTypeOK
PROPERTIES SavesWhatWasMeant  UneditedAccepted
CHECK_DEADLOCK FALSE
