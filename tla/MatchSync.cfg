SPECIFICATION Spec
CONSTANTS
    Lyon = Lyon
    Lens = Lens
    Loads = {l1, l2}
    Creations = {c1}
    Calendar <- MCCalendar
    Stored <- MCStored
    ByHand <- MCByHand
    Users = {u1}
    MaxRows = 3
    Sellable = {1}
    MaxDate = 2
    MaxRevisions = 1
    MaxRequests = 2
    NoRow = NoRow
SYMMETRY MCSymmetry
INVARIANTS
    TypeOK
    OneRowPerDay
    StaleCopyHasCause
    AnswersAreTrue
CHECK_DEADLOCK FALSE
