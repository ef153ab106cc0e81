SPECIFICATION Spec
CONSTANTS
    s1 = s1
    l1 = l1
    w1 = w1
    None = None
    Sales = {s1}
    Profits = {1, 2}
    Wanted <- MCWanted
    Loads = {l1}
    Writers = {w1}
    MaxPassWrites = 1
INVARIANTS
    OldReportHasCause
    FailsOnlyWhenRaced
