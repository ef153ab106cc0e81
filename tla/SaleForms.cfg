SPECIFICATION Spec
CONSTANTS
    t1 = t1
    t2 = t2
    s1 = s1
    ann = ann
    None = None
    Sales = {s1}
    Tabs = {t1, t2}
    Counts = {1}
    Recipients = {ann}
SYMMETRY MCSymmetry
INVARIANTS
    RefusedOnlyWhenStale
PROPERTY
    StatusMovesAsAsked
    SoldOrGivenBeforeKickoff
