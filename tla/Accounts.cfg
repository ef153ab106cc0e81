SPECIFICATION FairAccounts
CONSTANTS
    Forms = {f1, f2}
    Home = Home
    MaxFailures = 1
PROPERTIES
    WhoRegisteredIsKnown
    FiguresComeUp
    AbsenceIsForgotten
    LooksUpThroughTheCache
