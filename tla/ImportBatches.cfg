SPECIFICATION FairSpec
CONSTANTS
    p1 = p1
    p3 = p3
    Lyon = Lyon
    Lens = Lens
    Passes = {p1, p3}
    SeasonOf <- MCSeasonOf
    Fixtures <- MCFixtures
    Published <- MCPublished
    Files <- MCFiles
    CellValues <- MCCellValues
    MaxTickets = 2
    Batches = {1, 2}
    Touched <- MCTouched
    Removable = {p1}
    MaxRows = 2
    MaxEdits = 1
    MaxDrafts = 1
    NoMatch = NoMatch
    NoDay = NoDay
    NoFile = NoFile
    NoBatch = NoBatch
INVARIANTS
    PreviewPredictsCommit
    ImportedSalesAreSound
    PassesInUseStay
    OneBatchPerDraft
    UndoneIsGone
PROPERTY ButtonsComeBack
