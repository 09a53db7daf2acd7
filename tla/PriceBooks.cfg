SPECIFICATION LiveSpec
CONSTANTS
    north = north  south = south  p1 = p1  p2 = p2
    Books = {north}
    OldBooks = {north}
    Processes = {p1, p2}
    Revisions = {1, 2}
    OldRevision = 1
    Rule <- OneRelease
    Deleted = {north}
    OverlappingReplacements = TRUE
    MaxCrashes = 1
INVARIANTS
    TypeOK
    SpentJobsRebuilt
PROPERTIES
    SettledJobsRest
    BooksSettle
