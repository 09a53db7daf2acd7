SPECIFICATION Spec
CONSTANTS
    north = north  south = south  p1 = p1  p2 = p2
    Books = {north}
    OldBooks = {north}
    Processes = {p1, p2}
    Revisions = {1, 2, 3}
    OldRevision = 1
    Rule <- TwoReleases
    Deleted = {}
    OverlappingReplacements = TRUE
    MaxCrashes = 0
INVARIANTS
    RowsOfOneRevision
