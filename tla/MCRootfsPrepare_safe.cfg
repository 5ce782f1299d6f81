SPECIFICATION Spec
CONSTANTS
    Attempts = {p1, p2, p3}
    None = none
    Foreign = foreign
INVARIANTS TypeOK OrphanExcludes LiveRecordOpen ReportedIsPublished 
PROPERTIES DestinationKept
SYMMETRY Symmetry
