SPECIFICATION Spec
CONSTANTS
    Courses = {c1, c2}
    Handlers = {h1, h2}
    Pdfs = {p1, p2}
    NoPdf = NoPdf
    Nobody = Nobody
SYMMETRY Symmetry
INVARIANTS
    TypeOK
    RollUpExact
    ExactlyOneMerge
    LedgerMatchesPdf
    GeneratedHasPdf
PROPERTY
    RefinesRollUp
