SPECIFICATION MergeSpec
CONSTANTS
    Courses = {c1, c2}
    Handlers = {h1, h2}
    Pdfs = {p1}
    NoPdf = NoPdf
    Nobody = Nobody
    MaxMergeJobs = 1
INVARIANT CombinedPdfProduced
