CONSTANTS
    j1 = j1
    j2 = j2
    j3 = j3
    j4 = j4
    page = page
    article = article
    NoJob = NoJob
    Keep = 2
    MaxOpen = 2
    Jobs = {j1, j2, j3}
    Pages = {page, article}
    ArticlePages = {article}
    PdfGrants = FALSE
    MaxFaults = 0
SPECIFICATION Spec
SYMMETRY Symmetry
CHECK_DEADLOCK FALSE
PROPERTIES RetryPublishesTheAttempt
