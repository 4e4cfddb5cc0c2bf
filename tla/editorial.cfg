CONSTANTS
    None = None
    chief1 = chief1
    chief2 = chief2
    j1 = j1
    j2 = j2
    Home = j1
    Author = Author
    NoUser = NoUser
    NoPage = NoPage
    Users = {chief1, chief2}
    Admins = {}
    Journals = {j1, j2}
    InitialSeats <- MCSeats
    Appointments <- MCAppointments
    MaxRevisions = 3
    MaxTeam = 1
    MaxChanges = 3
    s1 = s1
    s2 = s2
    Articles = {a1, a2}
    Slots = {s1, s2}
    MaxItems <- MCMaxItems
    PlacementIds = {p1, p2}
    Batches = {b1}
    Tabs = {t1, t2}
    MaxErrors = 1
    Categories = {c1, c2, c3}
    Slugs = {a, b}
    MaxDepth = 3
    Curators = {u1, u2}
    MaxMoves = 3
    Packages = {i1, i2}
    ImportedKeys = {x, y}
    PreviewLimit = 1
    MaxImportFaults = 1
SPECIFICATION EditorialSpec
VIEW BesideRequest
CHECK_DEADLOCK FALSE
INVARIANTS EditorialTypeOK
           ApprovedIsReviewed
           SlotsHold ExecutesOnce PathsFollowTree
PROPERTIES AdvancesByReview ApprovesWhatWasRead
           ApprovalEndsByChange AddressesEndure EndStands
