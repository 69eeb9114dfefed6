CONSTANTS
    Author = Author
    Admin = Admin
    None = None
    Absent = Absent
    Users = {Author, Admin}
    MaxComments = 3
    Likers = {1, 2, 3}
    CrowdComments = 2
    CrowdOps = {"likePost", "createComment", "deletePost", "adminUpdatePostStatus", "abort"}
    Ratings = {4, 5}
    Ids = {m1, m2}
    Requests = {1, 2}
    Assets = {1, 2, 3}
    AssetOwner <- Uploaders
    Covers = {c1, c2}
    Images = {1, 2}
    Destinations = {d1}
    Readers = {1}
    Administrators = {1}
    FEATURED_TTL = 1
    CACHE_TTL = 1
    MaxTime = 1
    Numbers = {1, 2}
    Targets <- Kinds
    Kind <- KindOf
    Items = {1, 2, 3, 4}
    PageSizes = {1, 2}
    Locations = {1, 2, 3}
    Scores <- ScoreOf
    MaxRead = 3
    PageSize = 2
    PlanRequests <- AskedPlans
    PlanCatalogues <- ThreePlaces
    LUNCH_COST = 3
    StopLists <- DaysOnALine
    Modes = {"WALKING"}
    MatrixAnswers <- MapboxTables
    MaxTurns = 2
    Sightseeing <- SightLists
    Visits <- VisitCases
    MaxCandidates = 2
    MaxReviews = 1
    Tokens = {1, 2}
    Expenses = {1, 2}
    Journals = {3, 4}
    ExpenseTypes = {1, 2}
    Amounts = {1, 2}
    Dates = {1, 2}
    JournalPage = 1
SPECIFICATION Spec
INVARIANTS
    TypeOK
    ImagesExist NothingLeft AggregatesAgree CountersExact EveryItemOnce AnswersAddUp CachesFresh
    PlanSound SearchSound SumsAgree ToursSettled RowsWhole
PROPERTY DeletedUnused
SYMMETRY Symmetry
CHECK_DEADLOCK FALSE
