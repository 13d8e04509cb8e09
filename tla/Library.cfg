CONSTANTS
    a = a
    b = b
    c = c
    askQuote = askQuote
    askItems = askItems
    askPacks = askPacks
    m1 = m1
    m2 = m2
    m3 = m3
    Logins = {l1, l2, l3}
    Logouts = {o1, o2}
    Fetches = {f1}
    FeedCards = {1, 2, 3}
    PageSize = 2
    LastTick = 3
    Items = {a, b, c}
    Editions <- SomeEditions
    Withheld <- LongestWithholds
    MaxImports = 3
    Asks <- SomeAsks
    Wishes <- SomeWishes
    InLibrary = {b}
    Offsets = {0, 1}
    Decks <- SomeDecks
    Requests <- SomeRequests
    Studied = {a, b}
    ReappearGap = 1
    v = v
    w = w
    x = x
    y = y
    z = z
    Banks <- SomeBanks
    Lexicons <- SomeLexicons
    xx = xx
    Normal <- NormalForm
    Visible = {v, w, x, y, xx}
    Chinese = {v, w, x, xx}
    Wanted = 2
    CardLimit = 3
    RowLimit = 3
    EntryLimit = 2
    NoValue = NoValue
    packP = packP
    packQ = packQ
    SceneCodes <- PacksInOrder
    AssignmentOrder <- OrderOfAssignment
    Bilingual <- SomePairs
    OpenEnglish <- SomeEnglish
    Dialogues <- SomeDialogues
    TargetPerPack = 2
    ItemsPerPack = 1
    BatchSize = 2
    MaxTranslated = 1
    SaveEvery = 2
    Translations = {"t", "u"}
    MaxRuns = 3
    ReportCards = {1, 2}
    Ledgers <- SomeLedgers
    DayStart <- Days
    Today = 2
    Queries <- SomeQueries
    NoDate = NoDate
    NoSnapshot = NoSnapshot
    Sheets <- SomeSheets
    LexCards = {1}
    LexWords = {"apple", "appel", "sentence"}
    Known = {"apple"}
    TooLong = {"sentence"}
    BatchLimit = 1
    Calls = {l1, l2, l3, l4}
    Limit = 2
    Window = 2
    LastSecond = 3
SPECIFICATION LibrarySpec
INVARIANTS
    OneNewUser
    MissesOnlyLateOrTied
    CatalogueIsWhole
    MarksAgree
    RulesAreSound
    QuestionsAreFair
    MaterialsAreWhole
    RunsRepeat
    ReportsAddUp
    MetadataIsExplained
    WindowNeverOverrun
CHECK_DEADLOCK FALSE
