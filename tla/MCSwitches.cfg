\* One instance, whose accounting and switches work on the same wallet.
SPECIFICATION SwitchesSpec
CONSTANTS
    Accounts = {a1}
    Invocations = {v1, v2}
    Checkouts = {}
    Payments = {}
    Instances = {i1}
    NoAccount = NoAccount
    NoPayment = NoPayment
    Billers = {i1}
    Cost = 2
    MonthlyFree = 2
    Overrides <- Nothing
    Price = 7
    Entries <- GrantAndAdjustment
    MonthCap = 2
    Batch = 2
    MaxMonth = 4
    MaxEntries = 1
    MaxCrashes = 1
    StaleAfter = 3
SYMMETRY Symmetric
INVARIANTS
    BooksBalance
    OneGrantAMonth
    BlocksOnlyTheRecentlyOut
    GrantedBeforeBlocked
PROPERTIES
    ChargedOnLeaving
CHECK_DEADLOCK FALSE
