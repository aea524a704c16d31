\* Payments delivered in any order beside the accounting loops, one instance
\* with credits on and one with credits off.
SPECIFICATION MCSpec
CONSTANTS
    Accounts = {a1, a2}
    Invocations = {v1, v2}
    Checkouts = {c1, c2}
    Payments = {p1, p2}
    Instances = {i1, i2}
    NoAccount = NoAccount
    NoPayment = NoPayment
    Billers = {i1}
    Cost = 2
    MonthlyFree = 5
    Overrides <- NoOverride
    Price = 7
    Entries <- OneEntry
    MonthCap = 2
    Batch = 2
    MaxMonth = 2
    MaxEntries = 1
    MaxCrashes = 1
INVARIANTS
    CreditedAsPaid
PROPERTIES
    SettledForGood
    QueueDrains
CHECK_DEADLOCK FALSE
