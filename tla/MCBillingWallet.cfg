\* Two concurrent wallet requests, image requests among them, with one database error.
CONSTANTS
    r1 = r1
    r2 = r2
    Requests = {r1, r2}
    Prefs = {"wallet_only", "subscription_only"}
    Playgrounds = {FALSE, TRUE}
    Images = {FALSE, TRUE}
    Forces = {FALSE, TRUE}
    Quotas = {1, 2}
    InitWallet = 3
    InitToken = 2
    TokenUnlimited = FALSE
    HasSubscription = FALSE
    SubTotal = 0
    AllowOverflow = FALSE
    TrustQuota = 1
    FeeQuota = 0
    RetryTimes = 1
    MaxFaults = 1
SPECIFICATION Spec
SYMMETRY RequestSymmetry
INVARIANTS
    TypeOK
    FailureReturnsEverything
    ServedPaysActual
    ReservationsNeverOverdraw
    LedgerInv
    AccountsExact
CHECK_DEADLOCK FALSE
