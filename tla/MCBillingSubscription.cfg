\* Two requests that draw on a subscription and on the wallet, with the violation fee, under fairness.
CONSTANTS
    r1 = r1
    r2 = r2
    Requests = {r1, r2}
    Prefs = {"subscription_first", "wallet_first"}
    Playgrounds = {FALSE}
    Images = {FALSE}
    Forces = {FALSE}
    Quotas = {0, 2}
    InitWallet = 2
    InitToken = 4
    TokenUnlimited = FALSE
    HasSubscription = TRUE
    SubTotal = 3
    AllowOverflow = TRUE
    TrustQuota = 0
    FeeQuota = 1
    RetryTimes = 0
    MaxFaults = 1
SPECIFICATION FairSpec
INVARIANTS
    FailureReturnsEverything
    ServedPaysActual
    ReservationsNeverOverdraw
    RefundMatchesHolding
    AccountsExact
PROPERTIES
    RequestsEnd
    RefundsRun
CHECK_DEADLOCK FALSE
