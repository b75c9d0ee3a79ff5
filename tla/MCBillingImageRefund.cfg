\* One image request whose count grows between two attempts.
CONSTANTS
    r1 = r1
    r2 = r2
    Requests = {r1}
    Prefs = {"wallet_only"}
    Playgrounds = {FALSE}
    Images = {TRUE}
    Forces = {FALSE}
    Quotas = {0, 1, 2}
    InitWallet = 3
    InitToken = 2
    TokenUnlimited = FALSE
    HasSubscription = TRUE
    SubTotal = 2
    AllowOverflow = FALSE
    TrustQuota = 1
    FeeQuota = 0
    RetryTimes = 1
    MaxFaults = 0
SPECIFICATION Spec
INVARIANT RefundReturnsAllPreConsumed
CHECK_DEADLOCK FALSE
