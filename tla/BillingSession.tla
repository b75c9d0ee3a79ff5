--------------------------- MODULE BillingSession ---------------------------
(***************************************************************************)
(* The billing session of one relayed request: pre-consume, reserve,       *)
(* settle and refund (service/billing_session.go, funding_source.go,       *)
(* billing.go), driven by the relay loop of controller/relay.go.           *)
(*                                                                         *)
(* All requests of the model belong to one user and one API token, so they *)
(* compete for one wallet, one token quota and one subscription.  A call   *)
(* into the quota store (TryReserve..., Increase..., Decrease...,          *)
(* PostConsumeUserSubscriptionDelta) is one atomic step; requests          *)
(* interleave between these calls.  A call may also fail with a database   *)
(* error, at most MaxFaults times in a behaviour.                          *)
(***************************************************************************)
EXTENDS Integers, FiniteSetsExt

CONSTANTS
    Requests,         \* the concurrent requests of the user
    Prefs,            \* the billing preferences a request may carry
    Playgrounds,      \* possible values of RelayInfo.IsPlayground
    Images,           \* possible values of "this is an image request"
    Forces,           \* possible values of RelayInfo.ForcePreConsume
    Quotas,           \* possible estimates: pre-consume, Reserve target, usage
    InitWallet, InitToken,
    TokenUnlimited,   \* token.UnlimitedQuota
    HasSubscription, SubTotal,  \* the subscription; total 0 is unlimited
    AllowOverflow,    \* UserActiveSubscriptionsAllowWalletOverflow
    TrustQuota,       \* QuotaSetting.TrustQuotaUSD; 0 turns trust off
    FeeQuota,         \* violation fee; 0 turns it off
    RetryTimes,       \* common.RetryTimes
    MaxFaults         \* bound: database errors in one behaviour

AllPrefs == {"subscription_only", "wallet_only", "wallet_first", "subscription_first"}

ASSUME ConstantsAssumption ==
    /\ IsFiniteSet(Requests)
    /\ Prefs \subseteq AllPrefs
    /\ Playgrounds \subseteq BOOLEAN /\ Images \subseteq BOOLEAN /\ Forces \subseteq BOOLEAN
    /\ Quotas \subseteq Nat
    /\ InitWallet \in Nat /\ InitToken \in Nat
    /\ TokenUnlimited \in BOOLEAN /\ HasSubscription \in BOOLEAN /\ AllowOverflow \in BOOLEAN
    /\ SubTotal \in Nat /\ TrustQuota \in Nat /\ FeeQuota \in Nat
    /\ RetryTimes \in Nat /\ MaxFaults \in Nat

VARIABLES
    wallet, token, subUsed,  \* users.quota, tokens.remain_quota, user_subscriptions.amount_used
    pc,        \* the next step of the request's goroutine
    rpc,       \* the next step of the goroutine Refund spawns
    req,       \* what the request brings: RelayInfo
    sess,      \* the BillingSession and its FundingSource
    quota,     \* the amount the call in progress works on
    fallback,  \* the funding source left to try on "insufficient"
    attempt,   \* retryParam.GetRetry()
    actual,    \* the quota the handler settles
    outcome,   \* how the request ended
    faults,    \* database errors so far
    held, fee, \* history: what the request has taken from its funding source and the token
    leak,      \* history: a compensating call of the request failed and was only logged
    walletDebt, tokenDebt  \* history: what was taken without a balance check

accounts == <<wallet, token, subUsed, walletDebt, tokenDebt>>
vars == <<wallet, token, subUsed, pc, rpc, req, sess, quota, fallback, attempt, actual,
          outcome, faults, held, fee, leak, walletDebt, tokenDebt>>

Sources == {"none", "wallet", "subscription"}

PCs == {"idle", "checkWallet", "preToken", "preFunding", "undoToken", "ready",
        "reserveFunding", "reserveToken", "undoFunding", "sent", "settleFunding",
        "settleToken", "failed", "feeFunding", "feeToken", "done"}

Outcomes == {"none", "rejected", "served", "failed", "panicked"}

RefundPCs == {"none", "funding", "extra", "token", "finished"}

Requested == [pref : AllPrefs, playground : BOOLEAN, image : BOOLEAN,
              force : BOOLEAN, tokenQuota : Int]

Session == [funding : Sources, preConsumedQuota : Nat, tokenConsumed : Nat,
            extraReserved : Nat, consumed : Int, trusted : BOOLEAN,
            fundingSettled : BOOLEAN, settled : BOOLEAN, refunded : BOOLEAN]

Amounts == [funding : Int, token : Int]

NewSession(source) ==
    [funding |-> source, preConsumedQuota |-> 0, tokenConsumed |-> 0,
     extraReserved |-> 0, consumed |-> 0, trusted |-> FALSE,
     fundingSettled |-> FALSE, settled |-> FALSE, refunded |-> FALSE]

Nothing == [funding |-> 0, token |-> 0]

(***************************************************************************)
(* Derived values.                                                         *)
(***************************************************************************)

\* The amount preConsume works on: a subscription pre-consumes at least 1.
Effective(r) ==
    IF sess[r].funding = "subscription" /\ quota[r] < 1 THEN 1 ELSE quota[r]

\* A subscription has room for n more.
SubscriptionRoom(n) == SubTotal = 0 \/ subUsed + n <= SubTotal

\* PostConsumeUserSubscriptionDelta never stores a negative amount_used.
Clamped(n) == IF n < 0 THEN 0 ELSE n

\* Slip: extraReserved is taken for a reservation outside preConsumedQuota.
Slip_Delta(r) == actual[r] - (sess[r].preConsumedQuota - sess[r].extraReserved)

Delta(r) == actual[r] - sess[r].preConsumedQuota

ShouldTrust(r) ==
    /\ ~req[r].force
    /\ TrustQuota > 0
    /\ TokenUnlimited \/ req[r].tokenQuota > TrustQuota
    /\ sess[r].funding = "wallet"
    /\ wallet > TrustQuota

\* Slip: a subscription is not worth a refund.
Slip_NeedsRefund(r) ==
    /\ ~sess[r].settled /\ ~sess[r].refunded /\ ~sess[r].fundingSettled
    /\ sess[r].funding = "wallet" /\ sess[r].tokenConsumed > 0

NeedsRefund(r) ==
    /\ ~sess[r].settled /\ ~sess[r].refunded /\ ~sess[r].fundingSettled
    /\ \/ sess[r].tokenConsumed > 0
       \/ sess[r].funding = "subscription" /\ sess[r].consumed > 0

(***************************************************************************)
(* Step building blocks.                                                   *)
(***************************************************************************)

GoTo(r, label) == pc' = [pc EXCEPT ![r] = label]

Fault == faults < MaxFaults /\ faults' = faults + 1
NoFault == UNCHANGED faults

HoldFunding(r, n) == held' = [held EXCEPT ![r].funding = @ + n]
HoldToken(r, n) == held' = [held EXCEPT ![r].token = @ + n]

\* Slip: the balance was read earlier and is not checked again.
Slip_TryReserveWallet(n) == wallet' = wallet - n /\ UNCHANGED walletDebt

\* TryReserveUserQuota: check and deduct in one operation.
TryReserveWallet(n) == wallet >= n /\ wallet' = wallet - n /\ UNCHANGED walletDebt

\* DecreaseUserQuota: deduct whatever the balance is.
DecreaseWallet(n) == wallet' = wallet - n /\ walletDebt' = walletDebt + n

Slip_TryReserveToken(n) == token' = token - n /\ UNCHANGED tokenDebt

\* TryReserveTokenQuota: an unlimited token is not checked.
TryReserveToken(n) ==
    /\ TokenUnlimited \/ token >= n
    /\ token' = token - n
    /\ tokenDebt' = IF TokenUnlimited THEN tokenDebt + n ELSE tokenDebt

DecreaseToken(n) == token' = token - n /\ tokenDebt' = tokenDebt + n

\* Slip: a surplus is not returned.
Slip_AdjustWallet(n) ==
    IF n > 0 THEN DecreaseWallet(n) ELSE UNCHANGED <<wallet, walletDebt>>

\* WalletFunding.Settle and the wallet branch of PostConsumeQuota.
AdjustWallet(n) ==
    IF n > 0 THEN DecreaseWallet(n) ELSE wallet' = wallet - n /\ UNCHANGED walletDebt

AdjustToken(n) ==
    IF n > 0 THEN DecreaseToken(n) ELSE token' = token - n /\ UNCHANGED tokenDebt

\* Slip: the total is not checked.
Slip_PostConsumeSubscription(n) == subUsed' = Clamped(subUsed + n)

\* What PostConsumeUserSubscriptionDelta does when it does not return an error.
PostConsumeSubscription(n) ==
    LET used == Clamped(subUsed + n)
    IN  (SubTotal = 0 \/ used <= SubTotal) /\ subUsed' = used

(***************************************************************************)
(* PreConsumeBilling and NewBillingSession: choose the funding source, then *)
(* preConsume: token first, funding second, token rolled back on error.    *)
(***************************************************************************)

OpenSession(r, source, second) ==
    /\ sess' = [sess EXCEPT ![r] = NewSession(source)]
    /\ fallback' = [fallback EXCEPT ![r] = second]
    /\ GoTo(r, IF source = "wallet" THEN "checkWallet" ELSE "preToken")
    /\ UNCHANGED outcome

\* Slip: the error of PreConsumeBilling is not returned, the loop goes on.
Slip_RejectSession(r) ==
    /\ sess' = [sess EXCEPT ![r] = NewSession("none")]
    /\ fallback' = [fallback EXCEPT ![r] = "none"]
    /\ GoTo(r, "ready")
    /\ UNCHANGED outcome

\* The session is not stored on RelayInfo: nothing refunds it.
RejectSession(r) ==
    /\ sess' = [sess EXCEPT ![r] = NewSession("none")]
    /\ fallback' = [fallback EXCEPT ![r] = "none"]
    /\ GoTo(r, "done")
    /\ outcome' = [outcome EXCEPT ![r] = "rejected"]

\* An error of a read-only query made before anything is taken.
QueryError == MaxFaults > 0

\* The fallback to the wallet first asks whether the subscriptions allow it.
Insufficient(r) ==
    \/ fallback[r] # "none" /\ OpenSession(r, fallback[r], "none")
    \/ fallback[r] = "none" /\ RejectSession(r)
    \/ fallback[r] = "wallet" /\ QueryError /\ RejectSession(r)

\* The switch at the end of NewBillingSession.
ChooseSource(r, pref) ==
    \/ pref = "subscription_only" /\ OpenSession(r, "subscription", "none")
    \/ pref = "wallet_only" /\ OpenSession(r, "wallet", "none")
    \/ pref = "wallet_first" /\ OpenSession(r, "wallet", "subscription")
    \/ /\ pref = "subscription_first"
       /\ \/ ~HasSubscription /\ OpenSession(r, "wallet", "none")
          \/ /\ HasSubscription
             /\ OpenSession(r, "subscription", IF AllowOverflow THEN "wallet" ELSE "none")
          \/ QueryError /\ RejectSession(r)

\* Relay: authentication has read token_quota into the context, pricing has
\* estimated q, PreConsumeBilling opens the session.
Start(r) ==
    /\ pc[r] = "idle"
    /\ \E p \in Prefs, g \in Playgrounds, i \in Images, f \in Forces, q \in Quotas :
          /\ req' = [req EXCEPT ![r] = [pref |-> p, playground |-> g, image |-> i,
                                        force |-> f, tokenQuota |-> token]]
          /\ quota' = [quota EXCEPT ![r] = q]
          /\ ChooseSource(r, p)
    /\ UNCHANGED <<accounts, rpc, attempt, actual, faults, held, fee, leak>>

\* A free model skips pre-consume: RelayInfo.Billing stays nil.
StartFree(r) ==
    /\ pc[r] = "idle"
    /\ \E p \in Prefs, g \in Playgrounds, i \in Images, f \in Forces :
          req' = [req EXCEPT ![r] = [pref |-> p, playground |-> g, image |-> i,
                                     force |-> f, tokenQuota |-> token]]
    /\ GoTo(r, "ready")
    /\ UNCHANGED <<accounts, rpc, sess, quota, fallback, attempt, actual, outcome,
                   faults, held, fee, leak>>

\* tryWallet: read the balance, refuse early, take the trust bypass.
CheckWallet(r) ==
    /\ pc[r] = "checkWallet"
    /\ \/ /\ wallet <= 0 \/ wallet < quota[r]
          /\ Insufficient(r)
          /\ NoFault
       \/ /\ wallet > 0 /\ wallet >= quota[r]
          /\ sess' = [sess EXCEPT ![r].trusted = ShouldTrust(r)]
          /\ GoTo(r, IF ShouldTrust(r) \/ quota[r] = 0 THEN "ready" ELSE "preToken")
          /\ NoFault
          /\ UNCHANGED <<fallback, outcome>>
       \/ RejectSession(r) /\ Fault
    /\ UNCHANGED <<accounts, rpc, req, quota, attempt, actual, held, fee, leak>>

PreConsumeToken(r) ==
    /\ pc[r] = "preToken"
    /\ \/ /\ IF req[r].playground
             THEN UNCHANGED <<token, tokenDebt, held>>
             ELSE TryReserveToken(Effective(r)) /\ HoldToken(r, Effective(r))
          /\ sess' = [sess EXCEPT ![r].tokenConsumed = Effective(r)]
          /\ GoTo(r, "preFunding")
          /\ NoFault
          /\ UNCHANGED <<fallback, outcome>>
       \/ /\ ~req[r].playground
          /\ \/ ~TokenUnlimited /\ token < Effective(r) /\ NoFault
             \/ Fault
          /\ RejectSession(r)
          /\ UNCHANGED <<token, tokenDebt, held>>
    /\ UNCHANGED <<wallet, subUsed, walletDebt, rpc, req, quota, attempt, actual, fee, leak>>

\* FundingSource.PreConsume.  A failed query for the user's subscriptions passes
\* for "no active subscription", so it too leaves the fallback open.
PreConsumeFunding(r) ==
    /\ pc[r] = "preFunding"
    /\ LET n == Effective(r)
           source == sess[r].funding
       IN  \/ /\ \/ source = "wallet" /\ TryReserveWallet(n) /\ UNCHANGED subUsed
                 \/ /\ source = "subscription" /\ HasSubscription /\ SubscriptionRoom(n)
                    /\ subUsed' = subUsed + n
                    /\ UNCHANGED <<wallet, walletDebt>>
              /\ sess' = [sess EXCEPT ![r].consumed = n, ![r].preConsumedQuota = n]
              /\ HoldFunding(r, n)
              /\ GoTo(r, "ready")
              /\ NoFault
              /\ UNCHANGED fallback
           \/ /\ \/ source = "wallet" /\ wallet < n
                 \/ source = "subscription" /\ ~(HasSubscription /\ SubscriptionRoom(n))
              /\ GoTo(r, "undoToken")
              /\ NoFault
              /\ UNCHANGED <<wallet, walletDebt, subUsed, sess, held, fallback>>
           \/ /\ Fault
              /\ GoTo(r, "undoToken")
              /\ \/ fallback' = [fallback EXCEPT ![r] = "none"]
                 \/ source = "subscription" /\ UNCHANGED fallback
              /\ UNCHANGED <<wallet, walletDebt, subUsed, sess, held>>
    /\ UNCHANGED <<token, tokenDebt, rpc, req, quota, attempt, actual, outcome, fee, leak>>

\* preConsume's rollback of the token after the funding source refused.
UndoToken(r) ==
    /\ pc[r] = "undoToken"
    /\ Insufficient(r)
    /\ LET n == IF req[r].playground THEN 0 ELSE sess[r].tokenConsumed
       IN  \/ /\ token' = token + n
              /\ HoldToken(r, -n)
              /\ NoFault
              /\ UNCHANGED leak
           \/ /\ n > 0 /\ Fault
              /\ leak' = [leak EXCEPT ![r] = TRUE]
              /\ UNCHANGED <<token, held>>
    /\ UNCHANGED <<wallet, subUsed, walletDebt, tokenDebt, rpc, req, quota, attempt,
                   actual, fee>>

(***************************************************************************)
(* One attempt of the relay loop.  Before it is sent the estimate may      *)
(* change (another group, a tier, the image count): a request without a    *)
(* session opens one, a session reserves the difference.                   *)
(***************************************************************************)

OpenInLoop(r) ==
    /\ pc[r] = "ready" /\ sess[r].funding = "none"
    /\ \E q \in Quotas : quota' = [quota EXCEPT ![r] = q]
    /\ ChooseSource(r, req[r].pref)
    /\ UNCHANGED <<accounts, rpc, req, attempt, actual, faults, held, fee, leak>>

\* Slip: a target below the reservation is not ignored.
Slip_ReserveIgnored(r, target) ==
    \/ sess[r].funding = "none"
    \/ sess[r].trusted /\ ~req[r].image

ReserveIgnored(r, target) ==
    \/ sess[r].funding = "none"
    \/ sess[r].trusted /\ ~req[r].image
    \/ target <= sess[r].preConsumedQuota

Reserve(r) ==
    /\ pc[r] = "ready"
    /\ \E target \in Quotas :
          /\ GoTo(r, IF ReserveIgnored(r, target) THEN "sent" ELSE "reserveFunding")
          /\ quota' = [quota EXCEPT ![r] = IF ReserveIgnored(r, target) THEN 0
                                           ELSE target - sess[r].preConsumedQuota]
    /\ UNCHANGED <<accounts, rpc, req, sess, fallback, attempt, actual, outcome, faults,
                   held, fee, leak>>

\* Slip: every wallet reservation assigns the field as PreConsume does.
Slip_ConsumedAssigned(r) ==
    IF sess[r].funding = "wallet" THEN quota[r] ELSE sess[r].consumed

\* Slip: a subscription records the reservation in consumed and in extraReserved.
Slip_ConsumedTwice(r) == sess[r].consumed + quota[r]

\* What the funding source remembers as taken after reserveFunding.  An image
\* request goes through WalletFunding.PreConsume, which assigns the field.
ConsumedAfterReserve(r) ==
    CASE sess[r].funding = "wallet" /\ req[r].image  -> quota[r]
      [] sess[r].funding = "wallet" /\ ~req[r].image -> sess[r].consumed + quota[r]
      [] OTHER -> sess[r].consumed

ReserveFunding(r) ==
    /\ pc[r] = "reserveFunding"
    /\ LET n == quota[r]
           source == sess[r].funding
       IN  \/ /\ \/ /\ source = "wallet"
                    /\ IF req[r].image THEN TryReserveWallet(n) ELSE DecreaseWallet(n)
                    /\ UNCHANGED subUsed
                 \/ /\ source = "subscription" /\ PostConsumeSubscription(n)
                    /\ UNCHANGED <<wallet, walletDebt>>
              /\ sess' = [sess EXCEPT ![r].consumed = ConsumedAfterReserve(r)]
              /\ HoldFunding(r, n)
              /\ GoTo(r, "reserveToken")
              /\ NoFault
           \/ /\ \/ source = "wallet" /\ req[r].image /\ wallet < n /\ NoFault
                 \/ source = "subscription" /\ ~SubscriptionRoom(n) /\ NoFault
                 \/ Fault
              /\ GoTo(r, "failed")
              /\ UNCHANGED <<wallet, walletDebt, subUsed, sess, held>>
    /\ UNCHANGED <<token, tokenDebt, rpc, req, quota, fallback, attempt, actual, outcome,
                   fee, leak>>

ReserveToken(r) ==
    /\ pc[r] = "reserveToken"
    /\ \/ /\ IF req[r].playground
             THEN UNCHANGED <<token, tokenDebt, held>>
             ELSE TryReserveToken(quota[r]) /\ HoldToken(r, quota[r])
          /\ sess' = [sess EXCEPT ![r].preConsumedQuota = @ + quota[r],
                                  ![r].tokenConsumed = @ + quota[r],
                                  ![r].extraReserved = @ + quota[r],
                                  ![r].trusted = @ /\ ~req[r].image]
          /\ GoTo(r, "sent")
          /\ NoFault
       \/ /\ ~req[r].playground
          /\ \/ ~TokenUnlimited /\ token < quota[r] /\ NoFault
             \/ Fault
          /\ GoTo(r, "undoFunding")
          /\ UNCHANGED <<token, tokenDebt, held, sess>>
    /\ UNCHANGED <<wallet, subUsed, walletDebt, rpc, req, quota, fallback, attempt, actual,
                   outcome, fee, leak>>

\* rollbackFundingReserve.
UndoFunding(r) ==
    /\ pc[r] = "undoFunding"
    /\ LET n == quota[r]
       IN  \/ /\ \/ /\ sess[r].funding = "wallet"
                    /\ wallet' = wallet + n
                    /\ sess' = [sess EXCEPT ![r].consumed = @ - n]
                    /\ UNCHANGED subUsed
                 \/ /\ sess[r].funding = "subscription"
                    /\ PostConsumeSubscription(-n)
                    /\ UNCHANGED <<wallet, sess>>
              /\ HoldFunding(r, -n)
              /\ NoFault
              /\ UNCHANGED leak
           \/ /\ Fault
              /\ leak' = [leak EXCEPT ![r] = TRUE]
              /\ UNCHANGED <<wallet, subUsed, sess, held>>
    /\ GoTo(r, "failed")
    /\ UNCHANGED <<token, walletDebt, tokenDebt, rpc, req, quota, fallback, attempt, actual,
                   outcome, fee>>

\* The handler's result.  After a panic the deferred refund sees the error of
\* an earlier attempt if there was one, and none on the first attempt.
Respond(r) ==
    /\ pc[r] = "sent"
    /\ \/ /\ \E a \in Quotas : actual' = [actual EXCEPT ![r] = a]
          /\ GoTo(r, "settleFunding")
          /\ UNCHANGED <<attempt, outcome>>
       \/ /\ attempt[r] < RetryTimes
          /\ attempt' = [attempt EXCEPT ![r] = @ + 1]
          /\ GoTo(r, "ready")
          /\ UNCHANGED <<actual, outcome>>
       \/ /\ GoTo(r, "failed")
          /\ UNCHANGED <<attempt, actual, outcome>>
       \/ /\ attempt[r] = 0
          /\ GoTo(r, "done")
          /\ outcome' = [outcome EXCEPT ![r] = "panicked"]
          /\ UNCHANGED <<attempt, actual>>
    /\ UNCHANGED <<accounts, rpc, req, sess, quota, fallback, faults, held, fee, leak>>

(***************************************************************************)
(* SettleBilling: Settle of the session, or PostConsumeQuota without one.  *)
(* The caller logs an error and the request still counts as served.        *)
(***************************************************************************)

Serve(r, label) ==
    /\ GoTo(r, label)
    /\ outcome' = [outcome EXCEPT ![r] = "served"]

SettleFunding(r) ==
    /\ pc[r] = "settleFunding"
    /\ LET n == Delta(r)
           source == sess[r].funding
       IN  \/ /\ n = 0
              /\ sess' = [sess EXCEPT ![r].settled = TRUE]
              /\ Serve(r, "done")
              /\ NoFault
              /\ UNCHANGED <<wallet, walletDebt, subUsed, held>>
           \/ /\ n # 0
              /\ \/ source # "subscription" /\ AdjustWallet(n) /\ UNCHANGED subUsed
                 \/ /\ source = "subscription" /\ PostConsumeSubscription(n)
                    /\ UNCHANGED <<wallet, walletDebt>>
              /\ sess' = [sess EXCEPT ![r].fundingSettled = TRUE]
              /\ HoldFunding(r, n)
              /\ Serve(r, "settleToken")
              /\ NoFault
           \/ /\ n # 0
              /\ \/ source = "subscription" /\ ~SubscriptionRoom(n) /\ NoFault
                 \/ Fault
              /\ Serve(r, "done")
              /\ UNCHANGED <<wallet, walletDebt, subUsed, sess, held>>
    /\ UNCHANGED <<token, tokenDebt, rpc, req, quota, fallback, attempt, actual, fee, leak>>

SettleToken(r) ==
    /\ pc[r] = "settleToken"
    /\ \/ /\ IF req[r].playground
             THEN UNCHANGED <<token, tokenDebt, held>>
             ELSE AdjustToken(Delta(r)) /\ HoldToken(r, Delta(r))
          /\ NoFault
          /\ UNCHANGED leak
       \/ /\ ~req[r].playground /\ Fault
          /\ leak' = [leak EXCEPT ![r] = TRUE]
          /\ UNCHANGED <<token, tokenDebt, held>>
    /\ sess' = [sess EXCEPT ![r].settled = TRUE]
    /\ GoTo(r, "done")
    /\ UNCHANGED <<wallet, subUsed, walletDebt, rpc, req, quota, fallback, attempt, actual,
                   outcome, fee>>

(***************************************************************************)
(* RefundFailedRequestBilling: Refund marks the session and leaves the work *)
(* to a goroutine of its own; the violation fee is charged meanwhile.      *)
(***************************************************************************)

Refund(r) ==
    /\ pc[r] = "failed"
    /\ sess' = [sess EXCEPT ![r].refunded = @ \/ NeedsRefund(r)]
    /\ rpc' = [rpc EXCEPT ![r] = IF NeedsRefund(r) THEN "funding" ELSE "none"]
    /\ outcome' = [outcome EXCEPT ![r] = "failed"]
    /\ \/ GoTo(r, "done")
       \/ FeeQuota > 0 /\ GoTo(r, "feeFunding")
    /\ UNCHANGED <<accounts, req, quota, fallback, attempt, actual, faults, held, fee, leak>>

RefundFunding(r) ==
    /\ rpc[r] = "funding"
    /\ LET n == sess[r].consumed
       IN  \/ /\ \/ /\ sess[r].funding = "wallet"
                    /\ wallet' = wallet + (IF n > 0 THEN n ELSE 0)
                    /\ HoldFunding(r, IF n > 0 THEN -n ELSE 0)
                    /\ UNCHANGED subUsed
                 \/ /\ sess[r].funding = "subscription"
                    /\ PostConsumeSubscription(-n)
                    /\ HoldFunding(r, -n)
                    /\ UNCHANGED wallet
              /\ NoFault
              /\ UNCHANGED leak
           \/ /\ n > 0 /\ Fault
              /\ leak' = [leak EXCEPT ![r] = TRUE]
              /\ UNCHANGED <<wallet, subUsed, held>>
    /\ rpc' = [rpc EXCEPT ![r] = IF sess[r].extraReserved > 0 /\ sess[r].funding = "subscription"
                                 THEN "extra" ELSE "token"]
    /\ UNCHANGED <<token, walletDebt, tokenDebt, pc, req, sess, quota, fallback, attempt,
                   actual, outcome, fee>>

RefundExtra(r) ==
    /\ rpc[r] = "extra"
    /\ \/ /\ PostConsumeSubscription(-sess[r].extraReserved)
          /\ HoldFunding(r, -sess[r].extraReserved)
          /\ NoFault
          /\ UNCHANGED leak
       \/ /\ Fault
          /\ leak' = [leak EXCEPT ![r] = TRUE]
          /\ UNCHANGED <<subUsed, held>>
    /\ rpc' = [rpc EXCEPT ![r] = "token"]
    /\ UNCHANGED <<wallet, token, walletDebt, tokenDebt, pc, req, sess, quota, fallback,
                   attempt, actual, outcome, fee>>

RefundToken(r) ==
    /\ rpc[r] = "token"
    /\ LET n == IF req[r].playground THEN 0 ELSE sess[r].tokenConsumed
       IN  \/ /\ token' = token + n
              /\ HoldToken(r, -n)
              /\ NoFault
              /\ UNCHANGED leak
           \/ /\ n > 0 /\ Fault
              /\ leak' = [leak EXCEPT ![r] = TRUE]
              /\ UNCHANGED <<token, held>>
    /\ rpc' = [rpc EXCEPT ![r] = "finished"]
    /\ UNCHANGED <<wallet, subUsed, walletDebt, tokenDebt, pc, req, sess, quota, fallback,
                   attempt, actual, outcome, fee>>

\* ChargeViolationFeeIfNeeded: PostConsumeQuota on the session's billing source.
FeeFunding(r) ==
    /\ pc[r] = "feeFunding"
    /\ \/ /\ \/ sess[r].funding # "subscription" /\ DecreaseWallet(FeeQuota) /\ UNCHANGED subUsed
             \/ /\ sess[r].funding = "subscription" /\ PostConsumeSubscription(FeeQuota)
                /\ UNCHANGED <<wallet, walletDebt>>
          /\ fee' = [fee EXCEPT ![r].funding = @ + FeeQuota]
          /\ GoTo(r, "feeToken")
          /\ NoFault
       \/ /\ \/ sess[r].funding = "subscription" /\ ~SubscriptionRoom(FeeQuota) /\ NoFault
             \/ Fault
          /\ GoTo(r, "done")
          /\ UNCHANGED <<wallet, walletDebt, subUsed, fee>>
    /\ UNCHANGED <<token, tokenDebt, rpc, req, sess, quota, fallback, attempt, actual,
                   outcome, held, leak>>

FeeToken(r) ==
    /\ pc[r] = "feeToken"
    /\ \/ /\ IF req[r].playground
             THEN UNCHANGED <<token, tokenDebt, fee>>
             ELSE DecreaseToken(FeeQuota) /\ fee' = [fee EXCEPT ![r].token = @ + FeeQuota]
          /\ NoFault
       \/ ~req[r].playground /\ Fault /\ UNCHANGED <<token, tokenDebt, fee>>
    /\ GoTo(r, "done")
    /\ UNCHANGED <<wallet, subUsed, walletDebt, rpc, req, sess, quota, fallback, attempt,
                   actual, outcome, held, leak>>

(***************************************************************************)
(* The specification.                                                      *)
(***************************************************************************)

Init ==
    /\ wallet = InitWallet /\ token = InitToken /\ subUsed = 0
    /\ pc = [r \in Requests |-> "idle"]
    /\ rpc = [r \in Requests |-> "none"]
    /\ req = [r \in Requests |-> [pref |-> "wallet_only", playground |-> FALSE,
                                  image |-> FALSE, force |-> FALSE, tokenQuota |-> 0]]
    /\ sess = [r \in Requests |-> NewSession("none")]
    /\ quota = [r \in Requests |-> 0]
    /\ fallback = [r \in Requests |-> "none"]
    /\ attempt = [r \in Requests |-> 0]
    /\ actual = [r \in Requests |-> 0]
    /\ outcome = [r \in Requests |-> "none"]
    /\ faults = 0
    /\ held = [r \in Requests |-> Nothing]
    /\ fee = [r \in Requests |-> Nothing]
    /\ leak = [r \in Requests |-> FALSE]
    /\ walletDebt = 0 /\ tokenDebt = 0

\* A step of the request's own goroutine once it has started.
RequestStep(r) ==
    \/ CheckWallet(r) \/ PreConsumeToken(r) \/ PreConsumeFunding(r) \/ UndoToken(r)
    \/ Reserve(r) \/ ReserveFunding(r) \/ ReserveToken(r) \/ UndoFunding(r)
    \/ Respond(r) \/ SettleFunding(r) \/ SettleToken(r)
    \/ Refund(r) \/ FeeFunding(r) \/ FeeToken(r)

\* Slip: the goroutine ends before the reserved part is returned.
Slip_RefundStep(r) == RefundFunding(r) \/ RefundToken(r)

\* A step of the goroutine spawned by Refund.
RefundStep(r) == RefundFunding(r) \/ RefundExtra(r) \/ RefundToken(r)

Next ==
    \E r \in Requests :
        Start(r) \/ StartFree(r) \/ OpenInLoop(r) \/ RequestStep(r) \/ RefundStep(r)

Spec == Init /\ [][Next]_vars

\* A started goroutine is scheduled until it ends and a store call returns.
FairSpec ==
    /\ Spec
    /\ \A r \in Requests : WF_vars(RequestStep(r)) /\ WF_vars(RefundStep(r))

(***************************************************************************)
(* Properties.                                                             *)
(***************************************************************************)

TypeOK ==
    /\ wallet \in Int /\ token \in Int /\ subUsed \in Nat
    /\ pc \in [Requests -> PCs] /\ rpc \in [Requests -> RefundPCs]
    /\ req \in [Requests -> Requested] /\ sess \in [Requests -> Session]
    /\ quota \in [Requests -> Nat] /\ fallback \in [Requests -> Sources]
    /\ attempt \in [Requests -> Nat] /\ actual \in [Requests -> Nat]
    /\ outcome \in [Requests -> Outcomes]
    /\ faults \in Nat
    /\ held \in [Requests -> Amounts] /\ fee \in [Requests -> Amounts]
    /\ leak \in [Requests -> BOOLEAN]
    /\ walletDebt \in Nat /\ tokenDebt \in Nat

\* An image request paid from the wallet: WalletFunding.PreConsume overwrites
\* what an earlier pre-consume took.
WalletImage(r) == req[r].image /\ sess[r].funding = "wallet"

TokenShare(r, n) == IF req[r].playground THEN 0 ELSE n

RefundPending(r) == sess[r].refunded /\ rpc[r] # "finished"

Unsuccessful(r) == pc[r] = "done" /\ outcome[r] \in {"failed", "rejected"} /\ ~RefundPending(r)

\* A request that failed or was rejected keeps nothing of the user's funding
\* source or token once its refund goroutine has ended, whatever the order of
\* the pre-consume, reserve, rollback and refund steps of all requests.
FailureReturnsEverything ==
    \A r \in Requests :
        Unsuccessful(r) /\ ~leak[r] /\ ~WalletImage(r) => held[r] = Nothing

\* "Refund 退还所有预扣费": the same for every request, image requests included.
RefundReturnsAllPreConsumed ==
    \A r \in Requests : Unsuccessful(r) /\ ~leak[r] => held[r] = Nothing

\* A served request whose session settled has paid exactly the settled quota,
\* from the funding source and from the token, however often it was reserved
\* before; one that could not settle still holds exactly its pre-consumption.
ServedPaysActual ==
    \A r \in Requests :
        pc[r] = "done" /\ outcome[r] = "served" /\ ~leak[r] =>
            \/ /\ sess[r].settled
               /\ held[r] = [funding |-> actual[r], token |-> TokenShare(r, actual[r])]
            \/ /\ ~sess[r].settled
               /\ held[r] = [funding |-> sess[r].preConsumedQuota,
                             token |-> TokenShare(r, sess[r].preConsumedQuota)]

\* "并发请求不可能同时通过检查后超扣": however the requests interleave, a
\* reservation never takes what is not there.  A negative balance is bounded by
\* what settlement, fees and unchecked reservations have taken.
ReservationsNeverOverdraw == wallet >= -walletDebt /\ token >= -tokenDebt

\* While a request is in flight what its refund would return is what it holds:
\* rollback, retry and repeated Reserve keep session and accounts in step.
RefundMatchesHolding ==
    \A r \in Requests :
        pc[r] \in {"ready", "sent", "settleFunding"} /\ ~leak[r] /\ ~WalletImage(r) =>
            /\ held[r].funding = sess[r].preConsumedQuota
            /\ held[r].funding = IF sess[r].funding = "subscription"
                                 THEN sess[r].consumed + sess[r].extraReserved
                                 ELSE sess[r].consumed
            /\ held[r].token = TokenShare(r, sess[r].tokenConsumed)

\* What a request has taken from each account, its violation fee included.
Paid(r) == held[r].funding + fee[r].funding

PaidByWallet == [r \in Requests |-> IF sess[r].funding = "subscription" THEN 0 ELSE Paid(r)]
PaidBySubscription == [r \in Requests |-> IF sess[r].funding = "subscription" THEN Paid(r) ELSE 0]
PaidByToken == [r \in Requests |-> held[r].token + fee[r].token]

Total(paid) == MapThenSumSet(LAMBDA r : paid[r], Requests)

\* Nothing is created or lost between the balances and the requests: wallet, token
\* and amount_used differ from their start by exactly what the requests hold of
\* them.  The clamp at zero in PostConsumeUserSubscriptionDelta never hides a
\* double refund, and the subscription's total is never exceeded.
AccountsExact ==
    /\ wallet + Total(PaidByWallet) = InitWallet
    /\ token + Total(PaidByToken) = InitToken
    /\ subUsed = Total(PaidBySubscription)
    /\ SubTotal = 0 \/ subUsed <= SubTotal

\* Every started request ends, and a session marked refunded really runs its
\* refund to the end.
RequestsEnd == \A r \in Requests : pc[r] # "idle" ~> pc[r] = "done"
RefundsRun == \A r \in Requests : sess[r].refunded ~> rpc[r] = "finished"

(***************************************************************************)
(* The inductive invariant behind the ledger properties: for every label of *)
(* the two goroutines, how the session's fields account for what is held.  *)
(***************************************************************************)

\* What Refund gives back to the funding source.
Refundable(r) ==
    IF sess[r].funding = "subscription"
    THEN sess[r].consumed + sess[r].extraReserved ELSE sess[r].consumed

Holds(r, fund, tok) == held[r].funding = fund /\ held[r].token = tok

Unopened(r) ==
    Holds(r, 0, 0) /\ sess[r].preConsumedQuota = 0 /\ sess[r].consumed = 0
                      /\ sess[r].tokenConsumed = 0 /\ sess[r].extraReserved = 0

\* n is what reserveFunding took beyond preConsumedQuota.
Balanced(r, n) ==
    /\ sess[r].tokenConsumed = sess[r].preConsumedQuota
    /\ Holds(r, sess[r].preConsumedQuota + n, TokenShare(r, sess[r].tokenConsumed))
    /\ WalletImage(r) \/ Refundable(r) = sess[r].preConsumedQuota
                                           + (IF sess[r].funding = "wallet" THEN n ELSE 0)

PreConsuming(r) ==
    /\ pc[r] \in {"idle", "checkWallet", "preToken"} => Unopened(r)
    /\ pc[r] \in {"preFunding", "undoToken"} =>
          /\ sess[r].extraReserved = 0 /\ sess[r].preConsumedQuota = 0 /\ sess[r].consumed = 0
          /\ Holds(r, 0, TokenShare(r, sess[r].tokenConsumed))
    /\ pc[r] = "preFunding" => sess[r].tokenConsumed = Effective(r)

Reserving(r) ==
    /\ pc[r] \in {"ready", "sent", "reserveFunding", "settleFunding", "failed"} => Balanced(r, 0)
    /\ pc[r] \in {"reserveToken", "undoFunding"} => Balanced(r, quota[r])

Settling(r) ==
    /\ pc[r] = "settleToken" =>
          /\ sess[r].tokenConsumed = sess[r].preConsumedQuota
          /\ Holds(r, actual[r], TokenShare(r, sess[r].tokenConsumed))
    /\ pc[r] = "done" /\ outcome[r] = "served" =>
          LET paid == IF sess[r].settled THEN actual[r] ELSE sess[r].preConsumedQuota
          IN  Holds(r, paid, TokenShare(r, paid))
    /\ pc[r] = "done" /\ outcome[r] = "rejected" => Holds(r, 0, 0)

Refunding(r) ==
    outcome[r] = "failed" /\ ~WalletImage(r) =>
        /\ rpc[r] \in {"none", "finished"} => Holds(r, 0, 0)
        /\ rpc[r] = "funding" => Balanced(r, 0)
        /\ rpc[r] = "extra" =>
              Holds(r, sess[r].extraReserved, TokenShare(r, sess[r].tokenConsumed))
        /\ rpc[r] = "token" =>
              Holds(r, 0, TokenShare(r, sess[r].tokenConsumed))

\* Facts about the session that hold whether or not a compensation failed.
SessionShape(r) ==
    /\ sess[r].preConsumedQuota >= 0 /\ sess[r].extraReserved >= 0
    /\ sess[r].tokenConsumed >= 0
    /\ pc[r] = "settleToken" => outcome[r] = "served"
    /\ pc[r] \in {"feeFunding", "feeToken"} => outcome[r] = "failed"
    /\ pc[r] = "done" => outcome[r] # "none"
    /\ pc[r] \notin {"settleToken", "feeFunding", "feeToken", "done"} => outcome[r] = "none"
    /\ pc[r] = "checkWallet" => sess[r].funding = "wallet"
    /\ pc[r] \in {"preToken", "preFunding", "undoToken", "reserveFunding", "reserveToken",
                  "undoFunding"} => sess[r].funding # "none"
    /\ sess[r].funding = "none" =>
          /\ sess[r].preConsumedQuota = 0 /\ sess[r].tokenConsumed = 0
          /\ sess[r].consumed = 0 /\ sess[r].extraReserved = 0
    /\ outcome[r] \in {"none", "failed"} => ~sess[r].settled /\ ~sess[r].fundingSettled
    /\ sess[r].refunded <=> rpc[r] # "none"
    /\ rpc[r] # "none" => outcome[r] = "failed"

\* At every label of both goroutines the session accounts for exactly what the
\* request holds, unless a compensating call has failed: the inductive form of
\* the three ledger properties above.
LedgerOK(r) ==
    /\ SessionShape(r)
    /\ ~leak[r] => PreConsuming(r) /\ Reserving(r) /\ Settling(r) /\ Refunding(r)

LedgerInv == \A r \in Requests : LedgerOK(r)

=============================================================================
