----------------------- MODULE BillingAccountsProofs ------------------------
(***************************************************************************)
(* The balances are exact: wallet, token and amount_used differ from their *)
(* start by the sum of what the requests have taken, for any number of     *)
(* requests.                                                               *)
(***************************************************************************)
EXTENDS BillingSessionProofs, FiniteSums

(***************************************************************************)
(* What a subscription request holds covers what its session will return,  *)
(* whether or not a compensating call has failed.                          *)
(***************************************************************************)

\* Nothing is taken from a funding source before FundingSource.PreConsume.
Opening(r) == pc[r] \in {"idle", "checkWallet", "preToken", "preFunding", "undoToken"}

Covers(r) ==
    LET s == sess[r] IN
    /\ s.consumed >= 0 /\ held[r].funding >= 0
    /\ outcome[r] = "none" =>
          /\ s.preConsumedQuota = s.consumed + s.extraReserved
          /\ held[r].funding >= s.preConsumedQuota
          /\ pc[r] \in {"reserveToken", "undoFunding"} =>
                held[r].funding >= s.preConsumedQuota + quota[r]
    /\ rpc[r] = "funding" => held[r].funding >= s.consumed + s.extraReserved
    /\ rpc[r] = "extra" => held[r].funding >= s.extraReserved

HoldingOK(r) ==
    /\ fee[r].funding >= 0
    /\ outcome[r] = "none" => fee[r].funding = 0
    /\ outcome[r] = "none" /\ (Opening(r) \/ sess[r].funding = "none") =>
          /\ held[r].funding = 0 /\ sess[r].preConsumedQuota = 0
          /\ sess[r].consumed = 0 /\ sess[r].extraReserved = 0
    /\ rpc[r] = "extra" => sess[r].funding = "subscription"
    /\ sess[r].funding = "subscription" => Covers(r)

HoldingInv == \A r \in Requests : HoldingOK(r)

(***************************************************************************)
(* One step moves quota between the accounts and one request.              *)
(***************************************************************************)

\* What leaves an account is what the request holds of it afterwards.
Moves(r) ==
    /\ wallet' + PaidByWallet'[r] = wallet + PaidByWallet[r]
    /\ token' + PaidByToken'[r] = token + PaidByToken[r]
    /\ subUsed' - PaidBySubscription'[r] = subUsed - PaidBySubscription[r]
    /\ SubTotal = 0 \/ subUsed <= SubTotal => SubTotal = 0 \/ subUsed' <= SubTotal

\* amount_used is at least what the request has taken of the subscription.
Covered(r) == subUsed >= PaidBySubscription[r]

\* What a step of r may assume.
Ready(r) == TypeOK /\ LedgerOK(r) /\ HoldingOK(r) /\ Covered(r)

\* The amounts the steps read and write are integers.
LEMMA Fields ==
    ASSUME NEW r \in Requests, Ready(r)
    PROVE  /\ wallet \in Int /\ token \in Int /\ subUsed \in Nat
           /\ held[r].funding \in Int /\ held[r].token \in Int
           /\ fee[r].funding \in Int /\ fee[r].token \in Int
           /\ sess[r].preConsumedQuota \in Nat /\ sess[r].tokenConsumed \in Nat
           /\ sess[r].extraReserved \in Nat /\ sess[r].consumed \in Int
           /\ quota[r] \in Nat /\ actual[r] \in Nat /\ Effective(r) \in Nat
           /\ SubTotal \in Nat /\ FeeQuota \in Nat
<1>1. fee[r] \in Amounts
  BY DEF Ready, TypeOK
<1>2. fee[r].funding \in Int /\ fee[r].token \in Int
  BY <1>1 DEF Amounts
<1> QED
  BY <1>2, SessionFields, ConstantsAssumption DEF Ready, TypeOK

\* A step that takes and returns nothing, and changes the funding source only of a
\* request that has taken nothing.
LEMMA MovesNothing ==
    ASSUME NEW r \in Requests, Ready(r),
           UNCHANGED <<wallet, token, subUsed>>, held'[r] = held[r], fee'[r] = fee[r],
           sess'[r].funding = sess[r].funding \/ Paid(r) = 0
    PROVE  Moves(r)
  BY Fields DEF Moves, PaidByWallet, PaidByToken, PaidBySubscription, Paid

\* NewBillingSession opens or drops a session before anything is taken.
LEMMA Reopened ==
    ASSUME NEW r \in Requests, Ready(r), Undecided(r), held[r].funding = 0,
           held'[r].funding = 0, fee' = fee, UNCHANGED rpc,
           \/ \E s \in {"wallet", "subscription"}, t \in Sources : OpenSession(r, s, t)
           \/ RejectSession(r)
    PROVE  HoldingOK(r)' /\ Paid(r) = 0
<1>1. /\ sess'[r].preConsumedQuota = 0 /\ sess'[r].consumed = 0 /\ sess'[r].extraReserved = 0
      /\ pc'[r] \in {"checkWallet", "preToken", "done"}
  BY DEF Ready, TypeOK, OpenSession, RejectSession, NewSession, GoTo
<1>2. fee[r].funding = 0 /\ rpc'[r] = "none"
  BY DEF Ready, HoldingOK, Undecided
<1> QED
  BY <1>1, <1>2 DEF HoldingOK, Covers, Paid

\* The switch and the fallback of NewBillingSession open or drop a session.
LEMMA Reopens ==
    ASSUME NEW r \in Requests, Ready(r), Insufficient(r) \/ \E p \in AllPrefs : ChooseSource(r, p)
    PROVE  \/ \E s \in {"wallet", "subscription"}, t \in Sources : OpenSession(r, s, t)
           \/ RejectSession(r)
  BY DEF Insufficient, ChooseSource, Ready, TypeOK, Sources

\* PreConsumeBilling, first or inside the retry loop, moves nothing.
LEMMA HoldingOpen ==
    ASSUME NEW r \in Requests, Ready(r), Start(r) \/ OpenInLoop(r)
    PROVE  HoldingOK(r)' /\ Moves(r)
<1>1. Undecided(r) /\ UNCHANGED <<wallet, token, subUsed, held, fee, rpc>>
  BY NotYetDecided DEF Start, OpenInLoop, accounts, Ready
<1>2. held[r].funding = 0
  BY <1>1 DEF Start, OpenInLoop, Ready, HoldingOK, Opening, Undecided
<1>3. \E p \in AllPrefs : ChooseSource(r, p)
  <2>1. req[r].pref \in AllPrefs
    <3>1. req[r] \in Requested
      BY DEF Ready, TypeOK
    <3> QED
      BY <3>1 DEF Requested
  <2> QED
    BY <2>1, ConstantsAssumption DEF Start, OpenInLoop
<1>4. HoldingOK(r)' /\ Paid(r) = 0
  BY <1>1, <1>2, <1>3, Reopens, Reopened
<1> QED
  BY <1>1, <1>4, MovesNothing

\* A free request starts without a session.
LEMMA HoldingStartFree ==
    ASSUME NEW r \in Requests, Ready(r), StartFree(r)
    PROVE  HoldingOK(r)' /\ Moves(r)
<1>1. /\ pc[r] = "idle" /\ pc'[r] = "ready" /\ Undecided(r)
      /\ UNCHANGED <<wallet, token, subUsed, held, fee, rpc, sess, outcome, quota>>
  BY NotYetDecided DEF StartFree, accounts, Ready, GoTo, TypeOK
<1>2. HoldingOK(r)'
  BY <1>1, Fields DEF Ready, HoldingOK, Covers, Opening, Undecided
<1> QED
  BY <1>1, <1>2, MovesNothing

\* tryWallet reads the balance and takes nothing.
LEMMA HoldingCheckWallet ==
    ASSUME NEW r \in Requests, Ready(r), CheckWallet(r)
    PROVE  HoldingOK(r)' /\ Moves(r)
<1>1. /\ pc[r] = "checkWallet" /\ Undecided(r) /\ sess[r].funding = "wallet"
      /\ UNCHANGED <<wallet, token, subUsed, held, fee, rpc>>
  BY NotYetDecided DEF CheckWallet, accounts, Ready, LedgerOK, SessionShape
<1>2. held[r].funding = 0 /\ fee[r].funding = 0
  BY <1>1 DEF Ready, HoldingOK, Opening, Undecided
<1>3. CASE Insufficient(r) \/ RejectSession(r)
  <2>1. HoldingOK(r)' /\ Paid(r) = 0
    BY <1>1, <1>2, <1>3, Reopens, Reopened
  <2> QED
    BY <1>1, <2>1, MovesNothing
<1>4. CASE ~ (Insufficient(r) \/ RejectSession(r))
  <2>1. /\ sess'[r].funding = "wallet" /\ outcome' = outcome
        /\ sess'[r].preConsumedQuota = sess[r].preConsumedQuota
        /\ sess'[r].consumed = sess[r].consumed /\ sess'[r].extraReserved = sess[r].extraReserved
    BY <1>1, <1>4 DEF CheckWallet, Ready, TypeOK, Session
  <2>2. HoldingOK(r)'
    BY <1>1, <1>2, <2>1 DEF Ready, HoldingOK, Opening, Undecided
  <2> QED
    BY <1>1, <2>1, <2>2, MovesNothing
<1> QED
  BY <1>3, <1>4

\* The token part of a step: what leaves the token is held by the request.
LEMMA TokenMoves ==
    ASSUME NEW r \in Requests, Ready(r), NEW n \in Int, token' = token - n, HoldToken(r, n),
           UNCHANGED <<wallet, subUsed, fee>>, sess'[r].funding = sess[r].funding
    PROVE  Moves(r) /\ held'[r].funding = held[r].funding
<1>1. held'[r].funding = held[r].funding /\ held'[r].token = held[r].token + n
  BY HoldTokenType DEF Ready, TypeOK
<1> QED
  BY <1>1, Fields DEF Moves, PaidByWallet, PaidByToken, PaidBySubscription, Paid

\* The funding part of a step: what leaves the source is held by the request.
LEMMA FundingMoves ==
    ASSUME NEW r \in Requests, Ready(r), NEW n \in Int, HoldFunding(r, n),
           UNCHANGED <<token, fee>>, sess'[r].funding = sess[r].funding,
           \/ sess[r].funding # "subscription" /\ wallet' = wallet - n /\ subUsed' = subUsed
           \/ /\ sess[r].funding = "subscription" /\ wallet' = wallet /\ subUsed' = subUsed + n
              /\ SubTotal = 0 \/ subUsed' <= SubTotal
    PROVE  Moves(r) /\ held'[r].funding = held[r].funding + n
<1>1. held'[r].funding = held[r].funding + n /\ held'[r].token = held[r].token
  BY HoldFundingType DEF Ready, TypeOK
<1> QED
  BY <1>1, Fields DEF Moves, PaidByWallet, PaidByToken, PaidBySubscription, Paid

\* The clamp of PostConsumeUserSubscriptionDelta is never needed: amount_used
\* contains what the request gives back.
LEMMA NeverClamped ==
    ASSUME NEW r \in Requests, Ready(r), sess[r].funding = "subscription", NEW n \in Int,
           held[r].funding + n >= 0, PostConsumeSubscription(n)
    PROVE  subUsed' = subUsed + n /\ (SubTotal = 0 \/ subUsed' <= SubTotal)
<1>1. subUsed >= held[r].funding + fee[r].funding /\ fee[r].funding >= 0
  BY DEF Ready, Covered, PaidBySubscription, Paid, HoldingOK
<1> QED
  BY <1>1, Fields DEF PostConsumeSubscription, Clamped

\* preConsume takes from the token before it takes from the funding source.
LEMMA HoldingPreConsumeToken ==
    ASSUME NEW r \in Requests, Ready(r), PreConsumeToken(r)
    PROVE  HoldingOK(r)' /\ Moves(r)
<1>1. pc[r] = "preToken" /\ Undecided(r) /\ UNCHANGED <<wallet, subUsed, fee, rpc>>
  BY NotYetDecided DEF PreConsumeToken, Ready
<1>2. held[r].funding = 0 /\ fee[r].funding = 0
  BY <1>1 DEF Ready, HoldingOK, Opening, Undecided
<1>3. CASE RejectSession(r) /\ UNCHANGED <<token, held>>
  <2>1. HoldingOK(r)' /\ Paid(r) = 0
    BY <1>1, <1>2, <1>3, Reopened
  <2> QED
    BY <1>1, <1>3, <2>1, MovesNothing
<1>4. CASE ~ (RejectSession(r) /\ UNCHANGED <<token, held>>)
  <2>1. /\ outcome' = outcome /\ pc'[r] = "preFunding"
        /\ sess'[r].funding = sess[r].funding
        /\ sess'[r].preConsumedQuota = sess[r].preConsumedQuota
        /\ sess'[r].consumed = sess[r].consumed /\ sess'[r].extraReserved = sess[r].extraReserved
    BY <1>4 DEF PreConsumeToken, GoTo, Ready, TypeOK, Session
  <2>2. held'[r].funding = held[r].funding /\ Moves(r)
    <3>1. CASE req[r].playground
      BY <1>1, <1>4, <2>1, <3>1, MovesNothing DEF PreConsumeToken
    <3>2. CASE ~ req[r].playground
      <4>1. token' = token - Effective(r) /\ HoldToken(r, Effective(r))
        BY <1>4, <3>2 DEF PreConsumeToken, TryReserveToken
      <4> QED
        BY <1>1, <2>1, <4>1, Fields, TokenMoves
    <3> QED
      BY <3>1, <3>2
  <2>3. HoldingOK(r)'
    BY <1>1, <1>2, <2>1, <2>2, Fields DEF Ready, HoldingOK, Covers, Opening, Undecided
  <2> QED
    BY <2>2, <2>3
<1> QED
  BY <1>3, <1>4

\* FundingSource.PreConsume takes n from wallet or subscription.
LEMMA HoldingPreConsumeFunding ==
    ASSUME NEW r \in Requests, Ready(r), PreConsumeFunding(r)
    PROVE  HoldingOK(r)' /\ Moves(r)
<1>1. /\ pc[r] = "preFunding" /\ Undecided(r) /\ sess[r].funding # "none"
      /\ UNCHANGED <<token, fee, rpc, quota, outcome>>
  BY NotYetDecided DEF PreConsumeFunding, Ready, LedgerOK, SessionShape
<1>2. /\ held[r].funding = 0 /\ fee[r].funding = 0 /\ sess[r].preConsumedQuota = 0
      /\ sess[r].consumed = 0 /\ sess[r].extraReserved = 0
  BY <1>1 DEF Ready, HoldingOK, Opening, Undecided
<1>3. CASE UNCHANGED <<wallet, subUsed, sess, held>> /\ GoTo(r, "undoToken")
  <2>1. pc'[r] = "undoToken"
    BY <1>3 DEF GoTo, Ready, TypeOK
  <2>2. HoldingOK(r)'
    BY <1>1, <1>2, <1>3, <2>1, Fields DEF HoldingOK, Covers, Opening, Undecided
  <2> QED
    BY <1>1, <1>3, <2>2, MovesNothing
<1>4. CASE ~ (UNCHANGED <<wallet, subUsed, sess, held>> /\ GoTo(r, "undoToken"))
  <2>1. /\ HoldFunding(r, Effective(r)) /\ GoTo(r, "ready")
        /\ sess' = [sess EXCEPT ![r].consumed = Effective(r), ![r].preConsumedQuota = Effective(r)]
    BY <1>4 DEF PreConsumeFunding
  <2>2. /\ sess'[r].funding = sess[r].funding
        /\ sess'[r].preConsumedQuota = Effective(r)
        /\ sess'[r].consumed = Effective(r) /\ sess'[r].extraReserved = 0
    BY <2>1, <1>2 DEF Ready, TypeOK, Session
  <2>3. \/ sess[r].funding # "subscription" /\ wallet' = wallet - Effective(r) /\ subUsed' = subUsed
        \/ /\ sess[r].funding = "subscription" /\ wallet' = wallet /\ subUsed' = subUsed + Effective(r)
           /\ SubTotal = 0 \/ subUsed' <= SubTotal
    BY <1>4 DEF PreConsumeFunding, TryReserveWallet, SubscriptionRoom
  <2>4. Moves(r) /\ held'[r].funding = Effective(r)
    <3>1. Effective(r) \in Int
      BY Fields
    <3>2. Moves(r) /\ held'[r].funding = held[r].funding + Effective(r)
      BY <1>1, <2>1, <2>2, <2>3, <3>1, FundingMoves
    <3> QED
      BY <1>2, <3>1, <3>2
  <2>5. pc'[r] = "ready"
    BY <2>1 DEF GoTo, Ready, TypeOK
  <2>6. HoldingOK(r)'
    BY <1>1, <1>2, <2>2, <2>4, <2>5, Fields DEF HoldingOK, Covers, Opening, Undecided
  <2> QED
    BY <2>4, <2>6
<1> QED
  BY <1>3, <1>4

\* preConsume's rollback returns the token and tries the next source.
LEMMA HoldingUndoToken ==
    ASSUME NEW r \in Requests, Ready(r), UndoToken(r)
    PROVE  HoldingOK(r)' /\ Moves(r)
<1> DEFINE n == IF req[r].playground THEN 0 ELSE sess[r].tokenConsumed
<1>1. pc[r] = "undoToken" /\ Undecided(r) /\ UNCHANGED <<wallet, subUsed, fee, rpc>> /\ Insufficient(r)
  BY NotYetDecided DEF UndoToken, Ready
<1>2. held[r].funding = 0 /\ fee[r].funding = 0
  BY <1>1 DEF Ready, HoldingOK, Opening, Undecided
<1>3. n \in Int
  BY Fields
<1>4. \/ token' = token + n /\ HoldToken(r, -n)
      \/ UNCHANGED <<token, held>>
  BY DEF UndoToken
<1>5. held'[r].funding = 0 /\ token' + PaidByToken'[r] = token + PaidByToken[r]
  <2>1. CASE token' = token + n /\ HoldToken(r, -n)
    <3>1. held'[r].funding = held[r].funding /\ held'[r].token = held[r].token + (-n)
      BY <1>3, <2>1, HoldTokenType DEF Ready, TypeOK
    <3> HIDE DEF n
    <3> QED
      BY <1>1, <1>2, <1>3, <2>1, <3>1, Fields DEF PaidByToken
  <2>2. CASE UNCHANGED <<token, held>>
    BY <1>1, <1>2, <2>2 DEF PaidByToken
  <2> QED
    BY <1>4, <2>1, <2>2
<1>6. HoldingOK(r)' /\ Paid(r) = 0
  BY <1>1, <1>2, <1>5, Reopens, Reopened
<1>7. Paid(r)' = 0
  BY <1>1, <1>2, <1>5 DEF Paid
<1> QED
  BY <1>1, <1>5, <1>6, <1>7, Fields DEF Moves, PaidByWallet, PaidBySubscription

\* A reservation is decided, or an attempt answered: nothing is taken.
LEMMA HoldingQuiet ==
    ASSUME NEW r \in Requests, Ready(r), Reserve(r) \/ Respond(r)
    PROVE  HoldingOK(r)' /\ Moves(r)
<1>1. /\ pc[r] \in {"ready", "sent"} /\ Undecided(r)
      /\ UNCHANGED <<wallet, token, subUsed, held, fee, rpc, sess>>
  BY NotYetDecided DEF Reserve, Respond, Ready, accounts
<1>2. pc'[r] \in {"sent", "reserveFunding", "settleFunding", "ready", "failed", "done"}
  BY DEF Reserve, Respond, GoTo, Ready, TypeOK
<1>3. outcome'[r] # "none" => rpc'[r] = "none"
  BY <1>1 DEF Undecided
<1>4. HoldingOK(r)'
  BY <1>1, <1>2, <1>3, Fields DEF Ready, HoldingOK, Covers, Opening, Undecided
<1> QED
  BY <1>1, <1>4, MovesNothing

\* reserveFunding takes the difference from the funding source.
LEMMA HoldingReserveFunding ==
    ASSUME NEW r \in Requests, Ready(r), ReserveFunding(r)
    PROVE  HoldingOK(r)' /\ Moves(r)
<1>1. /\ pc[r] = "reserveFunding" /\ Undecided(r) /\ sess[r].funding \in {"wallet", "subscription"}
      /\ UNCHANGED <<token, fee, rpc, quota, outcome>>
  BY NotYetDecided, SessionFields DEF ReserveFunding, Ready, LedgerOK, SessionShape, Sources
<1>2. CASE UNCHANGED <<wallet, subUsed, sess, held>> /\ GoTo(r, "failed")
  <2>1. pc'[r] = "failed"
    BY <1>2 DEF GoTo, Ready, TypeOK
  <2>2. HoldingOK(r)'
    BY <1>1, <1>2, <2>1, Fields DEF Ready, HoldingOK, Covers, Opening, Undecided
  <2> QED
    BY <1>1, <1>2, <2>2, MovesNothing
<1>3. CASE ~ (UNCHANGED <<wallet, subUsed, sess, held>> /\ GoTo(r, "failed"))
  <2>1. /\ HoldFunding(r, quota[r]) /\ GoTo(r, "reserveToken")
        /\ sess' = [sess EXCEPT ![r].consumed = ConsumedAfterReserve(r)]
    BY <1>3 DEF ReserveFunding
  <2>2. /\ sess'[r].funding = sess[r].funding
        /\ sess'[r].preConsumedQuota = sess[r].preConsumedQuota
        /\ sess'[r].extraReserved = sess[r].extraReserved
        /\ sess[r].funding = "subscription" => sess'[r].consumed = sess[r].consumed
    BY <2>1 DEF Ready, TypeOK, Session, ConsumedAfterReserve
  <2>3. sess[r].funding = "subscription" =>
           held[r].funding >= sess[r].preConsumedQuota /\ held[r].funding + quota[r] >= 0
    BY <1>1, Fields DEF Ready, HoldingOK, Covers, Undecided
  <2>4. \/ sess[r].funding # "subscription" /\ wallet' = wallet - quota[r] /\ subUsed' = subUsed
        \/ /\ sess[r].funding = "subscription" /\ wallet' = wallet /\ subUsed' = subUsed + quota[r]
           /\ SubTotal = 0 \/ subUsed' <= SubTotal
    <3>1. CASE sess[r].funding = "wallet"
      BY <1>3, <3>1 DEF ReserveFunding, TryReserveWallet, DecreaseWallet
    <3>2. CASE sess[r].funding = "subscription"
      <4>1. PostConsumeSubscription(quota[r]) /\ wallet' = wallet
        BY <1>3, <3>2 DEF ReserveFunding
      <4> QED
        BY <2>3, <3>2, <4>1, Fields, NeverClamped
    <3> QED
      BY <1>1, <3>1, <3>2
  <2>5. Moves(r) /\ held'[r].funding = held[r].funding + quota[r]
    BY <1>1, <2>1, <2>2, <2>4, Fields, FundingMoves
  <2>6. pc'[r] = "reserveToken"
    BY <2>1 DEF GoTo, Ready, TypeOK
  <2>7. HoldingOK(r)'
    BY <1>1, <2>2, <2>3, <2>5, <2>6, Fields DEF Ready, HoldingOK, Covers, Opening, Undecided
  <2> QED
    BY <2>5, <2>7
<1> QED
  BY <1>2, <1>3

\* reserveToken takes the difference from the token and records both parts.
LEMMA HoldingReserveToken ==
    ASSUME NEW r \in Requests, Ready(r), ReserveToken(r)
    PROVE  HoldingOK(r)' /\ Moves(r)
<1>1. /\ pc[r] = "reserveToken" /\ Undecided(r) /\ sess[r].funding # "none"
      /\ UNCHANGED <<wallet, subUsed, fee, rpc, quota, outcome>>
  BY NotYetDecided DEF ReserveToken, Ready, LedgerOK, SessionShape
<1>2. CASE UNCHANGED <<token, sess, held>> /\ GoTo(r, "undoFunding")
  <2>1. pc'[r] = "undoFunding"
    BY <1>2 DEF GoTo, Ready, TypeOK
  <2>2. HoldingOK(r)'
    BY <1>1, <1>2, <2>1, Fields DEF Ready, HoldingOK, Covers, Opening, Undecided
  <2> QED
    BY <1>1, <1>2, <2>2, MovesNothing
<1>3. CASE ~ (UNCHANGED <<token, sess, held>> /\ GoTo(r, "undoFunding"))
  <2>1. /\ GoTo(r, "sent")
        /\ sess' = [sess EXCEPT ![r].preConsumedQuota = @ + quota[r],
                                ![r].tokenConsumed = @ + quota[r],
                                ![r].extraReserved = @ + quota[r],
                                ![r].trusted = @ /\ ~req[r].image]
    BY <1>3 DEF ReserveToken
  <2>2. /\ sess'[r].funding = sess[r].funding /\ sess'[r].consumed = sess[r].consumed
        /\ sess'[r].preConsumedQuota = sess[r].preConsumedQuota + quota[r]
        /\ sess'[r].extraReserved = sess[r].extraReserved + quota[r]
    BY <2>1 DEF Ready, TypeOK, Session
  <2>3. held'[r].funding = held[r].funding /\ Moves(r)
    <3>1. CASE req[r].playground
      BY <1>1, <1>3, <2>2, <3>1, MovesNothing DEF ReserveToken
    <3>2. CASE ~ req[r].playground
      <4>1. token' = token - quota[r] /\ HoldToken(r, quota[r])
        BY <1>3, <3>2 DEF ReserveToken, TryReserveToken
      <4> QED
        BY <1>1, <2>2, <4>1, Fields, TokenMoves
    <3> QED
      BY <3>1, <3>2
  <2>4. pc'[r] = "sent"
    BY <2>1 DEF GoTo, Ready, TypeOK
  <2>5. HoldingOK(r)'
    BY <1>1, <2>2, <2>3, <2>4, Fields DEF Ready, HoldingOK, Covers, Opening, Undecided
  <2> QED
    BY <2>3, <2>5
<1> QED
  BY <1>2, <1>3

\* rollbackFundingReserve returns the difference to the funding source.
LEMMA HoldingUndoFunding ==
    ASSUME NEW r \in Requests, Ready(r), UndoFunding(r)
    PROVE  HoldingOK(r)' /\ Moves(r)
<1>1. /\ pc[r] = "undoFunding" /\ Undecided(r) /\ sess[r].funding # "none"
      /\ UNCHANGED <<token, fee, rpc, quota, outcome>>
  BY NotYetDecided DEF UndoFunding, Ready, LedgerOK, SessionShape
<1>2. pc'[r] = "failed"
  BY DEF UndoFunding, GoTo, Ready, TypeOK
<1>3. sess[r].funding = "subscription" =>
         held[r].funding >= sess[r].preConsumedQuota + quota[r]
  BY <1>1 DEF Ready, HoldingOK, Covers, Undecided
<1>4. CASE UNCHANGED <<wallet, subUsed, sess, held>>
  <2>1. HoldingOK(r)'
    BY <1>1, <1>2, <1>4, Fields DEF Ready, HoldingOK, Covers, Opening, Undecided
  <2> QED
    BY <1>1, <1>4, <2>1, MovesNothing
<1>5. CASE ~ UNCHANGED <<wallet, subUsed, sess, held>>
  <2>1. HoldFunding(r, -quota[r])
    BY <1>5 DEF UndoFunding
  <2>2. /\ sess'[r].funding = sess[r].funding
        /\ sess'[r].preConsumedQuota = sess[r].preConsumedQuota
        /\ sess'[r].extraReserved = sess[r].extraReserved
        /\ sess[r].funding = "subscription" => sess'[r].consumed = sess[r].consumed
    BY <1>5 DEF UndoFunding, Ready, TypeOK, Session
  <2>3. \/ sess[r].funding # "subscription" /\ wallet' = wallet - (-quota[r]) /\ subUsed' = subUsed
        \/ /\ sess[r].funding = "subscription" /\ wallet' = wallet /\ subUsed' = subUsed + (-quota[r])
           /\ SubTotal = 0 \/ subUsed' <= SubTotal
    <3>1. CASE sess[r].funding # "subscription"
      BY <1>5, <3>1, Fields DEF UndoFunding
    <3>2. CASE sess[r].funding = "subscription"
      <4>1. PostConsumeSubscription(-quota[r]) /\ wallet' = wallet
        BY <1>5, <3>2 DEF UndoFunding
      <4>2. held[r].funding + (-quota[r]) >= 0 /\ -quota[r] \in Int
        BY <1>3, <3>2, Fields
      <4> QED
        BY <3>2, <4>1, <4>2, NeverClamped
    <3> QED
      BY <3>1, <3>2
  <2>4. Moves(r) /\ held'[r].funding = held[r].funding + (-quota[r])
    <3>1. -quota[r] \in Int
      BY Fields
    <3> QED
      BY <1>1, <2>1, <2>2, <2>3, <3>1, FundingMoves
  <2>5. HoldingOK(r)'
    BY <1>1, <1>2, <1>3, <2>2, <2>4, Fields, SMTT(20) DEF Ready, HoldingOK, Covers, Opening, Undecided
  <2> QED
    BY <2>4, <2>5
<1> QED
  BY <1>4, <1>5

\* Settle adjusts the funding source to the actual usage.
LEMMA HoldingSettleFunding ==
    ASSUME NEW r \in Requests, Ready(r), SettleFunding(r)
    PROVE  HoldingOK(r)' /\ Moves(r)
<1>1. /\ pc[r] = "settleFunding" /\ Undecided(r) /\ outcome'[r] = "served" /\ rpc'[r] = "none"
      /\ UNCHANGED <<token, fee>>
  BY NotYetDecided DEF SettleFunding, Ready, Serve, TypeOK, Undecided
<1>2. SameAmounts(r)
  BY DEF SettleFunding, SameAmounts, Ready, TypeOK, Session
<1>3. sess[r].funding = "subscription" =>
         held[r].funding >= sess[r].preConsumedQuota /\ sess[r].consumed >= 0
  BY <1>1 DEF Ready, HoldingOK, Covers, Undecided
<1>4. fee'[r].funding >= 0
  BY <1>1 DEF Ready, HoldingOK
<1>5. CASE UNCHANGED <<wallet, subUsed, held>>
  <2>1. HoldingOK(r)'
    BY <1>1, <1>2, <1>3, <1>4, <1>5, Fields DEF HoldingOK, Covers, SameAmounts
  <2> QED
    BY <1>1, <1>2, <1>5, <2>1, MovesNothing DEF SameAmounts
<1>6. CASE ~ UNCHANGED <<wallet, subUsed, held>>
  <2>1. Delta(r) \in Int /\ Delta(r) = actual[r] - sess[r].preConsumedQuota
    BY Fields DEF Delta
  <2>2. HoldFunding(r, Delta(r))
    BY <1>6 DEF SettleFunding
  <2>3. \/ sess[r].funding # "subscription" /\ wallet' = wallet - Delta(r) /\ subUsed' = subUsed
        \/ /\ sess[r].funding = "subscription" /\ wallet' = wallet /\ subUsed' = subUsed + Delta(r)
           /\ SubTotal = 0 \/ subUsed' <= SubTotal
    <3>1. CASE sess[r].funding # "subscription"
      BY <1>6, <3>1 DEF SettleFunding, AdjustWallet, DecreaseWallet
    <3>2. CASE sess[r].funding = "subscription"
      <4>1. PostConsumeSubscription(Delta(r)) /\ wallet' = wallet
        BY <1>6, <3>2 DEF SettleFunding
      <4>2. held[r].funding + Delta(r) >= 0
        BY <1>3, <2>1, <3>2, Fields
      <4> QED
        BY <2>1, <3>2, <4>1, <4>2, NeverClamped
    <3> QED
      BY <3>1, <3>2
  <2>4. Moves(r) /\ held'[r].funding = held[r].funding + Delta(r)
    BY <1>1, <1>2, <2>1, <2>2, <2>3, FundingMoves DEF SameAmounts
  <2>5. HoldingOK(r)'
    BY <1>1, <1>2, <1>3, <1>4, <2>1, <2>4, Fields DEF HoldingOK, Covers, SameAmounts
  <2> QED
    BY <2>4, <2>5
<1> QED
  BY <1>5, <1>6

\* Settle adjusts the token by the same difference.
LEMMA HoldingSettleToken ==
    ASSUME NEW r \in Requests, Ready(r), SettleToken(r)
    PROVE  HoldingOK(r)' /\ Moves(r)
<1>1. /\ outcome[r] = "served" /\ UNCHANGED <<outcome, rpc, wallet, subUsed, fee>>
      /\ rpc[r] = "none"
  BY DEF SettleToken, Ready, LedgerOK, SessionShape
<1>2. SameAmounts(r)
  BY DEF SettleToken, SameAmounts, Ready, TypeOK, Session
<1>3. Moves(r) /\ held'[r].funding = held[r].funding
  <2>1. CASE UNCHANGED <<token, held>>
    BY <1>1, <1>2, <2>1, MovesNothing DEF SameAmounts
  <2>2. CASE ~ UNCHANGED <<token, held>>
    <3>1. token' = token - Delta(r) /\ HoldToken(r, Delta(r)) /\ Delta(r) \in Int
      BY <2>2, Fields DEF SettleToken, AdjustToken, DecreaseToken, Delta
    <3> QED
      BY <1>1, <1>2, <3>1, TokenMoves DEF SameAmounts
  <2> QED
    BY <2>1, <2>2
<1> QED
  BY <1>1, <1>2, <1>3 DEF Ready, HoldingOK, Covers, SameAmounts

\* Refund marks the session and starts the goroutine.
LEMMA HoldingRefund ==
    ASSUME NEW r \in Requests, Ready(r), Refund(r)
    PROVE  HoldingOK(r)' /\ Moves(r)
<1>1. /\ pc[r] = "failed" /\ Undecided(r) /\ outcome'[r] = "failed"
      /\ UNCHANGED <<wallet, token, subUsed, held, fee>>
  BY NotYetDecided DEF Refund, Ready, accounts, TypeOK
<1>2. SameAmounts(r) /\ rpc'[r] \in {"none", "funding"}
  BY DEF Refund, SameAmounts, Ready, TypeOK, Session
<1>3. HoldingOK(r)'
  BY <1>1, <1>2, Fields DEF Ready, HoldingOK, Covers, Undecided, SameAmounts
<1> QED
  BY <1>1, <1>2, <1>3, MovesNothing DEF SameAmounts

\* The goroutine returns what the funding source remembers as taken.
LEMMA HoldingRefundFunding ==
    ASSUME NEW r \in Requests, Ready(r), RefundFunding(r)
    PROVE  HoldingOK(r)' /\ Moves(r)
<1> DEFINE n == IF sess[r].funding = "subscription" \/ sess[r].consumed > 0
                THEN sess[r].consumed ELSE 0
<1>1. /\ rpc[r] = "funding" /\ outcome[r] = "failed"
      /\ UNCHANGED <<token, fee, outcome, sess>>
      /\ rpc'[r] \in {"extra", "token"}
      /\ rpc'[r] = "extra" => sess[r].funding = "subscription"
  BY DEF RefundFunding, Ready, LedgerOK, SessionShape, TypeOK
<1>2. sess[r].funding = "subscription" =>
         /\ held[r].funding >= sess[r].consumed + sess[r].extraReserved
         /\ sess[r].consumed >= 0 /\ held[r].funding >= 0
  BY <1>1 DEF Ready, HoldingOK, Covers
<1>3. fee[r].funding >= 0
  BY DEF Ready, HoldingOK
<1>4. -n \in Int /\ n \in Int
  BY Fields
<1>5. CASE UNCHANGED <<wallet, subUsed, held>>
  <2>1. HoldingOK(r)'
    BY <1>1, <1>2, <1>3, <1>5, Fields DEF HoldingOK, Covers
  <2> QED
    BY <1>1, <1>5, <2>1, MovesNothing
<1>6. CASE ~ UNCHANGED <<wallet, subUsed, held>>
  <2>1. CASE sess[r].funding # "subscription"
    <3>1. wallet' = wallet + n /\ subUsed' = subUsed /\ HoldFunding(r, -n)
      BY <1>6, <2>1, Fields DEF RefundFunding, HoldFunding
    <3>2. wallet' = wallet - (-n)
      <4> HIDE DEF n
      <4> QED BY <3>1, <1>4, Fields
    <3> HIDE DEF n
    <3>3. Moves(r)
      BY <1>1, <1>4, <2>1, <3>1, <3>2, FundingMoves
    <3>4. HoldingOK(r)'
      BY <1>1, <1>3, <2>1 DEF HoldingOK
    <3> QED
      BY <3>3, <3>4
  <2>2. CASE sess[r].funding = "subscription"
    <3>1. /\ wallet' = wallet /\ HoldFunding(r, -sess[r].consumed)
          /\ PostConsumeSubscription(-sess[r].consumed)
      BY <1>6, <2>2 DEF RefundFunding
    <3>2. held[r].funding + (-sess[r].consumed) >= 0 /\ -sess[r].consumed \in Int
      BY <1>2, <2>2, Fields
    <3>3. subUsed' = subUsed + (-sess[r].consumed) /\ (SubTotal = 0 \/ subUsed' <= SubTotal)
      BY <2>2, <3>1, <3>2, NeverClamped
    <3>4. Moves(r) /\ held'[r].funding = held[r].funding + (-sess[r].consumed)
      BY <1>1, <2>2, <3>1, <3>2, <3>3, FundingMoves
    <3>5. HoldingOK(r)'
      BY <1>1, <1>2, <1>3, <2>2, <3>4, Fields DEF HoldingOK, Covers
    <3> QED
      BY <3>4, <3>5
  <2> QED
    BY <2>1, <2>2
<1> QED
  BY <1>5, <1>6

\* The goroutine returns what Reserve took of the subscription.
LEMMA HoldingRefundExtra ==
    ASSUME NEW r \in Requests, Ready(r), RefundExtra(r)
    PROVE  HoldingOK(r)' /\ Moves(r)
<1>1. /\ rpc[r] = "extra" /\ outcome[r] = "failed" /\ rpc'[r] = "token"
      /\ sess[r].funding = "subscription"
      /\ UNCHANGED <<wallet, token, fee, outcome, sess>>
  BY DEF RefundExtra, Ready, LedgerOK, SessionShape, HoldingOK, TypeOK
<1>2. held[r].funding >= sess[r].extraReserved /\ held[r].funding >= 0 /\ sess[r].consumed >= 0
  BY <1>1 DEF Ready, HoldingOK, Covers
<1>3. fee[r].funding >= 0
  BY DEF Ready, HoldingOK
<1>4. CASE UNCHANGED <<subUsed, held>>
  <2>1. HoldingOK(r)'
    BY <1>1, <1>2, <1>3, <1>4, Fields DEF HoldingOK, Covers
  <2> QED
    BY <1>1, <1>4, <2>1, MovesNothing
<1>5. CASE ~ UNCHANGED <<subUsed, held>>
  <2>1. HoldFunding(r, -sess[r].extraReserved) /\ PostConsumeSubscription(-sess[r].extraReserved)
    BY <1>5 DEF RefundExtra
  <2>2. held[r].funding + (-sess[r].extraReserved) >= 0 /\ -sess[r].extraReserved \in Int
    BY <1>2, Fields
  <2>3. subUsed' = subUsed + (-sess[r].extraReserved) /\ (SubTotal = 0 \/ subUsed' <= SubTotal)
    BY <1>1, <2>1, <2>2, NeverClamped
  <2>4. Moves(r) /\ held'[r].funding = held[r].funding + (-sess[r].extraReserved)
    BY <1>1, <2>1, <2>2, <2>3, FundingMoves
  <2>5. HoldingOK(r)'
    BY <1>1, <1>2, <1>3, <2>4, Fields DEF HoldingOK, Covers
  <2> QED
    BY <2>4, <2>5
<1> QED
  BY <1>4, <1>5

\* The goroutine returns what was taken from the token.
LEMMA HoldingRefundToken ==
    ASSUME NEW r \in Requests, Ready(r), RefundToken(r)
    PROVE  HoldingOK(r)' /\ Moves(r)
<1> DEFINE n == IF req[r].playground THEN 0 ELSE sess[r].tokenConsumed
<1>1. /\ rpc[r] = "token" /\ outcome[r] = "failed" /\ rpc'[r] = "finished"
      /\ UNCHANGED <<wallet, subUsed, fee, outcome, sess>>
  BY DEF RefundToken, Ready, LedgerOK, SessionShape, TypeOK
<1>2. -n \in Int /\ n \in Int
  BY Fields
<1>3. \/ token' = token + n /\ HoldToken(r, -n)
      \/ UNCHANGED <<token, held>>
  BY DEF RefundToken
<1> HIDE DEF n
<1>4. Moves(r) /\ held'[r].funding = held[r].funding
  <2>1. CASE token' = token + n /\ HoldToken(r, -n)
    <3>1. token' = token - (-n)
      BY <1>2, <2>1, Fields
    <3> QED
      BY <1>1, <1>2, <2>1, <3>1, TokenMoves
  <2>2. CASE UNCHANGED <<token, held>>
    BY <1>1, <2>2, MovesNothing
  <2> QED
    BY <1>3, <2>1, <2>2
<1> QED
  BY <1>1, <1>4 DEF Ready, HoldingOK, Covers

\* ChargeViolationFeeIfNeeded charges the funding source.
LEMMA HoldingFeeFunding ==
    ASSUME NEW r \in Requests, Ready(r), FeeFunding(r)
    PROVE  HoldingOK(r)' /\ Moves(r)
<1>1. outcome[r] = "failed" /\ UNCHANGED <<token, held, sess, rpc, outcome>>
  BY DEF FeeFunding, Ready, LedgerOK, SessionShape
<1>2. CASE UNCHANGED <<wallet, subUsed, fee>>
  <2>1. HoldingOK(r)'
    BY <1>1, <1>2 DEF Ready, HoldingOK, Covers
  <2> QED
    BY <1>1, <1>2, <2>1, MovesNothing
<1>3. CASE ~ UNCHANGED <<wallet, subUsed, fee>>
  <2>1. fee'[r].funding = fee[r].funding + FeeQuota /\ fee'[r].token = fee[r].token
    BY <1>3 DEF FeeFunding, Ready, TypeOK, Amounts
  <2>2. \/ sess[r].funding # "subscription" /\ wallet' = wallet - FeeQuota /\ subUsed' = subUsed
        \/ /\ sess[r].funding = "subscription" /\ wallet' = wallet
           /\ PostConsumeSubscription(FeeQuota)
    BY <1>3 DEF FeeFunding, DecreaseWallet
  <2>3. HoldingOK(r)'
    BY <1>1, <2>1, Fields DEF Ready, HoldingOK, Covers
  <2>4. CASE sess[r].funding # "subscription"
    BY <1>1, <2>1, <2>2, <2>3, <2>4, Fields DEF Moves, PaidByWallet, PaidByToken,
      PaidBySubscription, Paid
  <2>5. CASE sess[r].funding = "subscription"
    <3>1. held[r].funding + FeeQuota >= 0
      BY <2>5, Fields DEF Ready, HoldingOK, Covers
    <3>2. subUsed' = subUsed + FeeQuota /\ (SubTotal = 0 \/ subUsed' <= SubTotal)
      BY <2>2, <2>5, <3>1, Fields, NeverClamped
    <3> QED
      BY <1>1, <2>1, <2>2, <2>3, <2>5, <3>2, Fields DEF Moves, PaidByWallet, PaidByToken,
        PaidBySubscription, Paid
  <2> QED
    BY <2>4, <2>5
<1> QED
  BY <1>2, <1>3

\* ChargeViolationFeeIfNeeded charges the token.
LEMMA HoldingFeeToken ==
    ASSUME NEW r \in Requests, Ready(r), FeeToken(r)
    PROVE  HoldingOK(r)' /\ Moves(r)
<1>1. outcome[r] = "failed" /\ UNCHANGED <<wallet, subUsed, held, sess, rpc, outcome>>
  BY DEF FeeToken, Ready, LedgerOK, SessionShape
<1>2. CASE UNCHANGED <<token, fee>>
  <2>1. HoldingOK(r)'
    BY <1>1, <1>2 DEF Ready, HoldingOK, Covers
  <2> QED
    BY <1>1, <1>2, <2>1, MovesNothing
<1>3. CASE ~ UNCHANGED <<token, fee>>
  <2>1. /\ fee'[r].token = fee[r].token + FeeQuota /\ fee'[r].funding = fee[r].funding
        /\ token' = token - FeeQuota
    BY <1>3 DEF FeeToken, DecreaseToken, Ready, TypeOK, Amounts
  <2>2. HoldingOK(r)'
    BY <1>1, <2>1, Fields DEF Ready, HoldingOK, Covers
  <2> QED
    BY <1>1, <2>1, <2>2, Fields DEF Moves, PaidByWallet, PaidByToken, PaidBySubscription, Paid
<1> QED
  BY <1>2, <1>3

(***************************************************************************)
(* All requests together.                                                  *)
(***************************************************************************)

\* A step of one request charges no fee to another.
LEMMA OthersFee ==
    ASSUME TypeOK, NEW r \in Requests,
           Start(r) \/ StartFree(r) \/ OpenInLoop(r) \/ RequestStep(r) \/ RefundStep(r),
           NEW q \in Requests, q # r
    PROVE  fee'[q] = fee[q]
<1>1. CASE FeeFunding(r) \/ FeeToken(r)
  BY <1>1 DEF FeeFunding, FeeToken, TypeOK
<1>2. CASE ~ (FeeFunding(r) \/ FeeToken(r))
  BY <1>2 DEF RequestStep, RefundStep, Start, StartFree, OpenInLoop, CheckWallet,
    PreConsumeToken, PreConsumeFunding, UndoToken, Reserve, ReserveFunding, ReserveToken,
    UndoFunding, Respond, SettleFunding, SettleToken, Refund, RefundFunding, RefundExtra,
    RefundToken
<1> QED
  BY <1>1, <1>2

\* Every step of a request keeps its holdings and moves quota exactly.
LEMMA OwnStep ==
    ASSUME NEW r \in Requests, Ready(r),
           Start(r) \/ StartFree(r) \/ OpenInLoop(r) \/ RequestStep(r) \/ RefundStep(r)
    PROVE  HoldingOK(r)' /\ Moves(r)
  BY HoldingOpen, HoldingStartFree, HoldingCheckWallet, HoldingPreConsumeToken,
    HoldingPreConsumeFunding, HoldingUndoToken, HoldingQuiet, HoldingReserveFunding,
    HoldingReserveToken, HoldingUndoFunding, HoldingSettleFunding, HoldingSettleToken,
    HoldingRefund, HoldingRefundFunding, HoldingRefundExtra, HoldingRefundToken,
    HoldingFeeFunding, HoldingFeeToken
  DEF RequestStep, RefundStep

\* The sums range over functions into the integers.
PaidTyped ==
    /\ PaidByWallet \in [Requests -> Int] /\ PaidByToken \in [Requests -> Int]
    /\ PaidBySubscription \in [Requests -> Int]

\* What the requests have taken is an integer for each of them.
LEMMA PaidTypes == TypeOK => PaidTyped
<1> SUFFICES ASSUME TypeOK PROVE PaidTyped
  OBVIOUS
<1>1. ASSUME NEW r \in Requests
      PROVE  /\ held[r].funding \in Int /\ held[r].token \in Int
             /\ fee[r].funding \in Int /\ fee[r].token \in Int
  <2>1. held[r] \in Amounts /\ fee[r] \in Amounts
    BY DEF TypeOK
  <2> QED
    BY <2>1 DEF Amounts
<1> QED
  BY <1>1 DEF PaidTyped, PaidByWallet, PaidByToken, PaidBySubscription, Paid

\* Total is the sum of FiniteSums over all requests.
LEMMA TotalIsSum == ASSUME NEW f PROVE Total(f) = SumOver(f, Requests)
  BY DEF Total, SumOver

\* amount_used covers what each request has taken: a sum of naturals bounds its terms.
LEMMA AllCovered ==
    ASSUME TypeOK, HoldingInv, AccountsExact, NEW r \in Requests
    PROVE  Covered(r)
<1>1. \A q \in Requests : PaidBySubscription[q] >= 0
  <2> SUFFICES ASSUME NEW q \in Requests PROVE PaidBySubscription[q] >= 0
    OBVIOUS
  <2>1. held[q] \in Amounts /\ fee[q] \in Amounts
    BY DEF TypeOK
  <2>2. held[q].funding \in Int /\ fee[q].funding \in Int
    BY <2>1 DEF Amounts
  <2>3. fee[q].funding >= 0 /\ (sess[q].funding = "subscription" => held[q].funding >= 0)
    BY DEF HoldingInv, HoldingOK, Covers
  <2> QED
    BY <2>2, <2>3 DEF PaidBySubscription, Paid
<1>2. subUsed = SumOver(PaidBySubscription, Requests)
  BY TotalIsSum DEF AccountsExact
<1> QED
  BY <1>1, <1>2, PaidTypes, ConstantsAssumption, SumBound DEF Covered, PaidTyped

\* A step that moves one request's part exactly keeps the sums exact.
LEMMA SumsFollow ==
    ASSUME TypeOK, TypeOK', AccountsExact, NEW r \in Requests, Moves(r),
           \A q \in Requests : q # r =>
               held'[q] = held[q] /\ fee'[q] = fee[q] /\ sess'[q] = sess[q]
    PROVE  AccountsExact'
<1>1. PaidTyped /\ PaidTyped'
  BY PaidTypes, PTL
<1>2. \A q \in Requests : q # r =>
         /\ PaidByWallet'[q] = PaidByWallet[q] /\ PaidByToken'[q] = PaidByToken[q]
         /\ PaidBySubscription'[q] = PaidBySubscription[q]
  BY DEF PaidByWallet, PaidByToken, PaidBySubscription, Paid
<1>3. IsFiniteSet(Requests)
  BY ConstantsAssumption
<1>4. SumOver(PaidByWallet', Requests)
        = SumOver(PaidByWallet, Requests) + PaidByWallet'[r] - PaidByWallet[r]
  BY <1>1, <1>2, <1>3, SumChange DEF PaidTyped
<1>5. SumOver(PaidByToken', Requests)
        = SumOver(PaidByToken, Requests) + PaidByToken'[r] - PaidByToken[r]
  BY <1>1, <1>2, <1>3, SumChange DEF PaidTyped
<1>6. SumOver(PaidBySubscription', Requests)
        = SumOver(PaidBySubscription, Requests) + PaidBySubscription'[r] - PaidBySubscription[r]
  BY <1>1, <1>2, <1>3, SumChange DEF PaidTyped
<1>7. /\ SumOver(PaidByWallet, Requests) \in Int /\ SumOver(PaidByToken, Requests) \in Int
      /\ SumOver(PaidBySubscription, Requests) \in Int
  BY <1>1, <1>3, SumInt DEF PaidTyped
<1>8. /\ PaidByWallet[r] \in Int /\ PaidByToken[r] \in Int /\ PaidBySubscription[r] \in Int
      /\ PaidByWallet'[r] \in Int /\ PaidByToken'[r] \in Int /\ PaidBySubscription'[r] \in Int
  BY <1>1 DEF PaidTyped
<1>9. /\ wallet \in Int /\ token \in Int /\ subUsed \in Int
      /\ wallet' \in Int /\ token' \in Int /\ subUsed' \in Int
      /\ InitWallet \in Int /\ InitToken \in Int
  BY ConstantsAssumption DEF TypeOK
<1>10. /\ wallet + SumOver(PaidByWallet, Requests) = InitWallet
       /\ token + SumOver(PaidByToken, Requests) = InitToken
       /\ subUsed = SumOver(PaidBySubscription, Requests)
       /\ SubTotal = 0 \/ subUsed <= SubTotal
  BY TotalIsSum DEF AccountsExact
<1>11. /\ wallet' + SumOver(PaidByWallet', Requests) = InitWallet
       /\ token' + SumOver(PaidByToken', Requests) = InitToken
       /\ subUsed' = SumOver(PaidBySubscription', Requests)
       /\ SubTotal = 0 \/ subUsed' <= SubTotal
  BY <1>4, <1>5, <1>6, <1>7, <1>8, <1>9, <1>10 DEF Moves
<1>12. /\ Total(PaidByWallet)' = SumOver(PaidByWallet', Requests)
       /\ Total(PaidByToken)' = SumOver(PaidByToken', Requests)
       /\ Total(PaidBySubscription)' = SumOver(PaidBySubscription', Requests)
  BY TotalIsSum
<1> QED
  BY <1>11, <1>12 DEF AccountsExact

\* The inductive step of the two facts together.
LEMMA AccountsStep ==
    TypeOK /\ TypeOK' /\ LedgerInv /\ HoldingInv /\ AccountsExact /\ [Next]_vars
        => HoldingInv' /\ AccountsExact'
<1> SUFFICES ASSUME TypeOK, TypeOK', LedgerInv, HoldingInv, AccountsExact, [Next]_vars
             PROVE  HoldingInv' /\ AccountsExact'
  OBVIOUS
<1>1. CASE UNCHANGED vars
  <2>1. HoldingInv'
    BY <1>1 DEF vars, HoldingInv, HoldingOK, Covers, Opening
  <2>2. UNCHANGED <<PaidByWallet, PaidByToken, PaidBySubscription>>
    BY <1>1 DEF vars, PaidByWallet, PaidByToken, PaidBySubscription, Paid
  <2>3. AccountsExact'
    BY <1>1, <2>2 DEF vars, AccountsExact
  <2> QED
    BY <2>1, <2>3
<1>2. ASSUME NEW r \in Requests,
             Start(r) \/ StartFree(r) \/ OpenInLoop(r) \/ RequestStep(r) \/ RefundStep(r)
      PROVE  HoldingInv' /\ AccountsExact'
  <2>1. Ready(r)
    BY AllCovered DEF Ready, LedgerInv, HoldingInv
  <2>2. HoldingOK(r)' /\ Moves(r)
    BY <1>2, <2>1, OwnStep
  <2>3. \A q \in Requests : q # r => Same(q) /\ fee'[q] = fee[q]
    BY <1>2, OthersSame, OthersFee
  <2>4. \A q \in Requests : q # r => HoldingOK(q)'
    BY <2>3 DEF Same, HoldingInv, HoldingOK, Covers, Opening
  <2>5. AccountsExact'
    BY <2>2, <2>3, SumsFollow DEF Same
  <2> QED
    BY <2>2, <2>4, <2>5 DEF HoldingInv
<1> QED
  BY <1>1, <1>2 DEF Next

\* Nothing is held and nothing is taken when no request has started.
LEMMA AccountsInit == Init => HoldingInv /\ AccountsExact
<1> SUFFICES ASSUME Init PROVE HoldingInv /\ AccountsExact
  OBVIOUS
<1>1. TypeOK
  BY TypeInit
<1>2. \A r \in Requests : /\ held[r] = Nothing /\ fee[r] = Nothing
                          /\ sess[r] = NewSession("none") /\ rpc[r] = "none"
  BY DEF Init
<1>3. HoldingInv
  BY <1>2 DEF HoldingInv, HoldingOK, NewSession, Nothing
<1>4. \A r \in Requests : /\ PaidByWallet[r] = 0 /\ PaidByToken[r] = 0
                          /\ PaidBySubscription[r] = 0
  BY <1>2 DEF PaidByWallet, PaidByToken, PaidBySubscription, Paid, Nothing
<1>5. /\ SumOver(PaidByWallet, Requests) = 0 /\ SumOver(PaidByToken, Requests) = 0
      /\ SumOver(PaidBySubscription, Requests) = 0
  BY <1>1, <1>4, PaidTypes, ConstantsAssumption, SumZero DEF PaidTyped
<1> QED
  BY <1>3, <1>5, TotalIsSum, ConstantsAssumption DEF AccountsExact, Init

\* For any number of requests, quotas, retries and database errors: wallet, token
\* and amount_used are their start values less what the requests hold, the clamp of
\* PostConsumeUserSubscriptionDelta is never taken and the total never exceeded.
THEOREM AccountsConserved == Spec => []AccountsExact
  BY TypeInit, TypeStep, LedgerInit, LedgerStep, AccountsInit, AccountsStep, PTL DEF Spec

=============================================================================
