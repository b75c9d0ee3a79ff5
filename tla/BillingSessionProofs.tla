------------------------ MODULE BillingSessionProofs ------------------------
(***************************************************************************)
(* Proofs about BillingSession for every value of its constants: types, no *)
(* overdraft by reservation, and the ledger invariant with the three       *)
(* accounting properties it implies.                                       *)
(***************************************************************************)
EXTENDS BillingSession, TLAPS

\* NewBillingSession returns a well-typed session for every funding source.
LEMMA NewSessionType == \A s \in Sources : NewSession(s) \in Session
  BY DEF NewSession, Session

\* Taking n from the funding source changes only the funding part of the
\* request's history.
LEMMA HoldFundingType ==
    ASSUME held \in [Requests -> Amounts], NEW r \in Requests, NEW n \in Int, HoldFunding(r, n)
    PROVE  /\ held' \in [Requests -> Amounts]
           /\ held'[r].funding = held[r].funding + n
           /\ held'[r].token = held[r].token
  BY DEF HoldFunding, Amounts

\* Taking n from the token changes only the token part of the request's history.
LEMMA HoldTokenType ==
    ASSUME held \in [Requests -> Amounts], NEW r \in Requests, NEW n \in Int, HoldToken(r, n)
    PROVE  /\ held' \in [Requests -> Amounts]
           /\ held'[r].funding = held[r].funding
           /\ held'[r].token = held[r].token + n
  BY DEF HoldToken, Amounts

\* The types of the fields the steps of billing_session.go read and write.
LEMMA SessionFields ==
    ASSUME TypeOK, NEW r \in Requests
    PROVE  /\ sess[r] \in Session
           /\ sess[r].funding \in Sources
           /\ sess[r].preConsumedQuota \in Nat /\ sess[r].tokenConsumed \in Nat
           /\ sess[r].extraReserved \in Nat /\ sess[r].consumed \in Int
           /\ sess[r].trusted \in BOOLEAN /\ sess[r].fundingSettled \in BOOLEAN
           /\ sess[r].settled \in BOOLEAN /\ sess[r].refunded \in BOOLEAN
           /\ Effective(r) \in Nat /\ Delta(r) \in Int
           /\ quota[r] \in Nat /\ actual[r] \in Nat
           /\ held[r].funding \in Int /\ held[r].token \in Int
           /\ fallback[r] \in Sources
<1>1. sess[r] \in Session /\ held[r] \in Amounts /\ quota[r] \in Nat /\ actual[r] \in Nat
      /\ fallback[r] \in Sources
  BY DEF TypeOK
<1>2. sess[r].preConsumedQuota \in Nat
  BY <1>1 DEF Session
<1> QED
  BY <1>1, <1>2 DEF Session, Amounts, Effective, Delta

\* Refund's "s.refunded = true" keeps the session well typed.
LEMMA SetRefundedType ==
    ASSUME sess \in [Requests -> Session], NEW r \in Requests, NEW b \in BOOLEAN,
           sess' = [sess EXCEPT ![r].refunded = b]
    PROVE  sess' \in [Requests -> Session]
  BY DEF Session

\* Settle's "s.settled = true" keeps the session well typed.
LEMMA SetSettledType ==
    ASSUME sess \in [Requests -> Session], NEW r \in Requests, NEW b \in BOOLEAN,
           sess' = [sess EXCEPT ![r].settled = b]
    PROVE  sess' \in [Requests -> Session]
  BY DEF Session

\* Settle's "s.fundingSettled = true" keeps the session well typed.
LEMMA SetFundingSettledType ==
    ASSUME sess \in [Requests -> Session], NEW r \in Requests, NEW b \in BOOLEAN,
           sess' = [sess EXCEPT ![r].fundingSettled = b]
    PROVE  sess' \in [Requests -> Session]
  BY DEF Session

\* preConsume's "s.trusted = true" keeps the session well typed.
LEMMA SetTrustedType ==
    ASSUME sess \in [Requests -> Session], NEW r \in Requests, NEW b \in BOOLEAN,
           sess' = [sess EXCEPT ![r].trusted = b]
    PROVE  sess' \in [Requests -> Session]
  BY DEF Session

\* The assignments after FundingSource.PreConsume keep the session well typed.
LEMMA PreConsumedType ==
    ASSUME sess \in [Requests -> Session], NEW r \in Requests, NEW n \in Nat,
           sess' = [sess EXCEPT ![r].consumed = n, ![r].preConsumedQuota = n]
    PROVE  sess' \in [Requests -> Session]
<1> DEFINE s == [sess[r] EXCEPT !.consumed = n]
           t == [s EXCEPT !.preConsumedQuota = n]
<1>1. sess[r] \in Session /\ n \in Int
  OBVIOUS
<1>2. s \in Session
  BY <1>1 DEF Session
<1> HIDE DEF s
<1>3. t \in Session
  BY <1>2 DEF Session
<1> USE DEF s
<1>4. sess' = [sess EXCEPT ![r] = t]
  OBVIOUS
<1> QED
  BY <1>3, <1>4

\* preConsume's "s.tokenConsumed = effectiveQuota" keeps the session well typed.
LEMMA SetTokenConsumedType ==
    ASSUME sess \in [Requests -> Session], NEW r \in Requests, NEW n \in Nat,
           sess' = [sess EXCEPT ![r].tokenConsumed = n]
    PROVE  sess' \in [Requests -> Session]
  BY DEF Session

\* WalletFunding's assignments to "consumed" keep the session well typed.
LEMMA SetConsumedType ==
    ASSUME sess \in [Requests -> Session], NEW r \in Requests, NEW n \in Int,
           sess' = [sess EXCEPT ![r].consumed = n]
    PROVE  sess' \in [Requests -> Session]
  BY DEF Session

\* The three additions at the end of Reserve keep the session well typed.
LEMMA ReservedSessionType ==
    ASSUME sess \in [Requests -> Session], NEW r \in Requests, NEW n \in Nat, NEW b \in BOOLEAN,
           sess' = [sess EXCEPT ![r].preConsumedQuota = @ + n,
                                ![r].tokenConsumed = @ + n,
                                ![r].extraReserved = @ + n,
                                ![r].trusted = b]
    PROVE  sess' \in [Requests -> Session]
<1> DEFINE s == sess[r]
           t == [[[[s EXCEPT !.preConsumedQuota = @ + n] EXCEPT !.tokenConsumed = @ + n]
                     EXCEPT !.extraReserved = @ + n] EXCEPT !.trusted = b]
<1>1. s \in Session
  OBVIOUS
<1>2. /\ s.preConsumedQuota + n \in Nat /\ s.tokenConsumed + n \in Nat
      /\ s.extraReserved + n \in Nat
  BY <1>1 DEF Session
<1>3. t \in Session
  BY <1>1, <1>2 DEF Session
<1>4. sess' = [sess EXCEPT ![r] = t]
  OBVIOUS
<1> QED
  BY <1>3, <1>4

\* Every step of every action keeps all variables in their types.
LEMMA TypeStep == TypeOK /\ [Next]_vars => TypeOK'
<1> SUFFICES ASSUME TypeOK, [Next]_vars PROVE TypeOK'
  OBVIOUS
<1> USE ConstantsAssumption
<1>1. ASSUME NEW r \in Requests, Start(r) PROVE TypeOK'
  <2>1. pc' \in [Requests -> PCs]
    BY <1>1 DEF TypeOK, Start, PCs, GoTo, ChooseSource, OpenSession, RejectSession
  <2>2. sess' \in [Requests -> Session]
    <3>1. \E s \in Sources : sess' = [sess EXCEPT ![r] = NewSession(s)]
      BY <1>1 DEF Start, ChooseSource, OpenSession, RejectSession, Sources
    <3>2. QED
      BY <3>1, NewSessionType DEF TypeOK
  <2>3. req' \in [Requests -> Requested]
    BY <1>1 DEF TypeOK, Start, Requested, AllPrefs
  <2>4. quota' \in [Requests -> Nat]
    BY <1>1 DEF TypeOK, Start
  <2>5. fallback' \in [Requests -> Sources]
    BY <1>1 DEF TypeOK, Start, Sources, ChooseSource, OpenSession, RejectSession
  <2>6. outcome' \in [Requests -> Outcomes]
    BY <1>1 DEF TypeOK, Start, Outcomes, ChooseSource, OpenSession, RejectSession
  <2>7. QED
    BY <1>1, <2>1, <2>2, <2>3, <2>4, <2>5, <2>6 DEF TypeOK, Start, accounts
<1>2. ASSUME NEW r \in Requests, StartFree(r) PROVE TypeOK'
  <2>1. pc' \in [Requests -> PCs]
    BY <1>2 DEF TypeOK, StartFree, PCs, GoTo
  <2>2. req' \in [Requests -> Requested]
    BY <1>2 DEF TypeOK, StartFree, Requested, AllPrefs
  <2>3. QED
    BY <1>2, <2>1, <2>2 DEF TypeOK, StartFree, accounts
<1>3. ASSUME NEW r \in Requests, CheckWallet(r) PROVE TypeOK'
  <2>1. pc' \in [Requests -> PCs]
    BY <1>3 DEF TypeOK, CheckWallet, PCs, GoTo, Insufficient, OpenSession, RejectSession
  <2>2. sess' \in [Requests -> Session]
    <3>1. \/ \E s \in Sources : sess' = [sess EXCEPT ![r] = NewSession(s)]
          \/ sess' = [sess EXCEPT ![r].trusted = ShouldTrust(r)]
      BY <1>3, SessionFields DEF CheckWallet, Insufficient, OpenSession, RejectSession, Sources
    <3>2. CASE \E s \in Sources : sess' = [sess EXCEPT ![r] = NewSession(s)]
      BY <3>2, NewSessionType DEF TypeOK
    <3>3. CASE sess' = [sess EXCEPT ![r].trusted = ShouldTrust(r)]
      <4>1. ShouldTrust(r) \in BOOLEAN
        BY DEF ShouldTrust
      <4>2. QED
        BY <3>3, <4>1, SetTrustedType DEF TypeOK
    <3>4. QED
      BY <3>1, <3>2, <3>3
  <2>3. fallback' \in [Requests -> Sources]
    BY <1>3 DEF TypeOK, CheckWallet, Sources, Insufficient, OpenSession, RejectSession
  <2>4. outcome' \in [Requests -> Outcomes]
    BY <1>3 DEF TypeOK, CheckWallet, Outcomes, Insufficient, OpenSession, RejectSession
  <2>5. faults' \in Nat
    BY <1>3 DEF TypeOK, CheckWallet, Fault, NoFault
  <2>6. QED
    BY <1>3, <2>1, <2>2, <2>3, <2>4, <2>5 DEF TypeOK, CheckWallet, accounts
<1>4. ASSUME NEW r \in Requests, PreConsumeToken(r) PROVE TypeOK'
  <2>1. pc' \in [Requests -> PCs]
    BY <1>4 DEF TypeOK, PreConsumeToken, PCs, GoTo, RejectSession
  <2>2. sess' \in [Requests -> Session]
    <3>1. \/ sess' = [sess EXCEPT ![r] = NewSession("none")]
          \/ sess' = [sess EXCEPT ![r].tokenConsumed = Effective(r)]
      BY <1>4 DEF PreConsumeToken, RejectSession
    <3>2. CASE sess' = [sess EXCEPT ![r] = NewSession("none")]
      BY <3>2, NewSessionType DEF TypeOK, Sources
    <3>3. CASE sess' = [sess EXCEPT ![r].tokenConsumed = Effective(r)]
      <4>1. Effective(r) \in Nat
        BY SessionFields
      <4>2. QED
        BY <3>3, <4>1, SetTokenConsumedType DEF TypeOK
    <3>4. QED
      BY <3>1, <3>2, <3>3
  <2>3. fallback' \in [Requests -> Sources]
    BY <1>4 DEF TypeOK, PreConsumeToken, Sources, RejectSession
  <2>4. outcome' \in [Requests -> Outcomes]
    BY <1>4 DEF TypeOK, PreConsumeToken, Outcomes, RejectSession
  <2>5. held' \in [Requests -> Amounts]
    BY <1>4, HoldTokenType, SessionFields DEF TypeOK, PreConsumeToken
  <2>6. faults' \in Nat
    BY <1>4 DEF TypeOK, PreConsumeToken, Fault, NoFault
  <2>7. /\ wallet' \in Int /\ token' \in Int /\ subUsed' \in Nat
       /\ walletDebt' \in Nat /\ tokenDebt' \in Nat
    BY <1>4 DEF TypeOK, PreConsumeToken, TryReserveToken, Effective
  <2>8. QED
    BY <1>4, <2>1, <2>2, <2>3, <2>4, <2>5, <2>6, <2>7 DEF TypeOK, PreConsumeToken
<1>5. ASSUME NEW r \in Requests, PreConsumeFunding(r) PROVE TypeOK'
  <2>1. pc' \in [Requests -> PCs]
    BY <1>5 DEF TypeOK, PreConsumeFunding, PCs, GoTo
  <2>2. sess' \in [Requests -> Session]
    <3>1. \/ sess' = [sess EXCEPT ![r].consumed = Effective(r), ![r].preConsumedQuota = Effective(r)]
          \/ sess' = sess
      BY <1>5 DEF PreConsumeFunding
    <3>2. Effective(r) \in Nat
      BY SessionFields
    <3>3. QED
      BY <3>1, <3>2, PreConsumedType DEF TypeOK
  <2>3. fallback' \in [Requests -> Sources]
    BY <1>5 DEF TypeOK, PreConsumeFunding, Sources
  <2>4. held' \in [Requests -> Amounts]
    BY <1>5, HoldFundingType, SessionFields DEF TypeOK, PreConsumeFunding
  <2>5. faults' \in Nat
    BY <1>5 DEF TypeOK, PreConsumeFunding, Fault, NoFault
  <2>6. /\ wallet' \in Int /\ token' \in Int /\ subUsed' \in Nat
       /\ walletDebt' \in Nat /\ tokenDebt' \in Nat
    BY <1>5 DEF TypeOK, PreConsumeFunding, TryReserveWallet, Effective
  <2>7. QED
    BY <1>5, <2>1, <2>2, <2>3, <2>4, <2>5, <2>6 DEF TypeOK, PreConsumeFunding
<1>6. ASSUME NEW r \in Requests, UndoToken(r) PROVE TypeOK'
  <2>1. pc' \in [Requests -> PCs]
    BY <1>6 DEF TypeOK, UndoToken, PCs, GoTo, Insufficient, OpenSession, RejectSession
  <2>2. sess' \in [Requests -> Session]
    BY <1>6, NewSessionType, SMTT(20) DEF TypeOK, UndoToken, Session, Insufficient, OpenSession,
      RejectSession, Sources
  <2>3. fallback' \in [Requests -> Sources]
    BY <1>6 DEF TypeOK, UndoToken, Sources, Insufficient, OpenSession, RejectSession
  <2>4. outcome' \in [Requests -> Outcomes]
    BY <1>6 DEF TypeOK, UndoToken, Outcomes, Insufficient, OpenSession, RejectSession
  <2>5. held' \in [Requests -> Amounts]
    BY <1>6, HoldTokenType, SessionFields DEF TypeOK, UndoToken
  <2>6. leak' \in [Requests -> BOOLEAN]
    BY <1>6 DEF TypeOK, UndoToken
  <2>7. faults' \in Nat
    BY <1>6 DEF TypeOK, UndoToken, Fault, NoFault
  <2>8. /\ wallet' \in Int /\ token' \in Int /\ subUsed' \in Nat
       /\ walletDebt' \in Nat /\ tokenDebt' \in Nat
    BY <1>6 DEF TypeOK, UndoToken, Session
  <2>9. QED
    BY <1>6, <2>1, <2>2, <2>3, <2>4, <2>5, <2>6, <2>7, <2>8 DEF TypeOK, UndoToken
<1>7. ASSUME NEW r \in Requests, OpenInLoop(r) PROVE TypeOK'
  <2>1. pc' \in [Requests -> PCs]
    BY <1>7 DEF TypeOK, OpenInLoop, PCs, GoTo, ChooseSource, OpenSession, RejectSession
  <2>2. sess' \in [Requests -> Session]
    <3>1. \E s \in Sources : sess' = [sess EXCEPT ![r] = NewSession(s)]
      BY <1>7 DEF OpenInLoop, ChooseSource, OpenSession, RejectSession, Sources
    <3>2. QED
      BY <3>1, NewSessionType DEF TypeOK
  <2>3. quota' \in [Requests -> Nat]
    BY <1>7 DEF TypeOK, OpenInLoop
  <2>4. fallback' \in [Requests -> Sources]
    BY <1>7 DEF TypeOK, OpenInLoop, Sources, ChooseSource, OpenSession, RejectSession
  <2>5. outcome' \in [Requests -> Outcomes]
    BY <1>7 DEF TypeOK, OpenInLoop, Outcomes, ChooseSource, OpenSession, RejectSession
  <2>6. QED
    BY <1>7, <2>1, <2>2, <2>3, <2>4, <2>5 DEF TypeOK, OpenInLoop, accounts
<1>8. ASSUME NEW r \in Requests, Reserve(r) PROVE TypeOK'
  <2>1. pc' \in [Requests -> PCs]
    BY <1>8 DEF TypeOK, Reserve, PCs, GoTo
  <2>2. quota' \in [Requests -> Nat]
    BY <1>8 DEF TypeOK, Reserve, ReserveIgnored, Session
  <2>3. QED
    BY <1>8, <2>1, <2>2 DEF TypeOK, Reserve, accounts
<1>9. ASSUME NEW r \in Requests, ReserveFunding(r) PROVE TypeOK'
  <2>1. pc' \in [Requests -> PCs]
    BY <1>9 DEF TypeOK, ReserveFunding, PCs, GoTo
  <2>2. sess' \in [Requests -> Session]
    <3>1. ConsumedAfterReserve(r) \in Int
      BY SessionFields DEF ConsumedAfterReserve
    <3>2. QED
      BY <1>9, <3>1, SetConsumedType DEF TypeOK, ReserveFunding
  <2>3. held' \in [Requests -> Amounts]
    BY <1>9, HoldFundingType, SessionFields DEF TypeOK, ReserveFunding
  <2>4. faults' \in Nat
    BY <1>9 DEF TypeOK, ReserveFunding, Fault, NoFault
  <2>5. /\ wallet' \in Int /\ token' \in Int /\ subUsed' \in Nat
       /\ walletDebt' \in Nat /\ tokenDebt' \in Nat
    BY <1>9 DEF TypeOK, ReserveFunding, TryReserveWallet, DecreaseWallet,
      PostConsumeSubscription, Clamped
  <2>6. QED
    BY <1>9, <2>1, <2>2, <2>3, <2>4, <2>5 DEF TypeOK, ReserveFunding
<1>10. ASSUME NEW r \in Requests, ReserveToken(r) PROVE TypeOK'
  <2>1. pc' \in [Requests -> PCs]
    BY <1>10 DEF TypeOK, ReserveToken, PCs, GoTo
  <2>2. sess' \in [Requests -> Session]
    <3>1. (sess[r].trusted /\ ~req[r].image) \in BOOLEAN
      OBVIOUS
    <3>2. QED
      BY <1>10, <3>1, SessionFields, ReservedSessionType DEF TypeOK, ReserveToken
  <2>3. held' \in [Requests -> Amounts]
    BY <1>10, HoldTokenType, SessionFields DEF TypeOK, ReserveToken
  <2>4. faults' \in Nat
    BY <1>10 DEF TypeOK, ReserveToken, Fault, NoFault
  <2>5. /\ wallet' \in Int /\ token' \in Int /\ subUsed' \in Nat
       /\ walletDebt' \in Nat /\ tokenDebt' \in Nat
    BY <1>10 DEF TypeOK, ReserveToken, TryReserveToken
  <2>6. QED
    BY <1>10, <2>1, <2>2, <2>3, <2>4, <2>5 DEF TypeOK, ReserveToken
<1>11. ASSUME NEW r \in Requests, UndoFunding(r) PROVE TypeOK'
  <2>1. pc' \in [Requests -> PCs]
    BY <1>11 DEF TypeOK, UndoFunding, PCs, GoTo
  <2>2. sess' \in [Requests -> Session]
    <3>1. \/ sess' = [sess EXCEPT ![r].consumed = sess[r].consumed - quota[r]]
          \/ sess' = sess
      BY <1>11 DEF UndoFunding
    <3>2. sess[r].consumed - quota[r] \in Int
      BY SessionFields
    <3>3. QED
      BY <3>1, <3>2, SetConsumedType DEF TypeOK
  <2>3. held' \in [Requests -> Amounts]
    BY <1>11, HoldFundingType, SessionFields DEF TypeOK, UndoFunding
  <2>4. leak' \in [Requests -> BOOLEAN]
    BY <1>11 DEF TypeOK, UndoFunding
  <2>5. faults' \in Nat
    BY <1>11 DEF TypeOK, UndoFunding, Fault, NoFault
  <2>6. /\ wallet' \in Int /\ token' \in Int /\ subUsed' \in Nat
       /\ walletDebt' \in Nat /\ tokenDebt' \in Nat
    BY <1>11 DEF TypeOK, UndoFunding, PostConsumeSubscription, Clamped
  <2>7. QED
    BY <1>11, <2>1, <2>2, <2>3, <2>4, <2>5, <2>6 DEF TypeOK, UndoFunding
<1>12. ASSUME NEW r \in Requests, Respond(r) PROVE TypeOK'
  <2>1. pc' \in [Requests -> PCs]
    BY <1>12 DEF TypeOK, Respond, PCs, GoTo
  <2>2. attempt' \in [Requests -> Nat]
    BY <1>12 DEF TypeOK, Respond
  <2>3. actual' \in [Requests -> Nat]
    BY <1>12 DEF TypeOK, Respond
  <2>4. outcome' \in [Requests -> Outcomes]
    BY <1>12 DEF TypeOK, Respond, Outcomes
  <2>5. QED
    BY <1>12, <2>1, <2>2, <2>3, <2>4 DEF TypeOK, Respond, accounts
<1>13. ASSUME NEW r \in Requests, SettleFunding(r) PROVE TypeOK'
  <2>1. pc' \in [Requests -> PCs]
    BY <1>13 DEF TypeOK, SettleFunding, PCs, GoTo, Serve
  <2>2. sess' \in [Requests -> Session]
    BY <1>13, SetSettledType, SetFundingSettledType DEF TypeOK, SettleFunding
  <2>3. outcome' \in [Requests -> Outcomes]
    BY <1>13 DEF TypeOK, SettleFunding, Outcomes, Serve
  <2>4. held' \in [Requests -> Amounts]
    BY <1>13, HoldFundingType, SessionFields DEF TypeOK, SettleFunding
  <2>5. faults' \in Nat
    BY <1>13 DEF TypeOK, SettleFunding, Fault, NoFault
  <2>6. /\ wallet' \in Int /\ token' \in Int /\ subUsed' \in Nat
       /\ walletDebt' \in Nat /\ tokenDebt' \in Nat
    BY <1>13 DEF TypeOK, SettleFunding, AdjustWallet, DecreaseWallet, Delta, Session,
      PostConsumeSubscription, Clamped
  <2>7. QED
    BY <1>13, <2>1, <2>2, <2>3, <2>4, <2>5, <2>6 DEF TypeOK, SettleFunding
<1>14. ASSUME NEW r \in Requests, SettleToken(r) PROVE TypeOK'
  <2>1. pc' \in [Requests -> PCs]
    BY <1>14 DEF TypeOK, SettleToken, PCs, GoTo
  <2>2. sess' \in [Requests -> Session]
    BY <1>14, SetSettledType DEF TypeOK, SettleToken
  <2>3. held' \in [Requests -> Amounts]
    BY <1>14, HoldTokenType, SessionFields DEF TypeOK, SettleToken
  <2>4. leak' \in [Requests -> BOOLEAN]
    BY <1>14 DEF TypeOK, SettleToken
  <2>5. faults' \in Nat
    BY <1>14 DEF TypeOK, SettleToken, Fault, NoFault
  <2>6. /\ wallet' \in Int /\ token' \in Int /\ subUsed' \in Nat
       /\ walletDebt' \in Nat /\ tokenDebt' \in Nat
    BY <1>14 DEF TypeOK, SettleToken, AdjustToken, DecreaseToken, Delta, Session
  <2>7. QED
    BY <1>14, <2>1, <2>2, <2>3, <2>4, <2>5, <2>6 DEF TypeOK, SettleToken
<1>15. ASSUME NEW r \in Requests, Refund(r) PROVE TypeOK'
  <2>1. pc' \in [Requests -> PCs]
    BY <1>15 DEF TypeOK, Refund, PCs, GoTo
  <2>2. rpc' \in [Requests -> RefundPCs]
    BY <1>15 DEF TypeOK, Refund, RefundPCs
  <2>3. sess' \in [Requests -> Session]
    <3>1. (sess[r].refunded \/ NeedsRefund(r)) \in BOOLEAN
      OBVIOUS
    <3>2. QED
      BY <1>15, <3>1, SetRefundedType DEF TypeOK, Refund
  <2>4. outcome' \in [Requests -> Outcomes]
    BY <1>15 DEF TypeOK, Refund, Outcomes
  <2>5. QED
    BY <1>15, <2>1, <2>2, <2>3, <2>4 DEF TypeOK, Refund, accounts
<1>16. ASSUME NEW r \in Requests, RefundFunding(r) PROVE TypeOK'
  <2>1. rpc' \in [Requests -> RefundPCs]
    BY <1>16 DEF TypeOK, RefundFunding, RefundPCs
  <2>2. held' \in [Requests -> Amounts]
    BY <1>16, HoldFundingType, SessionFields DEF TypeOK, RefundFunding
  <2>3. leak' \in [Requests -> BOOLEAN]
    BY <1>16 DEF TypeOK, RefundFunding
  <2>4. faults' \in Nat
    BY <1>16 DEF TypeOK, RefundFunding, Fault, NoFault
  <2>5. /\ wallet' \in Int /\ token' \in Int /\ subUsed' \in Nat
       /\ walletDebt' \in Nat /\ tokenDebt' \in Nat
    BY <1>16 DEF TypeOK, RefundFunding, PostConsumeSubscription, Clamped, Session
  <2>6. QED
    BY <1>16, <2>1, <2>2, <2>3, <2>4, <2>5 DEF TypeOK, RefundFunding
<1>17. ASSUME NEW r \in Requests, RefundExtra(r) PROVE TypeOK'
  <2>1. rpc' \in [Requests -> RefundPCs]
    BY <1>17 DEF TypeOK, RefundExtra, RefundPCs
  <2>2. held' \in [Requests -> Amounts]
    BY <1>17, HoldFundingType, SessionFields DEF TypeOK, RefundExtra
  <2>3. leak' \in [Requests -> BOOLEAN]
    BY <1>17 DEF TypeOK, RefundExtra
  <2>4. faults' \in Nat
    BY <1>17 DEF TypeOK, RefundExtra, Fault, NoFault
  <2>5. /\ wallet' \in Int /\ token' \in Int /\ subUsed' \in Nat
       /\ walletDebt' \in Nat /\ tokenDebt' \in Nat
    BY <1>17 DEF TypeOK, RefundExtra, PostConsumeSubscription, Clamped, Session
  <2>6. QED
    BY <1>17, <2>1, <2>2, <2>3, <2>4, <2>5 DEF TypeOK, RefundExtra
<1>18. ASSUME NEW r \in Requests, RefundToken(r) PROVE TypeOK'
  <2>1. rpc' \in [Requests -> RefundPCs]
    BY <1>18 DEF TypeOK, RefundToken, RefundPCs
  <2>2. held' \in [Requests -> Amounts]
    BY <1>18, HoldTokenType, SessionFields DEF TypeOK, RefundToken
  <2>3. leak' \in [Requests -> BOOLEAN]
    BY <1>18 DEF TypeOK, RefundToken
  <2>4. faults' \in Nat
    BY <1>18 DEF TypeOK, RefundToken, Fault, NoFault
  <2>5. /\ wallet' \in Int /\ token' \in Int /\ subUsed' \in Nat
       /\ walletDebt' \in Nat /\ tokenDebt' \in Nat
    BY <1>18 DEF TypeOK, RefundToken, Session
  <2>6. QED
    BY <1>18, <2>1, <2>2, <2>3, <2>4, <2>5 DEF TypeOK, RefundToken
<1>19. ASSUME NEW r \in Requests, FeeFunding(r) PROVE TypeOK'
  <2>1. pc' \in [Requests -> PCs]
    BY <1>19 DEF TypeOK, FeeFunding, PCs, GoTo
  <2>2. fee' \in [Requests -> Amounts]
    BY <1>19, SMTT(20) DEF TypeOK, FeeFunding, Amounts
  <2>3. faults' \in Nat
    BY <1>19 DEF TypeOK, FeeFunding, Fault, NoFault
  <2>4. /\ wallet' \in Int /\ token' \in Int /\ subUsed' \in Nat
       /\ walletDebt' \in Nat /\ tokenDebt' \in Nat
    BY <1>19 DEF TypeOK, FeeFunding, DecreaseWallet, PostConsumeSubscription, Clamped
  <2>5. QED
    BY <1>19, <2>1, <2>2, <2>3, <2>4 DEF TypeOK, FeeFunding
<1>20. ASSUME NEW r \in Requests, FeeToken(r) PROVE TypeOK'
  <2>1. pc' \in [Requests -> PCs]
    BY <1>20 DEF TypeOK, FeeToken, PCs, GoTo
  <2>2. fee' \in [Requests -> Amounts]
    BY <1>20, SMTT(20) DEF TypeOK, FeeToken, Amounts
  <2>3. faults' \in Nat
    BY <1>20 DEF TypeOK, FeeToken, Fault, NoFault
  <2>4. /\ wallet' \in Int /\ token' \in Int /\ subUsed' \in Nat
       /\ walletDebt' \in Nat /\ tokenDebt' \in Nat
    BY <1>20 DEF TypeOK, FeeToken, DecreaseToken
  <2>5. QED
    BY <1>20, <2>1, <2>2, <2>3, <2>4 DEF TypeOK, FeeToken
<1>21. CASE UNCHANGED vars
  BY <1>21 DEF vars, TypeOK
<1>22. QED
  BY <1>1, <1>2, <1>3, <1>4, <1>5, <1>6, <1>7, <1>8, <1>9, <1>10, <1>11, <1>12, <1>13,
    <1>14, <1>15, <1>16, <1>17, <1>18, <1>19, <1>20, <1>21 DEF Next, RequestStep, RefundStep
\* The initial state is well typed.
LEMMA TypeInit == Init => TypeOK
<1> SUFFICES ASSUME Init PROVE TypeOK
  OBVIOUS
<1>1. sess \in [Requests -> Session]
  BY NewSessionType DEF Init, Sources
<1>2. req \in [Requests -> Requested]
  BY DEF Init, Requested, AllPrefs
<1>3. QED
  BY <1>1, <1>2, ConstantsAssumption DEF Init, TypeOK, PCs, RefundPCs, Sources, Outcomes,
    Amounts, Nothing

\* Every variable keeps its type, for every instance of the constants.
THEOREM TypeCorrect == Spec => []TypeOK
  BY TypeInit, TypeStep, PTL DEF Spec

\* TryReserveUserQuota and TryReserveTokenQuota check before they take, so only
\* the unchecked decreases of Settle, reserveFunding and the fee lower a bound.
LEMMA OverdrawStep ==
    TypeOK /\ ReservationsNeverOverdraw /\ [Next]_vars => ReservationsNeverOverdraw'
<1> SUFFICES ASSUME TypeOK, ReservationsNeverOverdraw, [Next]_vars
             PROVE  ReservationsNeverOverdraw'
  OBVIOUS
<1> USE ConstantsAssumption DEF TypeOK, ReservationsNeverOverdraw
<1>1. ASSUME NEW r \in Requests, PreConsumeToken(r) PROVE ReservationsNeverOverdraw'
  BY <1>1, SessionFields DEF PreConsumeToken, TryReserveToken
<1>2. ASSUME NEW r \in Requests, PreConsumeFunding(r) PROVE ReservationsNeverOverdraw'
  BY <1>2, SessionFields DEF PreConsumeFunding, TryReserveWallet
<1>3. ASSUME NEW r \in Requests, ReserveFunding(r) PROVE ReservationsNeverOverdraw'
  BY <1>3, SessionFields DEF ReserveFunding, TryReserveWallet, DecreaseWallet
<1>4. ASSUME NEW r \in Requests, ReserveToken(r) PROVE ReservationsNeverOverdraw'
  BY <1>4, SessionFields DEF ReserveToken, TryReserveToken
<1>5. ASSUME NEW r \in Requests, SettleFunding(r) PROVE ReservationsNeverOverdraw'
  BY <1>5, SessionFields DEF SettleFunding, AdjustWallet, DecreaseWallet
<1>6. ASSUME NEW r \in Requests, SettleToken(r) PROVE ReservationsNeverOverdraw'
  BY <1>6, SessionFields DEF SettleToken, AdjustToken, DecreaseToken
<1>7. ASSUME NEW r \in Requests, FeeFunding(r) PROVE ReservationsNeverOverdraw'
  BY <1>7, SessionFields DEF FeeFunding, DecreaseWallet
<1>8. ASSUME NEW r \in Requests, FeeToken(r) PROVE ReservationsNeverOverdraw'
  BY <1>8, SessionFields DEF FeeToken, DecreaseToken
<1>9. ASSUME NEW r \in Requests, UndoToken(r) PROVE ReservationsNeverOverdraw'
  BY <1>9, SessionFields DEF UndoToken
<1>10. ASSUME NEW r \in Requests, UndoFunding(r) PROVE ReservationsNeverOverdraw'
  BY <1>10, SessionFields DEF UndoFunding
<1>11. ASSUME NEW r \in Requests, RefundFunding(r) PROVE ReservationsNeverOverdraw'
  BY <1>11, SessionFields DEF RefundFunding
<1>12. ASSUME NEW r \in Requests, RefundToken(r) PROVE ReservationsNeverOverdraw'
  BY <1>12, SessionFields DEF RefundToken
<1>13. CASE UNCHANGED <<wallet, token, walletDebt, tokenDebt>>
  BY <1>13
<1>14. QED
  BY <1>1, <1>2, <1>3, <1>4, <1>5, <1>6, <1>7, <1>8, <1>9, <1>10, <1>11, <1>12, <1>13 DEF
    Next, RequestStep, RefundStep, vars, accounts, Start, StartFree, CheckWallet,
    OpenInLoop, Reserve, Respond, Refund, RefundExtra

\* However many requests reserve at once, no reservation takes quota that is not
\* there (TryReserveUserQuota, TryReserveTokenQuota).
THEOREM NoOverdraw == Spec => []ReservationsNeverOverdraw
<1>1. Init => ReservationsNeverOverdraw
  BY ConstantsAssumption DEF Init, ReservationsNeverOverdraw
<1> QED
  BY <1>1, TypeInit, TypeStep, OverdrawStep, PTL DEF Spec

(***************************************************************************)
(* The ledger: at every label the session accounts for what is held.       *)
(***************************************************************************)

\* The step leaves everything the ledger of q reads as it is.
Same(q) ==
    /\ pc'[q] = pc[q] /\ rpc'[q] = rpc[q] /\ req'[q] = req[q] /\ sess'[q] = sess[q]
    /\ quota'[q] = quota[q] /\ actual'[q] = actual[q] /\ outcome'[q] = outcome[q]
    /\ held'[q] = held[q] /\ leak'[q] = leak[q]

\* The session's amounts and its funding source stay as they are.
SameAmounts(r) ==
    /\ sess'[r].funding = sess[r].funding
    /\ sess'[r].preConsumedQuota = sess[r].preConsumedQuota
    /\ sess'[r].tokenConsumed = sess[r].tokenConsumed
    /\ sess'[r].extraReserved = sess[r].extraReserved
    /\ sess'[r].consumed = sess[r].consumed

SameFlags(r) ==
    /\ sess'[r].fundingSettled = sess[r].fundingSettled
    /\ sess'[r].settled = sess[r].settled
    /\ sess'[r].refunded = sess[r].refunded

\* The request holds nothing, or a compensation failed.
HoldsNothing(r) == leak[r] \/ Holds(r, 0, 0)

\* Nothing of the request is settled, served or refunded yet.
Undecided(r) == outcome[r] = "none" /\ rpc[r] = "none"

\* The ledger of a request reads only that request's variables.
LEMMA LedgerFrame ==
    ASSUME NEW q \in Requests, LedgerOK(q), Same(q)
    PROVE  LedgerOK(q)'
  BY DEF Same, LedgerOK, SessionShape, PreConsuming, Reserving, Settling, Refunding, Unopened,
    Balanced, Holds, Refundable, WalletImage, TokenShare, Effective

\* Opening a session on a source (NewBillingSession) keeps the ledger.
LEMMA LedgerOpen ==
    ASSUME TypeOK, NEW r \in Requests, Undecided(r), rpc' = rpc, HoldsNothing(r)',
           NEW s \in {"wallet", "subscription"}, NEW second, OpenSession(r, s, second)
    PROVE  LedgerOK(r)'
<1>1. Undecided(r)'
  BY DEF Undecided, OpenSession
<1>2. pc'[r] \in {"checkWallet", "preToken"} /\ (pc'[r] = "checkWallet" => s = "wallet")
  BY DEF OpenSession, GoTo, TypeOK
<1>3. sess'[r] = NewSession(s)
  BY DEF OpenSession, TypeOK
<1>4. SessionShape(r)'
  BY <1>1, <1>2, <1>3 DEF SessionShape, NewSession, Undecided
<1>5. leak'[r] \/ Unopened(r)'
  BY <1>3 DEF Unopened, NewSession, HoldsNothing
<1> QED
  BY <1>1, <1>2, <1>4, <1>5 DEF LedgerOK, PreConsuming, Reserving, Settling, Refunding, Undecided

\* Dropping the session after an error of NewBillingSession keeps the ledger.
LEMMA LedgerReject ==
    ASSUME TypeOK, NEW r \in Requests, Undecided(r), rpc' = rpc, HoldsNothing(r)',
           RejectSession(r)
    PROVE  LedgerOK(r)'
<1>1. pc'[r] = "done" /\ outcome'[r] = "rejected" /\ rpc'[r] = "none"
  BY DEF RejectSession, GoTo, TypeOK, Undecided
<1>2. sess'[r] = NewSession("none")
  BY DEF RejectSession, TypeOK
<1>3. SessionShape(r)'
  BY <1>1, <1>2 DEF SessionShape, NewSession
<1> QED
  BY <1>1, <1>3 DEF LedgerOK, PreConsuming, Reserving, Settling, Refunding, HoldsNothing

\* The preference switch of NewBillingSession keeps the ledger.
LEMMA LedgerChoose ==
    ASSUME TypeOK, NEW r \in Requests, Undecided(r), rpc' = rpc, HoldsNothing(r)',
           NEW p, ChooseSource(r, p)
    PROVE  LedgerOK(r)'
<1>1. \/ \E s \in {"wallet", "subscription"}, t \in Sources : OpenSession(r, s, t)
      \/ RejectSession(r)
  BY DEF ChooseSource, Sources
<1> QED
  BY <1>1, LedgerOpen, LedgerReject

\* The fallback of NewBillingSession after "insufficient" keeps the ledger.
LEMMA LedgerInsufficient ==
    ASSUME TypeOK, NEW r \in Requests, Undecided(r), rpc' = rpc, HoldsNothing(r)',
           Insufficient(r)
    PROVE  LedgerOK(r)'
<1>1. \/ \E s \in {"wallet", "subscription"} : OpenSession(r, s, "none")
      \/ RejectSession(r)
  BY DEF Insufficient, Sources, TypeOK
<1> QED
  BY <1>1, LedgerOpen, LedgerReject

\* Before settlement and refund no flag of the session is set.
LEMMA NotYetDecided ==
    ASSUME NEW r \in Requests, LedgerOK(r),
           pc[r] \notin {"settleToken", "feeFunding", "feeToken", "done"}
    PROVE  Undecided(r) /\ ~sess[r].settled /\ ~sess[r].fundingSettled /\ ~sess[r].refunded
  BY DEF LedgerOK, SessionShape, Undecided

\* Nothing is held before preConsume and by a request without a session.
LEMMA NothingTaken ==
    ASSUME NEW r \in Requests, LedgerOK(r),
           \/ pc[r] \in {"idle", "checkWallet", "preToken"}
           \/ pc[r] = "ready" /\ sess[r].funding = "none"
    PROVE  HoldsNothing(r)
  BY DEF LedgerOK, SessionShape, PreConsuming, Reserving, Unopened, Balanced, Holds, TokenShare,
    HoldsNothing

\* PreConsumeBilling at the start of a request keeps the ledger.
LEMMA LedgerStart ==
    ASSUME TypeOK, NEW r \in Requests, LedgerOK(r), Start(r)
    PROVE  LedgerOK(r)'
<1>1. Undecided(r) /\ HoldsNothing(r)
  BY NotYetDecided, NothingTaken DEF Start
<1>2. HoldsNothing(r)' /\ rpc' = rpc
  BY <1>1 DEF HoldsNothing, Holds, Start
<1>3. \E p \in Prefs : ChooseSource(r, p)
  BY DEF Start
<1> QED
  BY <1>1, <1>2, <1>3, LedgerChoose

\* PreConsumeBilling inside the retry loop keeps the ledger.
LEMMA LedgerOpenInLoop ==
    ASSUME TypeOK, NEW r \in Requests, LedgerOK(r), OpenInLoop(r)
    PROVE  LedgerOK(r)'
<1>1. Undecided(r) /\ HoldsNothing(r)
  BY NotYetDecided, NothingTaken DEF OpenInLoop
<1>2. HoldsNothing(r)' /\ rpc' = rpc
  BY <1>1 DEF HoldsNothing, Holds, OpenInLoop
<1> QED
  BY <1>1, <1>2, LedgerChoose DEF OpenInLoop

\* A free model starts without a session and keeps the ledger.
LEMMA LedgerStartFree ==
    ASSUME TypeOK, NEW r \in Requests, LedgerOK(r), StartFree(r)
    PROVE  LedgerOK(r)'
<1>1. pc[r] = "idle" /\ pc'[r] = "ready" /\ UNCHANGED <<rpc, sess, quota, actual, outcome, held, leak>>
  BY DEF StartFree, GoTo, TypeOK
<1>2. SessionShape(r)'
  BY <1>1 DEF LedgerOK, SessionShape
<1>3. leak'[r] \/ Balanced(r, 0)'
  BY <1>1, SessionFields DEF LedgerOK, PreConsuming, Unopened, Balanced, Holds, Refundable, TokenShare
<1> QED
  BY <1>1, <1>2, <1>3 DEF LedgerOK, SessionShape, PreConsuming, Reserving, Settling, Refunding

\* tryWallet's balance check and trust bypass keep the ledger.
LEMMA LedgerCheckWallet ==
    ASSUME TypeOK, NEW r \in Requests, LedgerOK(r), CheckWallet(r)
    PROVE  LedgerOK(r)'
<1>1. Undecided(r) /\ HoldsNothing(r) /\ pc[r] = "checkWallet"
  BY NotYetDecided, NothingTaken DEF CheckWallet
<1>2. HoldsNothing(r)' /\ UNCHANGED <<rpc, held, leak, req>>
  BY <1>1 DEF HoldsNothing, Holds, CheckWallet
<1>3. CASE Insufficient(r)
  BY <1>1, <1>2, <1>3, LedgerInsufficient
<1>4. CASE RejectSession(r)
  BY <1>1, <1>2, <1>4, LedgerReject
<1>5. CASE /\ sess' = [sess EXCEPT ![r].trusted = ShouldTrust(r)]
           /\ GoTo(r, IF ShouldTrust(r) \/ quota[r] = 0 THEN "ready" ELSE "preToken")
           /\ UNCHANGED outcome
  <2>1. SameAmounts(r) /\ SameFlags(r)
    BY <1>5 DEF SameAmounts, SameFlags, TypeOK, Session
  <2>2. pc'[r] \in {"ready", "preToken"}
    BY <1>5 DEF GoTo, TypeOK
  <2>3. sess[r].funding = "wallet" /\ (leak[r] \/ Unopened(r))
    BY <1>1 DEF LedgerOK, SessionShape, PreConsuming
  <2>4. SessionShape(r)'
    BY <1>1, <1>2, <1>5, <2>1, <2>2, <2>3 DEF LedgerOK, SessionShape, SameAmounts, SameFlags
  <2>5. leak'[r] \/ Unopened(r)'
    BY <1>2, <2>1, <2>3 DEF Unopened, Holds, SameAmounts
  <2>6. leak'[r] \/ Balanced(r, 0)'
    BY <2>5 DEF Unopened, Holds, Balanced, Refundable, TokenShare
  <2> QED
    BY <1>1, <1>2, <1>5, <2>2, <2>4, <2>5, <2>6
    DEF LedgerOK, PreConsuming, Reserving, Settling, Refunding, Undecided
<1> QED
  BY <1>3, <1>4, <1>5 DEF CheckWallet

\* preConsume's token half keeps the ledger.
LEMMA LedgerPreConsumeToken ==
    ASSUME TypeOK, NEW r \in Requests, LedgerOK(r), PreConsumeToken(r)
    PROVE  LedgerOK(r)'
<1>1. Undecided(r) /\ HoldsNothing(r) /\ pc[r] = "preToken" /\ sess[r].funding # "none"
  BY NotYetDecided, NothingTaken DEF PreConsumeToken, LedgerOK, SessionShape
<1>2. UNCHANGED <<rpc, leak, req, quota>>
  BY DEF PreConsumeToken
<1>3. CASE RejectSession(r) /\ UNCHANGED held
  BY <1>1, <1>2, <1>3, LedgerReject DEF HoldsNothing, Holds
<1>4. CASE /\ sess' = [sess EXCEPT ![r].tokenConsumed = Effective(r)]
           /\ IF req[r].playground THEN UNCHANGED held ELSE HoldToken(r, Effective(r))
           /\ GoTo(r, "preFunding")
           /\ UNCHANGED outcome
  <2>1. /\ sess'[r].tokenConsumed = Effective(r)
        /\ sess'[r].funding = sess[r].funding
        /\ sess'[r].preConsumedQuota = sess[r].preConsumedQuota
        /\ sess'[r].extraReserved = sess[r].extraReserved
        /\ sess'[r].consumed = sess[r].consumed
        /\ SameFlags(r)
    BY <1>4 DEF SameFlags, TypeOK, Session
  <2>2. pc'[r] = "preFunding"
    BY <1>4 DEF GoTo, TypeOK
  <2>3. Effective(r) \in Nat
    BY SessionFields
  <2>4. SessionShape(r)'
    BY <1>1, <1>2, <1>4, <2>1, <2>2, <2>3 DEF LedgerOK, SessionShape, SameFlags
  <2>5. leak[r] \/ Unopened(r)
    BY <1>1 DEF LedgerOK, PreConsuming
  <2>6. leak'[r] \/ Holds(r, 0, TokenShare(r, sess[r].tokenConsumed))'
    <3>1. CASE req[r].playground
      BY <1>2, <1>4, <2>5, <3>1 DEF Unopened, Holds, TokenShare
    <3>2. CASE ~req[r].playground
      <4>1. held'[r].funding = held[r].funding /\ held'[r].token = held[r].token + Effective(r)
        BY <1>4, <2>3, <3>2, HoldTokenType DEF TypeOK
      <4> QED
        BY <1>2, <2>1, <2>3, <2>5, <3>2, <4>1 DEF Unopened, Holds, TokenShare
    <3> QED
      BY <3>1, <3>2
  <2>7. sess'[r].tokenConsumed = Effective(r)'
    <3>1. quota'[r] = quota[r]
      BY <1>2
    <3> QED
      BY <2>1, <3>1 DEF Effective
  <2> QED
    BY <1>1, <1>2, <1>4, <2>1, <2>2, <2>4, <2>5, <2>6, <2>7
    DEF LedgerOK, PreConsuming, Reserving, Settling, Refunding, Undecided, Unopened
<1> QED
  BY <1>3, <1>4 DEF PreConsumeToken

\* preConsume's funding half keeps the ledger.
LEMMA LedgerPreConsumeFunding ==
    ASSUME TypeOK, NEW r \in Requests, LedgerOK(r), PreConsumeFunding(r)
    PROVE  LedgerOK(r)'
<1>1. Undecided(r) /\ pc[r] = "preFunding" /\ sess[r].funding # "none"
  BY NotYetDecided DEF PreConsumeFunding, LedgerOK, SessionShape
<1>2. UNCHANGED <<rpc, leak, req, quota, outcome>>
  BY DEF PreConsumeFunding
<1>3. leak[r] \/ /\ sess[r].extraReserved = 0 /\ sess[r].preConsumedQuota = 0
                 /\ sess[r].consumed = 0 /\ sess[r].tokenConsumed = Effective(r)
                 /\ Holds(r, 0, TokenShare(r, sess[r].tokenConsumed))
  BY <1>1 DEF LedgerOK, PreConsuming
<1>4. CASE GoTo(r, "undoToken") /\ UNCHANGED <<sess, held>>
  <2>1. pc'[r] = "undoToken"
    BY <1>4 DEF GoTo, TypeOK
  <2>2. SessionShape(r)'
    BY <1>1, <1>2, <1>4, <2>1 DEF LedgerOK, SessionShape
  <2> QED
    BY <1>1, <1>2, <1>3, <1>4, <2>1, <2>2
    DEF LedgerOK, PreConsuming, Reserving, Settling, Refunding, Undecided, Holds, TokenShare
<1>5. CASE /\ sess' = [sess EXCEPT ![r].consumed = Effective(r), ![r].preConsumedQuota = Effective(r)]
           /\ HoldFunding(r, Effective(r))
           /\ GoTo(r, "ready")
  <2>1. /\ sess'[r].consumed = Effective(r)
        /\ sess'[r].preConsumedQuota = Effective(r)
        /\ sess'[r].funding = sess[r].funding
        /\ sess'[r].tokenConsumed = sess[r].tokenConsumed
        /\ sess'[r].extraReserved = sess[r].extraReserved
        /\ SameFlags(r)
    BY <1>5 DEF SameFlags, TypeOK, Session
  <2>2. pc'[r] = "ready"
    BY <1>5 DEF GoTo, TypeOK
  <2>3. Effective(r) \in Nat
    BY SessionFields
  <2>4. SessionShape(r)'
    BY <1>1, <1>2, <2>1, <2>2, <2>3 DEF LedgerOK, SessionShape, SameFlags
  <2>5. /\ held'[r].funding = held[r].funding + Effective(r)
        /\ held'[r].token = held[r].token
    BY <1>5, <2>3, HoldFundingType DEF TypeOK
  <2>6. leak'[r] \/ Balanced(r, 0)'
    BY <1>2, <1>3, <2>1, <2>3, <2>5 DEF Balanced, Holds, Refundable, TokenShare
  <2> QED
    BY <1>1, <1>2, <2>2, <2>4, <2>6
    DEF LedgerOK, PreConsuming, Reserving, Settling, Refunding, Undecided
<1> QED
  BY <1>4, <1>5 DEF PreConsumeFunding

\* preConsume's rollback of the token keeps the ledger.
LEMMA LedgerUndoToken ==
    ASSUME TypeOK, NEW r \in Requests, LedgerOK(r), UndoToken(r)
    PROVE  LedgerOK(r)'
<1> DEFINE n == TokenShare(r, sess[r].tokenConsumed)
<1>1. Undecided(r) /\ rpc' = rpc /\ pc[r] = "undoToken"
  BY NotYetDecided DEF UndoToken
<1>2. leak[r] \/ Holds(r, 0, n)
  BY <1>1 DEF LedgerOK, PreConsuming
<1>3. n \in Int
  BY SessionFields DEF TokenShare
<1>4. CASE HoldToken(r, -n) /\ UNCHANGED leak
  <2>1. HoldsNothing(r)'
    BY <1>2, <1>3, <1>4, HoldTokenType, SessionFields DEF Holds, HoldsNothing, TypeOK
  <2> QED
    BY <1>1, <2>1, LedgerInsufficient DEF UndoToken
<1>5. CASE leak' = [leak EXCEPT ![r] = TRUE]
  <2>1. HoldsNothing(r)'
    BY <1>5 DEF HoldsNothing, TypeOK
  <2> QED
    BY <1>1, <2>1, LedgerInsufficient DEF UndoToken
<1> QED
  BY <1>4, <1>5 DEF UndoToken, TokenShare

\* Reserve's early returns and its computed delta keep the ledger.
LEMMA LedgerReserve ==
    ASSUME TypeOK, NEW r \in Requests, LedgerOK(r), Reserve(r)
    PROVE  LedgerOK(r)'
<1>1. Undecided(r) /\ pc[r] = "ready" /\ UNCHANGED <<rpc, req, sess, actual, outcome, held, leak>>
  BY NotYetDecided DEF Reserve
<1>2. \/ pc'[r] = "sent"
      \/ pc'[r] = "reserveFunding" /\ sess[r].funding # "none"
  BY DEF Reserve, ReserveIgnored, GoTo, TypeOK
<1>3. SessionShape(r)'
  BY <1>1, <1>2 DEF LedgerOK, SessionShape, Undecided
<1>4. leak'[r] \/ Balanced(r, 0)'
  BY <1>1 DEF LedgerOK, Reserving, Balanced, Holds, Refundable, TokenShare, WalletImage
<1> QED
  BY <1>1, <1>2, <1>3, <1>4
  DEF LedgerOK, PreConsuming, Reserving, Settling, Refunding, Undecided

\* reserveFunding keeps the ledger.
LEMMA LedgerReserveFunding ==
    ASSUME TypeOK, NEW r \in Requests, LedgerOK(r), ReserveFunding(r)
    PROVE  LedgerOK(r)'
<1>1. Undecided(r) /\ pc[r] = "reserveFunding" /\ sess[r].funding # "none"
  BY NotYetDecided DEF ReserveFunding, LedgerOK, SessionShape
<1>2. UNCHANGED <<rpc, leak, req, quota, outcome>>
  BY DEF ReserveFunding
<1>3. leak[r] \/ Balanced(r, 0)
  BY <1>1 DEF LedgerOK, Reserving
<1>4. CASE GoTo(r, "failed") /\ UNCHANGED <<sess, held>>
  <2>1. pc'[r] = "failed"
    BY <1>4 DEF GoTo, TypeOK
  <2>2. SessionShape(r)'
    BY <1>1, <1>2, <1>4, <2>1 DEF LedgerOK, SessionShape
  <2>3. leak'[r] \/ Balanced(r, 0)'
    BY <1>2, <1>3, <1>4 DEF Balanced, Holds, Refundable, TokenShare, WalletImage
  <2> QED
    BY <1>1, <1>2, <2>1, <2>2, <2>3
    DEF LedgerOK, PreConsuming, Reserving, Settling, Refunding, Undecided
<1>5. CASE /\ sess' = [sess EXCEPT ![r].consumed = ConsumedAfterReserve(r)]
           /\ HoldFunding(r, quota[r])
           /\ GoTo(r, "reserveToken")
  <2>1. /\ sess'[r].consumed = ConsumedAfterReserve(r)
        /\ sess'[r].preConsumedQuota = sess[r].preConsumedQuota
        /\ sess'[r].funding = sess[r].funding
        /\ sess'[r].tokenConsumed = sess[r].tokenConsumed
        /\ sess'[r].extraReserved = sess[r].extraReserved
        /\ SameFlags(r)
    BY <1>5 DEF SameFlags, TypeOK, Session
  <2>2. pc'[r] = "reserveToken"
    BY <1>5 DEF GoTo, TypeOK
  <2>3. SessionShape(r)'
    BY <1>1, <1>2, <2>1, <2>2 DEF LedgerOK, SessionShape, SameFlags
  <2>4. /\ held'[r].funding = held[r].funding + quota[r]
        /\ held'[r].token = held[r].token
        /\ req'[r] = req[r] /\ quota'[r] = quota[r]
    BY <1>2, <1>5, HoldFundingType, SessionFields DEF TypeOK
  <2>5. WalletImage(r) \/ ConsumedAfterReserve(r) = sess[r].consumed
                                + (IF sess[r].funding = "wallet" THEN quota[r] ELSE 0)
    BY SessionFields DEF ConsumedAfterReserve, WalletImage
  <2>6. leak'[r] \/ Balanced(r, quota[r])'
    BY <1>2, <1>3, <2>1, <2>4, <2>5, SessionFields
    DEF Balanced, Holds, Refundable, TokenShare, WalletImage
  <2> QED
    BY <1>1, <1>2, <2>2, <2>3, <2>6
    DEF LedgerOK, PreConsuming, Reserving, Settling, Refunding, Undecided
<1> QED
  BY <1>4, <1>5 DEF ReserveFunding

\* reserveToken and the additions after it keep the ledger.
LEMMA LedgerReserveToken ==
    ASSUME TypeOK, NEW r \in Requests, LedgerOK(r), ReserveToken(r)
    PROVE  LedgerOK(r)'
<1>1. Undecided(r) /\ pc[r] = "reserveToken" /\ sess[r].funding # "none"
  BY NotYetDecided DEF ReserveToken, LedgerOK, SessionShape
<1>2. UNCHANGED <<rpc, leak, req, quota, outcome>>
  BY DEF ReserveToken
<1>3. leak[r] \/ Balanced(r, quota[r])
  BY <1>1 DEF LedgerOK, Reserving
<1>4. CASE GoTo(r, "undoFunding") /\ UNCHANGED <<sess, held>>
  <2>1. pc'[r] = "undoFunding"
    BY <1>4 DEF GoTo, TypeOK
  <2>2. SessionShape(r)'
    BY <1>1, <1>2, <1>4, <2>1 DEF LedgerOK, SessionShape
  <2>3. leak'[r] \/ Balanced(r, quota[r])'
    BY <1>2, <1>3, <1>4 DEF Balanced, Holds, Refundable, TokenShare, WalletImage
  <2> QED
    BY <1>1, <1>2, <2>1, <2>2, <2>3
    DEF LedgerOK, PreConsuming, Reserving, Settling, Refunding, Undecided
<1>5. CASE /\ sess' = [sess EXCEPT ![r].preConsumedQuota = @ + quota[r],
                                   ![r].tokenConsumed = @ + quota[r],
                                   ![r].extraReserved = @ + quota[r],
                                   ![r].trusted = @ /\ ~req[r].image]
           /\ IF req[r].playground THEN UNCHANGED held ELSE HoldToken(r, quota[r])
           /\ GoTo(r, "sent")
  <2>1. /\ sess'[r].preConsumedQuota = sess[r].preConsumedQuota + quota[r]
        /\ sess'[r].tokenConsumed = sess[r].tokenConsumed + quota[r]
        /\ sess'[r].extraReserved = sess[r].extraReserved + quota[r]
        /\ sess'[r].consumed = sess[r].consumed
        /\ sess'[r].funding = sess[r].funding
        /\ SameFlags(r)
    BY <1>5, SessionFields DEF SameFlags, TypeOK, Session
  <2>2. pc'[r] = "sent"
    BY <1>5 DEF GoTo, TypeOK
  <2>3. SessionShape(r)'
    BY <1>1, <1>2, <2>1, <2>2, SessionFields DEF LedgerOK, SessionShape, SameFlags
  <2>4. /\ held'[r].funding = held[r].funding
        /\ held'[r].token = held[r].token + TokenShare(r, quota[r])
    <3>1. CASE req[r].playground
      BY <1>5, <3>1, SessionFields DEF TokenShare
    <3>2. CASE ~req[r].playground
      BY <1>5, <3>2, HoldTokenType, SessionFields DEF TypeOK, TokenShare
    <3> QED
      BY <3>1, <3>2
  <2>5. req'[r] = req[r]
    BY <1>2
  <2>6. leak[r] \/ Refundable(r)' = sess[r].preConsumedQuota + quota[r] \/ WalletImage(r)
    BY <1>1, <1>3, <2>1, SessionFields DEF Balanced, Refundable, Sources
  <2>7. leak'[r] \/ Holds(r, sess[r].preConsumedQuota, TokenShare(r, sess[r].tokenConsumed))'
    BY <1>2, <1>3, <2>1, <2>4, <2>5, SessionFields DEF Balanced, Holds, TokenShare
  <2>8. leak'[r] \/ Balanced(r, 0)'
    BY <1>2, <1>3, <2>1, <2>5, <2>6, <2>7, SessionFields DEF Balanced, WalletImage, Holds
  <2> QED
    BY <1>1, <1>2, <2>2, <2>3, <2>8
    DEF LedgerOK, PreConsuming, Reserving, Settling, Refunding, Undecided
<1> QED
  BY <1>4, <1>5 DEF ReserveToken

\* rollbackFundingReserve keeps the ledger.
LEMMA LedgerUndoFunding ==
    ASSUME TypeOK, NEW r \in Requests, LedgerOK(r), UndoFunding(r)
    PROVE  LedgerOK(r)'
<1>1. Undecided(r) /\ pc[r] = "undoFunding" /\ sess[r].funding # "none"
  BY NotYetDecided DEF UndoFunding, LedgerOK, SessionShape
<1>2. UNCHANGED <<rpc, req, quota, outcome>> /\ pc'[r] = "failed"
  BY DEF UndoFunding, GoTo, TypeOK
<1>3. leak[r] \/ Balanced(r, quota[r])
  BY <1>1 DEF LedgerOK, Reserving
<1>4. CASE leak' = [leak EXCEPT ![r] = TRUE] /\ UNCHANGED <<sess, held>>
  <2>1. leak'[r]
    BY <1>4 DEF TypeOK
  <2>2. SessionShape(r)'
    BY <1>1, <1>2, <1>4 DEF LedgerOK, SessionShape
  <2> QED
    BY <2>1, <2>2 DEF LedgerOK
<1>5. CASE /\ \/ sess[r].funding = "wallet" /\ sess' = [sess EXCEPT ![r].consumed = @ - quota[r]]
              \/ sess[r].funding = "subscription" /\ UNCHANGED sess
           /\ HoldFunding(r, -quota[r])
           /\ UNCHANGED leak
  <2>1. /\ sess'[r].consumed = sess[r].consumed
                                - (IF sess[r].funding = "wallet" THEN quota[r] ELSE 0)
        /\ sess'[r].preConsumedQuota = sess[r].preConsumedQuota
        /\ sess'[r].funding = sess[r].funding
        /\ sess'[r].tokenConsumed = sess[r].tokenConsumed
        /\ sess'[r].extraReserved = sess[r].extraReserved
        /\ SameFlags(r)
    BY <1>5, SessionFields DEF SameFlags, TypeOK, Session
  <2>2. SessionShape(r)'
    BY <1>1, <1>2, <2>1 DEF LedgerOK, SessionShape, SameFlags
  <2>3. /\ held'[r].funding = held[r].funding - quota[r]
        /\ held'[r].token = held[r].token
        /\ req'[r] = req[r]
    <3>1. -quota[r] \in Int
      BY SessionFields
    <3> QED
      BY <1>2, <1>5, <3>1, HoldFundingType, SessionFields DEF TypeOK
  <2>4. leak'[r] \/ Balanced(r, 0)'
    BY <1>3, <1>5, <2>1, <2>3, SessionFields
    DEF Balanced, Holds, Refundable, TokenShare, WalletImage
  <2> QED
    BY <1>1, <1>2, <2>2, <2>4
    DEF LedgerOK, PreConsuming, Reserving, Settling, Refunding, Undecided
<1> QED
  BY <1>4, <1>5 DEF UndoFunding

\* The handler's result, a retry or a panic keep the ledger.
LEMMA LedgerRespond ==
    ASSUME TypeOK, NEW r \in Requests, LedgerOK(r), Respond(r)
    PROVE  LedgerOK(r)'
<1>1. Undecided(r) /\ pc[r] = "sent" /\ UNCHANGED <<rpc, req, sess, quota, held, leak>>
  BY NotYetDecided DEF Respond
<1>2. leak'[r] \/ Balanced(r, 0)'
  BY <1>1 DEF LedgerOK, Reserving, Balanced, Holds, Refundable, TokenShare, WalletImage
<1>3. CASE outcome'[r] = "none" /\ pc'[r] \in {"settleFunding", "ready", "failed"}
  <2>1. SessionShape(r)'
    BY <1>1, <1>3 DEF LedgerOK, SessionShape
  <2> QED
    BY <1>2, <1>3, <2>1 DEF LedgerOK, PreConsuming, Reserving, Settling, Refunding
<1>4. CASE outcome'[r] = "panicked" /\ pc'[r] = "done"
  <2>1. SessionShape(r)'
    BY <1>1, <1>4 DEF LedgerOK, SessionShape, Undecided
  <2> QED
    BY <1>4, <2>1 DEF LedgerOK, PreConsuming, Reserving, Settling, Refunding
<1> QED
  BY <1>1, <1>3, <1>4 DEF Respond, GoTo, TypeOK, Undecided

\* Settle's funding half keeps the ledger.
LEMMA LedgerSettleFunding ==
    ASSUME TypeOK, NEW r \in Requests, LedgerOK(r), SettleFunding(r)
    PROVE  LedgerOK(r)'
<1>1. Undecided(r) /\ pc[r] = "settleFunding" /\ UNCHANGED <<rpc, req, quota, actual, leak>>
  BY NotYetDecided DEF SettleFunding
<1>2. outcome'[r] = "served"
  BY DEF SettleFunding, Serve, TypeOK
<1>3. leak[r] \/ Balanced(r, 0)
  BY <1>1 DEF LedgerOK, Reserving
<1>4. ~sess[r].settled /\ ~sess[r].fundingSettled /\ ~sess[r].refunded
  BY <1>1, NotYetDecided
<1>5. CASE /\ Delta(r) = 0
           /\ sess' = [sess EXCEPT ![r].settled = TRUE]
           /\ Serve(r, "done")
           /\ UNCHANGED held
  <2>1. SameAmounts(r) /\ sess'[r].settled /\ ~sess'[r].refunded
    BY <1>4, <1>5 DEF SameAmounts, TypeOK, Session
  <2>2. pc'[r] = "done"
    BY <1>5 DEF Serve, GoTo, TypeOK
  <2>3. SessionShape(r)'
    BY <1>1, <1>2, <2>1, <2>2 DEF LedgerOK, SessionShape, SameAmounts, Undecided
  <2>4. leak'[r] \/ Holds(r, actual[r], TokenShare(r, actual[r]))'
    BY <1>1, <1>3, <1>5, SessionFields DEF Balanced, Holds, Delta, TokenShare
  <2> QED
    BY <1>2, <2>1, <2>2, <2>3, <2>4
    DEF LedgerOK, PreConsuming, Reserving, Settling, Refunding
<1>6. CASE /\ sess' = [sess EXCEPT ![r].fundingSettled = TRUE]
           /\ HoldFunding(r, Delta(r))
           /\ Serve(r, "settleToken")
  <2>1. SameAmounts(r) /\ sess'[r].settled = sess[r].settled /\ ~sess'[r].refunded
    BY <1>4, <1>6 DEF SameAmounts, TypeOK, Session
  <2>2. pc'[r] = "settleToken"
    BY <1>6 DEF Serve, GoTo, TypeOK
  <2>3. SessionShape(r)'
    BY <1>1, <1>2, <2>1, <2>2 DEF LedgerOK, SessionShape, SameAmounts, Undecided
  <2>4. /\ held'[r].funding = held[r].funding + (actual[r] - sess[r].preConsumedQuota)
        /\ held'[r].token = held[r].token
        /\ req'[r] = req[r] /\ actual'[r] = actual[r]
    BY <1>1, <1>6, HoldFundingType, SessionFields DEF TypeOK, Delta
  <2>5. leak'[r] \/ /\ sess'[r].tokenConsumed = sess'[r].preConsumedQuota
                    /\ Holds(r, actual[r], TokenShare(r, sess[r].tokenConsumed))'
    BY <1>1, <1>3, <2>1, <2>4, SessionFields DEF Balanced, Holds, TokenShare, SameAmounts
  <2> QED
    BY <1>2, <2>2, <2>3, <2>5
    DEF LedgerOK, PreConsuming, Reserving, Settling, Refunding
<1>7. CASE Serve(r, "done") /\ UNCHANGED <<sess, held>>
  <2>1. pc'[r] = "done"
    BY <1>7 DEF Serve, GoTo, TypeOK
  <2>2. SessionShape(r)'
    BY <1>1, <1>2, <1>7, <2>1 DEF LedgerOK, SessionShape, Undecided
  <2>3. leak'[r] \/ Holds(r, sess[r].preConsumedQuota, TokenShare(r, sess[r].preConsumedQuota))'
    BY <1>1, <1>3, <1>7, SessionFields DEF Balanced, Holds, TokenShare
  <2>4. ~sess'[r].settled
    BY <1>4, <1>7
  <2> QED
    BY <1>2, <2>1, <2>2, <2>3, <2>4
    DEF LedgerOK, PreConsuming, Reserving, Settling, Refunding
<1> QED
  BY <1>5, <1>6, <1>7 DEF SettleFunding

\* Settle's token half keeps the ledger.
LEMMA LedgerSettleToken ==
    ASSUME TypeOK, NEW r \in Requests, LedgerOK(r), SettleToken(r)
    PROVE  LedgerOK(r)'
<1>1. /\ pc[r] = "settleToken" /\ outcome[r] = "served" /\ rpc[r] = "none"
      /\ pc'[r] = "done"
      /\ UNCHANGED <<rpc, req, quota, actual, outcome>>
  BY DEF SettleToken, GoTo, TypeOK, LedgerOK, SessionShape
<1>2. SameAmounts(r) /\ sess'[r].settled /\ sess'[r].refunded = sess[r].refunded
  BY DEF SettleToken, SameAmounts, TypeOK, Session
<1>3. SessionShape(r)'
  BY <1>1, <1>2 DEF LedgerOK, SessionShape, SameAmounts
<1>4. leak[r] \/ /\ sess[r].tokenConsumed = sess[r].preConsumedQuota
                 /\ Holds(r, actual[r], TokenShare(r, sess[r].tokenConsumed))
  BY <1>1 DEF LedgerOK, Settling
<1>5. leak'[r] \/ Holds(r, actual[r], TokenShare(r, actual[r]))'
  <2>1. CASE leak' = [leak EXCEPT ![r] = TRUE]
    BY <2>1 DEF TypeOK
  <2>2. CASE req[r].playground /\ UNCHANGED <<held, leak>>
    BY <1>1, <1>4, <2>2 DEF Holds, TokenShare
  <2>3. CASE ~req[r].playground /\ HoldToken(r, Delta(r)) /\ UNCHANGED leak
    <3>1. /\ held'[r].funding = held[r].funding
          /\ held'[r].token = held[r].token + (actual[r] - sess[r].preConsumedQuota)
      BY <2>3, HoldTokenType, SessionFields DEF TypeOK, Delta
    <3> QED
      BY <1>1, <1>4, <2>3, <3>1, SessionFields DEF Holds, TokenShare
  <2> QED
    BY <2>1, <2>2, <2>3 DEF SettleToken
<1> QED
  BY <1>1, <1>2, <1>3, <1>5 DEF LedgerOK, PreConsuming, Reserving, Settling, Refunding

\* Refund's decision under the mutex keeps the ledger.
LEMMA LedgerRefund ==
    ASSUME TypeOK, NEW r \in Requests, LedgerOK(r), Refund(r)
    PROVE  LedgerOK(r)'
<1>1. Undecided(r) /\ pc[r] = "failed" /\ UNCHANGED <<req, quota, actual, held, leak>>
  BY NotYetDecided DEF Refund
<1>2. outcome'[r] = "failed" /\ pc'[r] \in {"done", "feeFunding"}
  BY DEF Refund, GoTo, TypeOK
<1>3. ~sess[r].settled /\ ~sess[r].fundingSettled /\ ~sess[r].refunded
  BY <1>1, NotYetDecided
<1>4. /\ SameAmounts(r)
      /\ sess'[r].settled = sess[r].settled /\ sess'[r].fundingSettled = sess[r].fundingSettled
  BY DEF Refund, SameAmounts, TypeOK, Session
<1>5. sess'[r].refunded <=> NeedsRefund(r)
  <2>1. sess'[r].refunded = (sess[r].refunded \/ NeedsRefund(r))
    BY DEF Refund, TypeOK, Session
  <2> QED
    BY <1>3, <2>1
<1>6. rpc'[r] = IF NeedsRefund(r) THEN "funding" ELSE "none"
  BY DEF Refund, TypeOK
<1>7. SessionShape(r)'
  BY <1>1, <1>2, <1>3, <1>4, <1>5, <1>6 DEF LedgerOK, SessionShape, SameAmounts
<1>8. leak'[r] \/ Balanced(r, 0)'
  BY <1>1, <1>4 DEF LedgerOK, Reserving, Balanced, Holds, Refundable, TokenShare, WalletImage,
    SameAmounts
<1>9. NeedsRefund(r) \/ leak'[r] \/ Holds(r, 0, 0)'
  BY <1>1, <1>3, <1>4, <1>8, SessionFields
  DEF NeedsRefund, Balanced, Holds, TokenShare, SameAmounts
<1> QED
  BY <1>2, <1>6, <1>7, <1>8, <1>9 DEF LedgerOK, PreConsuming, Reserving, Settling, Refunding

\* FundingSource.Refund in the refund goroutine keeps the ledger.
LEMMA LedgerRefundFunding ==
    ASSUME TypeOK, NEW r \in Requests, LedgerOK(r), RefundFunding(r)
    PROVE  LedgerOK(r)'
<1>1. /\ rpc[r] = "funding" /\ outcome[r] = "failed"
      /\ pc[r] \in {"done", "feeFunding", "feeToken"}
      /\ UNCHANGED <<pc, req, sess, quota, actual, outcome>>
  BY DEF RefundFunding, LedgerOK, SessionShape, TypeOK, PCs
<1>2. rpc'[r] = IF sess[r].extraReserved > 0 /\ sess[r].funding = "subscription"
                THEN "extra" ELSE "token"
  BY DEF RefundFunding, TypeOK
<1>3. SessionShape(r)'
  BY <1>1, <1>2 DEF LedgerOK, SessionShape
<1>4. CASE leak' = [leak EXCEPT ![r] = TRUE]
  BY <1>3, <1>4 DEF LedgerOK, TypeOK
<1>5. CASE /\ \/ sess[r].funding = "wallet" /\ HoldFunding(r, IF sess[r].consumed > 0
                                                              THEN -sess[r].consumed ELSE 0)
              \/ sess[r].funding = "subscription" /\ HoldFunding(r, -sess[r].consumed)
           /\ UNCHANGED leak
  <2>1. leak[r] \/ WalletImage(r) \/ Balanced(r, 0)
    BY <1>1 DEF LedgerOK, Refunding
  <2>2. leak[r] \/ WalletImage(r) \/ sess[r].consumed >= 0 \/ sess[r].funding = "subscription"
    BY <2>1, SessionFields DEF Balanced, Refundable
  <2>3. leak[r] \/ WalletImage(r) \/ /\ held'[r].funding = held[r].funding - sess[r].consumed
                                     /\ held'[r].token = held[r].token
    <3>1. -sess[r].consumed \in Int /\ 0 \in Int
      BY SessionFields
    <3>2. \A k \in Int : HoldFunding(r, k) => /\ held'[r].funding = held[r].funding + k
                                              /\ held'[r].token = held[r].token
      BY HoldFundingType DEF TypeOK
    <3> QED
      BY <1>5, <2>2, <3>1, <3>2, SessionFields
  <2>4. req'[r] = req[r] /\ sess'[r] = sess[r]
    BY <1>1
  <2>5. sess[r].funding = "subscription" => WalletImage(r) = FALSE
    BY DEF WalletImage
  <2>6. leak'[r] \/ WalletImage(r)' \/
           Holds(r, IF sess[r].funding = "subscription" THEN sess[r].extraReserved ELSE 0,
                 TokenShare(r, sess[r].tokenConsumed))'
    BY <1>5, <2>1, <2>3, <2>4, SessionFields
    DEF Balanced, Holds, Refundable, TokenShare, WalletImage
  <2> QED
    BY <1>1, <1>2, <1>3, <2>4, <2>6, SessionFields
    DEF LedgerOK, PreConsuming, Reserving, Settling, Refunding, Holds
<1> QED
  BY <1>4, <1>5 DEF RefundFunding

\* The return of a subscription's extra reservation keeps the ledger.
LEMMA LedgerRefundExtra ==
    ASSUME TypeOK, NEW r \in Requests, LedgerOK(r), RefundExtra(r)
    PROVE  LedgerOK(r)'
<1>1. /\ rpc[r] = "extra" /\ rpc'[r] = "token" /\ outcome[r] = "failed"
      /\ pc[r] \in {"done", "feeFunding", "feeToken"}
      /\ UNCHANGED <<pc, req, sess, quota, actual, outcome>>
  BY DEF RefundExtra, LedgerOK, SessionShape, TypeOK, PCs
<1>2. SessionShape(r)'
  BY <1>1 DEF LedgerOK, SessionShape
<1>3. CASE leak' = [leak EXCEPT ![r] = TRUE]
  BY <1>2, <1>3 DEF LedgerOK, TypeOK
<1>4. CASE HoldFunding(r, -sess[r].extraReserved) /\ UNCHANGED leak
  <2>1. /\ held'[r].funding = held[r].funding - sess[r].extraReserved
        /\ held'[r].token = held[r].token
    <3>1. -sess[r].extraReserved \in Int
      BY SessionFields
    <3> QED
      BY <1>4, <3>1, HoldFundingType, SessionFields DEF TypeOK
  <2>2. leak'[r] \/ WalletImage(r)' \/ Holds(r, 0, TokenShare(r, sess[r].tokenConsumed))'
    BY <1>1, <1>4, <2>1, SessionFields DEF LedgerOK, Refunding, Holds, TokenShare, WalletImage
  <2> QED
    BY <1>1, <1>2, <2>2 DEF LedgerOK, PreConsuming, Reserving, Settling, Refunding
<1> QED
  BY <1>3, <1>4 DEF RefundExtra

\* The return of the token quota keeps the ledger.
LEMMA LedgerRefundToken ==
    ASSUME TypeOK, NEW r \in Requests, LedgerOK(r), RefundToken(r)
    PROVE  LedgerOK(r)'
<1> DEFINE n == TokenShare(r, sess[r].tokenConsumed)
<1>1. /\ rpc[r] = "token" /\ rpc'[r] = "finished" /\ outcome[r] = "failed"
      /\ pc[r] \in {"done", "feeFunding", "feeToken"}
      /\ UNCHANGED <<pc, req, sess, quota, actual, outcome>>
  BY DEF RefundToken, LedgerOK, SessionShape, TypeOK, PCs
<1>2. SessionShape(r)'
  BY <1>1 DEF LedgerOK, SessionShape
<1>3. CASE leak' = [leak EXCEPT ![r] = TRUE]
  BY <1>2, <1>3 DEF LedgerOK, TypeOK
<1>4. CASE HoldToken(r, -n) /\ UNCHANGED leak
  <2>1. n \in Int /\ -n \in Int
    BY SessionFields DEF TokenShare
  <2>2. held'[r].funding = held[r].funding /\ held'[r].token = held[r].token - n
    BY <1>4, <2>1, HoldTokenType, SessionFields DEF TypeOK
  <2>3. leak'[r] \/ WalletImage(r)' \/ Holds(r, 0, 0)'
    BY <1>1, <1>4, <2>1, <2>2, SessionFields DEF LedgerOK, Refunding, Holds, WalletImage
  <2> QED
    BY <1>1, <1>2, <2>3 DEF LedgerOK, PreConsuming, Reserving, Settling, Refunding
<1> QED
  BY <1>3, <1>4 DEF RefundToken, TokenShare

\* The violation fee is charged beside the session and keeps the ledger.
LEMMA LedgerFee ==
    ASSUME TypeOK, NEW r \in Requests, LedgerOK(r), FeeFunding(r) \/ FeeToken(r)
    PROVE  LedgerOK(r)'
<1>1. /\ pc[r] \in {"feeFunding", "feeToken"} /\ outcome[r] = "failed"
      /\ pc'[r] \in {"feeToken", "done"}
      /\ UNCHANGED <<rpc, req, sess, quota, actual, outcome, held, leak>>
  BY DEF FeeFunding, FeeToken, GoTo, TypeOK, LedgerOK, SessionShape
<1>2. SessionShape(r)'
  BY <1>1 DEF LedgerOK, SessionShape
<1>3. leak'[r] \/ Refunding(r)'
  BY <1>1 DEF LedgerOK, Refunding, Balanced, Holds, Refundable, TokenShare, WalletImage
<1> QED
  BY <1>1, <1>2, <1>3 DEF LedgerOK, PreConsuming, Reserving, Settling

\* A step of one request touches no other request.
LEMMA OthersSame ==
    ASSUME TypeOK, NEW r \in Requests,
           Start(r) \/ StartFree(r) \/ OpenInLoop(r) \/ RequestStep(r) \/ RefundStep(r),
           NEW q \in Requests, q # r
    PROVE  Same(q)
<1>1. CASE Start(r) \/ StartFree(r) \/ OpenInLoop(r)
  BY <1>1 DEF Same, TypeOK, Start, StartFree, OpenInLoop, ChooseSource, OpenSession,
    RejectSession, GoTo
<1>2. CASE CheckWallet(r) \/ PreConsumeToken(r) \/ PreConsumeFunding(r) \/ UndoToken(r)
  BY <1>2 DEF Same, TypeOK, CheckWallet, PreConsumeToken, PreConsumeFunding, UndoToken,
    Insufficient, OpenSession, RejectSession, GoTo, HoldToken, HoldFunding
<1>3. CASE Reserve(r) \/ ReserveFunding(r) \/ ReserveToken(r) \/ UndoFunding(r)
  BY <1>3 DEF Same, TypeOK, Reserve, ReserveFunding, ReserveToken, UndoFunding, GoTo,
    HoldToken, HoldFunding
<1>4. CASE Respond(r) \/ SettleFunding(r) \/ SettleToken(r) \/ FeeFunding(r) \/ FeeToken(r)
  BY <1>4 DEF Same, TypeOK, Respond, SettleFunding, SettleToken, FeeFunding, FeeToken,
    Serve, GoTo, HoldToken, HoldFunding
<1>5. CASE Refund(r) \/ RefundStep(r)
  BY <1>5 DEF Same, TypeOK, Refund, RefundStep, RefundFunding, RefundExtra, RefundToken,
    GoTo, HoldToken, HoldFunding
<1> QED
  BY <1>1, <1>2, <1>3, <1>4, <1>5 DEF RequestStep

\* One step per action: the acting request by its lemma, the others by the frame.
LEMMA LedgerStep == TypeOK /\ LedgerInv /\ [Next]_vars => LedgerInv'
<1> SUFFICES ASSUME TypeOK, LedgerInv, [Next]_vars PROVE LedgerInv'
  OBVIOUS
<1>1. CASE UNCHANGED vars
  <2>1. \A q \in Requests : Same(q)
    BY <1>1 DEF vars, Same
  <2> QED
    BY <2>1, LedgerFrame DEF LedgerInv
<1>2. ASSUME NEW r \in Requests,
             Start(r) \/ StartFree(r) \/ OpenInLoop(r) \/ RequestStep(r) \/ RefundStep(r)
      PROVE  LedgerInv'
  <2>1. LedgerOK(r)
    BY DEF LedgerInv
  <2>2. LedgerOK(r)'
    BY <1>2, <2>1, LedgerStart, LedgerStartFree, LedgerOpenInLoop, LedgerCheckWallet,
      LedgerPreConsumeToken, LedgerPreConsumeFunding, LedgerUndoToken, LedgerReserve,
      LedgerReserveFunding, LedgerReserveToken, LedgerUndoFunding, LedgerRespond,
      LedgerSettleFunding, LedgerSettleToken, LedgerRefund, LedgerRefundFunding,
      LedgerRefundExtra, LedgerRefundToken, LedgerFee
    DEF RequestStep, RefundStep
  <2>3. ASSUME NEW q \in Requests, q # r PROVE Same(q)
    BY <1>2, <2>3, OthersSame
  <2>4. ASSUME NEW q \in Requests PROVE LedgerOK(q)'
    BY <2>2, <2>3, LedgerFrame DEF LedgerInv
  <2> QED
    BY <2>4 DEF LedgerInv
<1> QED
  BY <1>1, <1>2 DEF Next

\* Initially nothing is held and no session exists.
LEMMA LedgerInit == Init => LedgerInv
<1> SUFFICES ASSUME Init, NEW r \in Requests PROVE LedgerOK(r)
  BY DEF LedgerInv
<1>1. /\ pc[r] = "idle" /\ rpc[r] = "none" /\ outcome[r] = "none"
      /\ sess[r] = NewSession("none") /\ held[r] = Nothing
  BY DEF Init
<1>2. SessionShape(r)
  BY <1>1 DEF SessionShape, NewSession
<1>3. Unopened(r)
  BY <1>1 DEF Unopened, Holds, NewSession, Nothing
<1> QED
  BY <1>1, <1>2, <1>3 DEF LedgerOK, PreConsuming, Reserving, Settling, Refunding

\* At every label of both goroutines of every request the session accounts for
\* exactly what the request has taken from the wallet, subscription and token.
THEOREM Ledger == Spec => []LedgerInv
  BY TypeInit, TypeStep, LedgerInit, LedgerStep, PTL DEF Spec

\* Any number of requests, any quotas, retries and database errors: what a failed
\* or rejected request took has gone back (service/billing_session.go, Refund and
\* the rollbacks of preConsume and Reserve).
THEOREM RefundComplete == Spec => []FailureReturnsEverything
<1>1. TypeOK /\ LedgerInv => FailureReturnsEverything
  <2> SUFFICES ASSUME TypeOK, LedgerInv, NEW r \in Requests,
                      Unsuccessful(r), ~leak[r], ~WalletImage(r)
               PROVE  held[r] = Nothing
    BY DEF FailureReturnsEverything
  <2>1. LedgerOK(r)
    BY DEF LedgerInv
  <2>2. Holds(r, 0, 0)
    BY <2>1 DEF LedgerOK, SessionShape, Settling, Refunding, Unsuccessful, RefundPending, TypeOK,
      RefundPCs
  <2> QED
    BY <2>2 DEF Holds, Nothing, TypeOK, Amounts
<1> QED
  BY <1>1, TypeInit, TypeStep, LedgerInit, LedgerStep, PTL DEF Spec

\* A settled request has paid exactly its settled quota, an unsettled served one
\* exactly its pre-consumption (Settle's delta against preConsumedQuota).
THEOREM SettlementExact == Spec => []ServedPaysActual
<1>1. TypeOK /\ LedgerInv => ServedPaysActual
  <2> SUFFICES ASSUME TypeOK, LedgerInv, NEW r \in Requests,
                      pc[r] = "done", outcome[r] = "served", ~leak[r]
               PROVE  \/ /\ sess[r].settled
                         /\ held[r] = [funding |-> actual[r], token |-> TokenShare(r, actual[r])]
                      \/ /\ ~sess[r].settled
                         /\ held[r] = [funding |-> sess[r].preConsumedQuota,
                                       token |-> TokenShare(r, sess[r].preConsumedQuota)]
    BY DEF ServedPaysActual
  <2>1. LedgerOK(r)
    BY DEF LedgerInv
  <2>2. \/ sess[r].settled /\ Holds(r, actual[r], TokenShare(r, actual[r]))
        \/ ~sess[r].settled /\ Holds(r, sess[r].preConsumedQuota,
                                     TokenShare(r, sess[r].preConsumedQuota))
    BY <2>1 DEF LedgerOK, Settling
  <2> QED
    BY <2>2 DEF Holds, TypeOK, Amounts
<1> QED
  BY <1>1, TypeInit, TypeStep, LedgerInit, LedgerStep, PTL DEF Spec

\* While a request is in flight, Refund would give back exactly what it holds
\* (the amounts Refund reads against the ones preConsume and Reserve wrote).
THEOREM RefundableExact == Spec => []RefundMatchesHolding
<1>1. TypeOK /\ LedgerInv => RefundMatchesHolding
  <2> SUFFICES ASSUME TypeOK, LedgerInv, NEW r \in Requests,
                      pc[r] \in {"ready", "sent", "settleFunding"}, ~leak[r], ~WalletImage(r)
               PROVE  /\ held[r].funding = sess[r].preConsumedQuota
                      /\ held[r].funding = Refundable(r)
                      /\ held[r].token = TokenShare(r, sess[r].tokenConsumed)
    BY DEF RefundMatchesHolding, Refundable
  <2>1. Balanced(r, 0)
    BY DEF LedgerInv, LedgerOK, Reserving
  <2> QED
    BY <2>1, SessionFields DEF Balanced, Holds
<1> QED
  BY <1>1, TypeInit, TypeStep, LedgerInit, LedgerStep, PTL DEF Spec

=============================================================================
