-------------------------- MODULE AsyncTokenProofs --------------------------
(***************************************************************************)
(* Funding source and token move together, also when clients' realtime     *)
(* fetches write rows back and several workers bill the same row at once.  *)
(***************************************************************************)
EXTENDS AsyncTaskProofs, FiniteSums

(***************************************************************************)
(* The inductive invariant.                                                *)
(***************************************************************************)

\* What worker w has taken from the funding source of row t and not yet from the
\* token.
Owed(w, t) ==
    IF job[w] # t THEN 0
    ELSE IF pc[w] = "refundToken" THEN -copy[w].quota
    ELSE IF pc[w] = "adjustToken" THEN UsageDelta(w)
    ELSE 0

OwedBy(t) == [w \in Workers |-> Owed(w, t)]

\* As long as nothing was lost, the two differ by what the row's workers are about
\* to take from the token.
Gap(t) == ~ leak[t] => paid[t].funding = paid[t].token + SumOver(OwedBy(t), Workers)

\* A submission that is not yet durable has no row, and no worker.
Unborn(t) ==
    submit[t] \in {"idle", "insert"} =>
        row[t].status = "none" /\ \A w \in Workers : job[w] # t

TokenInv ==
    /\ TypeOK /\ Busy
    /\ \A t \in Tasks : Gap(t) /\ Unborn(t)

-----------------------------------------------------------------------------
(* Sums.                                                                   *)

USE ConstantsAssumption

\* The amounts are integers.
Typed ==
    \A t \in Tasks : /\ OwedBy(t) \in [Workers -> Int]
                     /\ paid[t].funding \in Int /\ paid[t].token \in Int

LEMMA AmountTypes == TypeOK => Typed
<1> SUFFICES ASSUME TypeOK, NEW t \in Tasks
             PROVE  /\ OwedBy(t) \in [Workers -> Int]
                    /\ paid[t].funding \in Int /\ paid[t].token \in Int
  BY DEF Typed
<1>1. ASSUME NEW w \in Workers PROVE Owed(w, t) \in Int
  <2>1. copy[w] \in Row /\ actual[w] \in Nat
    BY DEF TypeOK
  <2>2. copy[w].quota \in Nat
    BY <2>1 DEF Row
  <2> QED
    BY <2>1, <2>2 DEF Owed, UsageDelta
<1>2. paid[t] \in Amounts
  BY DEF TypeOK
<1> QED
  BY <1>1, <1>2 DEF OwedBy, Amounts

\* A row nobody works on owes nothing.
LEMMA NothingOwed ==
    ASSUME TypeOK, NEW t \in Tasks, \A w \in Workers : Owed(w, t) = 0
    PROVE  SumOver(OwedBy(t), Workers) = 0
<1>1. \A w \in Workers : OwedBy(t)[w] = 0
  BY DEF OwedBy
<1>2. OwedBy(t) \in [Workers -> Int] /\ IsFiniteSet(Workers)
  BY AmountTypes DEF Typed
<1> QED
  BY <1>1, <1>2, SumZero

\* A worker that does not move owes the same.
LEMMA OwedSame ==
    ASSUME NEW w, NEW t, SameWorker(w)
    PROVE  Owed(w, t)' = Owed(w, t)
  BY DEF SameWorker, Owed, UsageDelta

\* A step of worker w changes the difference by what it changes of its own debt.
Pays(w, t) ==
    /\ leak[t] => leak'[t]
    /\ ~ leak'[t] => paid'[t].funding - paid'[t].token - Owed(w, t)'
                        = paid[t].funding - paid[t].token - Owed(w, t)

LEMMA GapStep ==
    ASSUME TypeOK, TypeOK', NEW w \in Workers, OthersSame(w), NEW t \in Tasks, Gap(t), Pays(w, t)
    PROVE  Gap(t)'
<1> SUFFICES ASSUME ~ leak'[t]
             PROVE  paid'[t].funding = paid'[t].token + SumOver(OwedBy(t)', Workers)
  BY DEF Gap
<1>1. Typed /\ Typed'
  BY AmountTypes, PTL
<1>2. /\ OwedBy(t) \in [Workers -> Int] /\ OwedBy(t)' \in [Workers -> Int]
      /\ paid[t].funding \in Int /\ paid[t].token \in Int
      /\ paid'[t].funding \in Int /\ paid'[t].token \in Int
  BY <1>1 DEF Typed
<1>3. \A u \in Workers : u # w => OwedBy(t)'[u] = OwedBy(t)[u]
  <2> SUFFICES ASSUME NEW u \in Workers, u # w PROVE OwedBy(t)'[u] = OwedBy(t)[u]
    OBVIOUS
  <2>1. Owed(u, t)' = Owed(u, t)
    BY OwedSame DEF OthersSame
  <2> QED
    BY <2>1 DEF OwedBy
<1>4. IsFiniteSet(Workers)
  OBVIOUS
<1>5. SumOver(OwedBy(t)', Workers) = SumOver(OwedBy(t), Workers) + OwedBy(t)'[w] - OwedBy(t)[w]
  BY <1>2, <1>3, <1>4, SumChange
<1>6. SumOver(OwedBy(t), Workers) \in Int
  BY <1>2, <1>4, SumInt
<1>7. OwedBy(t)'[w] = Owed(w, t)' /\ OwedBy(t)[w] = Owed(w, t)
  BY DEF OwedBy
<1>8. Owed(w, t) \in Int /\ Owed(w, t)' \in Int
  BY <1>2, <1>7
<1>9. ~ leak[t] /\ paid'[t].funding - paid'[t].token - Owed(w, t)'
                     = paid[t].funding - paid[t].token - Owed(w, t)
  BY DEF Pays
<1>10. paid[t].funding = paid[t].token + SumOver(OwedBy(t), Workers)
  BY <1>9 DEF Gap
<1> QED
  BY <1>2, <1>5, <1>6, <1>7, <1>8, <1>9, <1>10

-----------------------------------------------------------------------------
(* Steps of a worker.                                                      *)

\* What the step of a worker writes, and the row it takes up.
Confined(w) ==
    /\ OthersSame(w) /\ submit' = submit
    /\ \A t \in Tasks : t # job[w] => row'[t] = row[t]
    /\ job'[w] # job[w] => job'[w] = NoTask \/ row[job'[w]].status # "none"

LEMMA UnbornStep ==
    ASSUME TypeOK, NEW w \in Workers, Confined(w), NEW t \in Tasks, Unborn(t)
    PROVE  Unborn(t)'
<1> SUFFICES ASSUME submit[t] \in {"idle", "insert"}
             PROVE  row'[t].status = "none" /\ \A u \in Workers : job'[u] # t
  BY DEF Unborn, Confined
<1>1. row[t].status = "none" /\ \A u \in Workers : job[u] # t
  BY DEF Unborn
<1>2. row'[t] = row[t]
  BY <1>1 DEF Confined
<1>3. job'[w] # t
  BY <1>1 DEF Confined
<1>4. \A u \in Workers : u # w => job'[u] # t
  BY <1>1 DEF Confined, OthersSame, SameWorker
<1> QED
  BY <1>1, <1>2, <1>3, <1>4

Carries(w) == Confined(w) /\ \A t \in Tasks : Pays(w, t)

\* The steps at which a worker owes the token something.
Owing == {"refundToken", "adjustToken"}

LEMMA NotOwing ==
    ASSUME NEW w, NEW t, pc[w] \notin Owing
    PROVE  Owed(w, t) = 0
  BY DEF Owing, Owed

\* A step that moves no quota, of a worker that owed nothing or has leaked it.
LEMMA MovesNothing ==
    ASSUME TypeOK, NEW w \in Workers, Confined(w), UNCHANGED paid,
           \A t \in Tasks : leak[t] => leak'[t],
           pc[w] \in Owing => leak'[job[w]], pc'[w] \notin Owing
    PROVE  Carries(w)
<1> SUFFICES ASSUME NEW t \in Tasks, ~ leak'[t]
             PROVE  Owed(w, t)' = Owed(w, t)
  BY DEF Carries, Pays
<1>1. Owed(w, t)' = 0
  BY DEF Owed, Owing
<1>2. Owed(w, t) = 0
  BY DEF Owed, Owing
<1> QED
  BY <1>1, <1>2

\* Passes and fetches take up a row that exists.
LEMMA TakeUp ==
    ASSUME TypeOK, Busy, NEW w \in Workers, StartPass(w) \/ List(w) \/ StartFetch(w)
    PROVE  Carries(w)
<1>1. pc[w] \notin Owing /\ UNCHANGED <<row, submit, paid, leak>>
  BY DEF StartPass, List, StartFetch, Owing, submission, history
<1>2. CASE \E label \in {"idle", "list"} : GoTo(w, label)
  <2>1. OthersSame(w) /\ pc'[w] \in {"idle", "list"} /\ job'[w] = job[w]
    BY <1>2, GoToFacts
  <2> QED
    BY <1>1, <2>1, MovesNothing DEF Confined, Owing
<1>3. CASE \E t \in Tasks, label \in {"sweep", "poll", "fetch"} :
              row[t].status # "none" /\ Load(w, t, label)
  <2>1. PICK t \in Tasks, label \in {"sweep", "poll", "fetch"} :
              row[t].status # "none" /\ Load(w, t, label)
    BY <1>3
  <2>2. OthersSame(w) /\ pc'[w] = label /\ job'[w] = t
    BY <2>1, LoadFacts
  <2> QED
    BY <1>1, <2>1, <2>2, MovesNothing DEF Confined, Owing
<1> QED
  BY <1>2, <1>3 DEF StartPass, List, StartFetch, TimedOut, Unfinished, Active

\* The worker's part of a step that goes on, drops its copy or edits it.
LEMMA Goes ==
    ASSUME TypeOK, NEW w \in Workers, NEW label,
           GoTo(w, label) \/ (label \in {"idle", "list"} /\ Drop(w, label))
             \/ \E c : Edit(w, c, label)
    PROVE  OthersSame(w) /\ pc'[w] = label /\ job'[w] \in {job[w], NoTask}
  BY GoToFacts, DropFacts, EditFacts

\* Answers and writes of the row: funding source and token stay alone.
LEMMA WriteRow ==
    ASSUME TypeOK, Busy, NEW w \in Workers,
           Sweep(w) \/ FailInBulk(w) \/ Poll(w) \/ Write(w) \/ FetchStep(w)
    PROVE  Carries(w)
<1>1. pc[w] \notin Owing /\ UNCHANGED <<submit, paid, leak>>
  BY DEF Sweep, FailInBulk, Poll, Write, FetchStep, Fetch, WriteFetched, Owing, submission, history
<1>2. \A t \in Tasks : t # job[w] => row'[t] = row[t]
  BY DEF Sweep, FailInBulk, Poll, Write, FetchStep, Fetch, WriteFetched, UpdateWithStatus, TypeOK
<1>3. \E label \in {"idle", "list", "refundFunding", "write", "finalize", "writeFetched"} :
         GoTo(w, label) \/ (label \in {"idle", "list"} /\ Drop(w, label)) \/ \E c : Edit(w, c, label)
  <2>1. CASE Sweep(w)
    BY <2>1 DEF Sweep
  <2>2. CASE FailInBulk(w) \/ Write(w) \/ WriteFetched(w)
    BY <2>2 DEF FailInBulk, Write, WriteFetched
  <2>3. CASE Poll(w)
    BY <2>3 DEF Poll
  <2>4. CASE Fetch(w)
    BY <2>4 DEF Fetch
  <2> QED
    BY <2>1, <2>2, <2>3, <2>4 DEF FetchStep
<1>4. OthersSame(w) /\ pc'[w] \notin Owing /\ job'[w] \in {job[w], NoTask}
  BY <1>3, Goes DEF Owing
<1> QED
  BY <1>1, <1>2, <1>4, MovesNothing DEF Confined

\* The choice between settling, refunding and keeping.
LEMMA Decide ==
    ASSUME TypeOK, Busy, NEW w \in Workers, Finalize(w)
    PROVE  Carries(w)
<1>1. pc[w] \notin Owing /\ UNCHANGED <<row, submit, paid, leak>>
  BY DEF Finalize, Owing, submission
<1>2. CASE \E label \in {"idle", "refundFunding"} :
              GoTo(w, label) \/ (label \in {"idle", "list"} /\ Drop(w, label))
  <2>1. OthersSame(w) /\ pc'[w] \notin Owing /\ job'[w] \in {job[w], NoTask}
    BY <1>2, Goes DEF Owing
  <2> QED
    BY <1>1, <2>1, MovesNothing DEF Confined
<1>3. CASE \E a : /\ actual' = [actual EXCEPT ![w] = a]
                  /\ pc' = [pc EXCEPT ![w] = "adjustFunding"]
                  /\ UNCHANGED <<job, copy, from>>
  <2>1. OthersSame(w) /\ pc'[w] = "adjustFunding" /\ job'[w] = job[w]
    BY <1>3 DEF OthersSame, SameWorker, TypeOK
  <2> QED
    BY <1>1, <2>1, MovesNothing DEF Confined, Owing
<1> QED
  BY <1>2, <1>3 DEF Finalize

\* The amounts of a payment on row job[w].
LEMMA PaidFields ==
    ASSUME TypeOK, Busy, NEW w \in Workers, pc[w] \in Finalizing
    PROVE  /\ job[w] \in Tasks /\ copy[w].quota \in Nat /\ UsageDelta(w) \in Int
           /\ \A t \in Tasks : paid[t].funding \in Int /\ paid[t].token \in Int
<1>1. job[w] \in Tasks /\ copy[w] \in Row /\ actual[w] \in Nat
  BY DEF TypeOK, Busy, Finalizing
<1>2. copy[w].quota \in Nat
  BY <1>1 DEF Row
<1>3. \A t \in Tasks : paid[t].funding \in Int /\ paid[t].token \in Int
  BY AmountTypes DEF Typed
<1> QED
  BY <1>1, <1>2, <1>3 DEF UsageDelta

\* A payment changes one amount of one row.
LEMMA Paying ==
    ASSUME TypeOK, NEW t \in Tasks, NEW n, NEW u \in Tasks
    PROVE  /\ PayFunding(t, n) =>
                 /\ paid'[u].token = paid[u].token
                 /\ paid'[u].funding = IF u = t THEN paid[u].funding + n ELSE paid[u].funding
           /\ PayToken(t, n) =>
                 /\ paid'[u].funding = paid[u].funding
                 /\ paid'[u].token = IF u = t THEN paid[u].token + n ELSE paid[u].token
<1>1. paid[u] \in [funding : Int, token : Int] /\ paid \in [Tasks -> [funding : Int, token : Int]]
  BY DEF TypeOK, Amounts
<1> QED
  BY <1>1 DEF PayFunding, PayToken

\* The funding source is adjusted first, and the worker owes the token the same.
LEMMA PayFundingFirst ==
    ASSUME TypeOK, Busy, NEW w \in Workers, RefundFunding(w) \/ AdjustFunding(w)
    PROVE  Carries(w)
<1> DEFINE n == IF pc[w] = "refundFunding" THEN -copy[w].quota ELSE UsageDelta(w)
           next == IF pc[w] = "refundFunding" THEN "refundToken" ELSE "adjustToken"
<1>1. /\ pc[w] \in {"refundFunding", "adjustFunding"}
      /\ UNCHANGED <<row, submit, leak>>
      /\ \/ PayFunding(job[w], n) /\ GoTo(w, next)
         \/ UNCHANGED paid /\ Drop(w, "idle")
  BY DEF RefundFunding, AdjustFunding, submission
<1>2. /\ job[w] \in Tasks /\ copy[w].quota \in Nat /\ UsageDelta(w) \in Int
      /\ \A t \in Tasks : paid[t].funding \in Int /\ paid[t].token \in Int
  BY <1>1, PaidFields DEF Finalizing
<1>3. CASE UNCHANGED paid /\ Drop(w, "idle")
  <2>1. OthersSame(w) /\ pc'[w] = "idle" /\ job'[w] \in {job[w], NoTask}
    BY <1>3, Goes
  <2> QED
    BY <1>1, <1>3, <2>1, MovesNothing DEF Confined, Owing
<1>4. CASE PayFunding(job[w], n) /\ GoTo(w, next)
  <2>1. /\ OthersSame(w) /\ pc'[w] = next /\ job'[w] = job[w]
        /\ copy'[w] = copy[w] /\ actual'[w] = actual[w]
    BY <1>4, GoToFacts
  <2>2. ASSUME NEW t \in Tasks PROVE Pays(w, t)
    <3>1. /\ paid'[t].token = paid[t].token
          /\ paid'[t].funding = IF t = job[w] THEN paid[t].funding + n ELSE paid[t].funding
      BY <1>2, <1>4, Paying
    <3>2. Owed(w, t) = 0
      BY <1>1, NotOwing DEF Owing
    <3>3. Owed(w, t)' = IF t = job[w] THEN n ELSE 0
      BY <1>1, <2>1 DEF Owed, UsageDelta
    <3>4. n \in Int
      BY <1>2
    <3> HIDE DEF n
    <3> QED
      BY <1>1, <1>2, <3>1, <3>2, <3>3, <3>4 DEF Pays
  <2> QED
    BY <1>1, <2>1, <2>2 DEF Carries, Confined
<1> QED
  BY <1>1, <1>3, <1>4

\* The token follows by what the worker owes it, or the row has leaked.
LEMMA PayTokenNext ==
    ASSUME TypeOK, Busy, NEW w \in Workers, RefundToken(w) \/ AdjustToken(w)
    PROVE  Carries(w)
<1> DEFINE n == IF pc[w] = "refundToken" THEN -copy[w].quota ELSE UsageDelta(w)
           next == IF pc[w] = "refundToken" THEN "clearQuota" ELSE "storeQuota"
<1>1. /\ pc[w] \in {"refundToken", "adjustToken"}
      /\ UNCHANGED <<row, submit>> /\ GoTo(w, next)
      /\ \/ PayToken(job[w], n) /\ UNCHANGED leak
         \/ UNCHANGED paid /\ leak' = [leak EXCEPT ![job[w]] = TRUE]
  BY DEF RefundToken, AdjustToken, TokenStep, AdjustTokenQuota, submission
<1>2. /\ job[w] \in Tasks /\ copy[w].quota \in Nat /\ UsageDelta(w) \in Int
      /\ \A t \in Tasks : paid[t].funding \in Int /\ paid[t].token \in Int
  BY <1>1, PaidFields DEF Finalizing
<1>3. /\ OthersSame(w) /\ pc'[w] = next /\ job'[w] = job[w]
  BY <1>1, GoToFacts
<1>4. Confined(w) /\ pc'[w] \notin Owing
  BY <1>1, <1>3 DEF Confined, Owing
<1>5. CASE UNCHANGED paid /\ leak' = [leak EXCEPT ![job[w]] = TRUE]
  <2>1. leak'[job[w]] /\ \A t \in Tasks : leak[t] => leak'[t]
    BY <1>2, <1>5 DEF TypeOK
  <2> QED
    BY <1>4, <1>5, <2>1, MovesNothing
<1>6. CASE PayToken(job[w], n) /\ UNCHANGED leak
  <2>1. ASSUME NEW t \in Tasks PROVE Pays(w, t)
    <3>1. /\ paid'[t].funding = paid[t].funding
          /\ paid'[t].token = IF t = job[w] THEN paid[t].token + n ELSE paid[t].token
      BY <1>2, <1>6, Paying
    <3>2. Owed(w, t)' = 0
      BY <1>4 DEF Owed, Owing
    <3>3. Owed(w, t) = IF t = job[w] THEN n ELSE 0
      BY <1>1 DEF Owed
    <3>4. n \in Int
      BY <1>2
    <3> HIDE DEF n
    <3> QED
      BY <1>2, <1>6, <3>1, <3>2, <3>3, <3>4 DEF Pays
  <2> QED
    BY <1>4, <2>1 DEF Carries
<1> QED
  BY <1>1, <1>5, <1>6

\* The quota column is written, and the worker is done.
LEMMA EndBilling ==
    ASSUME TypeOK, Busy, NEW w \in Workers, ClearQuota(w) \/ StoreQuota(w)
    PROVE  Carries(w)
<1>1. /\ pc[w] \notin Owing /\ UNCHANGED <<submit, paid>> /\ Drop(w, "idle")
      /\ leak' = leak \/ leak' = [leak EXCEPT ![job[w]] = TRUE]
      /\ \A t \in Tasks : t # job[w] => row'[t] = row[t]
  BY DEF ClearQuota, StoreQuota, QuotaStep, Owing, submission, TypeOK
<1>2. OthersSame(w) /\ pc'[w] = "idle" /\ job'[w] \in {job[w], NoTask}
  BY <1>1, Goes
<1>3. \A t \in Tasks : leak[t] => leak'[t]
  BY <1>1 DEF TypeOK
<1> QED
  BY <1>1, <1>2, <1>3, MovesNothing DEF Confined, Owing

\* A crash between funding source and token is a leak.
LEMMA Crash ==
    ASSUME TypeOK, Busy, NEW w \in Workers, CrashWorker(w)
    PROVE  Carries(w)
<1>1. /\ UNCHANGED <<row, submit, paid>> /\ Drop(w, "idle")
      /\ leak' = [t \in Tasks |-> leak[t] \/ (t = job[w] /\ pc[w] \in Finalizing)]
  BY DEF CrashWorker, submission
<1>2. OthersSame(w) /\ pc'[w] = "idle" /\ job'[w] \in {job[w], NoTask}
  BY <1>1, Goes
<1>3. pc[w] \in Owing => leak'[job[w]]
  BY <1>1 DEF Owing, Busy, Finalizing
<1> QED
  BY <1>1, <1>2, <1>3, MovesNothing DEF Confined, Owing

-----------------------------------------------------------------------------
(* The invariant.                                                          *)

\* A step of no worker keeps the difference.
Balanced(t) ==
    /\ leak[t] => leak'[t]
    /\ ~ leak'[t] => paid'[t].funding - paid'[t].token = paid[t].funding - paid[t].token

LEMMA BalancedStep ==
    ASSUME TypeOK, TypeOK', UNCHANGED worker, NEW t \in Tasks, Gap(t), Balanced(t)
    PROVE  Gap(t)'
<1> SUFFICES ASSUME ~ leak'[t]
             PROVE  paid'[t].funding = paid'[t].token + SumOver(OwedBy(t)', Workers)
  BY DEF Gap
<1>1. OwedBy(t)' = OwedBy(t)
  BY DEF worker, OwedBy, Owed, UsageDelta
<1>2. Typed /\ Typed'
  BY AmountTypes, PTL
<1>3. /\ paid[t].funding \in Int /\ paid[t].token \in Int
      /\ paid'[t].funding \in Int /\ paid'[t].token \in Int
      /\ OwedBy(t) \in [Workers -> Int] /\ IsFiniteSet(Workers)
  BY <1>2 DEF Typed
<1>4. SumOver(OwedBy(t), Workers) \in Int
  BY <1>3, SumInt
<1>5. ~ leak[t] /\ paid'[t].funding - paid'[t].token = paid[t].funding - paid[t].token
  BY DEF Balanced
<1>6. paid[t].funding = paid[t].token + SumOver(OwedBy(t), Workers)
  BY <1>5 DEF Gap
<1> QED
  BY <1>1, <1>3, <1>4, <1>5, <1>6

\* A step of the submission, the provider or time moves no worker.
LEMMA TaskSteps ==
    ASSUME TokenInv, TypeOK', NEW t \in Tasks,
           Reserve(t) \/ SubmitStep(t) \/ Provider(t) \/ Age(t) \/ CrashSubmit(t)
    PROVE  \A u \in Tasks : Gap(u)' /\ Unborn(u)'
<1> SUFFICES ASSUME NEW u \in Tasks PROVE Gap(u)' /\ Unborn(u)'
  OBVIOUS
<1>1. UNCHANGED worker
  BY DEF Reserve, SubmitStep, Insert, Settle, Provider, Age, CrashSubmit
<1>2. Unborn(u)'
  <2>1. Unborn(u) /\ UNCHANGED job
    BY <1>1 DEF TokenInv, worker
  <2> QED
    BY <2>1 DEF Unborn, Reserve, SubmitStep, Insert, Settle, Provider, Age, CrashSubmit,
       TokenInv, TypeOK, submission
<1>3. Balanced(u) => Gap(u)'
  BY <1>1, BalancedStep DEF TokenInv
<1>4. CASE u # t \/ Provider(t) \/ Age(t) \/ CrashSubmit(t)
  <2>1. paid'[u] = paid[u] /\ (leak[u] => leak'[u])
    BY <1>4 DEF Reserve, SubmitStep, Insert, Settle, Provider, Age, CrashSubmit, history,
       TokenInv, TypeOK
  <2> QED
    BY <1>2, <1>3, <2>1 DEF Balanced
<1>5. CASE u = t /\ Settle(t)
  <2>1. /\ paid[t].funding \in Int /\ paid[t].token \in Int /\ paid \in [Tasks -> Amounts]
        /\ plan[t].quota \in Nat /\ plan[t].reserved \in Nat
    BY AmountTypes DEF Typed, TokenInv, TypeOK
  <2>2. (leak[u] => leak'[u]) /\
        (~ leak'[u] => paid'[u].funding - paid'[u].token = paid[u].funding - paid[u].token)
    BY <1>5, <2>1 DEF Settle, TokenInv, TypeOK
  <2> QED
    BY <1>2, <1>3, <2>2 DEF Balanced
<1>6. CASE u = t /\ (Reserve(t) \/ Insert(t))
  <2>1. submit[t] \in {"idle", "insert"} /\ UNCHANGED leak
    BY <1>6 DEF Reserve, Insert
  <2>2. CASE UNCHANGED paid
    BY <1>2, <1>3, <1>6, <2>1, <2>2 DEF Balanced
  <2>3. CASE \E n \in Int : paid' = [paid EXCEPT ![t] = [funding |-> n, token |-> n]]
    <3>1. \A w \in Workers : Owed(w, t) = 0
      BY <2>1 DEF TokenInv, Unborn, Owed
    <3>2. SumOver(OwedBy(t), Workers) = 0
      BY <3>1, NothingOwed DEF TokenInv
    <3>3. ~ leak[t] => paid[t].funding = paid[t].token + 0
      BY <3>2 DEF TokenInv, Gap
    <3>4. paid[t].funding \in Int /\ paid[t].token \in Int
      BY AmountTypes DEF TokenInv, Typed
    <3>5. \E n \in Int : paid'[t].funding = n /\ paid'[t].token = n
      BY <2>3 DEF TokenInv, TypeOK
    <3> QED
      BY <1>2, <1>3, <1>6, <2>1, <3>3, <3>4, <3>5 DEF Balanced
  <2> QED
    BY <1>6, <2>2, <2>3 DEF Reserve, Insert, Larger
<1> QED
  BY <1>2, <1>4, <1>5, <1>6 DEF SubmitStep

LEMMA TokenInit == Init => TokenInv
<1> SUFFICES ASSUME Init PROVE TokenInv
  OBVIOUS
<1>1. TypeOK /\ Busy
  BY TypeInit DEF Init, Busy
<1>2. ASSUME NEW t \in Tasks PROVE Gap(t) /\ Unborn(t)
  <2>1. \A w \in Workers : Owed(w, t) = 0
    BY DEF Init, Owed
  <2>2. SumOver(OwedBy(t), Workers) = 0
    BY <1>1, <2>1, NothingOwed
  <2> QED
    BY <2>2 DEF Gap, Unborn, Init, NoRow
<1> QED
  BY <1>1, <1>2 DEF TokenInv

LEMMA TokenStepInv == TokenInv /\ [Next]_vars => TokenInv'
<1> SUFFICES ASSUME TokenInv, [Next]_vars PROVE TokenInv'
  OBVIOUS
<1>1. TypeOK /\ Busy /\ TypeOK' /\ Busy'
  BY TypeStep DEF TokenInv
<1>2. ASSUME NEW w \in Workers, Carries(w)
      PROVE  \A t \in Tasks : Gap(t)' /\ Unborn(t)'
  BY <1>1, <1>2, GapStep, UnbornStep DEF TokenInv, Carries, Confined
<1>3. CASE UNCHANGED vars
  <2>1. UNCHANGED <<row, submission, worker, paid, leak>>
    BY <1>3 DEF vars, history
  <2>2. \A t \in Tasks : Balanced(t) /\ Unborn(t)'
    BY <2>1 DEF Balanced, Unborn, TokenInv, submission, worker
  <2> QED
    BY <1>1, <2>1, <2>2, BalancedStep DEF TokenInv
<1>4. CASE \E t \in Tasks : Reserve(t) \/ SubmitStep(t) \/ Provider(t) \/ Age(t) \/ CrashSubmit(t)
  BY <1>1, <1>4, TaskSteps DEF TokenInv
<1>5. CASE \E w \in Workers : PassStep(w) \/ StartFetch(w) \/ FetchStep(w) \/ CrashWorker(w)
  <2>1. PICK w \in Workers : PassStep(w) \/ StartFetch(w) \/ FetchStep(w) \/ CrashWorker(w)
    BY <1>5
  <2>2. Carries(w)
    BY <1>1, <2>1, TakeUp, WriteRow, Decide, PayFundingFirst, PayTokenNext, EndBilling, Crash
       DEF PassStep, BillingStep
  <2> QED
    BY <1>1, <1>2, <2>2 DEF TokenInv
<1> QED
  BY <1>3, <1>4, <1>5 DEF Next

\* Once nobody bills a row and nothing was lost, it has taken the same from the
\* token as from the funding source: with any number of overlapping passes, bulk
\* updates and realtime fetches, even when the fetches let several workers refund
\* or settle the same row.
THEOREM TokenIsFunding == Spec => []TokenFollowsFunding
<1>1. TokenInv => TokenFollowsFunding
  <2> SUFFICES ASSUME TokenInv, NEW t \in Tasks, Quiet(t), ~ leak[t]
               PROVE  paid[t].token = paid[t].funding
    BY DEF TokenFollowsFunding
  <2>1. \A w \in Workers : Owed(w, t) = 0
    BY DEF Quiet, Finalizing, Owed
  <2>2. SumOver(OwedBy(t), Workers) = 0
    BY <2>1, NothingOwed DEF TokenInv
  <2>3. paid[t].funding \in Int /\ paid[t].token \in Int
    BY AmountTypes DEF TokenInv, Typed
  <2> QED
    BY <2>2, <2>3 DEF TokenInv, Gap
<1> QED
  BY <1>1, TokenInit, TokenStepInv, PTL DEF Spec

=============================================================================
