-------------------------- MODULE AsyncTaskProofs ---------------------------
(***************************************************************************)
(* The billing of asynchronous tasks is exact for every number of rows,    *)
(* workers, crashes and failed calls, as long as no client's realtime      *)
(* fetch writes rows (~Realtime).                                          *)
(***************************************************************************)
EXTENDS AsyncTask, TLAPS

\* Worker w owns the billing of row t; no worker does.
Owns(w, t) == job[w] = t /\ pc[w] \in Finalizing
Free(t) == \A w \in Workers : ~ Owns(w, t)

\* What SettleBilling will still return.
Surplus(t) == IF submit[t] = "settle" THEN plan[t].reserved - plan[t].quota ELSE 0

\* What each worker's copy and step may rely on.
WorkerOK(w) ==
    /\ pc[w] \in {"idle", "list"} => job[w] = NoTask
    /\ pc[w] \notin {"idle", "list"} => job[w] \in Tasks /\ row[job[w]].status # "none"
    /\ pc[w] \notin {"fetch", "writeFetched"}
    /\ pc[w] \in {"sweep", "poll", "write"} =>
          /\ from[w] \in Active /\ copy[w].status # "none"
          /\ row[job[w]].status \in Active => copy[w].quota = row[job[w]].quota
    /\ pc[w] \in Finalizing =>
          /\ row[job[w]].status \in Terminal
          /\ copy[w].quota = row[job[w]].quota
          /\ ~ ChannelsVanish => copy[w].status = row[job[w]].status
    /\ pc[w] \in {"adjustFunding", "adjustToken", "storeQuota"} => verdict[job[w]] = "usage"

\* A row has one winner.
OneOwner ==
    \A u, w \in Workers : u # w /\ pc[u] \in Finalizing /\ pc[w] \in Finalizing => job[u] # job[w]

\* The submission, until the row is durable.
SubmitOK(t) ==
    /\ plan[t].quota <= plan[t].reserved
    /\ plan[t].status \in {"NOT_START"} \cup Terminal
    /\ plan[t].status = "FAILURE" => plan[t].quota = 0
    /\ submit[t] \in {"idle", "insert"} => row[t].status = "none"
    /\ submit[t] = "settle" => row[t].status # "none"
    /\ submit[t] = "idle" => paid[t].funding = 0 /\ paid[t].token = 0
    /\ submit[t] = "insert" => paid[t].funding = plan[t].reserved /\ paid[t].token = plan[t].reserved
    /\ row[t].status = "none" => paid[t].funding >= 0 /\ paid[t].token >= 0
    /\ row[t].status = "none" /\ submit[t] = "done" /\ ~ leak[t] =>
          paid[t].funding = 0 /\ paid[t].token = 0

\* What the row still has to give back, whatever has failed so far.
FundingFloor(w) ==
    IF pc[w] \in {"refundToken", "clearQuota", "adjustToken", "storeQuota"} THEN 0 ELSE copy[w].quota
TokenFloor(w) == IF pc[w] \in {"clearQuota", "storeQuota"} THEN 0 ELSE copy[w].quota
RowFloor(t) == IF row[t].status \in Active THEN row[t].quota ELSE 0

FloorOK(t) ==
    row[t].status # "none" =>
        /\ \A w \in Workers : Owns(w, t) =>
              /\ paid[t].funding >= Surplus(t) + FundingFloor(w)
              /\ paid[t].token >= Surplus(t) + TokenFloor(w)
        /\ Free(t) => /\ paid[t].funding >= Surplus(t) + RowFloor(t)
                      /\ paid[t].token >= Surplus(t) + RowFloor(t)

\* What the row has taken, as long as nothing was lost.
FundingHeld(w) ==
    IF pc[w] \in {"refundToken", "clearQuota"} THEN 0
    ELSE IF pc[w] \in {"adjustToken", "storeQuota"} THEN actual[w] ELSE copy[w].quota
TokenHeld(w) ==
    IF pc[w] = "clearQuota" THEN 0 ELSE IF pc[w] = "storeQuota" THEN actual[w] ELSE copy[w].quota

ExactOK(t) ==
    row[t].status # "none" /\ ~ leak[t] =>
        /\ \A w \in Workers : Owns(w, t) =>
              /\ paid[t].funding = Surplus(t) + FundingHeld(w)
              /\ paid[t].token = Surplus(t) + TokenHeld(w)
        /\ Free(t) => /\ paid[t].token = paid[t].funding
                      /\ verdict[t] # "legacy" => paid[t].funding = Surplus(t) + row[t].quota

\* A failed row that nobody bills any more has no quota left.
ClosedOK(t) ==
    ~ ChannelsVanish /\ row[t].status = "FAILURE" /\ Free(t) /\ ~ leak[t] /\ verdict[t] = "none" =>
        row[t].quota = 0

\* Only a closed row has a verdict.
VerdictOK(t) == row[t].status \notin Terminal => verdict[t] = "none"

TaskOK(t) == SubmitOK(t) /\ FloorOK(t) /\ ExactOK(t) /\ ClosedOK(t) /\ VerdictOK(t)

\* The provider always knows a status.
UpstreamOK == \A t \in Tasks : upstream[t] # "none"

IInv ==
    /\ TypeOK /\ UpstreamOK
    /\ OneOwner
    /\ \A w \in Workers : WorkerOK(w)
    /\ \A t \in Tasks : TaskOK(t)

-----------------------------------------------------------------------------
(* Type correctness.                                                       *)

USE ConstantsAssumption

LEMMA NoRowType == NoRow \in Row
BY DEF NoRow, Row, Statuses

LEMMA TypeInit == Init => TypeOK
BY NoRowType DEF Init, TypeOK, Amounts, Verdicts, PCs, Statuses, Active

\* A worker at work has a row.
Busy == \A w \in Workers : pc[w] \notin {"idle", "list"} => job[w] \in Tasks

\* The worker's own variables.
WorkerType ==
    /\ pc \in [Workers -> PCs]
    /\ job \in [Workers -> Tasks \cup {NoTask}]
    /\ copy \in [Workers -> Row]
    /\ from \in [Workers -> Statuses]
    /\ actual \in [Workers -> Nat]

LEMMA GoToType ==
    ASSUME TypeOK, NEW w \in Workers, NEW label \in PCs, GoTo(w, label)
    PROVE  WorkerType'
BY DEF GoTo, TypeOK, WorkerType

LEMMA LoadType ==
    ASSUME TypeOK, NEW w \in Workers, NEW t \in Tasks, NEW label \in PCs, Load(w, t, label)
    PROVE  WorkerType'
BY DEF Load, TypeOK, WorkerType, Row

LEMMA DropType ==
    ASSUME TypeOK, NEW w \in Workers, NEW label \in PCs, Drop(w, label)
    PROVE  WorkerType'
BY NoRowType DEF Drop, TypeOK, WorkerType, Statuses

LEMMA EditType ==
    ASSUME TypeOK, NEW w \in Workers, NEW c \in Row, NEW label \in PCs, Edit(w, c, label)
    PROVE  WorkerType'
BY DEF Edit, TypeOK, WorkerType

LEMMA EndedType ==
    ASSUME NEW c \in Row, NEW s \in Statuses
    PROVE  Ended(c, s) \in Row
BY DEF Ended, Row

\* The copies a poll may leave behind.
PollAnswers(c, s) == {AfterPollFailure(c), Ended(c, "FAILURE")} \cup AfterPoll(c, s)

\* A poll leaves a row, of the same quota, that exists.
LEMMA AnswerType ==
    ASSUME NEW c \in Row, NEW s \in Statuses
    PROVE  \A d \in PollAnswers(c, s) :
              /\ d \in Row /\ d.quota = c.quota
              /\ s # "none" /\ c.status # "none" => d.status # "none"
<1>1. \A x \in Row : \A u \in Statuses :
        Ended(x, u) \in Row /\ Ended(x, u).quota = x.quota /\ Ended(x, u).status = u
  BY DEF Ended, Row
<1>2. CountFailure(c) \in Row /\ CountFailure(c).quota = c.quota /\ CountFailure(c).status = c.status
  BY DEF CountFailure, Row
<1>3. "FAILURE" \in Statuses
  BY DEF Statuses, Terminal
<1>4. ASSUME NEW d \in BOOLEAN
      PROVE  LET x == [c EXCEPT !.status = s, !.done = d, !.failures = 0] IN
             x \in Row /\ x.quota = c.quota /\ x.status = s
  <2>1. 0 \in 0 .. MaxPollFailures
    OBVIOUS
  <2> QED
    BY <2>1 DEF Row
<1>5. ASSUME NEW d \in AfterPoll(c, s)
      PROVE  d \in Row /\ d.quota = c.quota /\ d.status = s
  <2>1. CASE s \in Terminal
    BY <1>1, <1>5, <2>1 DEF AfterPoll
  <2>2. CASE s \notin Terminal
    <3>1. PICK b \in BOOLEAN : d = [c EXCEPT !.status = s, !.done = b, !.failures = 0]
      BY <1>5, <2>2 DEF AfterPoll
    <3> QED
      BY <1>4, <3>1
  <2> QED
    BY <2>1, <2>2
<1>6. LET d == AfterPollFailure(c) IN
      d \in Row /\ d.quota = c.quota /\ (d.status = c.status \/ d.status = "FAILURE")
  BY <1>1, <1>2, <1>3 DEF AfterPollFailure
<1> QED
  BY <1>1, <1>3, <1>5, <1>6 DEF PollAnswers

LEMMA PayType ==
    ASSUME TypeOK, NEW t \in Tasks, NEW n \in Int, PayFunding(t, n) \/ PayToken(t, n)
    PROVE  paid' \in [Tasks -> Amounts]
<1>1. paid[t] \in Amounts
  BY DEF TypeOK
<1>2. CASE PayFunding(t, n)
  <2>1. [paid[t] EXCEPT !.funding = @ + n] \in Amounts
    BY <1>1 DEF Amounts
  <2> QED
    BY <1>2, <2>1 DEF PayFunding, TypeOK
<1>3. CASE PayToken(t, n)
  <2>1. [paid[t] EXCEPT !.token = @ + n] \in Amounts
    BY <1>1 DEF Amounts
  <2> QED
    BY <1>3, <2>1 DEF PayToken, TypeOK
<1> QED
  BY <1>2, <1>3

LEMMA TaskStepType ==
    ASSUME TypeOK, NEW t \in Tasks,
           Reserve(t) \/ SubmitStep(t) \/ Provider(t) \/ Age(t) \/ CrashSubmit(t)
    PROVE  TypeOK'
<1>1. CASE Reserve(t)
  <2>1. PICK p \in Quotas, q \in Quotas \cup {0}, s \in {"NOT_START"} \cup Terminal :
          /\ plan' = [plan EXCEPT ![t] = [reserved |-> Larger(p, q), quota |-> q, status |-> s]]
          /\ paid' = [paid EXCEPT ![t] = [funding |-> Larger(p, q), token |-> Larger(p, q)]]
          /\ upstream' = [upstream EXCEPT ![t] = s]
    BY <1>1 DEF Reserve
  <2>2. Larger(p, q) \in Nat /\ q \in Nat /\ s \in Statuses
    BY DEF Larger, Statuses, Active, Terminal
  <2> QED
    BY <1>1, <2>1, <2>2 DEF Reserve, TypeOK, Amounts, worker
<1>2. CASE Insert(t)
  <2> DEFINE inserted == [status |-> plan[t].status, quota |-> plan[t].quota,
                          done |-> plan[t].status \in Terminal, failures |-> 0]
  <2>1. inserted \in Row
    <3>1. (plan[t].status \in Terminal) \in BOOLEAN /\ 0 \in 0 .. MaxPollFailures
      OBVIOUS
    <3> QED
      BY <3>1 DEF TypeOK, Row
  <2> DEFINE nothing == [funding |-> 0, token |-> 0]
  <2>2. nothing \in Amounts
    BY DEF Amounts
  <2>3. row' \in [Tasks -> Row]
    <3>1. row' = [row EXCEPT ![t] = inserted] \/ row' = row
      BY <1>2 DEF Insert
    <3> HIDE DEF inserted
    <3> QED
      BY <2>1, <3>1 DEF TypeOK
  <2>4. paid' \in [Tasks -> Amounts]
    <3>1. paid' = [paid EXCEPT ![t] = nothing] \/ paid' = paid
      BY <1>2 DEF Insert
    <3> HIDE DEF nothing
    <3> QED
      BY <2>2, <3>1 DEF TypeOK
  <2>5. submit' \in [Tasks -> {"idle", "insert", "settle", "done"}]
    BY <1>2 DEF Insert, TypeOK
  <2> QED
    BY <1>2, <2>3, <2>4, <2>5 DEF Insert, TypeOK, worker
<1>3. CASE Settle(t)
  <2>1. plan[t].quota - plan[t].reserved \in Int /\ paid[t] \in Amounts
    BY DEF TypeOK
  <2>2. \A n \in Int : [funding |-> paid[t].funding + n, token |-> paid[t].token + n] \in Amounts
    BY <2>1 DEF Amounts
  <2>3. paid' \in [Tasks -> Amounts]
    BY <1>3, <2>1, <2>2 DEF Settle, TypeOK
  <2>4. leak' \in [Tasks -> BOOLEAN]
    BY <1>3 DEF Settle, TypeOK
  <2>5. faults' \in Nat
    BY <1>3 DEF Settle, TypeOK, Succeeds, Fails
  <2>6. submit' \in [Tasks -> {"idle", "insert", "settle", "done"}]
    BY <1>3 DEF Settle, TypeOK
  <2> QED
    BY <1>3, <2>3, <2>4, <2>5, <2>6 DEF Settle, TypeOK, worker
<1>4. CASE Provider(t)
  BY <1>4 DEF Provider, TypeOK, Statuses, Active, Terminal, worker, submission, history
<1>5. CASE Age(t)
  BY <1>5 DEF Age, TypeOK, worker, submission, history
<1>6. CASE CrashSubmit(t)
  BY <1>6 DEF CrashSubmit, TypeOK, worker
<1> QED
  BY <1>1, <1>2, <1>3, <1>4, <1>5, <1>6 DEF SubmitStep

LEMMA TokenStepType ==
    ASSUME TypeOK, NEW w \in Workers, job[w] \in Tasks, NEW delta \in Int, NEW label \in PCs,
           TokenStep(w, delta, label)
    PROVE  TypeOK'
<1>1. WorkerType'
  BY GoToType DEF TokenStep
<1>2. paid' \in [Tasks -> Amounts]
  BY PayType DEF TokenStep, TypeOK, AdjustTokenQuota
<1>3. leak' \in [Tasks -> BOOLEAN]
  BY DEF TokenStep, TypeOK
<1> QED
  BY <1>1, <1>2, <1>3 DEF TokenStep, TypeOK, WorkerType, Succeeds, Fails, submission

LEMMA QuotaStepType ==
    ASSUME TypeOK, NEW w \in Workers, job[w] \in Tasks, NEW n \in Nat, QuotaStep(w, n)
    PROVE  TypeOK'
<1>1. WorkerType'
  BY DropType DEF QuotaStep, PCs
<1>2. row' \in [Tasks -> Row]
  <2>0. row[job[w]] \in Row
    BY DEF TypeOK
  <2>1. [row[job[w]] EXCEPT !.quota = n] \in Row
    BY <2>0 DEF Row
  <2> QED
    BY <2>1 DEF QuotaStep, TypeOK
<1>3. leak' \in [Tasks -> BOOLEAN]
  BY DEF QuotaStep, TypeOK
<1> QED
  BY <1>1, <1>2, <1>3 DEF QuotaStep, TypeOK, WorkerType, Succeeds, Fails, submission

LEMMA PassStepType ==
    ASSUME TypeOK, Busy, NEW w \in Workers, PassStep(w) \/ StartFetch(w) \/ FetchStep(w) \/ CrashWorker(w)
    PROVE  TypeOK'
<1>0. /\ {"idle", "sweep", "list", "poll", "write", "fetch", "writeFetched", "finalize",
          "refundFunding", "refundToken", "clearQuota", "adjustFunding", "adjustToken",
          "storeQuota"} \subseteq PCs
      /\ "FAILURE" \in Statuses /\ "UNKNOWN" \in Statuses
      /\ {"legacy", "usage", "refundFailed"} \subseteq Verdicts
  BY DEF PCs, Finalizing, Statuses, Terminal, Active, Verdicts
<1>00. copy[w] \in Row /\ actual[w] \in Nat /\ copy[w].quota \in Nat
  BY DEF TypeOK, Row
<1>01. pc[w] \notin {"idle", "list"} => job[w] \in Tasks /\ upstream[job[w]] \in Statuses
  BY DEF Busy, TypeOK
<1>1. CASE StartPass(w) \/ List(w) \/ StartFetch(w)
  <2>1. WorkerType'
    BY <1>0, <1>1, GoToType, LoadType DEF StartPass, List, StartFetch
  <2> QED
    BY <1>1, <2>1 DEF StartPass, List, StartFetch, TypeOK, WorkerType, submission, history
<1>2. CASE Sweep(w)
  <2> DEFINE swept == [Ended(copy[w], "FAILURE") EXCEPT !.quota = IF job[w] \in Legacy THEN 0 ELSE @]
  <2>1. swept \in Row
    <3>1. Ended(copy[w], "FAILURE") \in Row
      BY <1>0, <1>00, EndedType
    <3> QED
      BY <3>1 DEF Row
  <2>2. WorkerType'
    BY <1>0, <1>2, <2>1, EditType, DropType DEF Sweep
  <2>3. row' \in [Tasks -> Row]
    <3>1. row' = [row EXCEPT ![job[w]] = swept] \/ row' = row
      BY <1>2 DEF Sweep
    <3> HIDE DEF swept
    <3> QED
      BY <2>1, <3>1 DEF TypeOK
  <2>4. verdict' \in [Tasks -> Verdicts]
    BY <1>0, <1>01, <1>2 DEF Sweep, TypeOK
  <2> QED
    BY <1>2, <2>2, <2>3, <2>4 DEF Sweep, TypeOK, WorkerType, submission, Succeeds, Fails
<1>3. CASE FailInBulk(w)
  <2>1. WorkerType'
    BY <1>0, <1>3, DropType DEF FailInBulk
  <2>2. row' \in [Tasks -> Row]
    <3>1. \A t \in Tasks : Ended(row[t], "FAILURE") \in Row
      BY <1>0, EndedType DEF TypeOK
    <3> QED
      BY <1>3, <3>1 DEF FailInBulk, TypeOK
  <2> QED
    BY <1>3, <2>1, <2>2 DEF FailInBulk, TypeOK, WorkerType, submission, history, Succeeds, Fails
<1>4. CASE Poll(w)
  <2>1. WorkerType'
    <3>1. \A c \in PollAnswers(copy[w], upstream[job[w]]) : c \in Row
      BY <1>00, <1>01, <1>4, AnswerType DEF Poll
    <3>2. \E c \in PollAnswers(copy[w], upstream[job[w]]) : Edit(w, c, "write") \/ Drop(w, "idle")
      BY <1>4 DEF Poll, PollAnswers
    <3> QED
      BY <1>0, <3>1, <3>2, EditType, DropType
  <2> QED
    BY <1>4, <2>1 DEF Poll, TypeOK, WorkerType, submission, history
<1>5. CASE Write(w) \/ WriteFetched(w)
  <2>1. WorkerType'
    BY <1>0, <1>5, GoToType, DropType DEF Write, WriteFetched
  <2>2. row' \in [Tasks -> Row]
    BY <1>00, <1>5 DEF Write, WriteFetched, UpdateWithStatus, TypeOK
  <2> QED
    BY <1>5, <2>1, <2>2 DEF Write, WriteFetched, TypeOK, WorkerType, submission, history, Succeeds, Fails
<1>6. CASE Finalize(w)
  <2>1. WorkerType'
    <3>1. CASE Drop(w, "idle") \/ GoTo(w, "refundFunding")
      BY <1>0, <3>1, GoToType, DropType
    <3>2. CASE \E a \in Quotas \ {copy[w].quota} :
                  /\ actual' = [actual EXCEPT ![w] = a]
                  /\ pc' = [pc EXCEPT ![w] = "adjustFunding"]
                  /\ UNCHANGED <<job, copy, from>>
      BY <1>0, <3>2 DEF TypeOK, WorkerType
    <3> QED
      BY <1>6, <3>1, <3>2 DEF Finalize
  <2> QED
    BY <1>0, <1>6, <2>1, SMTT(20) DEF Finalize, TypeOK, WorkerType, submission
<1>7. CASE RefundFunding(w) \/ AdjustFunding(w)
  <2>1. WorkerType'
    BY <1>0, <1>7, GoToType, DropType DEF RefundFunding, AdjustFunding
  <2>2. paid' \in [Tasks -> Amounts]
    <3>1. - copy[w].quota \in Int /\ UsageDelta(w) \in Int
      BY <1>00 DEF UsageDelta
    <3> QED
      BY <1>01, <1>7, <3>1, PayType DEF RefundFunding, AdjustFunding, TypeOK
  <2>3. verdict' \in [Tasks -> Verdicts] /\ faults' \in Nat
    BY <1>0, <1>7 DEF RefundFunding, AdjustFunding, TypeOK, Succeeds, Fails
  <2> QED
    BY <1>7, <2>1, <2>2, <2>3 DEF RefundFunding, AdjustFunding, TypeOK, WorkerType, submission
<1>8. CASE RefundToken(w) \/ AdjustToken(w)
  <2>1. - copy[w].quota \in Int /\ UsageDelta(w) \in Int
    BY <1>00 DEF UsageDelta
  <2> QED
    BY <1>0, <1>01, <1>8, <2>1, TokenStepType DEF RefundToken, AdjustToken
<1>9. CASE ClearQuota(w) \/ StoreQuota(w)
  BY <1>00, <1>01, <1>9, QuotaStepType DEF ClearQuota, StoreQuota, StoredQuota
<1>10. CASE Fetch(w)
  <2>1. WorkerType'
    <3>1. PICK s \in {copy[w].status, "UNKNOWN", upstream[job[w]]}, d \in BOOLEAN :
            LET c == [copy[w] EXCEPT !.status = s, !.done = d \/ s \in Terminal]
            IN  Edit(w, c, "writeFetched") \/ Drop(w, "idle")
      BY <1>10 DEF Fetch
    <3>2. s \in Statuses
      BY <1>00, <1>01, <1>10, <3>1 DEF Fetch, Row, Statuses, Active
    <3>3. (d \/ s \in Terminal) \in BOOLEAN
      OBVIOUS
    <3>4. [copy[w] EXCEPT !.status = s, !.done = d \/ s \in Terminal] \in Row
      BY <1>00, <3>2, <3>3 DEF Row
    <3> QED
      BY <1>0, <3>1, <3>4, EditType, DropType
  <2> QED
    BY <1>10, <2>1 DEF Fetch, TypeOK, WorkerType, submission, history
<1>11. CASE CrashWorker(w)
  <2>1. WorkerType'
    BY <1>0, <1>11, DropType DEF CrashWorker
  <2>2. leak' \in [Tasks -> BOOLEAN]
    BY <1>11 DEF CrashWorker, TypeOK
  <2> QED
    BY <1>11, <2>1, <2>2 DEF CrashWorker, TypeOK, WorkerType, submission
<1> QED
  BY <1>1, <1>2, <1>3, <1>4, <1>5, <1>6, <1>7, <1>8, <1>9, <1>10, <1>11
     DEF PassStep, BillingStep, FetchStep

LEMMA BusyStep ==
    ASSUME TypeOK, Busy, [Next]_vars
    PROVE  Busy'
<1>1. ASSUME NEW w \in Workers, NEW label, GoTo(w, label),
             label \in {"idle", "list"} \/ pc[w] \notin {"idle", "list"}
      PROVE  Busy'
  BY <1>1 DEF GoTo, TypeOK, Busy
<1>2. ASSUME NEW w \in Workers, NEW label \in {"idle", "list"}, Drop(w, label)
      PROVE  Busy'
  BY <1>2 DEF Drop, TypeOK, Busy
<1>3. ASSUME NEW w \in Workers, NEW t \in Tasks, NEW label, Load(w, t, label)
      PROVE  Busy'
  BY <1>3 DEF Load, TypeOK, Busy
<1>4. ASSUME NEW w \in Workers, NEW c, NEW label, Edit(w, c, label), pc[w] \notin {"idle", "list"}
      PROVE  Busy'
  BY <1>4 DEF Edit, TypeOK, Busy
<1>5. ASSUME UNCHANGED worker
      PROVE  Busy'
  BY <1>5 DEF worker, Busy
<1>6. ASSUME NEW t \in Tasks, Reserve(t) \/ SubmitStep(t) \/ Provider(t) \/ Age(t) \/ CrashSubmit(t)
      PROVE  Busy'
  BY <1>5, <1>6 DEF Reserve, SubmitStep, Insert, Settle, Provider, Age, CrashSubmit
<1>7. ASSUME NEW w \in Workers, PassStep(w) \/ StartFetch(w) \/ FetchStep(w) \/ CrashWorker(w)
      PROVE  Busy'
  <2>1. CASE StartPass(w) \/ List(w) \/ StartFetch(w)
    BY <1>1, <1>3, <2>1 DEF StartPass, List, StartFetch
  <2>2. CASE Sweep(w) \/ FailInBulk(w) \/ Poll(w) \/ Write(w)
    BY <1>1, <1>2, <1>4, <2>2 DEF Sweep, FailInBulk, Poll, Write
  <2>3. CASE Finalize(w)
    <3>1. CASE /\ pc' = [pc EXCEPT ![w] = "adjustFunding"]
               /\ UNCHANGED <<job, copy, from>>
      BY <2>3, <3>1 DEF Finalize, TypeOK, Busy
    <3> QED
      BY <1>1, <1>2, <2>3, <3>1 DEF Finalize
  <2>4. CASE RefundFunding(w) \/ RefundToken(w) \/ ClearQuota(w) \/ AdjustFunding(w)
             \/ AdjustToken(w) \/ StoreQuota(w)
    BY <1>1, <1>2, <2>4 DEF RefundFunding, RefundToken, ClearQuota, AdjustFunding, AdjustToken,
       StoreQuota, TokenStep, QuotaStep
  <2>5. CASE FetchStep(w) \/ CrashWorker(w)
    BY <1>2, <1>4, <2>5 DEF FetchStep, Fetch, WriteFetched, CrashWorker
  <2> QED
    BY <1>7, <2>1, <2>2, <2>3, <2>4, <2>5 DEF PassStep, BillingStep
<1> QED
  BY <1>5, <1>6, <1>7 DEF Next, vars

LEMMA TypeStep == TypeOK /\ Busy /\ [Next]_vars => TypeOK' /\ Busy'
<1> SUFFICES ASSUME TypeOK, Busy, [Next]_vars
             PROVE  TypeOK'
  BY BusyStep
<1>1. CASE UNCHANGED vars
  BY <1>1 DEF vars, TypeOK, submission, worker, history
<1> QED
  BY <1>1, TaskStepType, PassStepType DEF Next

\* Rows, copies, submissions and histories keep their types; quotas never become
\* negative.
THEOREM TypeCorrect == Spec => []TypeOK
<1>1. Init => TypeOK /\ Busy
  BY TypeInit DEF Init, Busy
<1> QED
  BY <1>1, TypeStep, PTL DEF Spec


-----------------------------------------------------------------------------
(* What a step leaves alone.                                               *)

Kept(t) ==
    /\ row'[t] = row[t] /\ submit'[t] = submit[t] /\ plan'[t] = plan[t]
    /\ paid'[t] = paid[t] /\ leak'[t] = leak[t] /\ verdict'[t] = verdict[t]

SameWorker(w) ==
    /\ pc'[w] = pc[w] /\ job'[w] = job[w] /\ copy'[w] = copy[w]
    /\ from'[w] = from[w] /\ actual'[w] = actual[w]

OthersSame(w) == \A u \in Workers \ {w} : SameWorker(u)

\* The step may close row t or change its quota, but not under another owner.
Respects(w, t) ==
    /\ row[t].status # "none" => row'[t].status # "none"
    /\ row'[t].status \in Active => row[t].status \in Active /\ row'[t].quota = row[t].quota
    /\ \A u \in Workers \ {w} : Owns(u, t) =>
          /\ row'[t].status \in Terminal /\ row'[t].quota = row[t].quota
          /\ ~ ChannelsVanish => row'[t].status = row[t].status
          /\ verdict'[t] = verdict[t]

\* Row t and the workers that own it look the same before and after the step.
LEMMA TaskFrame ==
    ASSUME NEW t \in Tasks, TaskOK(t), Kept(t),
           \A w \in Workers : SameWorker(w) \/ (~ Owns(w, t) /\ ~ Owns(w, t)')
    PROVE  TaskOK(t)'
<1>1. \A w \in Workers : Owns(w, t)' <=> Owns(w, t)
  BY DEF SameWorker, Owns
<1>2. Free(t)' <=> Free(t)
  BY <1>1 DEF Free
<1>3. \A w \in Workers : Owns(w, t) =>
        /\ FundingFloor(w)' = FundingFloor(w) /\ TokenFloor(w)' = TokenFloor(w)
        /\ FundingHeld(w)' = FundingHeld(w) /\ TokenHeld(w)' = TokenHeld(w)
  BY DEF SameWorker, FundingFloor, TokenFloor, FundingHeld, TokenHeld
<1>4. Surplus(t)' = Surplus(t) /\ RowFloor(t)' = RowFloor(t)
  BY DEF Kept, Surplus, RowFloor
<1>5. SubmitOK(t)'
  BY DEF TaskOK, SubmitOK, Kept
<1>6. FloorOK(t)'
  BY <1>1, <1>2, <1>3, <1>4 DEF TaskOK, FloorOK, Kept
<1>7. ExactOK(t)'
  BY <1>1, <1>2, <1>3, <1>4 DEF TaskOK, ExactOK, Kept
<1>8. ClosedOK(t)'
  BY <1>2 DEF TaskOK, ClosedOK, Kept
<1>9. VerdictOK(t)'
  BY DEF TaskOK, VerdictOK, Kept
<1> QED
  BY <1>5, <1>6, <1>7, <1>8, <1>9 DEF TaskOK

\* A worker that does not move keeps what it relies on.
LEMMA WorkerFrame ==
    ASSUME NEW u \in Workers, WorkerOK(u), SameWorker(u),
           job[u] \in Tasks =>
              \/ row'[job[u]] = row[job[u]] /\ verdict'[job[u]] = verdict[job[u]]
              \/ \E w \in Workers \ {u} : Respects(w, job[u])
    PROVE  WorkerOK(u)'
<1>1. CASE job[u] \notin Tasks
  BY <1>1 DEF WorkerOK, SameWorker, Finalizing
<1>2. CASE job[u] \in Tasks /\ row'[job[u]] = row[job[u]] /\ verdict'[job[u]] = verdict[job[u]]
  BY <1>2 DEF WorkerOK, SameWorker
<1>3. ASSUME NEW w \in Workers \ {u}, Respects(w, job[u]), job[u] \in Tasks
      PROVE  WorkerOK(u)'
  <2>1. pc[u] \in Finalizing => Owns(u, job[u])
    BY DEF Owns
  <2>2. {"adjustFunding", "adjustToken", "storeQuota"} \subseteq Finalizing
    BY DEF Finalizing
  <2> QED
    BY <1>3, <2>1, <2>2 DEF WorkerOK, SameWorker, Respects
<1> QED
  BY <1>1, <1>2, <1>3

\* A step of worker w that neither touches a row nor owns one.
LEMMA LocalStep ==
    ASSUME IInv, TypeOK', UpstreamOK', NEW w \in Workers, OthersSame(w), \A t \in Tasks : Kept(t),
           pc[w] \notin Finalizing, pc'[w] \notin Finalizing, WorkerOK(w)'
    PROVE  IInv'
<1>2. ASSUME NEW t \in Tasks
      PROVE  TaskOK(t)'
  <2>1. \A u \in Workers : SameWorker(u) \/ (~ Owns(u, t) /\ ~ Owns(u, t)')
    BY DEF OthersSame, Owns
  <2> QED
    BY <2>1, TaskFrame DEF IInv
<1>3. ASSUME NEW u \in Workers
      PROVE  WorkerOK(u)'
  <2>1. CASE u = w
    BY <2>1
  <2>2. CASE u # w
    BY <2>2, WorkerFrame DEF IInv, OthersSame, Kept
  <2> QED
    BY <2>1, <2>2
<1>4. OneOwner'
  BY DEF IInv, OneOwner, OthersSame, SameWorker
<1> QED
  BY <1>2, <1>3, <1>4 DEF IInv

\* A step of worker w on row t.
LEMMA RowStep ==
    ASSUME IInv, TypeOK', UpstreamOK', NEW w \in Workers, NEW t \in Tasks, OthersSame(w),
           job[w] = t, job'[w] \in {t, NoTask},
           \A s \in Tasks \ {t} : Kept(s),
           Owns(w, t)' => Owns(w, t) \/ Free(t),
           Respects(w, t), WorkerOK(w)', TaskOK(t)', pc'[w] \in Finalizing => job'[w] = t
    PROVE  IInv'
<1>1. ASSUME NEW s \in Tasks
      PROVE  TaskOK(s)'
  <2>1. CASE s = t
    BY <2>1
  <2>2. CASE s # t
    <3>1. \A u \in Workers : SameWorker(u) \/ (~ Owns(u, s) /\ ~ Owns(u, s)')
      BY <2>2 DEF OthersSame, Owns
    <3> QED
      BY <2>2, <3>1, TaskFrame DEF IInv
  <2> QED
    BY <2>1, <2>2
<1>2. ASSUME NEW u \in Workers
      PROVE  WorkerOK(u)'
  <2>1. CASE u = w
    BY <2>1
  <2>2. CASE u # w
    <3>1. SameWorker(u) /\ WorkerOK(u)
      BY <2>2 DEF OthersSame, IInv
    <3>2. CASE job[u] = t
      BY <2>2, <3>1, <3>2, WorkerFrame
    <3>3. CASE job[u] # t
      BY <3>1, <3>3, WorkerFrame DEF Kept
    <3> QED
      BY <3>2, <3>3
  <2> QED
    BY <2>1, <2>2
<1>3. OneOwner'
  <2> SUFFICES ASSUME NEW u \in Workers, NEW v \in Workers, u # v,
                      pc'[u] \in Finalizing, pc'[v] \in Finalizing
               PROVE  job'[u] # job'[v]
    BY DEF OneOwner
  <2>1. ASSUME NEW x \in Workers, x # w, pc'[x] \in Finalizing, pc'[w] \in Finalizing
        PROVE  job'[x] # job'[w]
    <3>1. pc[x] \in Finalizing /\ job'[x] = job[x]
      BY <2>1 DEF OthersSame, SameWorker
    <3>2. Owns(w, t) \/ Free(t)
      BY <2>1 DEF Owns
    <3>3. job[x] # t
      BY <2>1, <3>1, <3>2 DEF Owns, Free, IInv, OneOwner
    <3> QED
      BY <2>1, <3>1, <3>3
  <2>2. CASE u # w /\ v # w
    BY <2>2 DEF OthersSame, SameWorker, IInv, OneOwner
  <2> QED
    BY <2>1, <2>2
<1> QED
  BY <1>1, <1>2, <1>3 DEF IInv

\* A durable row that worker w owns after the step.
LEMMA OwnedTask ==
    ASSUME IInv, NEW w \in Workers, NEW t \in Tasks, OthersSame(w), Owns(w, t)',
           Owns(w, t) \/ Free(t),
           row[t].status # "none", row'[t].status # "none",
           row'[t].status \in Terminal \/ verdict'[t] = "none",
           submit'[t] = submit[t], plan'[t] = plan[t],
           paid'[t].funding >= Surplus(t) + FundingFloor(w)',
           paid'[t].token >= Surplus(t) + TokenFloor(w)',
           ~ leak'[t] => /\ paid'[t].funding = Surplus(t) + FundingHeld(w)'
                         /\ paid'[t].token = Surplus(t) + TokenHeld(w)'
    PROVE  TaskOK(t)'
<1>1. \A u \in Workers : Owns(u, t)' => u = w
  BY DEF OthersSame, SameWorker, Owns, Free, IInv, OneOwner
<1>2. ~ Free(t)'
  BY DEF Free
<1>3. Surplus(t)' = Surplus(t)
  BY DEF Surplus
<1>4. SubmitOK(t)'
  BY DEF IInv, TaskOK, SubmitOK
<1>5. FloorOK(t)'
  BY <1>1, <1>2, <1>3 DEF FloorOK
<1>6. ExactOK(t)'
  BY <1>1, <1>2, <1>3 DEF ExactOK
<1>7. ClosedOK(t)'
  BY <1>2 DEF ClosedOK
<1>8. VerdictOK(t)'
  BY DEF VerdictOK
<1> QED
  BY <1>4, <1>5, <1>6, <1>7, <1>8 DEF TaskOK

\* A durable row that nobody owns after the step.
LEMMA FreeTask ==
    ASSUME IInv, NEW w \in Workers, NEW t \in Tasks, OthersSame(w), ~ Owns(w, t)',
           Owns(w, t) \/ Free(t),
           row[t].status # "none", row'[t].status # "none",
           row'[t].status \in Terminal \/ verdict'[t] = "none",
           submit'[t] = submit[t], plan'[t] = plan[t],
           paid'[t].funding >= Surplus(t) + RowFloor(t)',
           paid'[t].token >= Surplus(t) + RowFloor(t)',
           ~ leak'[t] => /\ paid'[t].token = paid'[t].funding
                         /\ verdict'[t] # "legacy" => paid'[t].funding = Surplus(t) + row'[t].quota,
           ~ ChannelsVanish /\ row'[t].status = "FAILURE" /\ ~ leak'[t] /\ verdict'[t] = "none" =>
              row'[t].quota = 0
    PROVE  TaskOK(t)'
<1>1. \A u \in Workers : ~ Owns(u, t)'
  BY DEF OthersSame, SameWorker, Owns, Free, IInv, OneOwner
<1>2. Free(t)'
  BY <1>1 DEF Free
<1>3. Surplus(t)' = Surplus(t)
  BY DEF Surplus
<1>4. SubmitOK(t)'
  BY DEF IInv, TaskOK, SubmitOK
<1>5. FloorOK(t)'
  BY <1>1, <1>2, <1>3 DEF FloorOK
<1>6. ExactOK(t)'
  BY <1>1, <1>2, <1>3 DEF ExactOK
<1>7. ClosedOK(t)'
  BY <1>2 DEF ClosedOK
<1>8. VerdictOK(t)'
  BY DEF VerdictOK
<1> QED
  BY <1>4, <1>5, <1>6, <1>7, <1>8 DEF TaskOK

-----------------------------------------------------------------------------
(* The worker after each kind of step.                                     *)

LEMMA GoToFacts ==
    ASSUME TypeOK, NEW w \in Workers, NEW label, GoTo(w, label)
    PROVE  /\ OthersSame(w) /\ pc'[w] = label /\ job'[w] = job[w]
           /\ copy'[w] = copy[w] /\ from'[w] = from[w] /\ actual'[w] = actual[w]
BY DEF GoTo, OthersSame, SameWorker, TypeOK

LEMMA LoadFacts ==
    ASSUME TypeOK, NEW w \in Workers, NEW t \in Tasks, NEW label, Load(w, t, label)
    PROVE  /\ OthersSame(w) /\ pc'[w] = label /\ job'[w] = t
           /\ copy'[w] = row[t] /\ from'[w] = row[t].status
BY DEF Load, OthersSame, SameWorker, TypeOK

LEMMA EditFacts ==
    ASSUME TypeOK, NEW w \in Workers, NEW c, NEW label, Edit(w, c, label)
    PROVE  /\ OthersSame(w) /\ pc'[w] = label /\ job'[w] = job[w]
           /\ copy'[w] = c /\ from'[w] = from[w] /\ actual'[w] = actual[w]
BY DEF Edit, OthersSame, SameWorker, TypeOK

LEMMA DropFacts ==
    ASSUME TypeOK, NEW w \in Workers, NEW label \in {"idle", "list"}, Drop(w, label)
    PROVE  /\ OthersSame(w) /\ pc'[w] = label /\ job'[w] = NoTask
           /\ pc'[w] \notin Finalizing /\ WorkerOK(w)'
           /\ \A t \in Tasks : ~ Owns(w, t)'
<1>1. OthersSame(w) /\ pc'[w] = label /\ job'[w] = NoTask
  BY DEF Drop, OthersSame, SameWorker, TypeOK
<1>2. label \notin Finalizing
  BY DEF Finalizing
<1>3. WorkerOK(w)'
  BY <1>1, <1>2 DEF WorkerOK
<1> QED
  BY <1>1, <1>2, <1>3 DEF Owns

LEMMA UpstreamStep ==
    ASSUME IInv, [Next]_vars
    PROVE  UpstreamOK'
<1>1. CASE UNCHANGED upstream
  BY <1>1 DEF IInv, UpstreamOK
<1>2. ASSUME NEW t \in Tasks, Reserve(t) \/ Provider(t)
      PROVE  UpstreamOK'
  <2>1. PICK s \in {"NOT_START", "IN_PROGRESS"} \cup Terminal : upstream' = [upstream EXCEPT ![t] = s]
    BY <1>2 DEF Reserve, Provider
  <2>2. s # "none"
    BY DEF Terminal
  <2> QED
    BY <2>1, <2>2 DEF IInv, TypeOK, UpstreamOK
<1>3. ASSUME NEW t \in Tasks, SubmitStep(t) \/ Age(t) \/ CrashSubmit(t)
      PROVE  UNCHANGED upstream
  BY <1>3 DEF SubmitStep, Insert, Settle, Age, CrashSubmit
<1>4. ASSUME NEW w \in Workers, PassStep(w) \/ StartFetch(w) \/ FetchStep(w) \/ CrashWorker(w)
      PROVE  UNCHANGED upstream
  BY <1>4 DEF PassStep, BillingStep, FetchStep, StartPass, Sweep, List, FailInBulk, Poll, Write,
     Finalize, RefundFunding, RefundToken, ClearQuota, AdjustFunding, AdjustToken, StoreQuota,
     TokenStep, QuotaStep, StartFetch, Fetch, WriteFetched, CrashWorker
<1> QED
  BY <1>1, <1>2, <1>3, <1>4 DEF Next, vars

LEMMA InvBusy == IInv => Busy
BY DEF IInv, Busy, WorkerOK

\* What the invariant says of a worker at work.
LEMMA AtWork ==
    ASSUME IInv, NEW w \in Workers, pc[w] \notin {"idle", "list"}
    PROVE  /\ job[w] \in Tasks /\ row[job[w]] \in Row /\ row[job[w]].status # "none"
           /\ copy[w] \in Row /\ copy[w].quota \in Nat /\ actual[w] \in Nat
           /\ paid[job[w]] \in Amounts
           /\ paid[job[w]].funding \in Int /\ paid[job[w]].token \in Int
           /\ Surplus(job[w]) \in Nat
<1>1. job[w] \in Tasks /\ row[job[w]].status # "none"
  BY DEF IInv, WorkerOK
<1>2. row[job[w]] \in Row /\ copy[w] \in Row /\ actual[w] \in Nat /\ paid[job[w]] \in Amounts
  BY <1>1 DEF IInv, TypeOK
<1>3. plan[job[w]] \in [reserved : Nat, quota : Nat, status : Statuses]
  BY <1>1 DEF IInv, TypeOK
<1>4. plan[job[w]].reserved \in Nat /\ plan[job[w]].quota \in Nat
  BY <1>3
<1>5. plan[job[w]].quota <= plan[job[w]].reserved
  BY <1>1 DEF IInv, TaskOK, SubmitOK
<1>6. Surplus(job[w]) \in Nat
  BY <1>4, <1>5 DEF Surplus
<1> QED
  BY <1>1, <1>2, <1>6 DEF Row, Amounts

\* Starting a pass, listing rows, polling one, and a write that loses.
LEMMA LocalSteps ==
    ASSUME IInv, [Next]_vars, TypeOK', NEW w \in Workers,
           \/ StartPass(w) \/ List(w) \/ Poll(w)
           \/ /\ Sweep(w) \/ Write(w)
              /\ UNCHANGED <<row, verdict>>
              /\ Drop(w, "idle") \/ Drop(w, "list")
    PROVE  IInv'
<1>1. UpstreamOK'
  BY UpstreamStep
<1>2. TypeOK /\ WorkerOK(w)
  BY DEF IInv
<1>3. \A t \in Tasks : Kept(t)
  BY DEF Kept, StartPass, List, Poll, Sweep, Write, submission, history
<1>4. CASE StartPass(w) \/ List(w)
  <2>1. ASSUME NEW t \in Tasks, Unfinished(t), NEW label \in {"sweep", "poll"}, Load(w, t, label)
        PROVE  OthersSame(w) /\ pc[w] \notin Finalizing /\ pc'[w] \notin Finalizing /\ WorkerOK(w)'
    <3>1. OthersSame(w) /\ pc'[w] = label /\ job'[w] = t /\ copy'[w] = row[t] /\ from'[w] = row[t].status
      BY <1>2, <2>1, LoadFacts
    <3>2. row'[t] = row[t]
      BY <1>3 DEF Kept
    <3>3. row[t].status \in Active /\ row[t].status # "none"
      BY <2>1 DEF Unfinished, Active
    <3>4. pc[w] \notin Finalizing /\ label \notin Finalizing
      BY <1>4 DEF StartPass, List, Finalizing
    <3>5. WorkerOK(w)'
      BY <3>1, <3>2, <3>3, <3>4 DEF WorkerOK
    <3> QED
      BY <3>1, <3>4, <3>5
  <2>2. ASSUME NEW label \in {"idle", "list"}, GoTo(w, label)
        PROVE  OthersSame(w) /\ pc[w] \notin Finalizing /\ pc'[w] \notin Finalizing /\ WorkerOK(w)'
    <3>1. OthersSame(w) /\ pc'[w] = label /\ job'[w] = job[w]
      BY <1>2, <2>2, GoToFacts
    <3>2. pc[w] \in {"idle", "list"}
      BY <1>4 DEF StartPass, List
    <3>3. pc[w] \notin Finalizing /\ label \notin Finalizing
      BY <3>2 DEF Finalizing
    <3>4. WorkerOK(w)'
      BY <1>2, <3>1, <3>2, <3>3 DEF WorkerOK
    <3> QED
      BY <3>1, <3>3, <3>4
  <2>3. OthersSame(w) /\ pc[w] \notin Finalizing /\ pc'[w] \notin Finalizing /\ WorkerOK(w)'
    BY <1>4, <2>1, <2>2 DEF StartPass, List, TimedOut
  <2> QED
    BY <1>1, <1>3, <2>3, LocalStep
<1>5. CASE Drop(w, "idle") \/ Drop(w, "list")
  <2>1. OthersSame(w) /\ pc'[w] \notin Finalizing /\ WorkerOK(w)'
    BY <1>2, <1>5, DropFacts
  <2>2. pc[w] \notin Finalizing
    BY DEF StartPass, List, Poll, Sweep, Write, Finalizing
  <2> QED
    BY <1>1, <1>3, <2>1, <2>2, LocalStep
<1>6. ASSUME NEW c \in PollAnswers(copy[w], upstream[job[w]]),
             Edit(w, c, "write"), Poll(w)
      PROVE  IInv'
  <2>1. OthersSame(w) /\ pc'[w] = "write" /\ job'[w] = job[w] /\ copy'[w] = c /\ from'[w] = from[w]
    BY <1>2, <1>6, EditFacts
  <2>2. pc[w] = "poll" /\ pc[w] \notin Finalizing /\ "write" \notin Finalizing
    BY <1>6 DEF Poll, Finalizing
  <2>3. /\ job[w] \in Tasks /\ row[job[w]].status # "none" /\ from[w] \in Active
        /\ copy[w] \in Row /\ copy[w].status # "none"
        /\ row[job[w]].status \in Active => copy[w].quota = row[job[w]].quota
    BY <1>2, <2>2, AtWork DEF WorkerOK
  <2>4. upstream[job[w]] \in Statuses /\ upstream[job[w]] # "none"
    BY <2>3 DEF IInv, TypeOK, UpstreamOK
  <2>5. c.quota = copy[w].quota /\ c.status # "none"
    BY <2>3, <2>4, AnswerType
  <2>6. row'[job[w]] = row[job[w]]
    BY <1>3, <2>3 DEF Kept
  <2>7. WorkerOK(w)'
    BY <2>1, <2>2, <2>3, <2>5, <2>6 DEF WorkerOK
  <2> QED
    BY <1>1, <1>3, <2>1, <2>2, <2>7, LocalStep
<1>7. CASE Poll(w)
  BY <1>5, <1>6, <1>7 DEF Poll, PollAnswers
<1> QED
  BY <1>4, <1>5, <1>7

-----------------------------------------------------------------------------
(* Writes of the row.                                                      *)

\* Whoever holds an active row's status in its compare-and-swap finds it unowned.
LEMMA WinnerFacts ==
    ASSUME IInv, NEW w \in Workers, pc[w] \in {"sweep", "write"}, StatusMatches(w)
    PROVE  /\ Free(job[w]) /\ ~ Owns(w, job[w]) /\ row[job[w]].status \in Active
           /\ copy[w].quota = row[job[w]].quota /\ copy[w].status # "none"
           /\ verdict[job[w]] = "none"
           /\ paid[job[w]].funding >= Surplus(job[w]) + row[job[w]].quota
           /\ paid[job[w]].token >= Surplus(job[w]) + row[job[w]].quota
           /\ ~ leak[job[w]] => /\ paid[job[w]].funding = Surplus(job[w]) + row[job[w]].quota
                                /\ paid[job[w]].token = Surplus(job[w]) + row[job[w]].quota
<1>1. job[w] \in Tasks
  BY AtWork
<1>2. row[job[w]].status \in Active
  BY DEF IInv, WorkerOK, StatusMatches
<1>3. row[job[w]].status \notin Terminal /\ row[job[w]].status # "none"
  BY <1>2 DEF Active, Terminal
<1>4. copy[w].quota = row[job[w]].quota /\ copy[w].status # "none"
  BY <1>2 DEF IInv, WorkerOK
<1>5. Free(job[w])
  BY <1>3 DEF Free, Owns, IInv, WorkerOK
<1>6. verdict[job[w]] = "none"
  BY <1>1, <1>3 DEF IInv, TaskOK, VerdictOK
<1>7. FloorOK(job[w]) /\ ExactOK(job[w])
  BY <1>1 DEF IInv, TaskOK
<1>8. /\ paid[job[w]].funding >= Surplus(job[w]) + row[job[w]].quota
      /\ paid[job[w]].token >= Surplus(job[w]) + row[job[w]].quota
  BY <1>2, <1>3, <1>5, <1>7 DEF FloorOK, RowFloor
<1>9. ~ leak[job[w]] => /\ paid[job[w]].funding = Surplus(job[w]) + row[job[w]].quota
                        /\ paid[job[w]].token = Surplus(job[w]) + row[job[w]].quota
  BY <1>3, <1>5, <1>6, <1>7 DEF ExactOK
<1> QED
  BY <1>2, <1>4, <1>5, <1>6, <1>8, <1>9 DEF Free

LEMMA WriteWins ==
    ASSUME IInv, [Next]_vars, TypeOK', NEW w \in Workers, Write(w), StatusMatches(w),
           UpdateWithStatus(w),
           IF copy[w].status \in Terminal THEN GoTo(w, "finalize") ELSE Drop(w, "idle")
    PROVE  IInv'
<1>1. pc[w] = "write" /\ UpstreamOK' /\ TypeOK
  BY UpstreamStep DEF Write, IInv
<1>0. PICK t \in Tasks : t = job[w]
  BY <1>1, AtWork
<1>2. /\ t \in Tasks /\ row[t] \in Row /\ row[t].status # "none" /\ copy[w] \in Row
      /\ copy[w].quota \in Nat /\ paid[t].funding \in Int /\ paid[t].token \in Int
      /\ Surplus(t) \in Nat
  BY <1>0, <1>1, AtWork
<1>3. /\ Free(t) /\ row[t].status \in Active
      /\ copy[w].quota = row[t].quota /\ copy[w].status # "none" /\ verdict[t] = "none"
      /\ paid[t].funding >= Surplus(t) + row[t].quota /\ paid[t].token >= Surplus(t) + row[t].quota
      /\ ~ leak[t] => /\ paid[t].funding = Surplus(t) + row[t].quota
                      /\ paid[t].token = Surplus(t) + row[t].quota
  BY <1>0, <1>1, WinnerFacts
<1>4. /\ row'[t] = copy[w] /\ submit'[t] = submit[t] /\ plan'[t] = plan[t] /\ paid'[t] = paid[t]
      /\ verdict'[t] = verdict[t] /\ leak'[t] = leak[t]
  BY <1>0, <1>1, <1>2 DEF Write, UpdateWithStatus, TypeOK, submission, history
<1>5. \A s \in Tasks \ {t} : Kept(s)
  BY <1>0, <1>1, <1>2 DEF Write, UpdateWithStatus, TypeOK, submission, history, Kept
<1>6. Respects(w, t)
  BY <1>2, <1>3, <1>4 DEF Respects, Free
<1>7. CASE copy[w].status \in Terminal
  <2>1. /\ OthersSame(w) /\ pc'[w] = "finalize" /\ job'[w] = t /\ copy'[w] = copy[w]
    BY <1>0, <1>1, <1>7, GoToFacts
  <2>2. "finalize" \in Finalizing
    BY DEF Finalizing
  <2>3. WorkerOK(w)'
    BY <1>2, <1>3, <1>4, <1>7, <2>1, <2>2 DEF WorkerOK
  <2>4. /\ FundingFloor(w)' = copy[w].quota /\ TokenFloor(w)' = copy[w].quota
        /\ FundingHeld(w)' = copy[w].quota /\ TokenHeld(w)' = copy[w].quota
    BY <2>1 DEF FundingFloor, TokenFloor, FundingHeld, TokenHeld
  <2>5. Owns(w, t)'
    BY <2>1, <2>2 DEF Owns
  <2>6. TaskOK(t)'
    BY <1>2, <1>3, <1>4, <2>1, <2>4, <2>5, OwnedTask
  <2> QED
    BY <1>0, <1>1, <1>2, <1>3, <1>5, <1>6, <2>1, <2>3, <2>6, RowStep
<1>8. CASE copy[w].status \notin Terminal
  <2>1. /\ OthersSame(w) /\ job'[w] = NoTask /\ pc'[w] \notin Finalizing /\ WorkerOK(w)' /\ ~ Owns(w, t)'
    BY <1>1, <1>2, <1>8, DropFacts
  <2>2. copy[w].status \in Active
    BY <1>2, <1>3, <1>8 DEF Row, Statuses
  <2>3. RowFloor(t)' = copy[w].quota
    BY <1>4, <2>2 DEF RowFloor
  <2>4. copy[w].status # "FAILURE"
    BY <1>8 DEF Terminal
  <2>5. TaskOK(t)'
    BY <1>2, <1>3, <1>4, <2>1, <2>3, <2>4, FreeTask
  <2> QED
    BY <1>0, <1>1, <1>2, <1>3, <1>5, <1>6, <2>1, <2>5, RowStep
<1> QED
  BY <1>7, <1>8

LEMMA SweepWins ==
    ASSUME IInv, [Next]_vars, TypeOK', NEW w \in Workers, Sweep(w), StatusMatches(w),
           NEW swept, swept = [Ended(copy[w], "FAILURE") EXCEPT !.quota = IF job[w] \in Legacy THEN 0 ELSE @],
           row' = [row EXCEPT ![job[w]] = swept],
           verdict' = [verdict EXCEPT ![job[w]] = IF job[w] \in Legacy THEN "legacy" ELSE @],
           IF SweepRefunds(w) THEN Edit(w, swept, "refundFunding") ELSE Drop(w, "list")
    PROVE  IInv'
<1>1. pc[w] = "sweep" /\ UpstreamOK' /\ TypeOK
  BY UpstreamStep DEF Sweep, IInv
<1>0. PICK t \in Tasks : t = job[w]
  BY <1>1, AtWork
<1>2. /\ t \in Tasks /\ row[t] \in Row /\ row[t].status # "none" /\ copy[w] \in Row
      /\ copy[w].quota \in Nat /\ paid[t].funding \in Int /\ paid[t].token \in Int
      /\ Surplus(t) \in Nat
  BY <1>0, <1>1, AtWork
<1>3. /\ Free(t) /\ row[t].status \in Active
      /\ copy[w].quota = row[t].quota /\ verdict[t] = "none"
      /\ paid[t].funding >= Surplus(t) + row[t].quota /\ paid[t].token >= Surplus(t) + row[t].quota
      /\ ~ leak[t] => /\ paid[t].funding = Surplus(t) + row[t].quota
                      /\ paid[t].token = Surplus(t) + row[t].quota
  BY <1>0, <1>1, WinnerFacts
<1>4. /\ swept.status = "FAILURE" /\ swept.quota = IF t \in Legacy THEN 0 ELSE copy[w].quota
  <2>1. Ended(copy[w], "FAILURE") \in [status : Statuses, quota : Nat, done : BOOLEAN, failures : 0 .. MaxPollFailures]
    BY <1>2 DEF Ended, Row, Statuses, Terminal
  <2>2. Ended(copy[w], "FAILURE").status = "FAILURE" /\ Ended(copy[w], "FAILURE").quota = copy[w].quota
    BY <1>2 DEF Ended, Row
  <2> QED
    BY <1>0, <2>1, <2>2
<1>5. /\ row'[t] = swept /\ submit'[t] = submit[t] /\ plan'[t] = plan[t] /\ paid'[t] = paid[t]
      /\ leak'[t] = leak[t]
  BY <1>0, <1>1, <1>2 DEF Sweep, TypeOK, submission
<1>6. verdict'[t] = IF t \in Legacy THEN "legacy" ELSE "none"
  BY <1>0, <1>1, <1>2, <1>3 DEF TypeOK
<1>7. \A s \in Tasks \ {t} : Kept(s)
  BY <1>0, <1>1, <1>2 DEF Sweep, TypeOK, submission, Kept
<1>8. {"FAILURE"} \subseteq Terminal /\ "FAILURE" # "none" /\ "FAILURE" \notin Active
  BY DEF Terminal, Active
<1>9. Respects(w, t)
  BY <1>2, <1>3, <1>4, <1>5, <1>8 DEF Respects, Free
<1>10. CASE SweepRefunds(w)
  <2>1. t \notin Legacy
    BY <1>0, <1>10 DEF SweepRefunds
  <2>2. /\ OthersSame(w) /\ pc'[w] = "refundFunding" /\ job'[w] = t /\ copy'[w] = swept
    BY <1>0, <1>1, <1>10, EditFacts
  <2>3. "refundFunding" \in Finalizing
    BY DEF Finalizing
  <2>4. WorkerOK(w)'
    BY <1>2, <1>4, <1>5, <1>8, <2>2, <2>3 DEF WorkerOK
  <2>5. /\ FundingFloor(w)' = copy[w].quota /\ TokenFloor(w)' = copy[w].quota
        /\ FundingHeld(w)' = copy[w].quota /\ TokenHeld(w)' = copy[w].quota
    BY <1>4, <2>1, <2>2 DEF FundingFloor, TokenFloor, FundingHeld, TokenHeld
  <2>6. Owns(w, t)'
    BY <2>2, <2>3 DEF Owns
  <2>7. TaskOK(t)'
    <3>1. /\ paid'[t].funding >= Surplus(t) + FundingFloor(w)' /\ paid'[t].token >= Surplus(t) + TokenFloor(w)'
          /\ ~ leak'[t] => /\ paid'[t].funding = Surplus(t) + FundingHeld(w)'
                           /\ paid'[t].token = Surplus(t) + TokenHeld(w)'
      BY <1>3, <1>5, <2>5
    <3>2. row'[t].status \in Terminal /\ row'[t].status # "none"
      BY <1>4, <1>5, <1>8
    <3> QED
      BY <1>2, <1>3, <1>5, <2>2, <2>6, <3>1, <3>2, OwnedTask
  <2> QED
    BY <1>0, <1>1, <1>2, <1>3, <1>7, <1>9, <2>2, <2>4, <2>7, RowStep
<1>11. CASE ~ SweepRefunds(w)
  <2>1. /\ OthersSame(w) /\ job'[w] = NoTask /\ pc'[w] \notin Finalizing /\ WorkerOK(w)' /\ ~ Owns(w, t)'
    BY <1>1, <1>2, <1>11, DropFacts
  <2>2. RowFloor(t)' = 0
    BY <1>4, <1>5, <1>8 DEF RowFloor
  <2>3. swept.quota = 0
    BY <1>0, <1>4, <1>11 DEF SweepRefunds
  <2>4. verdict'[t] # "legacy" => copy[w].quota = 0
    BY <1>0, <1>6, <1>11 DEF SweepRefunds
  <2>5. TaskOK(t)'
    <3>1. /\ paid'[t].funding >= Surplus(t) + RowFloor(t)' /\ paid'[t].token >= Surplus(t) + RowFloor(t)'
      BY <1>2, <1>3, <1>5, <2>2
    <3>2. ~ leak'[t] => /\ paid'[t].token = paid'[t].funding
                        /\ verdict'[t] # "legacy" => paid'[t].funding = Surplus(t) + row'[t].quota
      BY <1>2, <1>3, <1>5, <2>3, <2>4
    <3> QED
      BY <1>2, <1>3, <1>4, <1>5, <1>8, <2>1, <2>3, <3>1, <3>2, FreeTask, ZenonT(30)
  <2> QED
    BY <1>0, <1>1, <1>2, <1>3, <1>7, <1>9, <2>1, <2>5, RowStep
<1> QED
  BY <1>10, <1>11

\* The bulk update closes the row under whoever owns it and changes no amount.
LEMMA BulkStep ==
    ASSUME IInv, [Next]_vars, TypeOK', NEW w \in Workers, FailInBulk(w)
    PROVE  IInv'
<1>1. pc[w] = "poll" /\ ChannelsVanish /\ UpstreamOK' /\ TypeOK /\ pc[w] \notin Finalizing
  BY UpstreamStep DEF FailInBulk, IInv, Finalizing
<1>0. PICK t \in Tasks : t = job[w]
  BY <1>1, AtWork
<1>2. /\ OthersSame(w) /\ job'[w] = NoTask /\ pc'[w] \notin Finalizing /\ WorkerOK(w)'
      /\ ~ Owns(w, t)' /\ ~ Owns(w, t)
  BY <1>0, <1>1, DropFacts DEF FailInBulk, Owns
<1>3. /\ submit'[t] = submit[t] /\ plan'[t] = plan[t] /\ paid'[t] = paid[t]
      /\ verdict'[t] = verdict[t] /\ leak'[t] = leak[t]
  BY DEF FailInBulk, submission, history
<1>4. \A s \in Tasks \ {t} : Kept(s)
  BY <1>0, <1>1 DEF FailInBulk, TypeOK, submission, history, Kept
<1>5. row[t] \in Row /\ row[t].status # "none"
  BY <1>0, <1>1, AtWork
<1>6. row'[t] = Ended(row[t], "FAILURE") \/ row'[t] = row[t]
  BY <1>0, <1>1 DEF FailInBulk, TypeOK
<1>7. CASE row'[t] = row[t]
  <2>1. \A s \in Tasks : Kept(s)
    BY <1>3, <1>4, <1>7 DEF Kept
  <2> QED
    BY <1>1, <1>2, <2>1, LocalStep
<1>8. CASE row'[t] = Ended(row[t], "FAILURE")
  <2>1. row'[t].status = "FAILURE" /\ row'[t].quota = row[t].quota
    BY <1>5, <1>8 DEF Ended, Row
  <2>2. row'[t].status \in Terminal /\ row'[t].status \notin Active /\ row'[t].status # "none"
    BY <2>1 DEF Terminal, Active
  <2>3. Respects(w, t)
    BY <1>1, <1>3, <2>1, <2>2 DEF Respects
  <2>4. \A u \in Workers : Owns(u, t)' <=> Owns(u, t)
    BY <1>2 DEF OthersSame, SameWorker, Owns
  <2>5. Free(t)' <=> Free(t)
    BY <2>4 DEF Free
  <2>6. \A u \in Workers : Owns(u, t) =>
          /\ FundingFloor(u)' = FundingFloor(u) /\ TokenFloor(u)' = TokenFloor(u)
          /\ FundingHeld(u)' = FundingHeld(u) /\ TokenHeld(u)' = TokenHeld(u)
    BY <1>2 DEF OthersSame, SameWorker, FundingFloor, TokenFloor, FundingHeld, TokenHeld
  <2>7. Surplus(t)' = Surplus(t) /\ Surplus(t) \in Nat
    BY <1>0, <1>1, <1>3, AtWork DEF Surplus
  <2>8. SubmitOK(t)' /\ VerdictOK(t)' /\ ClosedOK(t)'
    BY <1>1, <1>3, <1>5, <2>2 DEF IInv, TaskOK, SubmitOK, VerdictOK, ClosedOK
  <2>9. FloorOK(t)'
    <3>1. RowFloor(t)' = 0 /\ RowFloor(t) \in Nat
      BY <1>5, <2>2 DEF RowFloor, Row
    <3>2. paid[t].funding \in Int /\ paid[t].token \in Int
      BY <1>0, <1>1, AtWork
    <3>3. FloorOK(t)
      BY DEF IInv, TaskOK
    <3>4. Free(t) => paid[t].funding >= Surplus(t) /\ paid[t].token >= Surplus(t)
      BY <1>5, <2>7, <3>1, <3>2, <3>3 DEF FloorOK
    <3> QED
      BY <1>3, <1>5, <2>4, <2>5, <2>6, <2>7, <3>1, <3>3, <3>4 DEF FloorOK
  <2>10. ExactOK(t)'
    BY <1>3, <1>5, <2>1, <2>4, <2>5, <2>6, <2>7 DEF IInv, TaskOK, ExactOK
  <2>11. TaskOK(t)'
    BY <2>8, <2>9, <2>10 DEF TaskOK
  <2> QED
    BY <1>0, <1>1, <1>2, <1>4, <2>3, <2>11, RowStep
<1> QED
  BY <1>6, <1>7, <1>8

-----------------------------------------------------------------------------
(* Terminal billing: worker w owns row t.                                  *)

\* What the owner of a row may rely on.
LEMMA OwnerFacts ==
    ASSUME IInv, NEW w \in Workers, pc[w] \in Finalizing
    PROVE  /\ job[w] \in Tasks /\ Owns(w, job[w]) /\ row[job[w]] \in Row
           /\ row[job[w]].status \in Terminal
           /\ row[job[w]].status # "none" /\ row[job[w]].status \notin Active
           /\ copy[w].quota \in Nat /\ actual[w] \in Nat /\ Surplus(job[w]) \in Nat
           /\ copy[w].quota = row[job[w]].quota
           /\ ~ ChannelsVanish => copy[w].status = row[job[w]].status
           /\ paid[job[w]] \in Amounts
           /\ paid[job[w]].funding \in Int /\ paid[job[w]].token \in Int
           /\ paid[job[w]].funding >= Surplus(job[w]) + FundingFloor(w)
           /\ paid[job[w]].token >= Surplus(job[w]) + TokenFloor(w)
           /\ ~ leak[job[w]] => /\ paid[job[w]].funding = Surplus(job[w]) + FundingHeld(w)
                                /\ paid[job[w]].token = Surplus(job[w]) + TokenHeld(w)
<1>1. pc[w] \notin {"idle", "list"}
  BY DEF Finalizing
<1>2. /\ job[w] \in Tasks /\ Owns(w, job[w]) /\ row[job[w]] \in Row
      /\ row[job[w]].status # "none"
      /\ copy[w].quota \in Nat /\ actual[w] \in Nat /\ Surplus(job[w]) \in Nat
      /\ paid[job[w]] \in Amounts
      /\ paid[job[w]].funding \in Int /\ paid[job[w]].token \in Int
  BY <1>1, AtWork DEF Owns
<1>3. /\ row[job[w]].status \in Terminal /\ copy[w].quota = row[job[w]].quota
      /\ ~ ChannelsVanish => copy[w].status = row[job[w]].status
  BY DEF IInv, WorkerOK
<1>4. row[job[w]].status \notin Active
  BY <1>3 DEF Active, Terminal
<1>5. FloorOK(job[w]) /\ ExactOK(job[w])
  BY <1>2 DEF IInv, TaskOK
<1> QED
  BY <1>2, <1>3, <1>4, <1>5 DEF FloorOK, ExactOK

\* A step after which w still owns the row.
LEMMA KeepsRow ==
    ASSUME IInv, TypeOK', UpstreamOK', NEW w \in Workers, NEW t \in Tasks,
           pc[w] \in Finalizing, job[w] = t, OthersSame(w),
           pc'[w] \in Finalizing, job'[w] = t, copy'[w] = copy[w],
           \A s \in Tasks \ {t} : Kept(s),
           row' = row, submit' = submit, plan' = plan,
           pc'[w] \in {"adjustFunding", "adjustToken", "storeQuota"} => verdict'[t] = "usage",
           paid'[t].funding >= Surplus(t) + FundingFloor(w)',
           paid'[t].token >= Surplus(t) + TokenFloor(w)',
           ~ leak'[t] => /\ paid'[t].funding = Surplus(t) + FundingHeld(w)'
                         /\ paid'[t].token = Surplus(t) + TokenHeld(w)'
    PROVE  IInv'
<1>1. /\ Owns(w, t) /\ row[t].status \in Terminal /\ row[t].status # "none" /\ row[t].status \notin Active
      /\ copy[w].quota = row[t].quota
      /\ ~ ChannelsVanish => copy[w].status = row[t].status
  BY OwnerFacts
<1>2. Owns(w, t)'
  BY DEF Owns
<1>3. \A u \in Workers \ {w} : ~ Owns(u, t)
  BY DEF Owns, IInv, OneOwner
<1>4. Respects(w, t)
  BY <1>1, <1>3 DEF Respects
<1>5. pc'[w] \notin {"idle", "list", "fetch", "writeFetched", "sweep", "poll", "write"}
  BY DEF Finalizing
<1>6. WorkerOK(w)'
  BY <1>1, <1>5 DEF WorkerOK
<1>7. TaskOK(t)'
  BY <1>1, <1>2, OwnedTask
<1> QED
  BY <1>1, <1>4, <1>6, <1>7, RowStep

\* A step after which nobody owns the row.
LEMMA LeavesRow ==
    ASSUME IInv, TypeOK', UpstreamOK', NEW w \in Workers, NEW t \in Tasks,
           pc[w] \in Finalizing, job[w] = t, Drop(w, "idle"),
           \A s \in Tasks \ {t} : Kept(s),
           row'[t].status = row[t].status, submit' = submit, plan' = plan, paid' = paid,
           ~ leak'[t] => /\ paid[t].token = paid[t].funding
                         /\ verdict'[t] # "legacy" => paid[t].funding = Surplus(t) + row'[t].quota,
           ~ ChannelsVanish /\ row[t].status = "FAILURE" /\ ~ leak'[t] /\ verdict'[t] = "none" =>
              row'[t].quota = 0
    PROVE  IInv'
<1>1. /\ Owns(w, t) /\ row[t].status \in Terminal /\ row[t].status # "none" /\ row[t].status \notin Active
      /\ paid[t].funding \in Int /\ paid[t].token \in Int /\ Surplus(t) \in Nat /\ copy[w].quota \in Nat
      /\ paid[t].funding >= Surplus(t) + FundingFloor(w) /\ paid[t].token >= Surplus(t) + TokenFloor(w)
  BY OwnerFacts
<1>2. /\ OthersSame(w) /\ job'[w] = NoTask /\ pc'[w] \notin Finalizing /\ WorkerOK(w)' /\ ~ Owns(w, t)'
  BY DropFacts DEF IInv
<1>3. \A u \in Workers \ {w} : ~ Owns(u, t)
  BY DEF Owns, IInv, OneOwner
<1>4. Respects(w, t)
  BY <1>1, <1>3 DEF Respects
<1>5. RowFloor(t)' = 0
  BY <1>1 DEF RowFloor
<1>6. FundingFloor(w) \in Nat /\ TokenFloor(w) \in Nat
  BY <1>1 DEF FundingFloor, TokenFloor
<1>7. paid'[t].funding >= Surplus(t) + RowFloor(t)' /\ paid'[t].token >= Surplus(t) + RowFloor(t)'
  BY <1>1, <1>5, <1>6
<1>8. TaskOK(t)'
  BY <1>1, <1>2, <1>7, FreeTask
<1> QED
  BY <1>1, <1>2, <1>4, <1>8, RowStep

LEMMA FinalizeStep ==
    ASSUME IInv, [Next]_vars, TypeOK', NEW w \in Workers, Finalize(w)
    PROVE  IInv'
<1>1. pc[w] = "finalize" /\ pc[w] \in Finalizing /\ UpstreamOK' /\ TypeOK
  BY UpstreamStep DEF Finalize, IInv, Finalizing
<1>0. PICK t \in Tasks : t = job[w]
  BY <1>1, OwnerFacts
<1>2. /\ copy[w].quota = row[t].quota
      /\ ~ ChannelsVanish => copy[w].status = row[t].status
      /\ paid[t].funding >= Surplus(t) + copy[w].quota /\ paid[t].token >= Surplus(t) + copy[w].quota
      /\ ~ leak[t] => /\ paid[t].funding = Surplus(t) + copy[w].quota
                      /\ paid[t].token = Surplus(t) + copy[w].quota
  BY <1>0, <1>1, OwnerFacts DEF FundingFloor, TokenFloor, FundingHeld, TokenHeld
<1>3. row' = row /\ submit' = submit /\ plan' = plan /\ paid' = paid /\ leak' = leak
  BY DEF Finalize, submission
<1>4. \A s \in Tasks \ {t} : Kept(s)
  BY <1>0, <1>1 DEF Finalize, submission, Kept, TypeOK
<1>5. CASE pc' = [pc EXCEPT ![w] = "adjustFunding"] /\ UNCHANGED <<job, copy, from>>
           /\ (\E a \in Quotas : actual' = [actual EXCEPT ![w] = a])
           /\ verdict' = [verdict EXCEPT ![job[w]] = "usage"]
  <2>1. OthersSame(w) /\ pc'[w] = "adjustFunding" /\ job'[w] = t /\ copy'[w] = copy[w] /\ verdict'[t] = "usage"
    BY <1>0, <1>1, <1>5 DEF OthersSame, SameWorker, TypeOK
  <2>2. /\ FundingFloor(w)' = copy[w].quota /\ TokenFloor(w)' = copy[w].quota
        /\ FundingHeld(w)' = copy[w].quota /\ TokenHeld(w)' = copy[w].quota
    BY <2>1 DEF FundingFloor, TokenFloor, FundingHeld, TokenHeld
  <2>3. pc'[w] \in Finalizing
    BY <2>1 DEF Finalizing
  <2> QED
    BY <1>0, <1>1, <1>2, <1>3, <1>4, <2>1, <2>2, <2>3, KeepsRow
<1>6. CASE Drop(w, "idle") /\ verdict' = [verdict EXCEPT ![job[w]] = "usage"]
  <2>1. verdict'[t] = "usage"
    BY <1>0, <1>1, <1>6 DEF TypeOK
  <2>2. ~ leak'[t] => /\ paid[t].token = paid[t].funding
                      /\ paid[t].funding = Surplus(t) + row'[t].quota
    BY <1>2, <1>3
  <2> QED
    BY <1>0, <1>1, <1>3, <1>4, <1>6, <2>1, <2>2, LeavesRow
<1>7. CASE GoTo(w, "refundFunding") /\ UNCHANGED verdict
  <2>1. OthersSame(w) /\ pc'[w] = "refundFunding" /\ job'[w] = t /\ copy'[w] = copy[w]
    BY <1>0, <1>1, <1>7, GoToFacts
  <2>2. /\ FundingFloor(w)' = copy[w].quota /\ TokenFloor(w)' = copy[w].quota
        /\ FundingHeld(w)' = copy[w].quota /\ TokenHeld(w)' = copy[w].quota
    BY <2>1 DEF FundingFloor, TokenFloor, FundingHeld, TokenHeld
  <2>3. pc'[w] \in Finalizing
    BY <2>1 DEF Finalizing
  <2> QED
    BY <1>0, <1>1, <1>2, <1>3, <1>4, <2>1, <2>2, <2>3, KeepsRow
<1>8. CASE Drop(w, "idle") /\ UNCHANGED verdict /\ ~ (copy[w].status = "FAILURE" /\ copy[w].quota # 0)
  <2>1. ~ leak'[t] => /\ paid[t].token = paid[t].funding
                      /\ paid[t].funding = Surplus(t) + row'[t].quota
    BY <1>2, <1>3
  <2>2. ~ ChannelsVanish /\ row[t].status = "FAILURE" => row'[t].quota = 0
    BY <1>2, <1>3, <1>8
  <2> QED
    BY <1>0, <1>1, <1>3, <1>4, <1>8, <2>1, <2>2, LeavesRow
<1> QED
  BY <1>5, <1>6, <1>7, <1>8 DEF Finalize

\* The amounts a row has taken after one payment.
LEMMA Payment ==
    ASSUME TypeOK, NEW t \in Tasks, NEW n \in Int
    PROVE  /\ PayFunding(t, n) => /\ paid'[t].funding = paid[t].funding + n
                                  /\ paid'[t].token = paid[t].token
           /\ PayToken(t, n) => /\ paid'[t].token = paid[t].token + n
                                /\ paid'[t].funding = paid[t].funding
           /\ PayFunding(t, n) \/ PayToken(t, n) => \A s \in Tasks \ {t} : paid'[s] = paid[s]
<1>1. paid[t] \in Amounts
  BY DEF TypeOK
<1>2. /\ [paid[t] EXCEPT !.funding = @ + n].funding = paid[t].funding + n
      /\ [paid[t] EXCEPT !.funding = @ + n].token = paid[t].token
      /\ [paid[t] EXCEPT !.token = @ + n].token = paid[t].token + n
      /\ [paid[t] EXCEPT !.token = @ + n].funding = paid[t].funding
  BY <1>1 DEF Amounts
<1>3. PayFunding(t, n) => paid'[t] = [paid[t] EXCEPT !.funding = @ + n]
  BY DEF PayFunding, TypeOK
<1>4. PayToken(t, n) => paid'[t] = [paid[t] EXCEPT !.token = @ + n]
  BY DEF PayToken, TypeOK
<1>5. PayFunding(t, n) \/ PayToken(t, n) => \A s \in Tasks \ {t} : paid'[s] = paid[s]
  BY DEF PayFunding, PayToken, TypeOK
<1> QED
  BY <1>2, <1>3, <1>4, <1>5

\* The funding source is adjusted, or the refund or adjustment gives up.
LEMMA FundingStep ==
    ASSUME IInv, [Next]_vars, TypeOK', NEW w \in Workers, RefundFunding(w) \/ AdjustFunding(w)
    PROVE  IInv'
<1>1. /\ pc[w] \in {"refundFunding", "adjustFunding"} /\ pc[w] \in Finalizing /\ UpstreamOK' /\ TypeOK
  BY UpstreamStep DEF RefundFunding, AdjustFunding, IInv, Finalizing
<1>0. PICK t \in Tasks : t = job[w]
  BY <1>1, OwnerFacts
<1>2. /\ copy[w].quota = row[t].quota /\ copy[w].quota \in Nat /\ actual[w] \in Nat
      /\ Surplus(t) \in Nat /\ paid[t].funding \in Int /\ paid[t].token \in Int
      /\ paid[t].funding >= Surplus(t) + copy[w].quota /\ paid[t].token >= Surplus(t) + copy[w].quota
      /\ ~ leak[t] => /\ paid[t].funding = Surplus(t) + copy[w].quota
                      /\ paid[t].token = Surplus(t) + copy[w].quota
  BY <1>0, <1>1, OwnerFacts DEF FundingFloor, TokenFloor, FundingHeld, TokenHeld
<1>3. row' = row /\ submit' = submit /\ plan' = plan /\ leak' = leak
  BY DEF RefundFunding, AdjustFunding, submission
<1>4. pc[w] = "adjustFunding" => verdict[t] = "usage"
  BY <1>0 DEF IInv, WorkerOK
<1>5. - copy[w].quota \in Int /\ UsageDelta(w) \in Int /\ UsageDelta(w) = actual[w] - copy[w].quota
  BY <1>2 DEF UsageDelta
<1>6. CASE /\ RefundFunding(w) /\ PayFunding(job[w], - copy[w].quota)
           /\ GoTo(w, "refundToken") /\ UNCHANGED verdict
  <2>1. OthersSame(w) /\ pc'[w] = "refundToken" /\ job'[w] = t /\ copy'[w] = copy[w]
    BY <1>0, <1>1, <1>6, GoToFacts
  <2>2. /\ paid'[t].funding = paid[t].funding - copy[w].quota /\ paid'[t].token = paid[t].token
        /\ \A s \in Tasks \ {t} : paid'[s] = paid[s]
    BY <1>0, <1>1, <1>2, <1>5, <1>6, Payment
  <2>3. \A s \in Tasks \ {t} : Kept(s)
    BY <1>3, <1>6, <2>2 DEF Kept
  <2>4. /\ FundingFloor(w)' = 0 /\ TokenFloor(w)' = copy[w].quota
        /\ FundingHeld(w)' = 0 /\ TokenHeld(w)' = copy[w].quota
    BY <2>1 DEF FundingFloor, TokenFloor, FundingHeld, TokenHeld
  <2>5. pc'[w] \in Finalizing
    BY <2>1 DEF Finalizing
  <2>6. /\ paid'[t].funding >= Surplus(t) + FundingFloor(w)' /\ paid'[t].token >= Surplus(t) + TokenFloor(w)'
        /\ ~ leak'[t] => /\ paid'[t].funding = Surplus(t) + FundingHeld(w)'
                         /\ paid'[t].token = Surplus(t) + TokenHeld(w)'
    BY <1>2, <1>3, <2>2, <2>4
  <2> QED
    BY <1>0, <1>1, <1>3, <2>1, <2>3, <2>5, <2>6, KeepsRow
<1>7. CASE RefundFunding(w) /\ Drop(w, "idle") /\ verdict' = [verdict EXCEPT ![job[w]] = "refundFailed"] /\ UNCHANGED paid
  <2>1. verdict'[t] = "refundFailed"
    BY <1>0, <1>1, <1>7 DEF TypeOK
  <2>2. \A s \in Tasks \ {t} : Kept(s)
    BY <1>0, <1>1, <1>3, <1>7 DEF Kept, TypeOK
  <2>3. ~ leak'[t] => /\ paid[t].token = paid[t].funding
                      /\ paid[t].funding = Surplus(t) + row'[t].quota
    BY <1>2, <1>3
  <2> QED
    BY <1>0, <1>1, <1>3, <1>7, <2>1, <2>2, <2>3, LeavesRow
<1>8. CASE AdjustFunding(w) /\ PayFunding(job[w], UsageDelta(w)) /\ GoTo(w, "adjustToken")
  <2>0. pc[w] = "adjustFunding" /\ verdict' = verdict
    BY <1>8 DEF AdjustFunding
  <2>1. OthersSame(w) /\ pc'[w] = "adjustToken" /\ job'[w] = t /\ copy'[w] = copy[w] /\ actual'[w] = actual[w]
    BY <1>0, <1>1, <1>8, GoToFacts
  <2>2. /\ paid'[t].funding = paid[t].funding + (actual[w] - copy[w].quota) /\ paid'[t].token = paid[t].token
        /\ \A s \in Tasks \ {t} : paid'[s] = paid[s]
    BY <1>0, <1>1, <1>5, <1>8, Payment
  <2>3. \A s \in Tasks \ {t} : Kept(s)
    BY <1>3, <2>0, <2>2 DEF Kept
  <2>4. /\ FundingFloor(w)' = 0 /\ TokenFloor(w)' = copy[w].quota
        /\ FundingHeld(w)' = actual[w] /\ TokenHeld(w)' = copy[w].quota
    BY <2>1 DEF FundingFloor, TokenFloor, FundingHeld, TokenHeld
  <2>5. pc'[w] \in Finalizing
    BY <2>1 DEF Finalizing
  <2>6. /\ paid'[t].funding >= Surplus(t) + FundingFloor(w)' /\ paid'[t].token >= Surplus(t) + TokenFloor(w)'
        /\ ~ leak'[t] => /\ paid'[t].funding = Surplus(t) + FundingHeld(w)'
                         /\ paid'[t].token = Surplus(t) + TokenHeld(w)'
    BY <1>2, <1>3, <2>2, <2>4
  <2> QED
    BY <1>0, <1>1, <1>3, <1>4, <2>0, <2>1, <2>3, <2>5, <2>6, KeepsRow
<1>9. CASE AdjustFunding(w) /\ Drop(w, "idle") /\ UNCHANGED paid
  <2>1. pc[w] = "adjustFunding" /\ verdict' = verdict
    BY <1>9 DEF AdjustFunding
  <2>2. \A s \in Tasks \ {t} : Kept(s)
    BY <1>3, <1>9, <2>1 DEF Kept
  <2>3. ~ leak'[t] => /\ paid[t].token = paid[t].funding
                      /\ paid[t].funding = Surplus(t) + row'[t].quota
    BY <1>2, <1>3
  <2> QED
    BY <1>0, <1>1, <1>3, <1>4, <1>9, <2>1, <2>2, <2>3, LeavesRow
<1> QED
  BY <1>6, <1>7, <1>8, <1>9 DEF RefundFunding, AdjustFunding

\* The token follows, or its adjustment is logged as lost.
LEMMA TokenSteps ==
    ASSUME IInv, [Next]_vars, TypeOK', NEW w \in Workers, RefundToken(w) \/ AdjustToken(w)
    PROVE  IInv'
<1>1. /\ pc[w] \in {"refundToken", "adjustToken"} /\ pc[w] \in Finalizing /\ UpstreamOK' /\ TypeOK
  BY UpstreamStep DEF RefundToken, AdjustToken, IInv, Finalizing
<1>0. PICK t \in Tasks : t = job[w]
  BY <1>1, OwnerFacts
<1> DEFINE next == IF pc[w] = "refundToken" THEN "clearQuota" ELSE "storeQuota"
           delta == IF pc[w] = "refundToken" THEN - copy[w].quota ELSE actual[w] - copy[w].quota
<1>2. TokenStep(w, delta, next)
  BY DEF RefundToken, AdjustToken, UsageDelta
<1>3. /\ copy[w].quota \in Nat /\ actual[w] \in Nat
      /\ Surplus(t) \in Nat /\ paid[t].funding \in Int /\ paid[t].token \in Int
      /\ paid[t].funding >= Surplus(t) /\ paid[t].token >= Surplus(t) + copy[w].quota
      /\ ~ leak[t] => /\ paid[t].funding = Surplus(t) + FundingHeld(w)
                      /\ paid[t].token = Surplus(t) + copy[w].quota
  <2>1. FundingFloor(w) = 0 /\ TokenFloor(w) = copy[w].quota /\ TokenHeld(w) = copy[w].quota
    BY <1>1 DEF FundingFloor, TokenFloor, TokenHeld
  <2> QED
    BY <1>0, <1>1, <2>1, OwnerFacts
<1>4. delta \in Int /\ next \in {"clearQuota", "storeQuota"}
  BY <1>3
<1>5. /\ row' = row /\ submit' = submit /\ plan' = plan /\ verdict' = verdict
      /\ GoTo(w, next)
  BY <1>2 DEF TokenStep, submission
<1>6. /\ OthersSame(w) /\ pc'[w] = next /\ job'[w] = t /\ copy'[w] = copy[w] /\ actual'[w] = actual[w]
  BY <1>0, <1>1, <1>5, GoToFacts
<1>7. next \in Finalizing
  BY <1>4 DEF Finalizing
<1>8. /\ FundingFloor(w)' = 0 /\ TokenFloor(w)' = 0
      /\ FundingHeld(w)' = FundingHeld(w)
      /\ TokenHeld(w)' = IF pc[w] = "refundToken" THEN 0 ELSE actual[w]
  BY <1>1, <1>6 DEF FundingFloor, TokenFloor, FundingHeld, TokenHeld
<1>9. next = "storeQuota" => verdict[t] = "usage"
  BY <1>0, <1>1 DEF IInv, WorkerOK
<1>10. CASE AdjustTokenQuota(job[w], delta) /\ UNCHANGED leak
  <2>1. /\ paid'[t].token = paid[t].token + delta /\ paid'[t].funding = paid[t].funding
        /\ \A s \in Tasks \ {t} : paid'[s] = paid[s]
    BY <1>0, <1>1, <1>4, <1>10, Payment DEF AdjustTokenQuota
  <2>2. \A s \in Tasks \ {t} : Kept(s)
    BY <1>5, <1>10, <2>1 DEF Kept
  <2>3. /\ paid'[t].funding >= Surplus(t) + FundingFloor(w)' /\ paid'[t].token >= Surplus(t) + TokenFloor(w)'
        /\ ~ leak'[t] => /\ paid'[t].funding = Surplus(t) + FundingHeld(w)'
                         /\ paid'[t].token = Surplus(t) + TokenHeld(w)'
    BY <1>1, <1>3, <1>8, <1>10, <2>1
  <2> HIDE DEF next, delta
  <2> QED
    BY <1>0, <1>1, <1>4, <1>5, <1>6, <1>7, <1>9, <2>2, <2>3, KeepsRow
<1>11. CASE leak' = [leak EXCEPT ![job[w]] = TRUE] /\ UNCHANGED paid
  <2>1. leak'[t] /\ \A s \in Tasks \ {t} : leak'[s] = leak[s]
    BY <1>0, <1>1, <1>11 DEF TypeOK
  <2>2. \A s \in Tasks \ {t} : Kept(s)
    BY <1>5, <1>11, <2>1 DEF Kept
  <2>3. /\ paid'[t].funding >= Surplus(t) + FundingFloor(w)' /\ paid'[t].token >= Surplus(t) + TokenFloor(w)'
    BY <1>3, <1>8, <1>11
  <2> HIDE DEF next, delta
  <2> QED
    BY <1>0, <1>1, <1>4, <1>5, <1>6, <1>7, <1>9, <2>1, <2>2, <2>3, KeepsRow
<1> QED
  BY <1>2, <1>10, <1>11 DEF TokenStep

\* The row's quota is brought in line with what was taken.
LEMMA QuotaSteps ==
    ASSUME IInv, [Next]_vars, TypeOK', NEW w \in Workers, ClearQuota(w) \/ StoreQuota(w)
    PROVE  IInv'
<1>1. /\ pc[w] \in {"clearQuota", "storeQuota"} /\ pc[w] \in Finalizing /\ UpstreamOK' /\ TypeOK
  BY UpstreamStep DEF ClearQuota, StoreQuota, IInv, Finalizing
<1>0. PICK t \in Tasks : t = job[w]
  BY <1>1, OwnerFacts
<1> DEFINE n == IF pc[w] = "clearQuota" THEN 0 ELSE actual[w]
<1>2. QuotaStep(w, n)
  BY DEF ClearQuota, StoreQuota, StoredQuota
<1>3. /\ n \in Nat /\ Surplus(t) \in Nat /\ row[t] \in Row
      /\ ~ leak[t] => paid[t].funding = Surplus(t) + n /\ paid[t].token = Surplus(t) + n
  <2>1. FundingHeld(w) = n /\ TokenHeld(w) = n
    BY <1>1 DEF FundingHeld, TokenHeld
  <2> QED
    BY <1>0, <1>1, <2>1, OwnerFacts
<1>4. /\ submit' = submit /\ plan' = plan /\ verdict' = verdict /\ paid' = paid /\ Drop(w, "idle")
  BY <1>2 DEF QuotaStep, submission
<1>5. pc[w] = "storeQuota" => verdict'[t] = "usage"
  BY <1>0, <1>4 DEF IInv, WorkerOK
<1>6. CASE row' = [row EXCEPT ![job[w]].quota = n] /\ UNCHANGED leak
  <2> HIDE DEF n
  <2>1. row'[t] = [row[t] EXCEPT !.quota = n] /\ \A s \in Tasks \ {t} : row'[s] = row[s]
    BY <1>0, <1>1, <1>6 DEF TypeOK
  <2>2. row'[t].status = row[t].status /\ row'[t].quota = n
    BY <1>3, <2>1 DEF Row
  <2>3. \A s \in Tasks \ {t} : Kept(s)
    BY <1>4, <1>6, <2>1 DEF Kept
  <2>4. ~ leak'[t] => /\ paid[t].token = paid[t].funding
                      /\ paid[t].funding = Surplus(t) + row'[t].quota
    BY <1>3, <1>6, <2>2
  <2>5. verdict'[t] = "none" => row'[t].quota = 0
    BY <1>1, <1>5, <2>2 DEF n
  <2> QED
    BY <1>0, <1>1, <1>4, <2>2, <2>3, <2>4, <2>5, LeavesRow
<1>7. CASE leak' = [leak EXCEPT ![job[w]] = TRUE] /\ UNCHANGED row
  <2>1. leak'[t] /\ \A s \in Tasks \ {t} : leak'[s] = leak[s]
    BY <1>0, <1>1, <1>7 DEF TypeOK
  <2>2. \A s \in Tasks \ {t} : Kept(s)
    BY <1>4, <1>7, <2>1 DEF Kept
  <2> QED
    BY <1>0, <1>1, <1>4, <1>7, <2>1, <2>2, LeavesRow
<1> QED
  BY <1>2, <1>6, <1>7 DEF QuotaStep

\* A crash leaves an owned row to nobody, and says so.
LEMMA CrashStep ==
    ASSUME IInv, [Next]_vars, TypeOK', NEW w \in Workers, CrashWorker(w)
    PROVE  IInv'
<1>1. pc[w] # "idle" /\ Drop(w, "idle") /\ UpstreamOK' /\ TypeOK
  BY UpstreamStep DEF CrashWorker, IInv
<1>2. row' = row /\ submit' = submit /\ plan' = plan /\ paid' = paid /\ verdict' = verdict
  BY DEF CrashWorker, submission
<1>3. \A s \in Tasks : leak'[s] = (leak[s] \/ (s = job[w] /\ pc[w] \in Finalizing))
  BY DEF CrashWorker
<1>4. \A s \in Tasks : ~ (s = job[w] /\ pc[w] \in Finalizing) => leak'[s] = leak[s]
  BY <1>1, <1>3 DEF TypeOK
<1>5. CASE pc[w] \in Finalizing
  <2>1. PICK t \in Tasks : t = job[w]
    BY <1>5, OwnerFacts
  <2>2. leak'[t] = TRUE
    BY <1>3, <1>5, <2>1
  <2>3. \A s \in Tasks \ {t} : Kept(s)
    BY <1>2, <1>4, <2>1 DEF Kept
  <2> QED
    BY <1>1, <1>2, <1>5, <2>1, <2>2, <2>3, LeavesRow
<1>6. CASE pc[w] \notin Finalizing
  <2>1. \A s \in Tasks : Kept(s)
    BY <1>2, <1>4, <1>6 DEF Kept
  <2>2. OthersSame(w) /\ pc'[w] \notin Finalizing /\ WorkerOK(w)'
    BY <1>1, DropFacts
  <2> QED
    BY <1>1, <1>6, <2>1, <2>2, LocalStep
<1> QED
  BY <1>5, <1>6

-----------------------------------------------------------------------------
(* Submission, the provider and time: no worker moves.                     *)

LEMMA TaskStep ==
    ASSUME IInv, TypeOK', UpstreamOK', NEW t \in Tasks, UNCHANGED worker, verdict' = verdict,
           \A s \in Tasks \ {t} : Kept(s), TaskOK(t)',
           row[t].status = "none" \/ row'[t] = row[t]
    PROVE  IInv'
<1>1. \A w \in Workers : SameWorker(w)
  BY DEF worker, SameWorker
<1>2. ASSUME NEW s \in Tasks
      PROVE  TaskOK(s)'
  BY <1>1, TaskFrame DEF IInv
<1>3. ASSUME NEW u \in Workers
      PROVE  WorkerOK(u)'
  <2>1. WorkerOK(u)
    BY DEF IInv
  <2>2. job[u] \in Tasks => row[job[u]].status # "none"
    BY <2>1 DEF WorkerOK
  <2>3. job[u] \in Tasks => row'[job[u]] = row[job[u]]
    BY <2>2 DEF Kept
  <2> QED
    BY <1>1, <2>1, <2>3, WorkerFrame
<1>4. OneOwner'
  BY <1>1 DEF IInv, OneOwner, SameWorker
<1> QED
  BY <1>2, <1>3, <1>4 DEF IInv

\* Nobody owns a row that is not yet durable.
LEMMA NotOwned ==
    ASSUME IInv, NEW t \in Tasks, row[t].status = "none", UNCHANGED worker
    PROVE  Free(t) /\ Free(t)' /\ (\A w \in Workers : ~ Owns(w, t)')
<1>1. \A w \in Workers : ~ Owns(w, t)
  BY DEF IInv, WorkerOK, Owns, Terminal
<1>2. \A w \in Workers : Owns(w, t)' <=> Owns(w, t)
  BY DEF worker, Owns
<1> QED
  BY <1>1, <1>2 DEF Free

LEMMA ReserveStep ==
    ASSUME IInv, [Next]_vars, TypeOK', NEW t \in Tasks, Reserve(t)
    PROVE  IInv'
<1>1. TypeOK /\ UpstreamOK' /\ SubmitOK(t) /\ VerdictOK(t) /\ submit[t] = "idle"
  BY UpstreamStep DEF IInv, TaskOK, Reserve
<1>2. /\ row' = row /\ verdict' = verdict /\ leak' = leak /\ UNCHANGED worker /\ submit'[t] = "insert"
  BY <1>1 DEF Reserve, TypeOK
<1>3. PICK p \in Quotas, q \in Quotas \cup {0}, s \in {"NOT_START"} \cup Terminal :
        /\ IF s = "FAILURE" THEN q = 0 ELSE q \in Quotas
        /\ plan' = [plan EXCEPT ![t] = [reserved |-> Larger(p, q), quota |-> q, status |-> s]]
        /\ paid' = [paid EXCEPT ![t] = [funding |-> Larger(p, q), token |-> Larger(p, q)]]
  BY DEF Reserve
<1>4. /\ plan'[t].reserved = Larger(p, q) /\ plan'[t].quota = q /\ plan'[t].status = s
      /\ paid'[t].funding = Larger(p, q) /\ paid'[t].token = Larger(p, q)
  BY <1>1, <1>3 DEF TypeOK
<1>5. q \in Nat /\ Larger(p, q) \in Nat /\ q <= Larger(p, q)
  BY <1>3 DEF Larger
<1>6. \A x \in Tasks \ {t} : Kept(x)
  BY <1>1, <1>3 DEF Reserve, TypeOK, Kept
<1>7. row[t].status = "none"
  BY <1>1 DEF SubmitOK
<1>8. SubmitOK(t)'
  BY <1>2, <1>3, <1>4, <1>5, <1>7 DEF SubmitOK
<1>9. "none" \notin Terminal /\ "none" # "FAILURE"
  BY DEF Terminal
<1>10. TaskOK(t)'
  BY <1>1, <1>2, <1>7, <1>8, <1>9 DEF TaskOK, FloorOK, ExactOK, ClosedOK, VerdictOK
<1> QED
  BY <1>1, <1>2, <1>6, <1>10, TaskStep

LEMMA InsertStep ==
    ASSUME IInv, [Next]_vars, TypeOK', NEW t \in Tasks, Insert(t)
    PROVE  IInv'
<1>1. TypeOK /\ UpstreamOK' /\ SubmitOK(t) /\ VerdictOK(t) /\ submit[t] = "insert"
  BY UpstreamStep DEF IInv, TaskOK, Insert
<1>2. /\ plan' = plan /\ verdict' = verdict /\ leak' = leak /\ UNCHANGED worker
  BY DEF Insert
<1>3. \A x \in Tasks \ {t} : Kept(x)
  BY <1>1 DEF Insert, TypeOK, Kept
<1>4. /\ row[t].status = "none" /\ verdict[t] = "none"
      /\ paid[t].funding = plan[t].reserved /\ paid[t].token = plan[t].reserved
  BY <1>1 DEF SubmitOK, VerdictOK, Terminal
<1>5. Free(t)' /\ \A w \in Workers : ~ Owns(w, t)'
  BY <1>2, <1>4, NotOwned
<1>6. /\ plan[t].reserved \in Nat /\ plan[t].quota \in Nat /\ plan[t].quota <= plan[t].reserved
      /\ plan[t].status \in {"NOT_START"} \cup Terminal /\ plan[t].status # "none"
      /\ plan[t].status = "FAILURE" => plan[t].quota = 0
  BY <1>1 DEF TypeOK, SubmitOK, Terminal
<1>7. CASE /\ row' = [row EXCEPT ![t] =
                         [status |-> plan[t].status, quota |-> plan[t].quota,
                          done |-> plan[t].status \in Terminal, failures |-> 0]]
           /\ submit' = [submit EXCEPT ![t] = "settle"]
           /\ UNCHANGED paid
  <2>1. row'[t].status = plan[t].status /\ row'[t].quota = plan[t].quota /\ submit'[t] = "settle"
    BY <1>1, <1>7 DEF TypeOK
  <2>2. Surplus(t)' = plan[t].reserved - plan[t].quota
    BY <1>2, <2>1 DEF Surplus
  <2>3. RowFloor(t)' \in {0, plan[t].quota}
    BY <2>1 DEF RowFloor
  <2>4. SubmitOK(t)'
    BY <1>1, <1>2, <1>6, <1>7, <2>1 DEF SubmitOK
  <2>5. FloorOK(t)'
    BY <1>4, <1>5, <1>6, <1>7, <2>1, <2>2, <2>3 DEF FloorOK
  <2>6. ExactOK(t)'
    BY <1>2, <1>4, <1>5, <1>6, <1>7, <2>1, <2>2 DEF ExactOK
  <2>7. ClosedOK(t)' /\ VerdictOK(t)'
    BY <1>2, <1>4, <1>6, <2>1 DEF ClosedOK, VerdictOK
  <2>8. TaskOK(t)'
    BY <2>4, <2>5, <2>6, <2>7 DEF TaskOK
  <2> QED
    BY <1>1, <1>2, <1>3, <1>4, <2>8, TaskStep
<1>8. CASE /\ submit' = [submit EXCEPT ![t] = "done"]
           /\ paid' = [paid EXCEPT ![t] = [funding |-> 0, token |-> 0]]
           /\ UNCHANGED row
  <2>1. submit'[t] = "done" /\ paid'[t].funding = 0 /\ paid'[t].token = 0 /\ row'[t] = row[t]
    BY <1>1, <1>8 DEF TypeOK
  <2>2. SubmitOK(t)'
    BY <1>1, <1>2, <1>4, <2>1 DEF SubmitOK
  <2>3. "none" \notin Terminal /\ "none" # "FAILURE"
    BY DEF Terminal
  <2>4. TaskOK(t)'
    BY <1>1, <1>2, <1>4, <2>1, <2>2, <2>3 DEF TaskOK, FloorOK, ExactOK, ClosedOK, VerdictOK
  <2> QED
    BY <1>1, <1>2, <1>3, <2>1, <2>4, TaskStep
<1> QED
  BY <1>7, <1>8 DEF Insert

LEMMA SettleStep ==
    ASSUME IInv, [Next]_vars, TypeOK', NEW t \in Tasks, Settle(t) \/ CrashSubmit(t)
    PROVE  IInv'
<1>1. TypeOK /\ UpstreamOK' /\ TaskOK(t) /\ submit[t] \in {"insert", "settle"}
  BY UpstreamStep DEF IInv, Settle, CrashSubmit
<1>2. /\ row' = row /\ plan' = plan /\ verdict' = verdict /\ UNCHANGED worker /\ submit'[t] = "done"
  BY <1>1 DEF Settle, CrashSubmit, TypeOK
<1>3. \A x \in Tasks \ {t} : Kept(x)
  BY <1>1 DEF Settle, CrashSubmit, TypeOK, Kept
<1>4. /\ plan[t].reserved \in Nat /\ plan[t].quota \in Nat /\ plan[t].quota <= plan[t].reserved
      /\ paid[t] \in Amounts /\ paid[t].funding \in Int /\ paid[t].token \in Int
  BY <1>1 DEF TypeOK, TaskOK, SubmitOK, Amounts
<1>5. Surplus(t)' = 0 /\ Surplus(t) \in Nat
  BY <1>2, <1>4 DEF Surplus
<1>6. \A w \in Workers :
        /\ Owns(w, t)' <=> Owns(w, t)
        /\ FundingFloor(w)' = FundingFloor(w) /\ TokenFloor(w)' = TokenFloor(w)
        /\ FundingHeld(w)' = FundingHeld(w) /\ TokenHeld(w)' = TokenHeld(w)
  BY <1>2 DEF worker, Owns, FundingFloor, TokenFloor, FundingHeld, TokenHeld
<1>7. (Free(t)' <=> Free(t)) /\ RowFloor(t)' = RowFloor(t)
  BY <1>2, <1>6 DEF Free, RowFloor
<1>8. /\ RowFloor(t) \in Nat
      /\ \A w \in Workers : FundingFloor(w) \in Nat /\ TokenFloor(w) \in Nat
                            /\ FundingHeld(w) \in Nat /\ TokenHeld(w) \in Nat
  BY <1>1 DEF TypeOK, Row, RowFloor, FundingFloor, TokenFloor, FundingHeld, TokenHeld
<1>9. row[t].status # "none" \/ submit[t] = "insert"
  BY <1>1 DEF TaskOK, SubmitOK
<1>10. VerdictOK(t)'
  BY <1>1, <1>2 DEF TaskOK, VerdictOK
<1>11. CASE /\ submit[t] = "settle" /\ leak' = leak
            /\ paid' = [paid EXCEPT ![t] = [funding |-> @.funding + (plan[t].quota - plan[t].reserved),
                                            token |-> @.token + (plan[t].quota - plan[t].reserved)]]
  <2>1. /\ paid'[t].funding = paid[t].funding + (plan[t].quota - plan[t].reserved)
        /\ paid'[t].token = paid[t].token + (plan[t].quota - plan[t].reserved)
    BY <1>1, <1>11 DEF TypeOK
  <2>2. paid'[t].funding = paid[t].funding - Surplus(t) /\ paid'[t].token = paid[t].token - Surplus(t)
    BY <1>4, <1>11, <2>1 DEF Surplus
  <2>3. row[t].status # "none"
    BY <1>9, <1>11
  <2>4. SubmitOK(t)'
    BY <1>1, <1>2, <2>3 DEF TaskOK, SubmitOK
  <2>5. FloorOK(t)'
    BY <1>1, <1>2, <1>4, <1>5, <1>6, <1>7, <1>8, <2>2, <2>3 DEF TaskOK, FloorOK
  <2>6. ExactOK(t)'
    <3>1. row[t].quota \in Nat
      BY <1>1 DEF TypeOK, Row
    <3> QED
      BY <1>1, <1>2, <1>4, <1>5, <1>6, <1>7, <1>8, <1>11, <2>2, <2>3, <3>1 DEF TaskOK, ExactOK
  <2>7. ClosedOK(t)'
    BY <1>1, <1>2, <1>7, <1>11 DEF TaskOK, ClosedOK
  <2>8. TaskOK(t)'
    BY <1>10, <2>4, <2>5, <2>6, <2>7 DEF TaskOK
  <2> QED
    BY <1>1, <1>2, <1>3, <2>8, TaskStep
<1>12. CASE leak' = [leak EXCEPT ![t] = TRUE] /\ paid' = paid
  <2>1. leak'[t] = TRUE
    BY <1>1, <1>12 DEF TypeOK
  <2>2. SubmitOK(t)'
    <3>1. row[t].status = "none" => paid[t].funding >= 0 /\ paid[t].token >= 0
      BY <1>1 DEF TaskOK, SubmitOK
    <3> QED
      BY <1>1, <1>2, <1>12, <2>1, <3>1 DEF TaskOK, SubmitOK
  <2>3. FloorOK(t)'
    BY <1>1, <1>2, <1>4, <1>5, <1>6, <1>7, <1>8, <1>12 DEF TaskOK, FloorOK
  <2>4. ExactOK(t)' /\ ClosedOK(t)'
    BY <2>1 DEF ExactOK, ClosedOK
  <2>5. TaskOK(t)'
    BY <1>10, <2>2, <2>3, <2>4 DEF TaskOK
  <2> QED
    BY <1>1, <1>2, <1>3, <2>5, TaskStep
<1> QED
  BY <1>11, <1>12 DEF Settle, CrashSubmit

LEMMA EnvironmentStep ==
    ASSUME IInv, [Next]_vars, TypeOK', NEW t \in Tasks, Provider(t) \/ Age(t)
    PROVE  IInv'
<1>1. UpstreamOK' /\ UNCHANGED worker /\ verdict' = verdict /\ row' = row /\ \A s \in Tasks : Kept(s)
  BY UpstreamStep DEF Provider, Age, submission, history, Kept
<1>2. TaskOK(t)'
  <2>1. \A w \in Workers : SameWorker(w)
    BY <1>1 DEF worker, SameWorker
  <2> QED
    BY <1>1, <2>1, TaskFrame DEF IInv
<1> QED
  BY <1>1, <1>2, TaskStep

-----------------------------------------------------------------------------
(* The invariant.                                                          *)

LEMMA InvInit == Init => IInv
<1> SUFFICES ASSUME Init
             PROVE  IInv
  OBVIOUS
<1>1. TypeOK /\ UpstreamOK
  BY TypeInit DEF Init, UpstreamOK
<1>2. "idle" \notin Finalizing /\ "none" \notin Terminal /\ "NOT_START" # "FAILURE"
  BY DEF Finalizing, Terminal
<1>3. OneOwner /\ \A w \in Workers : WorkerOK(w)
  BY <1>2 DEF Init, OneOwner, WorkerOK
<1>4. ASSUME NEW t \in Tasks
      PROVE  TaskOK(t)
  <2>1. row[t].status = "none" /\ verdict[t] = "none" /\ submit[t] = "idle"
    BY DEF Init, NoRow
  <2>2. SubmitOK(t)
    BY <1>2, <2>1 DEF Init, SubmitOK
  <2> QED
    BY <1>2, <2>1, <2>2 DEF TaskOK, FloorOK, ExactOK, ClosedOK, VerdictOK
<1> QED
  BY <1>1, <1>3, <1>4 DEF IInv

LEMMA InvStep ==
    ASSUME ~ Realtime, IInv, [Next]_vars
    PROVE  IInv'
<1>1. TypeOK'
  BY InvBusy, TypeStep DEF IInv
<1>2. CASE UNCHANGED vars
  <2>1. UpstreamOK' /\ UNCHANGED worker /\ \A s \in Tasks : Kept(s)
    BY <1>2, UpstreamStep DEF vars, submission, history, Kept
  <2>2. \A w \in Workers : SameWorker(w)
    BY <2>1 DEF worker, SameWorker
  <2>3. \A t \in Tasks : TaskOK(t)'
    BY <2>1, <2>2, TaskFrame DEF IInv
  <2>4. \A u \in Workers : WorkerOK(u)'
    BY <2>1, <2>2, WorkerFrame DEF IInv, Kept
  <2>5. OneOwner'
    BY <2>2 DEF IInv, OneOwner, SameWorker
  <2> QED
    BY <1>1, <2>1, <2>3, <2>4, <2>5 DEF IInv
<1>3. ASSUME NEW t \in Tasks, Reserve(t) \/ SubmitStep(t) \/ Provider(t) \/ Age(t) \/ CrashSubmit(t)
      PROVE  IInv'
  BY <1>1, <1>3, ReserveStep, InsertStep, SettleStep, EnvironmentStep DEF SubmitStep
<1>4. ASSUME NEW w \in Workers, PassStep(w) \/ StartFetch(w) \/ FetchStep(w) \/ CrashWorker(w)
      PROVE  IInv'
  <2>1. CASE StartPass(w) \/ List(w) \/ Poll(w)
    BY <1>1, <2>1, LocalSteps
  <2>2. CASE Sweep(w)
    <3>1. CASE Drop(w, "list") /\ UNCHANGED <<row, verdict>>
      BY <1>1, <2>2, <3>1, LocalSteps
    <3> QED
      BY <1>1, <2>2, <3>1, SweepWins DEF Sweep
  <2>3. CASE Write(w)
    <3>1. CASE Drop(w, "idle") /\ UNCHANGED row
      <4>1. UNCHANGED verdict
        BY <2>3 DEF Write, history
      <4> QED
        BY <1>1, <2>3, <3>1, <4>1, LocalSteps
    <3> QED
      BY <1>1, <2>3, <3>1, WriteWins DEF Write
  <2>4. CASE FailInBulk(w)
    BY <1>1, <2>4, BulkStep
  <2>5. CASE BillingStep(w)
    BY <1>1, <2>5, FinalizeStep, FundingStep, TokenSteps, QuotaSteps DEF BillingStep
  <2>6. CASE CrashWorker(w)
    BY <1>1, <2>6, CrashStep
  <2>7. ~ StartFetch(w) /\ ~ FetchStep(w)
    BY DEF StartFetch, FetchStep, Fetch, WriteFetched, IInv, WorkerOK
  <2> QED
    BY <1>4, <2>1, <2>2, <2>3, <2>4, <2>5, <2>6, <2>7 DEF PassStep
<1> QED
  BY <1>2, <1>3, <1>4 DEF Next

LEMMA Invariance ==
    ASSUME ~ Realtime
    PROVE  Spec => []IInv
BY InvInit, InvStep, PTL DEF Spec

-----------------------------------------------------------------------------
(* The results.                                                            *)

\* Whatever of each amount is not yet given back is at least zero.
LEMMA NotNegative ==
    ASSUME IInv, NEW t \in Tasks
    PROVE  paid[t].funding >= 0 /\ paid[t].token >= 0
<1>1. TypeOK /\ SubmitOK(t) /\ FloorOK(t)
  BY DEF IInv, TaskOK
<1>2. /\ plan[t].reserved \in Nat /\ plan[t].quota \in Nat /\ plan[t].quota <= plan[t].reserved
      /\ paid[t] \in Amounts /\ row[t] \in Row
  BY <1>1 DEF TypeOK, SubmitOK
<1>3. Surplus(t) \in Nat /\ RowFloor(t) \in Nat /\ paid[t].funding \in Int /\ paid[t].token \in Int
  BY <1>2 DEF Surplus, RowFloor, Row, Amounts
<1>4. \A w \in Workers : FundingFloor(w) \in Nat /\ TokenFloor(w) \in Nat
  BY <1>1 DEF TypeOK, Row, FundingFloor, TokenFloor
<1>5. CASE row[t].status = "none"
  BY <1>1, <1>5 DEF SubmitOK
<1>6. CASE row[t].status # "none" /\ Free(t)
  BY <1>1, <1>3, <1>6 DEF FloorOK
<1>7. CASE row[t].status # "none" /\ ~ Free(t)
  <2>1. PICK w \in Workers : Owns(w, t)
    BY <1>7 DEF Free
  <2>2. paid[t].funding >= Surplus(t) + FundingFloor(w) /\ paid[t].token >= Surplus(t) + TokenFloor(w)
    BY <1>1, <1>7, <2>1 DEF FloorOK
  <2> QED
    BY <1>3, <1>4, <2>2
<1> QED
  BY <1>5, <1>6, <1>7

\* What a row whose billing has ended has taken.
LEMMA Settled ==
    ASSUME IInv, NEW t \in Tasks, Quiet(t), ~ leak[t]
    PROVE  /\ paid[t].token = paid[t].funding
           /\ row[t].status # "none" /\ verdict[t] # "legacy" => paid[t].funding = row[t].quota
<1>1. TypeOK /\ SubmitOK(t) /\ ExactOK(t)
  BY DEF IInv, TaskOK
<1>2. Free(t) /\ Surplus(t) = 0 /\ submit[t] = "done"
  BY DEF Quiet, Free, Owns, Surplus
<1>3. row[t].quota \in Nat
  BY <1>1 DEF TypeOK, Row
<1>4. CASE row[t].status = "none"
  BY <1>1, <1>2, <1>4 DEF SubmitOK
<1>5. CASE row[t].status # "none"
  BY <1>1, <1>2, <1>3, <1>5 DEF ExactOK
<1> QED
  BY <1>4, <1>5

\* Sweeps, polls and bulk updates of any number of overlapping passes, with any
\* crashes and failed calls between them, never give back more than a row took.
THEOREM NoOverRefund ==
    ASSUME ~ Realtime
    PROVE  Spec => []NeverOverRefunded
<1>1. IInv => NeverOverRefunded
  BY NotNegative DEF NeverOverRefunded
<1> QED
  BY <1>1, Invariance, PTL

\* The quota column is the durable record of what the row has taken.
THEOREM QuotaIsPaid ==
    ASSUME ~ Realtime
    PROVE  Spec => []QuotaMatchesPaid
<1>1. IInv => QuotaMatchesPaid
  <2> SUFFICES ASSUME IInv, NEW t \in Tasks, Quiet(t), ~ leak[t], row[t].status # "none", verdict[t] # "legacy"
               PROVE  paid[t] = [funding |-> row[t].quota, token |-> row[t].quota]
    BY DEF QuotaMatchesPaid
  <2>1. paid[t].funding = row[t].quota /\ paid[t].token = row[t].quota
    BY Settled
  <2>2. paid[t] \in Amounts
    BY DEF IInv, TypeOK
  <2> QED
    BY <2>1, <2>2 DEF Amounts
<1> QED
  BY <1>1, Invariance, PTL

\* While no channel is deleted, a failed row has returned everything it took.
THEOREM FailureRefunds ==
    ASSUME ~ Realtime, ~ ChannelsVanish
    PROVE  Spec => []FailedIsRefunded
<1>1. IInv => FailedIsRefunded
  <2> SUFFICES ASSUME IInv, NEW t \in Tasks, row[t].status = "FAILURE", Quiet(t), ~ leak[t],
                      verdict[t] = "none"
               PROVE  paid[t] = [funding |-> 0, token |-> 0]
    BY DEF FailedIsRefunded
  <2>1. Free(t)
    BY DEF Quiet, Free, Owns
  <2>2. row[t].quota = 0
    BY <2>1 DEF IInv, TaskOK, ClosedOK
  <2>3. paid[t].funding = 0 /\ paid[t].token = 0
    BY <2>2, Settled
  <2>4. paid[t] \in Amounts
    BY DEF IInv, TypeOK
  <2> QED
    BY <2>3, <2>4 DEF Amounts
<1> QED
  BY <1>1, Invariance, PTL

\* While no channel is deleted, no pass relabels a terminal row.
THEOREM TerminalStays ==
    ASSUME ~ Realtime, ~ ChannelsVanish
    PROVE  Spec => TerminalIsFinal
<1> DEFINE Final == \A t \in Tasks : row[t].status \in Terminal => row'[t].status = row[t].status
<1>1. ASSUME IInv, [Next]_vars
      PROVE  [Final]_vars
  <2> SUFFICES ASSUME NEW t \in Tasks, row[t].status \in Terminal
               PROVE  row'[t].status = row[t].status
    OBVIOUS
  <2>0. TypeOK /\ row[t] \in Row
    BY <1>1 DEF IInv, TypeOK
  <2>1. CASE row' = row
    BY <2>1
  <2>2. ASSUME NEW s \in Tasks, Insert(s)
        PROVE  row'[t].status = row[t].status
    <3>1. row[s].status = "none"
      BY <1>1, <2>2 DEF IInv, TaskOK, SubmitOK, Insert
    <3>2. s # t
      BY <3>1 DEF Terminal
    <3> QED
      BY <2>0, <2>2, <3>2 DEF Insert, TypeOK
  <2>3. ASSUME NEW w \in Workers, Sweep(w) \/ Write(w)
        PROVE  row'[t].status = row[t].status
    <3>1. pc[w] \in {"sweep", "write"}
      BY <2>3 DEF Sweep, Write
    <3>2. CASE StatusMatches(w) /\ job[w] = t
      <4>1. row[t].status \in Active
        BY <1>1, <3>1, <3>2, WinnerFacts
      <4> QED
        BY <4>1 DEF Active, Terminal
    <3>3. CASE ~ (StatusMatches(w) /\ job[w] = t)
      BY <2>0, <2>3, <3>3 DEF Sweep, Write, UpdateWithStatus, TypeOK
    <3> QED
      BY <3>2, <3>3
  <2>4. ASSUME NEW w \in Workers, NEW n \in Nat, QuotaStep(w, n)
        PROVE  row'[t].status = row[t].status
    <3>1. row'[t] = row[t] \/ row'[t] = [row[t] EXCEPT !.quota = n]
      BY <2>0, <2>4 DEF QuotaStep, TypeOK
    <3> QED
      BY <2>0, <3>1 DEF Row
  <2>5. ASSUME NEW w \in Workers, ClearQuota(w) \/ StoreQuota(w)
        PROVE  row'[t].status = row[t].status
    <3>1. actual[w] \in Nat
      BY <2>0 DEF TypeOK
    <3> QED
      BY <2>4, <2>5, <3>1 DEF ClearQuota, StoreQuota, StoredQuota
  <2>6. ASSUME NEW s \in Tasks, Reserve(s) \/ Settle(s) \/ Provider(s) \/ Age(s) \/ CrashSubmit(s)
        PROVE  row' = row
    BY <2>6 DEF Reserve, Settle, Provider, Age, CrashSubmit
  <2>7. ASSUME NEW w \in Workers,
               \/ StartPass(w) \/ List(w) \/ Poll(w) \/ Finalize(w) \/ RefundFunding(w)
               \/ RefundToken(w) \/ AdjustFunding(w) \/ AdjustToken(w) \/ CrashWorker(w)
        PROVE  row' = row
    BY <2>7 DEF StartPass, List, Poll, Finalize, RefundFunding, RefundToken, AdjustFunding,
       AdjustToken, TokenStep, CrashWorker
  <2>8. \A w \in Workers : ~ FailInBulk(w) /\ ~ StartFetch(w) /\ ~ FetchStep(w)
    BY <1>1 DEF FailInBulk, StartFetch, FetchStep, Fetch, WriteFetched, IInv, WorkerOK
  <2>9. UNCHANGED vars => row' = row
    BY DEF vars
  <2> QED
    BY <1>1, <2>1, <2>2, <2>3, <2>5, <2>6, <2>7, <2>8, <2>9
       DEF Next, SubmitStep, PassStep, BillingStep
<1> QED
  BY <1>1, Invariance, PTL DEF Spec, TerminalIsFinal

=============================================================================
