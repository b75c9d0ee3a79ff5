----------------------------- MODULE AsyncTask ------------------------------
(***************************************************************************)
(* The life of an asynchronous task row (video, image, music generation)   *)
(* and of the quota it was charged: submission (controller/relay.go),      *)
(* polling passes, the timeout sweep and terminal billing                  *)
(* (service/task_polling.go, task_billing.go), the compare-and-swap on the *)
(* row (model/task.go) and the realtime fetch of a client                  *)
(* (relay/relay_task.go).                                                  *)
(*                                                                         *)
(* Workers are the passes and client requests that run at the same time: a *)
(* polling pass whose lease was lost overlaps with the next one.  A worker *)
(* reads a row, works on its copy and writes the whole copy back; every    *)
(* SQL statement and every quota store call is one step.                   *)
(***************************************************************************)
EXTENDS Integers, FiniteSets

CONSTANTS
    Tasks, Workers, NoTask,
    Legacy,           \* rows submitted before TaskRefundLegacyCutoff
    Quotas,           \* possible estimates, submit quotas and usage quotas
    SweepOn,          \* constant.TaskTimeoutMinutes > 0
    MaxPollFailures,  \* constant.TaskPollMaxFailures; 0 turns the cutoff off
    ChannelsVanish,   \* the row's channel may be deleted while it is polled
    Realtime,         \* the row's channel is of type Gemini or Vertex
    MaxFetches,       \* bound: realtime fetches by clients
    MaxCrashes,       \* bound: crashes of a worker or a submitting request
    MaxFaults         \* bound: failed statements and store calls

ASSUME ConstantsAssumption ==
    /\ NoTask \notin Tasks
    /\ IsFiniteSet(Workers)
    /\ Legacy \subseteq Tasks
    /\ Quotas \subseteq Nat
    /\ MaxPollFailures \in Nat /\ MaxFetches \in Nat /\ MaxCrashes \in Nat /\ MaxFaults \in Nat
    /\ SweepOn \in BOOLEAN /\ ChannelsVanish \in BOOLEAN /\ Realtime \in BOOLEAN

VARIABLES
    row,       \* the tasks table
    submit,    \* the submitting request of each row
    plan,      \* what the submission reserved and will insert
    upstream,  \* the provider's own status of the job
    old,       \* submit_time lies before the sweep's cutoff
    pc, job, copy, from, actual,  \* each worker: step, row, in-memory Task, CAS status, usage quota
    paid,      \* history: what the row has taken from the funding source and the token
    verdict,   \* history: why a terminal row keeps what it took
    leak,      \* history: a crash or a logged failure interrupted the row's billing
    fetches, crashes, faults

submission == <<submit, plan>>
worker == <<pc, job, copy, from, actual>>
history == <<paid, verdict, leak>>
vars == <<row, submission, upstream, old, worker, history, fetches, crashes, faults>>

Active == {"NOT_START", "IN_PROGRESS", "UNKNOWN"}
Terminal == {"SUCCESS", "FAILURE"}
Statuses == Active \cup Terminal \cup {"none"}

\* done stands for progress = "100%"; of a terminal row nobody reads it, and it is
\* TRUE here whatever was reported.
Row == [status : Statuses, quota : Nat, done : BOOLEAN, failures : 0 .. MaxPollFailures]

NoRow == [status |-> "none", quota |-> 0, done |-> FALSE, failures |-> 0]

\* The steps of a worker that owns the billing of a row it has moved to its end.
Finalizing == {"finalize", "refundFunding", "refundToken", "clearQuota", "adjustFunding",
               "adjustToken", "storeQuota"}

PCs == Finalizing \cup {"idle", "sweep", "list", "poll", "write", "fetch", "writeFetched"}

Verdicts == {"none", "usage", "legacy", "refundFailed"}

(***************************************************************************)
(* Building blocks.                                                        *)
(***************************************************************************)

GoTo(w, label) == pc' = [pc EXCEPT ![w] = label] /\ UNCHANGED <<job, copy, from, actual>>

\* A worker loads a row; snap.Status or oldStatus is what its CAS will compare.
Load(w, t, label) ==
    /\ pc' = [pc EXCEPT ![w] = label]
    /\ job' = [job EXCEPT ![w] = t]
    /\ copy' = [copy EXCEPT ![w] = row[t]]
    /\ from' = [from EXCEPT ![w] = row[t].status]
    /\ actual' = [actual EXCEPT ![w] = 0]

\* The worker drops its copy.
Drop(w, label) ==
    /\ pc' = [pc EXCEPT ![w] = label]
    /\ job' = [job EXCEPT ![w] = NoTask]
    /\ copy' = [copy EXCEPT ![w] = NoRow]
    /\ from' = [from EXCEPT ![w] = "none"]
    /\ actual' = [actual EXCEPT ![w] = 0]

Edit(w, c, label) ==
    /\ pc' = [pc EXCEPT ![w] = label]
    /\ copy' = [copy EXCEPT ![w] = c]
    /\ UNCHANGED <<job, from, actual>>

Fails == faults < MaxFaults /\ faults' = faults + 1
Succeeds == UNCHANGED faults

PayFunding(t, n) == paid' = [paid EXCEPT ![t].funding = @ + n]
PayToken(t, n) == paid' = [paid EXCEPT ![t].token = @ + n]

\* GetAllUnFinishSyncTasks.
Unfinished(t) == row[t].status \in Active /\ ~row[t].done

\* Slip: rows that were not charged are not swept.
Slip_TimedOut(t) == SweepOn /\ Unfinished(t) /\ old[t] /\ row[t].quota > 0

\* GetTimedOutUnfinishedTasks, which a sweep that is switched off never asks.
TimedOut(t) == SweepOn /\ Unfinished(t) /\ old[t]

\* Slip: the update is made by primary key alone.
Slip_StatusMatches(w) == row[job[w]].status # "none"

\* The WHERE clause of UpdateWithStatus.
StatusMatches(w) == row[job[w]].status = from[w]

\* UpdateWithStatus stores every column of the copy.
UpdateWithStatus(w) == row' = [row EXCEPT ![job[w]] = copy[w]]

Ended(c, status) == [c EXCEPT !.status = status, !.done = TRUE]

\* The counter stops at the cutoff, beyond which every value acts the same.
CountFailure(c) ==
    [c EXCEPT !.failures = IF @ < MaxPollFailures THEN @ + 1 ELSE @]

\* recordPollFailure: give up once the consecutive failures reach the cutoff.
AfterPollFailure(c) ==
    LET counted == CountFailure(c)
    IN  IF MaxPollFailures > 0 /\ counted.failures >= MaxPollFailures
        THEN Ended(counted, "FAILURE") ELSE counted

\* The copies a poll that reported status s may leave: the progress of an active
\* row is what the provider reports.
AfterPoll(c, s) ==
    IF s \in Terminal THEN {Ended(c, s)}
    ELSE {[c EXCEPT !.status = s, !.done = d, !.failures = 0] : d \in BOOLEAN}

(***************************************************************************)
(* executeTaskSubmissionWith: reserve, insert the row, settle.             *)
(***************************************************************************)

Larger(a, b) == IF a > b THEN a ELSE b

\* RelayTaskSubmit pre-consumed p, the provider accepted the job, and Reserve
\* raised the session to the submit quota q.  An immediate failure costs nothing.
Reserve(t) ==
    /\ submit[t] = "idle"
    /\ \E p \in Quotas, q \in Quotas \cup {0}, s \in {"NOT_START"} \cup Terminal :
          /\ IF s = "FAILURE" THEN q = 0 ELSE q \in Quotas
          /\ plan' = [plan EXCEPT ![t] = [reserved |-> Larger(p, q), quota |-> q, status |-> s]]
          /\ paid' = [paid EXCEPT ![t] = [funding |-> Larger(p, q), token |-> Larger(p, q)]]
          /\ upstream' = [upstream EXCEPT ![t] = s]
    /\ submit' = [submit EXCEPT ![t] = "insert"]
    /\ UNCHANGED <<row, old, worker, verdict, leak, fetches, crashes, faults>>

\* The row becomes durable; when the insert fails or the client has gone the
\* deferred Refund returns the reservation.
Insert(t) ==
    /\ submit[t] = "insert"
    /\ \/ /\ row' = [row EXCEPT ![t] =
                        [status |-> plan[t].status, quota |-> plan[t].quota,
                         done |-> plan[t].status \in Terminal, failures |-> 0]]
          /\ submit' = [submit EXCEPT ![t] = "settle"]
          /\ UNCHANGED paid
       \/ /\ submit' = [submit EXCEPT ![t] = "done"]
          /\ paid' = [paid EXCEPT ![t] = [funding |-> 0, token |-> 0]]
          /\ UNCHANGED row
    /\ UNCHANGED <<plan, upstream, old, worker, verdict, leak, fetches, crashes, faults>>

\* SettleBilling returns what was reserved beyond the submit quota.
Settle(t) ==
    /\ submit[t] = "settle"
    /\ submit' = [submit EXCEPT ![t] = "done"]
    /\ LET delta == plan[t].quota - plan[t].reserved
       IN  \/ /\ paid' = [paid EXCEPT ![t] = [funding |-> @.funding + delta,
                                              token |-> @.token + delta]]
              /\ Succeeds
              /\ UNCHANGED leak
           \/ /\ delta # 0 /\ Fails
              /\ leak' = [leak EXCEPT ![t] = TRUE]
              /\ UNCHANGED paid
    /\ UNCHANGED <<row, plan, upstream, old, worker, verdict, fetches, crashes>>

(***************************************************************************)
(* RunTaskPollingOnce: sweep timed-out rows, then poll unfinished ones.    *)
(***************************************************************************)

StartPass(w) ==
    /\ pc[w] = "idle"
    /\ \/ \E t \in Tasks : TimedOut(t) /\ Load(w, t, "sweep")
       \/ (\A t \in Tasks : ~TimedOut(t)) /\ GoTo(w, "list")
    /\ UNCHANGED <<row, submission, upstream, old, history, fetches, crashes, faults>>

\* Slip: a timed-out row is closed without a refund.
Slip_SweepRefunds(w) == FALSE

SweepRefunds(w) == job[w] \notin Legacy /\ copy[w].quota # 0

\* sweepTimedOutTasks: fail the row; a legacy row gives up its quota with it.
Sweep(w) ==
    /\ pc[w] = "sweep"
    /\ LET t == job[w]
           swept == [Ended(copy[w], "FAILURE") EXCEPT !.quota = IF t \in Legacy THEN 0 ELSE @]
       IN  \/ /\ StatusMatches(w)
              /\ row' = [row EXCEPT ![t] = swept]
              /\ verdict' = [verdict EXCEPT ![t] = IF t \in Legacy THEN "legacy" ELSE @]
              /\ IF SweepRefunds(w) THEN Edit(w, swept, "refundFunding") ELSE Drop(w, "list")
              /\ Succeeds
           \/ /\ (~StatusMatches(w) /\ Succeeds) \/ Fails
              /\ Drop(w, "list")
              /\ UNCHANGED <<row, verdict>>
    /\ UNCHANGED <<submission, upstream, old, paid, leak, fetches, crashes>>

\* GetAllUnFinishSyncTasks.
List(w) ==
    /\ pc[w] = "list"
    /\ \/ \E t \in Tasks : Unfinished(t) /\ Load(w, t, "poll")
       \/ (\A t \in Tasks : ~Unfinished(t)) /\ GoTo(w, "idle")
    /\ UNCHANGED <<row, submission, upstream, old, history, fetches, crashes, faults>>

\* The channel is gone: TaskBulkUpdateByID, without CAS and without billing.
FailInBulk(w) ==
    /\ pc[w] = "poll" /\ ChannelsVanish
    /\ \/ row' = [row EXCEPT ![job[w]] = Ended(@, "FAILURE")] /\ Succeeds
       \/ Fails /\ UNCHANGED row
    /\ Drop(w, "idle")
    /\ UNCHANGED <<submission, upstream, old, history, fetches, crashes>>

\* updateVideoSingleTask and updateBatchTasks up to the write: the answer is an
\* error that counts, "not found", or the provider's status.  A copy without a
\* change is written all the same when another column of it has changed.
Poll(w) ==
    /\ pc[w] = "poll"
    /\ \E c \in {AfterPollFailure(copy[w]), Ended(copy[w], "FAILURE")}
                 \cup AfterPoll(copy[w], upstream[job[w]]) :
          Edit(w, c, "write") \/ (c = copy[w] /\ Drop(w, "idle"))
    /\ UNCHANGED <<row, submission, upstream, old, history, fetches, crashes, faults>>

\* The winner of the CAS on a terminal status owns the row's billing.
Write(w) ==
    /\ pc[w] = "write"
    /\ \/ /\ StatusMatches(w)
          /\ UpdateWithStatus(w)
          /\ IF copy[w].status \in Terminal THEN GoTo(w, "finalize") ELSE Drop(w, "idle")
          /\ Succeeds
       \/ /\ (~StatusMatches(w) /\ Succeeds) \/ Fails
          /\ Drop(w, "idle")
          /\ UNCHANGED row
    /\ UNCHANGED <<submission, upstream, old, history, fetches, crashes>>

(***************************************************************************)
(* finalizeTerminalTask: settle by usage, otherwise refund a failed row.   *)
(***************************************************************************)

\* A usage settlement may also find the quota exact or keep it when the usage
\* expression fails.
Finalize(w) ==
    /\ pc[w] = "finalize"
    /\ \/ /\ \/ \E a \in Quotas \ {copy[w].quota} :
                   /\ actual' = [actual EXCEPT ![w] = a]
                   /\ pc' = [pc EXCEPT ![w] = "adjustFunding"]
                   /\ UNCHANGED <<job, copy, from>>
             \/ Drop(w, "idle")
          /\ verdict' = [verdict EXCEPT ![job[w]] = "usage"]
       \/ /\ IF copy[w].status = "FAILURE" /\ copy[w].quota # 0
             THEN GoTo(w, "refundFunding") ELSE Drop(w, "idle")
          /\ UNCHANGED verdict
    /\ UNCHANGED <<row, submission, upstream, old, paid, leak, fetches, crashes, faults>>

\* RefundTaskQuota: when the funding refund fails the row keeps its quota.
RefundFunding(w) ==
    /\ pc[w] = "refundFunding"
    /\ \/ /\ PayFunding(job[w], -copy[w].quota)
          /\ GoTo(w, "refundToken")
          /\ Succeeds
          /\ UNCHANGED verdict
       \/ /\ Fails
          /\ verdict' = [verdict EXCEPT ![job[w]] = "refundFailed"]
          /\ Drop(w, "idle")
          /\ UNCHANGED paid
    /\ UNCHANGED <<row, submission, upstream, old, leak, fetches, crashes>>

\* Slip: the token is only ever charged.
Slip_AdjustTokenQuota(t, delta) == PayToken(t, IF delta > 0 THEN delta ELSE 0)

\* taskAdjustTokenQuota when the token still exists.
AdjustTokenQuota(t, delta) == PayToken(t, delta)

\* taskAdjustTokenQuota logs a failure or a deleted token and goes on.
TokenStep(w, delta, label) ==
    /\ \/ AdjustTokenQuota(job[w], delta) /\ Succeeds /\ UNCHANGED leak
       \/ Fails /\ leak' = [leak EXCEPT ![job[w]] = TRUE] /\ UNCHANGED paid
    /\ GoTo(w, label)
    /\ UNCHANGED <<row, submission, upstream, old, verdict, fetches, crashes>>

\* UpdateQuota writes the one column by primary key.
QuotaStep(w, n) ==
    /\ \/ row' = [row EXCEPT ![job[w]].quota = n] /\ Succeeds /\ UNCHANGED leak
       \/ Fails /\ leak' = [leak EXCEPT ![job[w]] = TRUE] /\ UNCHANGED row
    /\ Drop(w, "idle")
    /\ UNCHANGED <<submission, upstream, old, paid, verdict, fetches, crashes>>

RefundToken(w) == pc[w] = "refundToken" /\ TokenStep(w, -copy[w].quota, "clearQuota")

ClearQuota(w) == pc[w] = "clearQuota" /\ QuotaStep(w, 0)

\* RecalculateTaskQuota.
UsageDelta(w) == actual[w] - copy[w].quota

AdjustFunding(w) ==
    /\ pc[w] = "adjustFunding"
    /\ \/ PayFunding(job[w], UsageDelta(w)) /\ GoTo(w, "adjustToken") /\ Succeeds
       \/ Fails /\ Drop(w, "idle") /\ UNCHANGED paid
    /\ UNCHANGED <<row, submission, upstream, old, verdict, leak, fetches, crashes>>

AdjustToken(w) == pc[w] = "adjustToken" /\ TokenStep(w, UsageDelta(w), "storeQuota")

\* Slip: the difference is stored instead of the total.
Slip_StoredQuota(w) == UsageDelta(w)

StoredQuota(w) == actual[w]

StoreQuota(w) == pc[w] = "storeQuota" /\ QuotaStep(w, StoredQuota(w))

(***************************************************************************)
(* tryRealtimeFetch: a client's query writes the provider's status.        *)
(***************************************************************************)

StartFetch(w) ==
    /\ pc[w] = "idle" /\ Realtime /\ fetches < MaxFetches
    /\ fetches' = fetches + 1
    /\ \E t \in Tasks : row[t].status # "none" /\ Load(w, t, "fetch")
    /\ UNCHANGED <<row, submission, upstream, old, history, crashes, faults>>

\* An operation the plugin cannot read is UNKNOWN; the progress is stored as
\* reported, or kept.
Fetch(w) ==
    /\ pc[w] = "fetch"
    /\ \E s \in {copy[w].status, "UNKNOWN", upstream[job[w]]}, d \in BOOLEAN :
          LET c == [copy[w] EXCEPT !.status = s, !.done = d \/ s \in Terminal]
          IN  Edit(w, c, "writeFetched") \/ (c = copy[w] /\ Drop(w, "idle"))
    /\ UNCHANGED <<row, submission, upstream, old, history, fetches, crashes, faults>>

\* The result of this CAS is ignored and no billing follows.
WriteFetched(w) ==
    /\ pc[w] = "writeFetched"
    /\ IF StatusMatches(w) THEN UpdateWithStatus(w) ELSE UNCHANGED row
    /\ Drop(w, "idle")
    /\ UNCHANGED <<submission, upstream, old, history, fetches, crashes, faults>>

(***************************************************************************)
(* The environment: the provider, time and crashes.                        *)
(***************************************************************************)

Provider(t) ==
    /\ submit[t] # "idle"
    /\ \/ upstream[t] = "NOT_START" /\ upstream' = [upstream EXCEPT ![t] = "IN_PROGRESS"]
       \/ /\ upstream[t] \in Active
          /\ \E s \in Terminal : upstream' = [upstream EXCEPT ![t] = s]
    /\ UNCHANGED <<row, submission, old, worker, history, fetches, crashes, faults>>

Age(t) ==
    /\ row[t].status # "none" /\ ~old[t]
    /\ old' = [old EXCEPT ![t] = TRUE]
    /\ UNCHANGED <<row, submission, upstream, worker, history, fetches, crashes, faults>>

\* A process dies and its worker starts again with nothing in memory.
CrashWorker(w) ==
    /\ pc[w] # "idle" /\ crashes < MaxCrashes
    /\ crashes' = crashes + 1
    /\ leak' = [t \in Tasks |-> leak[t] \/ (t = job[w] /\ pc[w] \in Finalizing)]
    /\ Drop(w, "idle")
    /\ UNCHANGED <<row, submission, upstream, old, paid, verdict, fetches, faults>>

CrashSubmit(t) ==
    /\ submit[t] \in {"insert", "settle"} /\ crashes < MaxCrashes
    /\ crashes' = crashes + 1
    /\ leak' = [leak EXCEPT ![t] = TRUE]
    /\ submit' = [submit EXCEPT ![t] = "done"]
    /\ UNCHANGED <<row, plan, upstream, old, worker, paid, verdict, fetches, faults>>

(***************************************************************************)
(* The specification.                                                      *)
(***************************************************************************)

Init ==
    /\ row = [t \in Tasks |-> NoRow]
    /\ submit = [t \in Tasks |-> "idle"]
    /\ plan = [t \in Tasks |-> [reserved |-> 0, quota |-> 0, status |-> "NOT_START"]]
    /\ upstream = [t \in Tasks |-> "NOT_START"]
    /\ old = [t \in Tasks |-> FALSE]
    /\ pc = [w \in Workers |-> "idle"]
    /\ job = [w \in Workers |-> NoTask]
    /\ copy = [w \in Workers |-> NoRow]
    /\ from = [w \in Workers |-> "none"]
    /\ actual = [w \in Workers |-> 0]
    /\ paid = [t \in Tasks |-> [funding |-> 0, token |-> 0]]
    /\ verdict = [t \in Tasks |-> "none"]
    /\ leak = [t \in Tasks |-> FALSE]
    /\ fetches = 0 /\ crashes = 0 /\ faults = 0

SubmitStep(t) == Insert(t) \/ Settle(t)

BillingStep(w) ==
    \/ Finalize(w) \/ RefundFunding(w) \/ RefundToken(w) \/ ClearQuota(w)
    \/ AdjustFunding(w) \/ AdjustToken(w) \/ StoreQuota(w)

PassStep(w) ==
    \/ StartPass(w) \/ Sweep(w) \/ List(w) \/ FailInBulk(w) \/ Poll(w) \/ Write(w)
    \/ BillingStep(w)

FetchStep(w) == Fetch(w) \/ WriteFetched(w)

Next ==
    \/ \E t \in Tasks : Reserve(t) \/ SubmitStep(t) \/ Provider(t) \/ Age(t) \/ CrashSubmit(t)
    \/ \E w \in Workers : PassStep(w) \/ StartFetch(w) \/ FetchStep(w) \/ CrashWorker(w)

Spec == Init /\ [][Next]_vars

\* Passes keep running (SystemTask), a started request ends, time passes.
FairSpec ==
    /\ Spec
    /\ \A t \in Tasks : WF_vars(SubmitStep(t)) /\ WF_vars(Age(t))
    /\ \A w \in Workers : WF_vars(PassStep(w)) /\ WF_vars(FetchStep(w))

(***************************************************************************)
(* Properties.                                                             *)
(***************************************************************************)

Amounts == [funding : Int, token : Int]

TypeOK ==
    /\ row \in [Tasks -> Row]
    /\ submit \in [Tasks -> {"idle", "insert", "settle", "done"}]
    /\ plan \in [Tasks -> [reserved : Nat, quota : Nat, status : Statuses]]
    /\ upstream \in [Tasks -> Statuses]
    /\ old \in [Tasks -> BOOLEAN]
    /\ pc \in [Workers -> PCs]
    /\ job \in [Workers -> Tasks \cup {NoTask}]
    /\ copy \in [Workers -> Row]
    /\ from \in [Workers -> Statuses]
    /\ actual \in [Workers -> Nat]
    /\ paid \in [Tasks -> Amounts]
    /\ verdict \in [Tasks -> Verdicts]
    /\ leak \in [Tasks -> BOOLEAN]
    /\ fetches \in Nat /\ crashes \in Nat /\ faults \in Nat

\* No worker is between winning the row and ending its billing, and the
\* submitting request has settled.
Quiet(t) ==
    /\ submit[t] = "done"
    /\ \A w \in Workers : job[w] = t => pc[w] \notin Finalizing

\* A failed row has returned everything it took, unless its usage was settled, it
\* is a legacy row, or the refund itself reported an error: of all the passes,
\* sweeps and late answers that close the row, the winner refunds.
FailedIsRefunded ==
    \A t \in Tasks :
        row[t].status = "FAILURE" /\ Quiet(t) /\ ~leak[t] /\ verdict[t] = "none" =>
            paid[t] = [funding |-> 0, token |-> 0]

\* "quota" is the durable record of what the row has taken: whenever no billing
\* step is under way it equals the amount taken from funding source and token.
QuotaMatchesPaid ==
    \A t \in Tasks :
        /\ Quiet(t) /\ ~leak[t] /\ row[t].status # "none" /\ verdict[t] # "legacy"
        => paid[t] = [funding |-> row[t].quota, token |-> row[t].quota]

\* However sweeps, polls and their retries overlap, a row never gives back more
\* than it took.
NeverOverRefunded ==
    \A t \in Tasks : paid[t].funding >= 0 /\ paid[t].token >= 0

\* A terminal status is final: a late answer or a timeout never relabels the row.
TerminalIsFinal ==
    [][\A t \in Tasks : row[t].status \in Terminal => row'[t].status = row[t].status]_vars

\* Funding source and token are adjusted by the same amounts, even for a row that
\* a realtime fetch has rewritten.
TokenFollowsFunding ==
    \A t \in Tasks : Quiet(t) /\ ~leak[t] => paid[t].token = paid[t].funding

\* The row is active but complete in its progress column: neither the polling
\* list nor the sweep's query finds it.
Hidden(t) == row[t].status \in Active /\ row[t].done

\* "The 24h TASK_TIMEOUT_MINUTES sweep remains the outer deadline": while the sweep
\* is on every row ends, and its billing with it, even when the provider never
\* ends the job and the failure cutoff is off.  The one exception the code makes
\* against that sentence is a row whose provider reports "100%" with an active
\* status: it may stay as it is for ever.
RowsEnd ==
    \A t \in Tasks :
        row[t].status \in Active ~> (row[t].status \in Terminal /\ Quiet(t)) \/ Hidden(t)

=============================================================================
