----------------------------- MODULE SystemTask -----------------------------
(***************************************************************************)
(* The background jobs of one task type, run by several master nodes over  *)
(* one database: rows of system_tasks, one lease per type in               *)
(* system_task_locks (model/system_task.go, service/system_task.go).       *)
(*                                                                         *)
(* Every SQL statement is one atomic step together with the timestamp read *)
(* right before it.  ClaimSystemTask and ExpireStaleSystemTaskLocks read   *)
(* the clock once and then issue several statements: time passes, and the  *)
(* node may crash, between them.  Time is kept relative to the present:    *)
(* lock.left is locked_until minus now, age[n] is how long ago the call in *)
(* progress on n read its clock.                                           *)
(***************************************************************************)
EXTENDS Integers, FiniteSets

CONSTANTS
    Nodes,      \* runner ids; a restarted process is a new runner id
    NoNode,     \* the empty locked_by
    MaxTasks,   \* bound: rows ever created
    TTL,        \* systemTaskLockTTL in ticks
    MaxStall,   \* bound: ticks a call may last between its first and last statement
    MaxCrashes, \* bound: nodes that may crash
    MaxFaults   \* bound: statements that may fail

ASSUME ConstantsAssumption ==
    /\ NoNode \notin Nodes
    /\ MaxTasks \in Nat /\ TTL \in Nat \ {0} /\ MaxStall \in Nat
    /\ MaxCrashes \in Nat /\ MaxFaults \in Nat

Tasks == 1 .. MaxTasks
NoTask == 0

VARIABLES
    status, activeKey, lockedBy,  \* the columns of system_tasks
    lock,      \* the row of system_task_locks for the type, or NoLock
    pc,        \* the runner goroutine of each node
    age,       \* ticks since the call in progress read the clock
    target,    \* the row being claimed
    stale,     \* the owner of the expired lock that the call has read
    handler,   \* the goroutine that runs a claimed row
    beat,      \* its heartbeat goroutine is alive
    crashes, faults,
    runs       \* history: how often a handler was started for the row

rows == <<status, activeKey, lockedBy>>
pass == <<pc, age, target, stale>>
jobs == <<handler, beat, runs>>
vars == <<rows, lock, pass, jobs, crashes, faults>>

Finished == {"succeeded", "failed"}
Statuses == Finished \cup {"none", "pending", "running", "deleted"}

Expired == -(MaxStall + 1)  \* lock.left stops here: every clock sees the lease expired

NoLock == [task |-> NoTask, by |-> NoNode, left |-> Expired]

Nobody == [task |-> NoTask, by |-> NoNode]

Locks == [task : Tasks \cup {NoTask}, by : Nodes \cup {NoNode}, left : Expired .. TTL]

\* The steps of a call that holds on to a clock reading.
InCall == {"markStale", "deleteStale", "insertLock", "readLock", "stealLock", "markExpired",
           "setRunning", "releaseLock"}

PCs == InCall \cup {"idle", "schedule", "claim", "dead"}

(***************************************************************************)
(* Building blocks.                                                        *)
(***************************************************************************)

GoTo(n, label) == pc' = [pc EXCEPT ![n] = label] /\ UNCHANGED <<age, target, stale>>

\* A call begins: it reads the clock and remembers its arguments.
Begin(n, label, t, seen) ==
    /\ pc' = [pc EXCEPT ![n] = label]
    /\ age' = [age EXCEPT ![n] = 0]
    /\ target' = [target EXCEPT ![n] = t]
    /\ stale' = [stale EXCEPT ![n] = seen]

\* A call returns: its locals are gone.
Return(n, label) == Begin(n, label, NoTask, Nobody)

StatementFails == faults < MaxFaults /\ faults' = faults + 1
StatementSucceeds == UNCHANGED faults

\* What identifies the lease: task_id and locked_by.
Owner == [task |-> lock.task, by |-> lock.by]

\* Slip: a lease that ends this very second counts as expired.
Slip_ExpiredFor(n) == lock.left <= -age[n]

\* The lease as the clock reading of n sees it: locked_until < now.
ExpiredFor(n) == lock.left < -age[n]

\* The owner's lease is in force right now: locked_until >= now.
LeaseHeld(t, n) == lock.task = t /\ lock.by = n /\ lock.left >= 0

\* Slip: the lease is given one tick too many.
Slip_LeaseOf(n) == [task |-> target[n], by |-> n, left |-> TTL - age[n] + 1]

\* acquireSystemTaskLock writes the locked_until computed when the call began.
LeaseOf(n) == [task |-> target[n], by |-> n, left |-> TTL - age[n]]

\* Slip: the row's key is not cleared.
Slip_KeyKept(t) ==
    /\ status' = IF t \in Tasks /\ status[t] = "running"
                 THEN [status EXCEPT ![t] = "failed"] ELSE status
    /\ UNCHANGED activeKey

\* Slip: the row is failed whatever its status is.
Slip_Unguarded(t) ==
    IF t \in Tasks
    THEN /\ status' = [status EXCEPT ![t] = "failed"]
         /\ activeKey' = [activeKey EXCEPT ![t] = FALSE]
    ELSE UNCHANGED <<status, activeKey>>

\* Slip: only pending rows are failed.
Slip_PendingOnly(t) ==
    IF t \in Tasks /\ status[t] = "pending"
    THEN /\ status' = [status EXCEPT ![t] = "failed"]
         /\ activeKey' = [activeKey EXCEPT ![t] = FALSE]
    ELSE UNCHANGED <<status, activeKey>>

\* MarkSystemTaskLeaseExpired: fail the row if it is still running.
MarkLeaseExpired(t) ==
    IF t \in Tasks /\ status[t] = "running"
    THEN /\ status' = [status EXCEPT ![t] = "failed"]
         /\ activeKey' = [activeKey EXCEPT ![t] = FALSE]
    ELSE UNCHANGED <<status, activeKey>>

\* ReleaseSystemTaskLock.
ReleaseLock(t, n) == lock' = IF lock.task = t /\ lock.by = n THEN NoLock ELSE lock

\* CreateSystemTask: the unique index on active_key admits one active row.
CreateRow ==
    /\ \A t \in Tasks : ~activeKey[t]
    /\ \E t \in Tasks :
          /\ status[t] = "none" /\ \A s \in Tasks : s < t => status[s] # "none"
          /\ status' = [status EXCEPT ![t] = "pending"]
          /\ activeKey' = [activeKey EXCEPT ![t] = TRUE]

(***************************************************************************)
(* The API: StartLogCleanupTask, EnqueueSystemTask, DeleteSystemTaskHistory. *)
(***************************************************************************)

Enqueue == CreateRow /\ UNCHANGED <<lockedBy, lock, pass, jobs, crashes, faults>>

\* DeleteSystemTaskHistory: finished rows that the filter selects and that are older
\* than the row that was the newest when the call read the table.
DeleteHistory ==
    /\ \E newest \in Tasks, selected \in SUBSET Finished :
          LET gone == {t \in Tasks : t < newest /\ status[t] \in selected}
          IN  /\ status[newest] # "none" /\ gone # {}
              /\ status' = [t \in Tasks |-> IF t \in gone THEN "deleted" ELSE status[t]]
    /\ UNCHANGED <<activeKey, lockedBy, lock, pass, jobs, crashes, faults>>

(***************************************************************************)
(* runPass: expire stale leases, create due rows, claim a pending row.     *)
(***************************************************************************)

\* ExpireStaleSystemTaskLocks reads the clock and the expired locks.
ReadStaleLocks(n) ==
    /\ pc[n] = "idle"
    /\ \/ lock # NoLock /\ lock.left < 0 /\ Begin(n, "markStale", NoTask, Owner)
       \/ (lock = NoLock \/ lock.left >= 0) /\ GoTo(n, "schedule")
    /\ UNCHANGED <<rows, lock, jobs, crashes, faults>>

\* Within systemTaskStaleLockInterval of the last one the stale pass is skipped.
SkipStaleLocks(n) ==
    /\ pc[n] = "idle"
    /\ GoTo(n, "schedule")
    /\ UNCHANGED <<rows, lock, jobs, crashes, faults>>

MarkStale(n) ==
    /\ pc[n] = "markStale"
    /\ \/ MarkLeaseExpired(stale[n].task) /\ StatementSucceeds /\ GoTo(n, "deleteStale")
       \/ StatementFails /\ Return(n, "schedule") /\ UNCHANGED <<status, activeKey>>
    /\ UNCHANGED <<lockedBy, lock, jobs, crashes>>

\* The delete repeats owner and expiry, so a renewed or replaced lease stays.
DeleteStale(n) ==
    /\ pc[n] = "deleteStale"
    /\ \/ lock' = (IF Owner = stale[n] /\ ExpiredFor(n) THEN NoLock ELSE lock) /\ StatementSucceeds
       \/ StatementFails /\ UNCHANGED lock
    /\ Return(n, "schedule")
    /\ UNCHANGED <<rows, jobs, crashes>>

\* runSystemTaskScheduler: a due type without an active row gets one.
Schedule(n) ==
    /\ pc[n] = "schedule"
    /\ CreateRow \/ UNCHANGED <<status, activeKey>>
    /\ GoTo(n, "claim")
    /\ UNCHANGED <<lockedBy, lock, jobs, crashes, faults>>

\* runSystemTaskClaimPass: ClaimSystemTask finds its row still pending.
Claim(n) ==
    /\ pc[n] = "claim"
    /\ \/ \E t \in Tasks : status[t] = "pending" /\ Begin(n, "insertLock", t, Nobody)
       \/ (\A t \in Tasks : status[t] # "pending") /\ GoTo(n, "idle")
    /\ UNCHANGED <<rows, lock, jobs, crashes, faults>>

\* acquireSystemTaskLock: insert, and on conflict read the existing lock.
InsertLock(n) ==
    /\ pc[n] = "insertLock"
    /\ \/ lock = NoLock /\ lock' = LeaseOf(n) /\ GoTo(n, "setRunning") /\ StatementSucceeds
       \/ /\ (lock # NoLock /\ StatementSucceeds) \/ StatementFails
          /\ GoTo(n, "readLock")
          /\ UNCHANGED lock
    /\ UNCHANGED <<rows, jobs, crashes>>

ReadLock(n) ==
    /\ pc[n] = "readLock"
    /\ \/ /\ lock # NoLock /\ ExpiredFor(n)
          /\ pc' = [pc EXCEPT ![n] = "stealLock"]
          /\ stale' = [stale EXCEPT ![n] = Owner]
          /\ StatementSucceeds
          /\ UNCHANGED <<age, target>>
       \/ /\ ((lock = NoLock \/ ~ExpiredFor(n)) /\ StatementSucceeds) \/ StatementFails
          /\ Return(n, "idle")
    /\ UNCHANGED <<rows, lock, jobs, crashes>>

StealLock(n) ==
    /\ pc[n] = "stealLock"
    /\ \/ /\ lock # NoLock /\ ExpiredFor(n)
          /\ lock' = LeaseOf(n)
          /\ GoTo(n, IF stale[n].task # target[n] THEN "markExpired" ELSE "setRunning")
          /\ StatementSucceeds
       \/ /\ ((lock = NoLock \/ ~ExpiredFor(n)) /\ StatementSucceeds) \/ StatementFails
          /\ Return(n, "idle")
          /\ UNCHANGED lock
    /\ UNCHANGED <<rows, jobs, crashes>>

MarkExpired(n) ==
    /\ pc[n] = "markExpired"
    /\ \/ MarkLeaseExpired(stale[n].task) /\ StatementSucceeds /\ GoTo(n, "setRunning")
       \/ StatementFails /\ GoTo(n, "releaseLock") /\ UNCHANGED <<status, activeKey>>
    /\ UNCHANGED <<lockedBy, lock, jobs, crashes>>

\* Slip: the row is started by its key alone, whatever has become of it.
Slip_StillPending(t) == status[t] # "none"

\* The WHERE clause of the statement that starts the row.
StillPending(t) == status[t] = "pending"

\* The row goes from pending to running and its handler is dispatched, unless
\* the final read of the row fails: then the lease is left to expire.
SetRunning(n) ==
    /\ pc[n] = "setRunning"
    /\ LET t == target[n]
       IN  \/ /\ StillPending(t)
              /\ status' = [status EXCEPT ![t] = "running"]
              /\ lockedBy' = [lockedBy EXCEPT ![t] = n]
              /\ \/ /\ handler' = [handler EXCEPT ![t] = "running"]
                    /\ beat' = [beat EXCEPT ![t] = TRUE]
                    /\ runs' = [runs EXCEPT ![t] = @ + 1]
                    /\ StatementSucceeds
                 \/ StatementFails /\ UNCHANGED jobs
              /\ Return(n, "idle")
           \/ /\ \/ ~StillPending(t) /\ StatementSucceeds
                 \/ StatementFails
              /\ GoTo(n, "releaseLock")
              /\ UNCHANGED <<status, lockedBy, jobs>>
    /\ UNCHANGED <<activeKey, lock, crashes>>

ReleaseClaim(n) ==
    /\ pc[n] = "releaseLock"
    /\ \/ ReleaseLock(target[n], n) /\ StatementSucceeds
       \/ StatementFails /\ UNCHANGED lock
    /\ Return(n, "idle")
    /\ UNCHANGED <<rows, jobs, crashes>>

(***************************************************************************)
(* The handler of a claimed row and its heartbeat.                         *)
(***************************************************************************)

\* The handler stops working; its heartbeat is stopped when it returns.
EndHandler(t, label) ==
    /\ handler' = [handler EXCEPT ![t] = label]
    /\ beat' = [beat EXCEPT ![t] = FALSE]

\* RenewSystemTaskLock every third of the TTL; the first error ends the loop
\* and cancels the handler's context.
Heartbeat(t) ==
    /\ beat[t] /\ handler[t] = "running"
    /\ \/ /\ LeaseHeld(t, lockedBy[t])
          /\ lock' = [lock EXCEPT !.left = TTL]
          /\ StatementSucceeds
          /\ UNCHANGED beat
       \/ /\ \/ ~LeaseHeld(t, lockedBy[t]) /\ StatementSucceeds
             \/ StatementFails
          /\ beat' = [beat EXCEPT ![t] = FALSE]
          /\ UNCHANGED lock
    /\ UNCHANGED <<rows, pass, handler, runs, crashes>>

\* UpdateSystemTaskState reports a lost lease or a row that is no longer running:
\* the handler returns.
LeaseLost(t) ==
    /\ handler[t] = "running"
    /\ ~(status[t] = "running" /\ LeaseHeld(t, lockedBy[t]))
    /\ EndHandler(t, "ended")
    /\ UNCHANGED <<rows, lock, pass, runs, crashes, faults>>

\* FinishSystemTask; the row's key is freed with the status.
Finish(t) ==
    /\ handler[t] = "running"
    /\ \/ /\ status[t] = "running" /\ LeaseHeld(t, lockedBy[t])
          /\ \E s \in Finished : status' = [status EXCEPT ![t] = s]
          /\ activeKey' = [activeKey EXCEPT ![t] = FALSE]
          /\ EndHandler(t, "release")
          /\ StatementSucceeds
       \/ /\ \/ ~(status[t] = "running" /\ LeaseHeld(t, lockedBy[t])) /\ StatementSucceeds
             \/ StatementFails
          /\ EndHandler(t, "ended")
          /\ UNCHANGED <<status, activeKey>>
    /\ UNCHANGED <<lockedBy, lock, pass, runs, crashes>>

ReleaseFinished(t) ==
    /\ handler[t] = "release"
    /\ \/ ReleaseLock(t, lockedBy[t]) /\ StatementSucceeds
       \/ StatementFails /\ UNCHANGED lock
    /\ EndHandler(t, "ended")
    /\ UNCHANGED <<rows, pass, runs, crashes>>

(***************************************************************************)
(* The environment: time and crashes.                                      *)
(***************************************************************************)

Tick ==
    /\ \A n \in Nodes : pc[n] \in InCall => age[n] < MaxStall
    /\ age' = [n \in Nodes |-> IF pc[n] \in InCall THEN age[n] + 1 ELSE 0]
    /\ lock' = [lock EXCEPT !.left = IF @ > Expired THEN @ - 1 ELSE @]
    /\ UNCHANGED <<rows, pc, target, stale, jobs, crashes, faults>>

Crash(n) ==
    /\ pc[n] # "dead" /\ crashes < MaxCrashes
    /\ crashes' = crashes + 1
    /\ Return(n, "dead")
    /\ handler' = [t \in Tasks |-> IF lockedBy[t] = n /\ handler[t] # "none"
                                   THEN "ended" ELSE handler[t]]
    /\ beat' = [t \in Tasks |-> beat[t] /\ lockedBy[t] # n]
    /\ UNCHANGED <<rows, lock, runs, faults>>

(***************************************************************************)
(* The specification.                                                      *)
(***************************************************************************)

Init ==
    /\ status = [t \in Tasks |-> "none"]
    /\ activeKey = [t \in Tasks |-> FALSE]
    /\ lockedBy = [t \in Tasks |-> NoNode]
    /\ lock = NoLock
    /\ pc = [n \in Nodes |-> "idle"]
    /\ age = [n \in Nodes |-> 0]
    /\ target = [n \in Nodes |-> NoTask]
    /\ stale = [n \in Nodes |-> Nobody]
    /\ handler = [t \in Tasks |-> "none"]
    /\ beat = [t \in Tasks |-> FALSE]
    /\ crashes = 0 /\ faults = 0
    /\ runs = [t \in Tasks |-> 0]

PassStep(n) ==
    \/ ReadStaleLocks(n) \/ SkipStaleLocks(n) \/ MarkStale(n) \/ DeleteStale(n) \/ Schedule(n)
    \/ Claim(n) \/ InsertLock(n) \/ ReadLock(n) \/ StealLock(n) \/ MarkExpired(n)
    \/ SetRunning(n) \/ ReleaseClaim(n)

HandlerStep(t) == LeaseLost(t) \/ Finish(t) \/ ReleaseFinished(t)

Next ==
    \/ Enqueue \/ DeleteHistory
    \/ \E n \in Nodes : PassStep(n) \/ Crash(n)
    \/ \E t \in Tasks : HandlerStep(t) \/ Heartbeat(t)
    \/ Tick

Spec == Init /\ [][Next]_vars

\* Time passes, the runner loop of a live node keeps turning and runs its stale
\* pass every systemTaskStaleLockInterval, and a handler ends some day.
FairSpec ==
    /\ Spec
    /\ WF_vars(Tick)
    /\ \A n \in Nodes : WF_vars(PassStep(n)) /\ SF_vars(ReadStaleLocks(n))
    /\ \A t \in Tasks : WF_vars(HandlerStep(t))

(***************************************************************************)
(* Properties.                                                             *)
(***************************************************************************)

TypeOK ==
    /\ status \in [Tasks -> Statuses]
    /\ activeKey \in [Tasks -> BOOLEAN]
    /\ lockedBy \in [Tasks -> Nodes \cup {NoNode}]
    /\ lock \in Locks
    /\ pc \in [Nodes -> PCs]
    /\ age \in [Nodes -> 0 .. MaxStall]
    /\ target \in [Nodes -> Tasks \cup {NoTask}]
    /\ stale \in [Nodes -> [task : Tasks \cup {NoTask}, by : Nodes \cup {NoNode}]]
    /\ handler \in [Tasks -> {"none", "running", "release", "ended"}]
    /\ beat \in [Tasks -> BOOLEAN]
    /\ crashes \in 0 .. MaxCrashes /\ faults \in 0 .. MaxFaults
    /\ runs \in [Tasks -> Nat]

\* "the per-type lock guarantees only one runner executes the task": however the
\* nodes race for the lease, lose it or crash, a row is handed to a handler at
\* most once.
ExecutedAtMostOnce == \A t \in Tasks : runs[t] <= 1

\* A finished row is never reopened or relabelled, only deleted, although stale-lock
\* cleanup and lease takeover write to rows they read long before.
TerminalIsFinal ==
    [][\A t \in Tasks : status[t] \in Finished => status'[t] \in {status[t], "deleted"}]_vars

\* The active_key index and the status agree, so one row of the type is active at
\* a time and a finished row never blocks the next one.
ActiveKeyMatchesStatus ==
    \A t \in Tasks : activeKey[t] <=> status[t] \in {"pending", "running"}

\* As long as its lease is in force, the row of a live handler keeps it: no node's
\* takeover, cleanup or failed claim removes it, whatever that node read before.
LeaseInForceIsKept ==
    [][\A t \in Tasks :
          handler[t] = "running" /\ LeaseHeld(t, lockedBy[t]) /\ handler'[t] = "running"
          => lock'.task = t /\ lock'.by = lockedBy[t]]_vars

\* A node is about to fail the row because it took over or cleaned up its lease.
ExpiryInProgress(t) ==
    \E n \in Nodes : pc[n] \in {"markStale", "markExpired"} /\ stale[n].task = t

\* "mark expired leases failed": a running row can always be recovered, since its
\* lease row still exists or a node is about to mark it failed.
RunningIsLeased ==
    \A t \in Tasks : status[t] = "running" => lock.task = t \/ ExpiryInProgress(t)

\* Every row that is created ends, whichever node crashes: the job type is never
\* blocked for good by the row's active key.
RowsEnd ==
    \A t \in Tasks : status[t] = "pending" ~> status[t] \in Finished

(***************************************************************************)
(* The inductive invariant behind RunningIsLeased, for calls that end      *)
(* within the lease (MaxStall <= TTL).                                     *)
(***************************************************************************)

\* The labels of a claim before and after it has got the lock.
Claiming == {"insertLock", "readLock", "stealLock"}
Owning == {"markExpired", "setRunning", "releaseLock"}

NotRunning(t) == t \in Tasks => status[t] # "running"

\* A row gets its owner and its handler no earlier than its start.
RowShape(t) ==
    /\ status[t] \in {"none", "pending"} => lockedBy[t] = NoNode
    /\ handler[t] = "release" => status[t] \in Finished \cup {"deleted"}

\* The unique index on active_key.
OneActive == \A t, u \in Tasks : activeKey[t] /\ activeKey[u] => t = u

\* RunningIsLeased without the help of the passes, whose statements may fail.
Leased(t) == status[t] = "running" => lock.task = t

\* What a call may conclude from its old reading of clock and lock: the row of a
\* lease that it still sees expired does not run.
ReadingOK(n) ==
    /\ pc[n] \in Claiming \/ (pc[n] = "deleteStale" /\ Owner = stale[n])
    /\ ExpiredFor(n)
    => NotRunning(lock.task)

\* A node that has got the lock still owns it, and its row does not run yet.
ClaimOK(n) ==
    /\ pc[n] \in Claiming \cup Owning => target[n] \in Tasks /\ lockedBy[target[n]] # n
    /\ pc[n] \in Owning =>
          /\ lock.task = target[n] /\ lock.by = n /\ lock.left >= TTL - age[n]
          /\ NotRunning(target[n])

\* Between the statements of ClaimSystemTask and ExpireStaleSystemTaskLocks no other
\* node can take the lease away or start the row unnoticed.
LeaseInv ==
    /\ OneActive
    /\ \A t \in Tasks : RowShape(t) /\ Leased(t)
    /\ \A n \in Nodes : ReadingOK(n) /\ ClaimOK(n)

=============================================================================
