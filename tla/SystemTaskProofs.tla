-------------------------- MODULE SystemTaskProofs --------------------------
(***************************************************************************)
(* Proofs about SystemTask for every number of nodes, rows, ticks, crashes *)
(* and failed statements.                                                  *)
(***************************************************************************)
EXTENDS SystemTask, TLAPS

\* The domain of the rows and the marks that stand for "no row" and "no lock".
LEMMA Ranges ==
    /\ Tasks \subseteq Nat /\ NoTask \notin Tasks
    /\ Expired \in Int /\ Expired < 0 /\ Expired < TTL
    /\ NoLock \in Locks
    /\ Nobody \in [task : Tasks \cup {NoTask}, by : Nodes \cup {NoNode}]
  BY ConstantsAssumption DEF Tasks, NoTask, Expired, NoLock, Locks, Nobody

\* The types of the runner goroutine's variables, which GoTo, Begin and Return keep.
PassOK ==
    /\ pc \in [Nodes -> PCs]
    /\ age \in [Nodes -> 0 .. MaxStall]
    /\ target \in [Nodes -> Tasks \cup {NoTask}]
    /\ stale \in [Nodes -> [task : Tasks \cup {NoTask}, by : Nodes \cup {NoNode}]]

\* The same for the rows, for the handlers, and for the bounded counters.
RowsOK ==
    /\ status \in [Tasks -> Statuses]
    /\ activeKey \in [Tasks -> BOOLEAN]
    /\ lockedBy \in [Tasks -> Nodes \cup {NoNode}]

JobsOK ==
    /\ handler \in [Tasks -> {"none", "running", "release", "ended"}]
    /\ beat \in [Tasks -> BOOLEAN]
    /\ runs \in [Tasks -> Nat]

CountersOK == crashes \in 0 .. MaxCrashes /\ faults \in 0 .. MaxFaults

\* TypeOK is the conjunction of these parts, before and after a step.
LEMMA TypeParts ==
    /\ TypeOK => RowsOK /\ lock \in Locks /\ PassOK /\ JobsOK /\ CountersOK
    /\ RowsOK' /\ lock' \in Locks /\ PassOK' /\ JobsOK' /\ CountersOK' => TypeOK'
  BY DEF TypeOK, RowsOK, PassOK, JobsOK, CountersOK

\* A runner that moves on without a new call keeps its locals.
LEMMA GoToType ==
    ASSUME PassOK, NEW n, NEW label \in PCs, GoTo(n, label)
    PROVE  PassOK'
  BY DEF PassOK, GoTo

\* A call that begins gets a fresh clock reading and well-typed arguments.
LEMMA BeginType ==
    ASSUME PassOK, NEW n, NEW label \in PCs, NEW t \in Tasks \cup {NoTask},
           NEW seen \in [task : Tasks \cup {NoTask}, by : Nodes \cup {NoNode}],
           Begin(n, label, t, seen)
    PROVE  PassOK'
  <1>1. 0 \in 0 .. MaxStall
    BY ConstantsAssumption
  <1> QED
    BY <1>1 DEF PassOK, Begin

\* A call that returns clears its locals.
LEMMA ReturnType ==
    ASSUME PassOK, NEW n, NEW label \in PCs, Return(n, label)
    PROVE  PassOK'
  BY BeginType, Ranges DEF Return

\* A statement fails or not: the counter stays within its bound.
LEMMA FaultType ==
    ASSUME CountersOK, UNCHANGED crashes, StatementFails \/ StatementSucceeds
    PROVE  CountersOK'
  BY ConstantsAssumption DEF CountersOK, StatementFails, StatementSucceeds

\* What an expired or replaced lease writes is a lease again.
LEMMA LeaseType ==
    ASSUME PassOK, NEW n \in Nodes
    PROVE  LeaseOf(n) \in Locks
  <1>1. age[n] \in 0 .. MaxStall /\ target[n] \in Tasks \cup {NoTask}
    BY DEF PassOK
  <1>2. TTL - age[n] \in Expired .. TTL
    BY <1>1, ConstantsAssumption DEF Expired
  <1> QED
    BY <1>1, <1>2 DEF LeaseOf, Locks

\* The owner read from a lock can be remembered by a call.
LEMMA OwnerType ==
    ASSUME lock \in Locks
    PROVE  Owner \in [task : Tasks \cup {NoTask}, by : Nodes \cup {NoNode}]
  BY DEF Owner, Locks

\* The statement that fails a row of an expired lease keeps the columns typed.
LEMMA MarkType ==
    ASSUME RowsOK, NEW t, MarkLeaseExpired(t), UNCHANGED lockedBy
    PROVE  RowsOK'
  BY DEF RowsOK, MarkLeaseExpired, Statuses, Finished

\* CreateSystemTask keeps the columns typed.
LEMMA CreateType ==
    ASSUME RowsOK, CreateRow, UNCHANGED lockedBy
    PROVE  RowsOK'
  BY DEF RowsOK, CreateRow, Statuses, Finished

(***************************************************************************)
(* Type correctness, one step per action.                                  *)
(***************************************************************************)

\* The statements of a runner pass.
LEMMA TypePass ==
    ASSUME TypeOK, NEW n \in Nodes, PassStep(n)
    PROVE  TypeOK'
  <1> USE TypeParts
  <1>0. RowsOK /\ lock \in Locks /\ PassOK /\ JobsOK /\ CountersOK
    OBVIOUS
  <1>a. {"idle", "schedule", "claim", "dead"} \cup InCall = PCs
    BY DEF PCs
  <1>b. NoLock \in Locks /\ LeaseOf(n) \in Locks
    BY <1>0, Ranges, LeaseType
  <1>1. CASE ReadStaleLocks(n)
    <2>1. PassOK'
      BY <1>0, <1>1, GoToType, BeginType, OwnerType, Ranges DEF ReadStaleLocks, PCs, InCall
    <2> QED
      BY <1>0, <1>1, <2>1 DEF ReadStaleLocks, rows, jobs, RowsOK, JobsOK, CountersOK
  <1>2. CASE SkipStaleLocks(n)
    <2>1. PassOK'
      BY <1>0, <1>2, GoToType DEF SkipStaleLocks, PCs
    <2> QED
      BY <1>0, <1>2, <2>1 DEF SkipStaleLocks, rows, jobs, RowsOK, JobsOK, CountersOK
  <1>3. CASE MarkStale(n)
    <2>1. PassOK'
      BY <1>0, <1>3, GoToType, ReturnType DEF MarkStale, PCs, InCall
    <2>2. RowsOK'
      BY <1>0, <1>3, MarkType DEF MarkStale, RowsOK
    <2>3. CountersOK'
      BY <1>0, <1>3, FaultType DEF MarkStale
    <2> QED
      BY <1>0, <1>3, <2>1, <2>2, <2>3 DEF MarkStale, jobs, JobsOK
  <1>4. CASE DeleteStale(n)
    <2>1. PassOK'
      BY <1>0, <1>4, ReturnType DEF DeleteStale, PCs
    <2>2. CountersOK'
      BY <1>0, <1>4, FaultType DEF DeleteStale
    <2>3. lock' \in Locks
      BY <1>0, <1>4, <1>b DEF DeleteStale
    <2> QED
      BY <1>0, <1>4, <2>1, <2>2, <2>3 DEF DeleteStale, rows, jobs, RowsOK, JobsOK
  <1>5. CASE Schedule(n)
    <2>1. PassOK'
      BY <1>0, <1>5, GoToType DEF Schedule, PCs
    <2>2. RowsOK'
      BY <1>0, <1>5, CreateType DEF Schedule, RowsOK
    <2> QED
      BY <1>0, <1>5, <2>1, <2>2 DEF Schedule, jobs, JobsOK, CountersOK
  <1>6. CASE Claim(n)
    <2>1. PassOK'
      BY <1>0, <1>6, GoToType, BeginType, Ranges DEF Claim, PCs, InCall
    <2> QED
      BY <1>0, <1>6, <2>1 DEF Claim, rows, jobs, RowsOK, JobsOK, CountersOK
  <1>7. CASE InsertLock(n)
    <2>1. PassOK'
      BY <1>0, <1>7, GoToType DEF InsertLock, PCs, InCall
    <2>2. CountersOK'
      BY <1>0, <1>7, FaultType DEF InsertLock
    <2>3. lock' \in Locks
      BY <1>0, <1>7, <1>b DEF InsertLock
    <2> QED
      BY <1>0, <1>7, <2>1, <2>2, <2>3 DEF InsertLock, rows, jobs, RowsOK, JobsOK
  <1>8. CASE ReadLock(n)
    <2>1. PassOK'
      <3>1. CASE Return(n, "idle")
        BY <1>0, <3>1, ReturnType DEF PCs
      <3>2. CASE ~Return(n, "idle")
        BY <1>0, <1>8, <3>2, OwnerType DEF ReadLock, PassOK, PCs, InCall
      <3> QED
        BY <3>1, <3>2
    <2>2. CountersOK'
      BY <1>0, <1>8, FaultType DEF ReadLock
    <2> QED
      BY <1>0, <1>8, <2>1, <2>2 DEF ReadLock, rows, jobs, RowsOK, JobsOK
  <1>9. CASE StealLock(n)
    <2>1. PassOK'
      BY <1>0, <1>9, GoToType, ReturnType DEF StealLock, PCs, InCall
    <2>2. CountersOK'
      BY <1>0, <1>9, FaultType DEF StealLock
    <2>3. lock' \in Locks
      BY <1>0, <1>9, <1>b DEF StealLock
    <2> QED
      BY <1>0, <1>9, <2>1, <2>2, <2>3 DEF StealLock, rows, jobs, RowsOK, JobsOK
  <1>10. CASE MarkExpired(n)
    <2>1. PassOK'
      BY <1>0, <1>10, GoToType DEF MarkExpired, PCs, InCall
    <2>2. RowsOK'
      BY <1>0, <1>10, MarkType DEF MarkExpired, RowsOK
    <2>3. CountersOK'
      BY <1>0, <1>10, FaultType DEF MarkExpired
    <2> QED
      BY <1>0, <1>10, <2>1, <2>2, <2>3 DEF MarkExpired, jobs, JobsOK
  <1>11. CASE SetRunning(n)
    <2>1. PassOK'
      BY <1>0, <1>11, GoToType, ReturnType DEF SetRunning, PCs, InCall
    <2>2. RowsOK'
      BY <1>0, <1>11 DEF SetRunning, RowsOK, Statuses
    <2>3. JobsOK'
      <3>1. CASE UNCHANGED jobs
        BY <1>0, <3>1 DEF jobs, JobsOK
      <3>2. CASE ~UNCHANGED jobs
        <4>1. /\ handler' = [handler EXCEPT ![target[n]] = "running"]
              /\ beat' = [beat EXCEPT ![target[n]] = TRUE]
              /\ runs' = [runs EXCEPT ![target[n]] = @ + 1]
          BY <1>11, <3>2 DEF SetRunning
        <4>2. beat' \in [Tasks -> BOOLEAN]
          BY <1>0, <4>1, Zenon DEF JobsOK
        <4>3. handler' \in [Tasks -> {"none", "running", "release", "ended"}]
          BY <1>0, <4>1 DEF JobsOK
        <4>4. runs' \in [Tasks -> Nat]
          <5>1. runs \in [Tasks -> Nat]
            BY <1>0 DEF JobsOK
          <5>2. runs' = [x \in Tasks |-> IF x = target[n] THEN runs[x] + 1 ELSE runs[x]]
            BY <4>1, <5>1
          <5>3. \A x \in Tasks : (IF x = target[n] THEN runs[x] + 1 ELSE runs[x]) \in Nat
            BY <5>1
          <5> QED
            BY <5>2, <5>3
        <4> QED
          BY <4>2, <4>3, <4>4 DEF JobsOK
      <3> QED
        BY <3>1, <3>2
    <2>4. CountersOK'
      BY <1>0, <1>11, FaultType DEF SetRunning
    <2> QED
      BY <1>0, <1>11, <2>1, <2>2, <2>3, <2>4 DEF SetRunning
  <1>12. CASE ReleaseClaim(n)
    <2>1. PassOK'
      BY <1>0, <1>12, ReturnType DEF ReleaseClaim, PCs
    <2>2. CountersOK'
      BY <1>0, <1>12, FaultType DEF ReleaseClaim
    <2>3. lock' \in Locks
      BY <1>0, <1>12, <1>b DEF ReleaseClaim, ReleaseLock
    <2> QED
      BY <1>0, <1>12, <2>1, <2>2, <2>3 DEF ReleaseClaim, rows, jobs, RowsOK, JobsOK
  <1> QED
    BY <1>1, <1>2, <1>3, <1>4, <1>5, <1>6, <1>7, <1>8, <1>9, <1>10, <1>11, <1>12 DEF PassStep

\* The statements of a handler and its heartbeat.
LEMMA TypeHandler ==
    ASSUME TypeOK, NEW t \in Tasks, HandlerStep(t) \/ Heartbeat(t)
    PROVE  TypeOK'
  <1> USE TypeParts
  <1>0. RowsOK /\ lock \in Locks /\ PassOK /\ JobsOK /\ CountersOK
    OBVIOUS
  <1>1. CASE LeaseLost(t)
    <2>1. JobsOK'
      BY <1>0, <1>1 DEF LeaseLost, EndHandler, JobsOK
    <2> QED
      BY <1>0, <1>1, <2>1 DEF LeaseLost, rows, pass, RowsOK, PassOK, CountersOK
  <1>2. CASE Finish(t)
    <2>1. JobsOK'
      BY <1>0, <1>2 DEF Finish, EndHandler, JobsOK
    <2>2. RowsOK'
      BY <1>0, <1>2 DEF Finish, RowsOK, Statuses
    <2>3. CountersOK'
      BY <1>0, <1>2, FaultType DEF Finish
    <2> QED
      BY <1>0, <1>2, <2>1, <2>2, <2>3 DEF Finish, pass, PassOK
  <1>3. CASE ReleaseFinished(t)
    <2>1. JobsOK'
      BY <1>0, <1>3 DEF ReleaseFinished, EndHandler, JobsOK
    <2>2. lock' \in Locks
      BY <1>0, <1>3, Ranges DEF ReleaseFinished, ReleaseLock
    <2>3. CountersOK'
      BY <1>0, <1>3, FaultType DEF ReleaseFinished
    <2> QED
      BY <1>0, <1>3, <2>1, <2>2, <2>3 DEF ReleaseFinished, rows, pass, RowsOK, PassOK
  <1>4. CASE Heartbeat(t)
    <2>1. JobsOK'
      BY <1>0, <1>4 DEF Heartbeat, JobsOK
    <2>2. TTL \in Expired .. TTL
      BY ConstantsAssumption DEF Expired
    <2>3. lock' \in Locks
      BY <1>0, <1>4, <2>2 DEF Heartbeat, Locks
    <2>4. CountersOK'
      BY <1>0, <1>4, FaultType DEF Heartbeat
    <2> QED
      BY <1>0, <1>4, <2>1, <2>3, <2>4 DEF Heartbeat, rows, pass, RowsOK, PassOK
  <1> QED
    BY <1>1, <1>2, <1>3, <1>4 DEF HandlerStep

\* Every step, the environment's included.
LEMMA TypeStep == TypeOK /\ [Next]_vars => TypeOK'
  <1> SUFFICES ASSUME TypeOK, [Next]_vars PROVE TypeOK'
    OBVIOUS
  <1>0. RowsOK /\ lock \in Locks /\ PassOK /\ JobsOK /\ CountersOK
    BY TypeParts
  <1>1. CASE Enqueue
    BY <1>0, <1>1, CreateType, TypeParts DEF Enqueue, pass, jobs, PassOK, JobsOK, CountersOK
  <1>2. CASE DeleteHistory
    <2>1. RowsOK'
      BY <1>0, <1>2 DEF DeleteHistory, RowsOK, Statuses
    <2> QED
      BY <1>0, <1>2, <2>1, TypeParts DEF DeleteHistory, pass, jobs, PassOK, JobsOK, CountersOK
  <1>3. ASSUME NEW n \in Nodes, PassStep(n) PROVE TypeOK'
    BY <1>3, TypePass
  <1>4. ASSUME NEW n \in Nodes, Crash(n) PROVE TypeOK'
    <2>1. PassOK'
      BY <1>0, <1>4, ReturnType DEF Crash, PCs
    <2>2. JobsOK'
      BY <1>0, <1>4 DEF Crash, JobsOK
    <2>3. CountersOK'
      BY <1>0, <1>4, ConstantsAssumption DEF Crash, CountersOK
    <2> QED
      BY <1>0, <1>4, <2>1, <2>2, <2>3, TypeParts DEF Crash, rows, RowsOK
  <1>5. ASSUME NEW t \in Tasks, HandlerStep(t) \/ Heartbeat(t) PROVE TypeOK'
    BY <1>5, TypeHandler
  <1>6. CASE Tick
    <2>1. PassOK'
      <3>1. \A n \in Nodes : (IF pc[n] \in InCall THEN age[n] + 1 ELSE 0) \in 0 .. MaxStall
        BY <1>0, <1>6, ConstantsAssumption DEF Tick, PassOK
      <3> QED
        BY <1>0, <1>6, <3>1 DEF Tick, PassOK
    <2>2. lock' \in Locks
      <3>1. lock.left \in Expired .. TTL
        BY <1>0 DEF Locks
      <3>2. (IF lock.left > Expired THEN lock.left - 1 ELSE lock.left) \in Expired .. TTL
        BY <3>1, Ranges, ConstantsAssumption
      <3> QED
        BY <1>0, <1>6, <3>2 DEF Tick, Locks
    <2> QED
      BY <1>0, <1>6, <2>1, <2>2, TypeParts DEF Tick, rows, jobs, RowsOK, JobsOK, CountersOK
  <1>7. CASE UNCHANGED vars
    BY <1>0, <1>7, TypeParts
       DEF vars, rows, pass, jobs, RowsOK, PassOK, JobsOK, CountersOK
  <1> QED
    BY <1>1, <1>2, <1>3, <1>4, <1>5, <1>6, <1>7 DEF Next

\* The empty tables of the initial state.
LEMMA TypeInit == Init => TypeOK
  <1> SUFFICES ASSUME Init PROVE TypeOK
    OBVIOUS
  <1>1. 0 \in 0 .. MaxStall /\ 0 \in 0 .. MaxCrashes /\ 0 \in 0 .. MaxFaults /\ 0 \in Nat
    BY ConstantsAssumption
  <1> QED
    BY <1>1, Ranges DEF Init, TypeOK, Statuses, Finished, PCs

\* Every reachable state of any number of nodes and rows is well typed: the lease
\* written by a slow call is never longer than TTL and never below the point where
\* every clock sees it expired.
THEOREM TypeCorrect == Spec => []TypeOK
  BY TypeInit, TypeStep, PTL DEF Spec

(***************************************************************************)
(* The life of a row.  Whatever the nodes do to leases and locks, a single *)
(* step moves a row along pending, running, finished, deleted, and starts  *)
(* its handler only when it becomes running.                               *)
(***************************************************************************)

Kept(t) == status'[t] = status[t] /\ activeKey'[t] = activeKey[t]

Lifecycle(t) ==
    \/ Kept(t) /\ runs'[t] = runs[t]
    \/ /\ status[t] = "none" /\ status'[t] = "pending"
       /\ activeKey'[t] = TRUE /\ runs'[t] = runs[t]
    \/ /\ status[t] = "pending" /\ status'[t] = "running"
       /\ activeKey'[t] = activeKey[t] /\ runs'[t] \in {runs[t], runs[t] + 1}
    \/ /\ status[t] = "running" /\ status'[t] \in Finished
       /\ activeKey'[t] = FALSE /\ runs'[t] = runs[t]
    \/ /\ status[t] \in Finished /\ status'[t] = "deleted"
       /\ activeKey'[t] = activeKey[t] /\ runs'[t] = runs[t]

\* CreateSystemTask, from the API or from the scheduler.
LEMMA LifecycleCreate ==
    ASSUME TypeOK, CreateRow, UNCHANGED runs, NEW t \in Tasks
    PROVE  Lifecycle(t)
  BY DEF TypeOK, CreateRow, Lifecycle, Kept

\* MarkSystemTaskLeaseExpired, from the stale pass or from a takeover.
LEMMA LifecycleMark ==
    ASSUME TypeOK, NEW x, MarkLeaseExpired(x), UNCHANGED runs, NEW t \in Tasks
    PROVE  Lifecycle(t)
  BY DEF TypeOK, MarkLeaseExpired, Lifecycle, Kept, Finished

\* Every other statement leaves the two columns alone.
LEMMA LifecycleKept ==
    ASSUME UNCHANGED <<status, activeKey, runs>>, NEW t \in Tasks
    PROVE  Lifecycle(t)
  BY DEF Lifecycle, Kept

\* A pass starts a row only by SetRunning and ends it only by marking it failed.
LEMMA LifecyclePass ==
    ASSUME TypeOK, NEW n \in Nodes, PassStep(n), NEW t \in Tasks
    PROVE  Lifecycle(t)
  <1>1. CASE MarkStale(n)
    BY <1>1, LifecycleMark, LifecycleKept DEF MarkStale, jobs
  <1>2. CASE MarkExpired(n)
    BY <1>2, LifecycleMark, LifecycleKept DEF MarkExpired, jobs
  <1>3. CASE Schedule(n)
    BY <1>3, LifecycleCreate, LifecycleKept DEF Schedule, jobs
  <1>4. CASE SetRunning(n)
    <2>1. CASE UNCHANGED <<status, jobs>>
      BY <1>4, <2>1, LifecycleKept DEF SetRunning, jobs
    <2>2. CASE ~UNCHANGED <<status, jobs>>
      <3>1. /\ status[target[n]] = "pending"
            /\ status' = [status EXCEPT ![target[n]] = "running"]
            /\ runs' = [runs EXCEPT ![target[n]] = @ + 1] \/ runs' = runs
            /\ UNCHANGED activeKey
        BY <1>4, <2>2 DEF SetRunning, StillPending, jobs
      <3> QED
        BY <3>1 DEF TypeOK, Lifecycle, Kept
    <2> QED
      BY <2>1, <2>2
  <1>5. CASE ReadStaleLocks(n) \/ SkipStaleLocks(n) \/ DeleteStale(n) \/ Claim(n)
             \/ InsertLock(n) \/ ReadLock(n) \/ StealLock(n) \/ ReleaseClaim(n)
    BY <1>5, LifecycleKept
       DEF ReadStaleLocks, SkipStaleLocks, DeleteStale, Claim, InsertLock, ReadLock,
           StealLock, ReleaseClaim, rows, jobs
  <1> QED
    BY <1>1, <1>2, <1>3, <1>4, <1>5 DEF PassStep

\* No step of any actor moves a row in another way.
LEMMA LifecycleStep ==
    ASSUME TypeOK, [Next]_vars, NEW t \in Tasks
    PROVE  Lifecycle(t)
  <1>1. CASE Enqueue
    BY <1>1, LifecycleCreate DEF Enqueue, jobs
  <1>2. CASE DeleteHistory
    BY <1>2 DEF DeleteHistory, TypeOK, Lifecycle, Kept, Finished, jobs
  <1>3. ASSUME NEW n \in Nodes, PassStep(n) PROVE Lifecycle(t)
    BY <1>3, LifecyclePass
  <1>4. ASSUME NEW n \in Nodes, Crash(n) PROVE Lifecycle(t)
    BY <1>4, LifecycleKept DEF Crash, rows
  <1>5. ASSUME NEW x \in Tasks, HandlerStep(x) \/ Heartbeat(x) PROVE Lifecycle(t)
    <2>1. CASE Finish(x)
      BY <2>1 DEF Finish, TypeOK, Lifecycle, Kept
    <2>2. CASE LeaseLost(x) \/ ReleaseFinished(x) \/ Heartbeat(x)
      BY <2>2, LifecycleKept DEF LeaseLost, ReleaseFinished, Heartbeat, rows
    <2> QED
      BY <1>5, <2>1, <2>2 DEF HandlerStep
  <1>6. CASE Tick
    BY <1>6, LifecycleKept DEF Tick, rows, jobs
  <1>7. CASE UNCHANGED vars
    BY <1>7, LifecycleKept DEF vars, rows, jobs
  <1> QED
    BY <1>1, <1>2, <1>3, <1>4, <1>5, <1>6, <1>7 DEF Next

\* Neither a stale cleanup, a takeover nor a late finish changes a finished row: each
\* of their statements asks for a running row.
THEOREM FinishedIsFinal == Spec => TerminalIsFinal
  <1>1. TypeOK /\ [Next]_vars
        => [\A t \in Tasks : status[t] \in Finished => status'[t] \in {status[t], "deleted"}]_vars
    <2> SUFFICES ASSUME TypeOK, [Next]_vars, NEW t \in Tasks, status[t] \in Finished
                 PROVE  status'[t] \in {status[t], "deleted"}
      OBVIOUS
    <2>1. Lifecycle(t)
      BY LifecycleStep
    <2> QED
      BY <2>1 DEF Lifecycle, Kept, Finished
  <1> QED
    BY <1>1, TypeCorrect, PTL DEF Spec, TerminalIsFinal

\* The unique index on active_key and the status column never disagree, so a job type
\* has at most one active row and a finished row never blocks it.
THEOREM ActiveKeyExact == Spec => []ActiveKeyMatchesStatus
  <1>1. Init => ActiveKeyMatchesStatus
    BY DEF Init, ActiveKeyMatchesStatus
  <1>2. TypeOK /\ ActiveKeyMatchesStatus /\ [Next]_vars => ActiveKeyMatchesStatus'
    <2> SUFFICES ASSUME TypeOK, ActiveKeyMatchesStatus, [Next]_vars, NEW t \in Tasks
                 PROVE  activeKey'[t] <=> status'[t] \in {"pending", "running"}
      BY DEF ActiveKeyMatchesStatus
    <2>1. Lifecycle(t)
      BY LifecycleStep
    <2>2. activeKey[t] <=> status[t] \in {"pending", "running"}
      BY DEF ActiveKeyMatchesStatus
    <2> QED
      BY <2>1, <2>2 DEF Lifecycle, Kept, Finished
  <1> QED
    BY <1>1, <1>2, TypeCorrect, PTL DEF Spec

\* What makes ExecutedAtMostOnce inductive: a row that may still be started has not
\* been started.
StartedOnce ==
    \A t \in Tasks : runs[t] <= 1 /\ (status[t] \in {"none", "pending"} => runs[t] = 0)

\* However many nodes race for a lease, lose it, crash or stall, and even when a claim
\* outlasts its lease, no row is handed to a handler twice.
THEOREM RunsOnce == Spec => []ExecutedAtMostOnce
  <1>1. Init => StartedOnce
    BY DEF Init, StartedOnce
  <1>2. TypeOK /\ StartedOnce /\ [Next]_vars => StartedOnce'
    <2> SUFFICES ASSUME TypeOK, StartedOnce, [Next]_vars, NEW t \in Tasks
                 PROVE  runs'[t] <= 1 /\ (status'[t] \in {"none", "pending"} => runs'[t] = 0)
      BY DEF StartedOnce
    <2>1. Lifecycle(t)
      BY LifecycleStep
    <2>2. runs[t] \in Nat /\ runs[t] <= 1 /\ (status[t] \in {"none", "pending"} => runs[t] = 0)
      BY DEF TypeOK, StartedOnce
    <2> QED
      BY <2>1, <2>2 DEF Lifecycle, Kept, Finished
  <1>3. StartedOnce => ExecutedAtMostOnce
    BY DEF StartedOnce, ExecutedAtMostOnce
  <1> QED
    BY <1>1, <1>2, <1>3, TypeCorrect, PTL DEF Spec

(***************************************************************************)
(* RunningIsLeased for calls that end within the lease.                    *)
(***************************************************************************)

\* A node that has got the lock owns an unexpired lease: no clock reading of any call
\* sees it expired, because no call is older than the lease.
LEMMA OwningFacts ==
    ASSUME TypeOK, MaxStall <= TTL, NEW n \in Nodes, ClaimOK(n), pc[n] \in Owning
    PROVE  /\ target[n] \in Tasks /\ lock.task = target[n] /\ lock.by = n
           /\ lock # NoLock /\ lock.left >= 0
           /\ \A m \in Nodes : ~ExpiredFor(m)
  <1>1. age[n] \in 0 .. MaxStall /\ lock.left \in Int
    BY Ranges DEF TypeOK, Locks
  <1>2. lock.left >= 0
    BY <1>1, ConstantsAssumption DEF ClaimOK
  <1>3. \A m \in Nodes : age[m] \in Nat
    BY ConstantsAssumption DEF TypeOK
  <1>4. \A m \in Nodes : ~ExpiredFor(m)
    BY <1>1, <1>2, <1>3 DEF ExpiredFor
  <1> QED
    BY <1>2, <1>4, Ranges DEF ClaimOK, NoLock

\* No row starts in this step.
NoStart == \A t \in Tasks : status'[t] = "running" => status[t] = "running"

\* The lease is kept, removed or written afresh, and never taken from a running row.
LockMoves ==
    /\ lock' = lock \/ lock' = NoLock \/ lock'.left >= 0
    /\ lock'.task = lock.task \/ NotRunning(lock.task)

Renewed ==
    lock' = lock \/ (lock'.task = lock.task /\ lock'.by = lock.by /\ lock'.left = TTL)

\* The step leaves node m's call alone.
Spares(m) ==
    /\ pc'[m] = pc[m] /\ age'[m] = age[m] /\ target'[m] = target[m] /\ stale'[m] = stale[m]
    /\ pc[m] \in Owning => Renewed

\* A running row stays leased when no row starts and its lease is not taken away.
LEMMA LeasedFrame ==
    ASSUME \A t \in Tasks : Leased(t), NoStart, LockMoves
    PROVE  \A t \in Tasks : Leased(t)'
  BY DEF Leased, NoStart, LockMoves, NotRunning

\* What a call in progress on another node knows stays true.
LEMMA NodeFrame ==
    ASSUME TypeOK, lock' \in Locks, MaxStall <= TTL, NEW m \in Nodes, ReadingOK(m), ClaimOK(m),
           NoStart, LockMoves, Spares(m), UNCHANGED lockedBy
    PROVE  ReadingOK(m)' /\ ClaimOK(m)'
  <1>1. age[m] \in Nat /\ age[m] <= MaxStall
    BY ConstantsAssumption DEF TypeOK
  <1>2. ReadingOK(m)'
    <2>1. CASE lock' = lock
      BY <2>1 DEF ReadingOK, Spares, NoStart, NotRunning, ExpiredFor, Owner
    <2>2. CASE lock' = NoLock
      BY <2>2, Ranges DEF ReadingOK, NotRunning, NoLock
    <2>3. CASE lock'.left >= 0 /\ lock' # NoLock /\ lock' # lock
      <3>1. ASSUME ExpiredFor(m)' PROVE FALSE
        <4>1. lock'.left < -age[m]
          BY <3>1 DEF ExpiredFor, Spares
        <4>2. lock'.left \in Int
          BY Ranges DEF Locks
        <4> QED
          BY <1>1, <2>3, <4>1, <4>2
      <3> QED
        BY <3>1 DEF ReadingOK
    <2> QED
      BY <2>1, <2>2, <2>3 DEF LockMoves
  <1>3. ClaimOK(m)'
    <2>1. TTL >= TTL - age[m]
      BY <1>1, ConstantsAssumption
    <2> QED
      BY <2>1 DEF ClaimOK, Spares, Renewed, NoStart, NotRunning
  <1> QED
    BY <1>2, <1>3

\* The parts of LeaseInv that speak of rows alone.
RowInv == OneActive /\ \A t \in Tasks : RowShape(t)

\* Only CreateSystemTask sets an active_key.
LEMMA KeyStep ==
    ASSUME TypeOK, [Next]_vars
    PROVE  CreateRow \/ \A t \in Tasks : activeKey'[t] => activeKey[t]
  <1>1. CASE \E n \in Nodes : Schedule(n)
    BY <1>1 DEF Schedule
  <1>2. CASE Enqueue
    BY <1>2 DEF Enqueue
  <1>3. ASSUME NEW n \in Nodes, PassStep(n), ~Schedule(n)
        PROVE  \A t \in Tasks : activeKey'[t] => activeKey[t]
    BY <1>3 DEF PassStep, ReadStaleLocks, SkipStaleLocks, MarkStale, DeleteStale, Claim,
                InsertLock, ReadLock, StealLock, MarkExpired, SetRunning, ReleaseClaim,
                MarkLeaseExpired, rows, TypeOK
  <1>4. ASSUME NEW t \in Tasks, HandlerStep(t) \/ Heartbeat(t)
        PROVE  \A x \in Tasks : activeKey'[x] => activeKey[x]
    BY <1>4 DEF HandlerStep, LeaseLost, Finish, ReleaseFinished, Heartbeat, rows, TypeOK
  <1>5. ASSUME DeleteHistory \/ Tick \/ (\E n \in Nodes : Crash(n)) \/ UNCHANGED vars
        PROVE  UNCHANGED activeKey
    BY <1>5 DEF DeleteHistory, Tick, Crash, vars, rows
  <1> QED
    BY <1>1, <1>2, <1>3, <1>4, <1>5 DEF Next

\* Only the statement that starts a row sets locked_by.
LEMMA LockedByStep ==
    ASSUME TypeOK, [Next]_vars, NEW t \in Tasks
    PROVE  lockedBy'[t] = lockedBy[t] \/ status'[t] = "running"
  <1>1. ASSUME NEW n \in Nodes, SetRunning(n)
        PROVE  lockedBy'[t] = lockedBy[t] \/ status'[t] = "running"
    BY <1>1 DEF SetRunning, TypeOK
  <1>2. ASSUME NEW n \in Nodes, PassStep(n), ~SetRunning(n) PROVE UNCHANGED lockedBy
    BY <1>2 DEF PassStep, ReadStaleLocks, SkipStaleLocks, MarkStale, DeleteStale, Schedule,
                Claim, InsertLock, ReadLock, StealLock, MarkExpired, ReleaseClaim, rows
  <1>3. ASSUME NEW x \in Tasks, HandlerStep(x) \/ Heartbeat(x) PROVE UNCHANGED lockedBy
    BY <1>3 DEF HandlerStep, LeaseLost, Finish, ReleaseFinished, Heartbeat, rows
  <1>4. ASSUME \/ Enqueue \/ DeleteHistory \/ Tick \/ UNCHANGED vars
               \/ \E n \in Nodes : Crash(n)
        PROVE  UNCHANGED lockedBy
    BY <1>4 DEF Enqueue, DeleteHistory, Tick, Crash, vars, rows
  <1> QED
    BY <1>1, <1>2, <1>3, <1>4 DEF Next

\* Only FinishSystemTask, having ended the row, goes on to release its lock.
LEMMA ReleaseStep ==
    ASSUME TypeOK, [Next]_vars, NEW t \in Tasks, handler'[t] = "release"
    PROVE  handler[t] = "release" \/ status'[t] \in Finished
  <1>1. ASSUME NEW n \in Nodes, PassStep(n)
        PROVE  handler' = handler \/ handler' = [handler EXCEPT ![target[n]] = "running"]
    BY <1>1 DEF PassStep, ReadStaleLocks, SkipStaleLocks, MarkStale, DeleteStale, Schedule,
                Claim, InsertLock, ReadLock, StealLock, MarkExpired, SetRunning, ReleaseClaim,
                jobs
  <1>2. ASSUME NEW x \in Tasks, HandlerStep(x) \/ Heartbeat(x)
        PROVE  handler[t] = "release" \/ status'[t] \in Finished
    BY <1>2 DEF HandlerStep, LeaseLost, Finish, ReleaseFinished, Heartbeat, EndHandler, TypeOK
  <1>3. ASSUME NEW n \in Nodes, Crash(n) PROVE handler[t] = "release"
    BY <1>3 DEF Crash
  <1>4. ASSUME Enqueue \/ DeleteHistory \/ Tick \/ UNCHANGED vars PROVE UNCHANGED handler
    BY <1>4 DEF Enqueue, DeleteHistory, Tick, vars, jobs
  <1>5. ASSUME NEW n \in Nodes, PassStep(n) PROVE handler[t] = "release"
    BY <1>1, <1>5 DEF TypeOK
  <1> QED
    BY <1>2, <1>3, <1>4, <1>5 DEF Next

\* One active row per type, no owner before the start, no release before the end.
LEMMA RowInvStep ==
    ASSUME TypeOK, RowInv, [Next]_vars
    PROVE  RowInv'
  <1>1. OneActive'
    <2>1. CASE CreateRow
      BY <2>1 DEF CreateRow, OneActive, TypeOK
    <2>2. CASE \A t \in Tasks : activeKey'[t] => activeKey[t]
      BY <2>2 DEF OneActive, RowInv
    <2> QED
      BY <2>1, <2>2, KeyStep
  <1>2. ASSUME NEW t \in Tasks PROVE RowShape(t)'
    <2>1. Lifecycle(t)
      BY LifecycleStep
    <2>2. lockedBy'[t] = lockedBy[t] \/ status'[t] = "running"
      BY LockedByStep
    <2>3. handler'[t] = "release" => handler[t] = "release" \/ status'[t] \in Finished
      BY ReleaseStep
    <2>4. RowShape(t)
      BY DEF RowInv
    <2> QED
      BY <2>1, <2>2, <2>3, <2>4 DEF RowShape, Lifecycle, Kept, Finished
  <1> QED
    BY <1>1, <1>2 DEF RowInv

\* The parts of LeaseInv that relate the lease to rows and calls.
NodeInv == (\A t \in Tasks : Leased(t)) /\ \A n \in Nodes : ReadingOK(n) /\ ClaimOK(n)

\* A step of node n other than the start of a row: the other nodes are spared, and
\* node n itself has been looked at.
LEMMA NodeStep ==
    ASSUME TypeOK, TypeOK', MaxStall <= TTL, NodeInv, NEW n \in Nodes,
           NoStart, LockMoves, UNCHANGED lockedBy,
           \A m \in Nodes \ {n} : Spares(m), ReadingOK(n)', ClaimOK(n)'
    PROVE  NodeInv'
  <1>0. lock' \in Locks
    BY DEF TypeOK
  <1>1. \A m \in Nodes \ {n} : ReadingOK(m)' /\ ClaimOK(m)'
    BY <1>0, NodeFrame DEF NodeInv
  <1>2. \A t \in Tasks : Leased(t)'
    BY LeasedFrame DEF NodeInv
  <1> QED
    BY <1>1, <1>2 DEF NodeInv

\* A step of the pass of node n changes the locals of n alone.
LEMMA PassFrame ==
    ASSUME TypeOK, NEW n \in Nodes, PassStep(n), NEW m \in Nodes, m # n
    PROVE  pc'[m] = pc[m] /\ age'[m] = age[m] /\ target'[m] = target[m] /\ stale'[m] = stale[m]
  <1>1. CASE ReadLock(n)
    BY <1>1 DEF ReadLock, Return, Begin, TypeOK
  <1>2. CASE (\E label : GoTo(n, label)) \/ (\E label, t, seen : Begin(n, label, t, seen))
    BY <1>2 DEF GoTo, Begin, TypeOK
  <1>3. CASE PassStep(n) /\ ~ReadLock(n)
    BY <1>2, <1>3 DEF PassStep, ReadStaleLocks, SkipStaleLocks, MarkStale, DeleteStale,
                      Schedule, Claim, InsertLock, StealLock, MarkExpired, SetRunning,
                      ReleaseClaim, Return
  <1> QED
    BY <1>1, <1>3

\* The steps of the stale pass and of the scheduler.
LEMMA NodeCleanup ==
    ASSUME TypeOK, TypeOK', MaxStall <= TTL, NodeInv, NEW n \in Nodes,
           ReadStaleLocks(n) \/ SkipStaleLocks(n) \/ MarkStale(n) \/ DeleteStale(n) \/ Schedule(n)
    PROVE  NodeInv'
  <1>1. PassStep(n)
    BY DEF PassStep
  <1>2. UNCHANGED lockedBy
    BY DEF ReadStaleLocks, SkipStaleLocks, MarkStale, DeleteStale, Schedule, rows
  <1>3. NoStart
    BY DEF ReadStaleLocks, SkipStaleLocks, MarkStale, DeleteStale, Schedule, rows, NoStart,
           MarkLeaseExpired, CreateRow, TypeOK
  <1>4. lock' = lock \/ (lock' = NoLock /\ ExpiredFor(n) /\ NotRunning(lock.task))
    BY DEF ReadStaleLocks, SkipStaleLocks, MarkStale, DeleteStale, Schedule, NodeInv, ReadingOK
  <1>5. LockMoves
    BY <1>4 DEF LockMoves
  <1>6. ASSUME NEW m \in Nodes \ {n} PROVE Spares(m)
    <2>1. pc[m] \in Owning => lock' = lock
      BY <1>4, OwningFacts DEF NodeInv
    <2> QED
      BY <1>1, <2>1, PassFrame DEF Spares, Renewed
  <1>7. /\ pc'[n] \in {"markStale", "deleteStale", "schedule", "claim"}
        /\ pc'[n] = "deleteStale" =>
              stale'[n] = stale[n] /\ lock' = lock /\ MarkLeaseExpired(stale[n].task)
    BY DEF ReadStaleLocks, SkipStaleLocks, MarkStale, DeleteStale, Schedule, GoTo, Begin, Return,
           TypeOK
  <1>8. ClaimOK(n)'
    BY <1>7 DEF ClaimOK, Claiming, Owning
  <1>9. ReadingOK(n)'
    <2>1. CASE pc'[n] = "deleteStale"
      <3>1. NotRunning(stale[n].task)'
        BY <1>7, <2>1 DEF MarkLeaseExpired, NotRunning, TypeOK, Tasks
      <3>2. Owner' = stale'[n] => lock'.task = stale[n].task
        BY <1>7, <2>1 DEF Owner
      <3> QED
        BY <1>7, <2>1, <3>1, <3>2 DEF ReadingOK, Claiming, NotRunning
    <2>2. CASE pc'[n] # "deleteStale"
      BY <1>7, <2>2 DEF ReadingOK, Claiming
    <2> QED
      BY <2>1, <2>2
  <1> QED
    BY <1>2, <1>3, <1>5, <1>6, <1>8, <1>9, NodeStep

\* A lease that is written is never the lease that was there.
LEMMA LeaseNew ==
    ASSUME TypeOK, MaxStall <= TTL, NEW n \in Nodes, lock = NoLock \/ ExpiredFor(n)
    PROVE  LeaseOf(n) # lock
  <1>1. age[n] \in Nat /\ age[n] <= MaxStall
    BY ConstantsAssumption DEF TypeOK
  <1>2. LeaseOf(n).left >= 0
    BY <1>1, ConstantsAssumption DEF LeaseOf
  <1>3. lock.left < 0
    BY <1>1, Ranges DEF NoLock, ExpiredFor, TypeOK, Locks
  <1>4. lock.left \in Int
    BY Ranges DEF TypeOK, Locks
  <1> QED
    BY <1>2, <1>3, <1>4

\* The steps of a claim up to the lock.
LEMMA NodeClaim ==
    ASSUME TypeOK, TypeOK', MaxStall <= TTL, NodeInv, RowInv, ActiveKeyMatchesStatus,
           NEW n \in Nodes, Claim(n) \/ InsertLock(n) \/ ReadLock(n) \/ StealLock(n)
    PROVE  NodeInv'
  <1>1. PassStep(n)
    BY DEF PassStep
  <1>2. UNCHANGED <<status, lockedBy>>
    BY DEF Claim, InsertLock, ReadLock, StealLock, rows
  <1>3. NoStart
    BY <1>2 DEF NoStart
  <1>4. \/ lock' = lock
        \/ lock' = LeaseOf(n) /\ pc[n] \in Claiming /\ (lock = NoLock \/ ExpiredFor(n))
    BY DEF Claim, InsertLock, ReadLock, StealLock, Claiming
  <1>5. lock' = LeaseOf(n) => lock'.left >= 0
    BY ConstantsAssumption DEF LeaseOf, TypeOK
  <1>6. NotRunning(NoLock.task)
    BY Ranges DEF NoLock, NotRunning
  <1>7. LockMoves /\ (lock' # lock => NotRunning(lock.task))
    BY <1>4, <1>5, <1>6 DEF LockMoves, NodeInv, ReadingOK
  <1>8. ASSUME NEW m \in Nodes \ {n} PROVE Spares(m)
    <2>1. pc[m] \in Owning => lock' = lock
      BY <1>4, OwningFacts DEF NodeInv
    <2> QED
      BY <1>1, <2>1, PassFrame DEF Spares, Renewed
  <1>9. ReadingOK(n)' /\ ClaimOK(n)'
    <2>1. CASE pc'[n] = "idle"
      BY <2>1 DEF ReadingOK, ClaimOK, Claiming, Owning
    <2>2. CASE Claim(n) /\ pc'[n] # "idle"
      <3>1. PICK t \in Tasks : status[t] = "pending" /\ Begin(n, "insertLock", t, Nobody)
        BY <2>2 DEF Claim, GoTo, TypeOK
      <3>2. pc'[n] = "insertLock" /\ target'[n] = t /\ lock' = lock
        BY <2>2, <3>1 DEF Claim, Begin, TypeOK
      <3>3. NotRunning(lock.task)
        BY <3>1 DEF NotRunning, RowInv, OneActive, ActiveKeyMatchesStatus
      <3>4. lockedBy[t] # n
        BY <3>1, ConstantsAssumption DEF RowInv, RowShape
      <3> QED
        BY <1>2, <3>1, <3>2, <3>3, <3>4 DEF ReadingOK, ClaimOK, NotRunning, Claiming, Owning
    <2>3. CASE lock' = lock /\ ~Claim(n) /\ pc'[n] # "idle"
      <3>1. /\ pc[n] \in Claiming /\ pc'[n] \in {"readLock", "stealLock"}
            /\ age'[n] = age[n] /\ target'[n] = target[n]
        BY <2>3, LeaseNew DEF InsertLock, ReadLock, StealLock, GoTo, Return, Begin, Claiming, TypeOK
      <3> QED
        BY <1>2, <2>3, <3>1 DEF NodeInv, ReadingOK, ClaimOK, NotRunning, Claiming, Owning,
                                ExpiredFor
    <2>4. CASE lock' # lock
      <3>1. /\ pc'[n] \in Owning /\ lock' = LeaseOf(n) /\ pc[n] \in Claiming
            /\ age'[n] = age[n] /\ target'[n] = target[n]
        BY <2>4 DEF Claim, InsertLock, ReadLock, StealLock, GoTo, Claiming, Owning, TypeOK
      <3>2. target[n] \in Tasks /\ lockedBy[target[n]] # n
        BY <3>1 DEF NodeInv, ClaimOK
      <3>3. NotRunning(target[n])
        BY <1>7, <2>4 DEF NodeInv, Leased, NotRunning
      <3>4. lock'.task = target[n] /\ lock'.by = n /\ lock'.left >= TTL - age[n]
        BY <3>1, ConstantsAssumption DEF LeaseOf, TypeOK
      <3> QED
        BY <1>2, <3>1, <3>2, <3>3, <3>4 DEF ReadingOK, ClaimOK, NotRunning, Claiming, Owning
    <2> QED
      BY <2>1, <2>2, <2>3, <2>4, <1>4 DEF Claim
  <1> QED
    BY <1>2, <1>3, <1>7, <1>8, <1>9, NodeStep

\* The steps of a claim that owns the lock and does not start its row.
LEMMA NodeGiveUp ==
    ASSUME TypeOK, TypeOK', MaxStall <= TTL, NodeInv, NEW n \in Nodes,
           MarkExpired(n) \/ ReleaseClaim(n)
    PROVE  NodeInv'
  <1>1. PassStep(n) /\ pc[n] \in Owning
    BY DEF PassStep, MarkExpired, ReleaseClaim, Owning
  <1>2. UNCHANGED lockedBy
    BY DEF MarkExpired, ReleaseClaim, rows
  <1>3. NoStart
    BY DEF MarkExpired, ReleaseClaim, rows, NoStart, MarkLeaseExpired, TypeOK
  <1>4. /\ ClaimOK(n) /\ NotRunning(target[n]) /\ target[n] \in Tasks
        /\ lock.task = target[n] /\ lock.by = n /\ \A m \in Nodes : ~ExpiredFor(m)
    BY <1>1, OwningFacts DEF NodeInv, ClaimOK
  <1>5. lock' = lock \/ (lock' = NoLock /\ pc'[n] = "idle")
    BY DEF MarkExpired, ReleaseClaim, ReleaseLock, Return, Begin, TypeOK
  <1>6. LockMoves
    BY <1>4, <1>5 DEF LockMoves
  <1>7. ASSUME NEW m \in Nodes \ {n} PROVE Spares(m)
    <2>1. pc[m] \notin Owning
      BY <1>4 DEF NodeInv, ClaimOK
    <2> QED
      BY <1>1, <2>1, PassFrame DEF Spares
  <1>8. ReadingOK(n)' /\ ClaimOK(n)'
    <2>1. CASE pc'[n] = "idle"
      BY <2>1 DEF ReadingOK, ClaimOK, Claiming, Owning
    <2>2. CASE MarkExpired(n)
      <3>1. /\ pc'[n] \in {"setRunning", "releaseLock"} /\ lock' = lock
            /\ age'[n] = age[n] /\ target'[n] = target[n]
        BY <2>2 DEF MarkExpired, GoTo, TypeOK
      <3> QED
        BY <1>1, <1>2, <1>3, <1>4, <3>1
           DEF ReadingOK, ClaimOK, NotRunning, NoStart, Claiming, Owning
    <2> QED
      BY <2>1, <2>2 DEF ReleaseClaim, Return, Begin, TypeOK
  <1> QED
    BY <1>2, <1>3, <1>6, <1>7, <1>8, NodeStep

\* The row starts under the lease of the node that starts it, and nobody else's call
\* can have seen that lease expired.
LEMMA NodeStart ==
    ASSUME TypeOK, TypeOK', MaxStall <= TTL, NodeInv, NEW n \in Nodes, SetRunning(n)
    PROVE  NodeInv'
  <1>1. PassStep(n) /\ pc[n] \in Owning /\ lock' = lock
    BY DEF PassStep, SetRunning, Owning
  <1>2. /\ ClaimOK(n) /\ target[n] \in Tasks
        /\ lock.task = target[n] /\ lock.by = n /\ \A m \in Nodes : ~ExpiredFor(m)
    BY <1>1, OwningFacts DEF NodeInv
  <1>3. \A t \in Tasks : t # target[n] => status'[t] = status[t] /\ lockedBy'[t] = lockedBy[t]
    BY DEF SetRunning, TypeOK
  <1>4. lockedBy'[target[n]] \in {n, lockedBy[target[n]]}
    BY <1>2 DEF SetRunning, TypeOK
  <1>5. ASSUME NEW t \in Tasks PROVE Leased(t)'
    BY <1>1, <1>2, <1>3 DEF NodeInv, Leased
  <1>6. ASSUME NEW m \in Nodes, m # n PROVE ReadingOK(m)' /\ ClaimOK(m)'
    <2>1. pc'[m] = pc[m] /\ age'[m] = age[m] /\ target'[m] = target[m]
      BY <1>1, <1>6, PassFrame
    <2>2. pc[m] \notin Owning
      BY <1>2, <1>6 DEF NodeInv, ClaimOK
    <2>3. ~ExpiredFor(m)'
      BY <1>1, <1>2, <2>1 DEF ExpiredFor
    <2>4. target[m] \in Tasks /\ lockedBy[target[m]] # m => lockedBy'[target[m]] # m
      BY <1>3, <1>4, <1>6
    <2> QED
      BY <2>1, <2>2, <2>3, <2>4 DEF NodeInv, ReadingOK, ClaimOK
  <1>7. ReadingOK(n)' /\ ClaimOK(n)'
    <2>1. CASE pc'[n] = "idle"
      BY <2>1 DEF ReadingOK, ClaimOK, Claiming, Owning
    <2>2. CASE pc'[n] # "idle"
      <3>1. /\ pc'[n] = "releaseLock" /\ UNCHANGED <<status, lockedBy>>
            /\ age'[n] = age[n] /\ target'[n] = target[n]
        BY <2>2 DEF SetRunning, GoTo, Return, Begin, TypeOK
      <3> QED
        BY <1>1, <1>2, <3>1 DEF ReadingOK, ClaimOK, NotRunning, Claiming, Owning
    <2> QED
      BY <2>1, <2>2
  <1> QED
    BY <1>5, <1>6, <1>7 DEF NodeInv

\* A step of no node's pass, which leaves every call alone.
LEMMA NodeOutside ==
    ASSUME TypeOK, TypeOK', MaxStall <= TTL, NodeInv,
           NoStart, LockMoves, UNCHANGED lockedBy, \A m \in Nodes : Spares(m)
    PROVE  NodeInv'
  <1>0. lock' \in Locks
    BY DEF TypeOK
  <1>1. \A m \in Nodes : ReadingOK(m)' /\ ClaimOK(m)'
    BY <1>0, NodeFrame DEF NodeInv
  <1>2. \A t \in Tasks : Leased(t)'
    BY LeasedFrame DEF NodeInv
  <1> QED
    BY <1>1, <1>2 DEF NodeInv

\* The handler and its heartbeat: a lease is renewed, or released by the handler that
\* has finished the row, which never is the lease of a claim in progress.
LEMMA NodeHandler ==
    ASSUME TypeOK, TypeOK', MaxStall <= TTL, NodeInv, RowInv, NEW t \in Tasks,
           HandlerStep(t) \/ Heartbeat(t)
    PROVE  NodeInv'
  <1>1. UNCHANGED lockedBy /\ UNCHANGED pass
    BY DEF HandlerStep, LeaseLost, Finish, ReleaseFinished, Heartbeat, rows
  <1>2. NoStart
    BY DEF HandlerStep, LeaseLost, Finish, ReleaseFinished, Heartbeat, rows, NoStart, TypeOK,
           Finished
  <1>3. \/ Renewed /\ lock'.task = lock.task /\ (lock' = lock \/ lock'.left >= 0)
        \/ /\ lock' = NoLock /\ lock.task = t /\ lock.by = lockedBy[t]
           /\ handler[t] = "release"
    <2>1. CASE HandlerStep(t)
      BY <2>1 DEF HandlerStep, LeaseLost, Finish, ReleaseFinished, ReleaseLock, Renewed
    <2>2. CASE Heartbeat(t)
      BY <2>2, ConstantsAssumption DEF Heartbeat, Renewed, TypeOK, Locks
    <2> QED
      BY <2>1, <2>2
  <1>4. handler[t] = "release" => NotRunning(t)
    BY DEF RowInv, RowShape, NotRunning, Finished
  <1>5. LockMoves
    BY <1>3, <1>4 DEF LockMoves
  <1>6. ASSUME NEW m \in Nodes PROVE Spares(m)
    <2>1. pc[m] \in Owning => Renewed
      BY <1>3 DEF NodeInv, ClaimOK
    <2> QED
      BY <1>1, <2>1 DEF Spares, pass
  <1> QED
    BY <1>1, <1>2, <1>5, <1>6, NodeOutside

\* The API creates and deletes rows, neither of them running; and nothing happens.
LEMMA NodeApi ==
    ASSUME TypeOK, TypeOK', MaxStall <= TTL, NodeInv,
           Enqueue \/ DeleteHistory \/ UNCHANGED vars
    PROVE  NodeInv'
  <1>1. UNCHANGED <<lockedBy, lock, pass>>
    BY DEF Enqueue, DeleteHistory, vars, rows
  <1>2. NoStart
    BY DEF Enqueue, DeleteHistory, CreateRow, vars, rows, NoStart, TypeOK
  <1>3. LockMoves /\ \A m \in Nodes : Spares(m)
    BY <1>1 DEF LockMoves, Spares, Renewed, pass
  <1> QED
    BY <1>1, <1>2, <1>3, NodeOutside

\* A crashed node loses its call and leaves its lease behind.
LEMMA NodeCrash ==
    ASSUME TypeOK, TypeOK', MaxStall <= TTL, NodeInv, NEW n \in Nodes, Crash(n)
    PROVE  NodeInv'
  <1>1. UNCHANGED <<status, lockedBy, lock>>
    BY DEF Crash, rows
  <1>2. NoStart /\ LockMoves
    BY <1>1 DEF NoStart, LockMoves
  <1>3. \A m \in Nodes \ {n} : Spares(m)
    BY <1>1 DEF Crash, Return, Begin, Spares, Renewed, TypeOK
  <1>4. pc'[n] = "dead"
    BY DEF Crash, Return, Begin, TypeOK
  <1>5. ReadingOK(n)' /\ ClaimOK(n)'
    BY <1>4 DEF ReadingOK, ClaimOK, Claiming, Owning
  <1> QED
    BY <1>1, <1>2, <1>3, <1>5, NodeStep

\* Time passes for the lease and for every call alike: the reading of a call sees the
\* lease expired after a tick exactly if it did before.
LEMMA NodeTick ==
    ASSUME TypeOK, TypeOK', MaxStall <= TTL, NodeInv, Tick
    PROVE  NodeInv'
  <1>1. UNCHANGED <<status, lockedBy, pc, target, stale>>
    BY DEF Tick, rows
  <1>2. /\ lock \in Locks /\ lock.left \in Int /\ lock.left >= Expired
        /\ lock'.task = lock.task /\ lock'.by = lock.by
        /\ lock'.left = IF lock.left > Expired THEN lock.left - 1 ELSE lock.left
    BY Ranges DEF Tick, TypeOK, Locks
  <1>3. \A t \in Tasks : Leased(t)'
    BY <1>1, <1>2 DEF NodeInv, Leased
  <1>4. ASSUME NEW m \in Nodes PROVE ReadingOK(m)' /\ ClaimOK(m)'
    <2>1. ReadingOK(m) /\ ClaimOK(m)
      BY DEF NodeInv
    <2>2. age[m] \in 0 .. MaxStall /\ (pc[m] \in InCall => age[m] < MaxStall /\ age'[m] = age[m] + 1)
      BY DEF Tick, TypeOK
    <2>3. pc[m] \in InCall => (ExpiredFor(m)' => ExpiredFor(m))
      BY <1>2, <2>2, ConstantsAssumption DEF ExpiredFor, Expired
    <2>4. ReadingOK(m)'
      BY <1>1, <1>2, <2>1, <2>3 DEF ReadingOK, NotRunning, Owner, Claiming, InCall
    <2>5. lock.left >= TTL - age[m] /\ pc[m] \in InCall => lock'.left >= TTL - age'[m]
      BY <1>2, <2>2, ConstantsAssumption DEF Expired
    <2>6. ClaimOK(m)'
      BY <1>1, <1>2, <2>1, <2>5 DEF ClaimOK, NotRunning, Owning, InCall
    <2> QED
      BY <2>4, <2>6
  <1> QED
    BY <1>3, <1>4 DEF NodeInv

\* LeaseInv is inductive, given the types and the agreement of key and status.
LEMMA LeaseStep ==
    ASSUME TypeOK, TypeOK', MaxStall <= TTL, ActiveKeyMatchesStatus, LeaseInv, [Next]_vars
    PROVE  LeaseInv'
  <1>1. RowInv /\ NodeInv
    BY DEF LeaseInv, RowInv, NodeInv
  <1>2. RowInv'
    BY <1>1, RowInvStep
  <1>3. ASSUME NEW n \in Nodes, PassStep(n) PROVE NodeInv'
    BY <1>1, <1>3, NodeCleanup, NodeClaim, NodeGiveUp, NodeStart DEF PassStep
  <1>4. NodeInv'
    BY <1>1, <1>3, NodeHandler, NodeApi, NodeCrash, NodeTick DEF Next
  <1> QED
    BY <1>2, <1>4 DEF LeaseInv, RowInv, NodeInv

\* No statement of ClaimSystemTask or ExpireStaleSystemTaskLocks acts on a reading that
\* another node has made wrong: if no call lasts longer than the lease, a node that has
\* got the lock still owns it at each later statement, and a lease that an old clock
\* reading sees expired is not the lease of a running row.
THEOREM ReadingsStaySound ==
    ASSUME MaxStall <= TTL
    PROVE  Spec => []LeaseInv
  <1>1. Init => LeaseInv
    BY Ranges DEF Init, LeaseInv, OneActive, RowShape, Leased, ReadingOK, ClaimOK, Claiming,
                  Owning
  <1>2. TypeOK /\ TypeOK' /\ ActiveKeyMatchesStatus /\ LeaseInv /\ [Next]_vars => LeaseInv'
    BY LeaseStep
  <1> QED
    BY <1>1, <1>2, TypeCorrect, ActiveKeyExact, PTL DEF Spec

\* A running row can always be recovered: whatever crashes, fails or races, the lock
\* row that the stale pass looks for still names it, if no call lasts longer than the
\* lease.
THEOREM RunningStaysLeased ==
    ASSUME MaxStall <= TTL
    PROVE  Spec => []RunningIsLeased
  <1>1. LeaseInv => RunningIsLeased
    BY DEF LeaseInv, Leased, RunningIsLeased
  <1> QED
    BY <1>1, ReadingsStaySound, PTL

(***************************************************************************)
(* A lease in force is kept, however long the calls of other nodes last.   *)
(***************************************************************************)

\* A node never claims a row that it owns already: a claim begins on a pending row,
\* which has no owner, and ends with the statement that makes the node its owner.
ClaimsForeign(n) ==
    pc[n] \in Claiming \cup Owning => target[n] \in Tasks /\ lockedBy[target[n]] # n

\* A call in progress goes on with the row it began with.
LEMMA ForeignPass ==
    ASSUME TypeOK, RowInv, NEW n \in Nodes, PassStep(n), ClaimsForeign(n)
    PROVE  ClaimsForeign(n)'
  <1>1. CASE Claim(n)
    <2>1. CASE pc'[n] = "idle"
      BY <2>1 DEF ClaimsForeign, Claiming, Owning
    <2>2. CASE pc'[n] # "idle"
      <3>1. PICK t \in Tasks : status[t] = "pending" /\ Begin(n, "insertLock", t, Nobody)
        BY <1>1, <2>2 DEF Claim, GoTo, TypeOK
      <3>2. lockedBy'[t] # n /\ target'[n] = t
        BY <1>1, <3>1, ConstantsAssumption DEF Claim, Begin, RowInv, RowShape, rows, TypeOK
      <3> QED
        BY <3>2 DEF ClaimsForeign
    <2> QED
      BY <2>1, <2>2
  <1>2. CASE SetRunning(n)
    BY <1>2 DEF SetRunning, GoTo, Return, Begin, ClaimsForeign, Claiming, Owning, TypeOK
  <1>3. CASE InsertLock(n) \/ ReadLock(n) \/ StealLock(n) \/ MarkExpired(n) \/ ReleaseClaim(n)
    <2>1. UNCHANGED lockedBy
      BY <1>3 DEF InsertLock, ReadLock, StealLock, MarkExpired, ReleaseClaim, rows
    <2>2. pc'[n] = "idle" \/ (pc[n] \in Claiming \cup Owning /\ target'[n] = target[n])
      BY <1>3 DEF InsertLock, ReadLock, StealLock, MarkExpired, ReleaseClaim, GoTo, Return, Begin,
                  Claiming, Owning, TypeOK
    <2> QED
      BY <2>1, <2>2 DEF ClaimsForeign, Claiming, Owning
  <1>4. CASE ReadStaleLocks(n) \/ SkipStaleLocks(n) \/ MarkStale(n) \/ DeleteStale(n) \/ Schedule(n)
    <2>1. pc'[n] \in {"markStale", "deleteStale", "schedule", "claim"}
      BY <1>4 DEF ReadStaleLocks, SkipStaleLocks, MarkStale, DeleteStale, Schedule, GoTo, Begin,
                  Return, TypeOK
    <2> QED
      BY <2>1 DEF ClaimsForeign, Claiming, Owning
  <1> QED
    BY <1>1, <1>2, <1>3, <1>4 DEF PassStep

\* Another node that starts the row writes its own id.
LEMMA ForeignFrame ==
    ASSUME TypeOK, NEW m \in Nodes, ClaimsForeign(m), NEW n \in Nodes, m # n, PassStep(n)
    PROVE  ClaimsForeign(m)'
  <1>1. pc'[m] = pc[m] /\ target'[m] = target[m]
    BY PassFrame
  <1>2. \A t \in Tasks : lockedBy'[t] \in {lockedBy[t], n}
    <2>1. CASE SetRunning(n)
      BY <2>1 DEF SetRunning, TypeOK
    <2>2. CASE ~SetRunning(n)
      BY <2>2 DEF PassStep, ReadStaleLocks, SkipStaleLocks, MarkStale, DeleteStale, Schedule,
                  Claim, InsertLock, ReadLock, StealLock, MarkExpired, ReleaseClaim, rows
    <2> QED
      BY <2>1, <2>2
  <1> QED
    BY <1>1, <1>2 DEF ClaimsForeign

\* Handlers, time, crashes and the API neither begin claims nor assign rows.
LEMMA ForeignOutside ==
    ASSUME TypeOK, NEW m \in Nodes, ClaimsForeign(m),
           \/ Enqueue \/ DeleteHistory \/ Tick \/ UNCHANGED vars
           \/ \E n \in Nodes : Crash(n)
           \/ \E t \in Tasks : HandlerStep(t) \/ Heartbeat(t)
    PROVE  ClaimsForeign(m)'
  <1>1. CASE \E n \in Nodes : Crash(n)
    <2>1. PICK n \in Nodes : Crash(n)
      BY <1>1
    <2>2. pc'[m] = "dead" \/ (pc'[m] = pc[m] /\ target'[m] = target[m])
      BY <2>1 DEF Crash, Return, Begin, TypeOK
    <2> QED
      BY <2>1, <2>2 DEF ClaimsForeign, Claiming, Owning, Crash, rows
  <1>2. CASE ~\E n \in Nodes : Crash(n)
    <2>1. UNCHANGED <<lockedBy, pc, target>>
      BY <1>2 DEF Enqueue, DeleteHistory, Tick, vars, rows, pass, HandlerStep, LeaseLost, Finish,
                  ReleaseFinished, Heartbeat
    <2> QED
      BY <2>1 DEF ClaimsForeign
  <1> QED
    BY <1>1, <1>2

\* The statements that take a lease away: on an expired one, by the claim that has just
\* written it, and by the handler that has finished its row.
LEMMA LockStep ==
    ASSUME TypeOK, [Next]_vars
    PROVE  \/ lock'.task = lock.task /\ lock'.by = lock.by
           \/ lock.left < 0
           \/ \E n \in Nodes : pc[n] \in Owning /\ lock.task = target[n] /\ lock.by = n
           \/ \E t \in Tasks : handler[t] = "release" /\ lock.task = t
  <1>0. NoLock.left < 0
    BY Ranges DEF NoLock
  <1>1. ASSUME NEW n \in Nodes, ExpiredFor(n) PROVE lock.left < 0
    <2>1. lock.left \in Int /\ age[n] \in Nat
      BY Ranges, ConstantsAssumption DEF TypeOK, Locks
    <2> QED
      BY <1>1, <2>1 DEF ExpiredFor
  <1>2. ASSUME NEW n \in Nodes, PassStep(n), lock' # lock
        PROVE  lock.left < 0 \/ (pc[n] \in Owning /\ lock.task = target[n] /\ lock.by = n)
    <2>1. CASE ReleaseClaim(n)
      BY <1>2, <2>1 DEF ReleaseClaim, ReleaseLock, Owning
    <2>2. CASE InsertLock(n) \/ StealLock(n) \/ DeleteStale(n)
      BY <1>0, <1>1, <1>2, <2>2 DEF InsertLock, StealLock, DeleteStale
    <2> QED
      BY <1>2, <2>1, <2>2 DEF PassStep, ReadStaleLocks, SkipStaleLocks, MarkStale, Schedule, Claim,
                              ReadLock, MarkExpired, SetRunning
  <1>3. ASSUME NEW t \in Tasks, HandlerStep(t) \/ Heartbeat(t)
        PROVE  \/ lock'.task = lock.task /\ lock'.by = lock.by
               \/ handler[t] = "release" /\ lock.task = t
    <2>1. CASE Heartbeat(t)
      BY <2>1 DEF Heartbeat, TypeOK, Locks
    <2>2. CASE HandlerStep(t)
      BY <2>2 DEF HandlerStep, LeaseLost, Finish, ReleaseFinished, ReleaseLock
    <2> QED
      BY <1>3, <2>1, <2>2
  <1>4. CASE Tick
    BY <1>4 DEF Tick, TypeOK, Locks
  <1>5. ASSUME Enqueue \/ DeleteHistory \/ (\E n \in Nodes : Crash(n)) \/ UNCHANGED vars
        PROVE  lock' = lock
    BY <1>5 DEF Enqueue, DeleteHistory, Crash, vars
  <1> QED
    BY <1>2, <1>3, <1>4, <1>5 DEF Next

\* A handler whose lease is in force keeps it, for calls of any length: neither a
\* takeover nor a cleanup nor the release after a failed claim removes it, whatever the
\* node that issues the statement has read before.
THEOREM LeaseKept == Spec => LeaseInForceIsKept
  <1> DEFINE Foreign == RowInv /\ \A n \in Nodes : ClaimsForeign(n)
  <1> DEFINE Keeps == \A t \in Tasks :
                handler[t] = "running" /\ LeaseHeld(t, lockedBy[t]) /\ handler'[t] = "running"
                => lock'.task = t /\ lock'.by = lockedBy[t]
  <1>1. Init => Foreign
    BY DEF Init, RowInv, OneActive, RowShape, ClaimsForeign, Claiming, Owning
  <1>2. TypeOK /\ Foreign /\ [Next]_vars => Foreign'
    <2> SUFFICES ASSUME TypeOK, Foreign, [Next]_vars PROVE Foreign'
      OBVIOUS
    <2>1. RowInv'
      BY RowInvStep
    <2>2. ASSUME NEW m \in Nodes PROVE ClaimsForeign(m)'
      BY ForeignPass, ForeignFrame, ForeignOutside DEF Next
    <2> QED
      BY <2>1, <2>2
  <1>3. TypeOK /\ Foreign /\ [Next]_vars => Keeps
    <2> SUFFICES ASSUME TypeOK, Foreign, [Next]_vars, NEW t \in Tasks,
                        handler[t] = "running", LeaseHeld(t, lockedBy[t])
                 PROVE  lock'.task = t /\ lock'.by = lockedBy[t]
      OBVIOUS
    <2>1. lock.task = t /\ lock.by = lockedBy[t] /\ ~(lock.left < 0)
      BY Ranges DEF LeaseHeld, TypeOK, Locks
    <2>2. ~\E n \in Nodes : pc[n] \in Owning /\ lock.task = target[n] /\ lock.by = n
      BY <2>1 DEF ClaimsForeign
    <2> QED
      BY <2>1, <2>2, LockStep
  <1>4. TypeOK /\ Foreign /\ [Next]_vars => [Keeps]_vars
    BY <1>3
  <1> QED
    BY <1>1, <1>2, <1>4, TypeCorrect, PTL DEF Spec, LeaseInForceIsKept

=============================================================================
