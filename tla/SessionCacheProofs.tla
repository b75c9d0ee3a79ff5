------------------------- MODULE SessionCacheProofs -------------------------
(***************************************************************************)
(* SessionCache keeps its promises for every number of requests and Redis  *)
(* servers, every lifetime and every expiry, and implements                *)
(* SessionAuthority.                                                       *)
(***************************************************************************)
EXTENDS SessionCache, TLAPS

Validating == {"lookup", "load", "denyWrite", "accepted", "denied"} \cup Filling

\* The clock is past every end, and the last end is the latest.
EndsOK ==
    /\ \A v \in Versions : endedAt[v] <= now
    /\ row.status = "revoked" => \A v \in 1 .. row.ver : endedAt[v] <= endedAt[row.ver]

\* The part of the invariant about one request.
JobOK(w) ==
    LET j == job[w] IN
    /\ j.pc = "idle" <=> j.op = "none"
    /\ j.pc # "idle" => j.at \in Caches
    /\ j.op = "validate" => j.pc \in Validating /\ j.token \in 1 .. row.ver /\ j.start <= now
    /\ j.pc \in Validating \ {"fill", "eval"} => j.op = "validate"
    /\ j.pc \in {"load", "insert", "rotateRead", "advance"} => j.deadline <= now + TTL
    /\ j.pc \in Filling \cup {"rotateUpdate"} =>
          j.snap \in 1 .. row.ver /\ j.deadline <= Horizon(j.snap)
    /\ j.op = "validate" /\ j.pc \in Filling /\ Ended(j.snap) => j.start <= endedAt[j.snap]
    /\ j.pc = "accepted" /\ Ended(j.token) => j.start < endedAt[j.token] + TTL
    /\ j.late => /\ j.op = "validate" /\ sealed[j.at]
                 /\ j.pc \in {"lookup", "load", "denyWrite", "denied"}

\* The part about one Redis: keys live, active snapshots end in time, and a
\* tombstone outlives every snapshot that could still be written.
CacheOK(c) ==
    LET e == cache[c] IN
    /\ e.status # "none" => now < e.exp
    /\ e.status = "active" =>
          /\ e.ver \in 1 .. row.ver
          /\ e.exp <= Horizon(e.ver) /\ e.exp <= ExpiresAt
    /\ sealed[c] => row.status = "revoked" /\ e.status # "active"
    /\ sealed[c] /\ now < ExpiresAt /\ now < endedAt[row.ver] + TTL =>
          /\ e.status \in {"revoking", "revoked"}
          /\ e.exp >= ExpiresAt \/ e.exp >= endedAt[row.ver] + TTL

IInv ==
    /\ TypeOK
    /\ EndsOK
    /\ \A w \in Workers : JobOK(w)
    /\ \A c \in Caches : CacheOK(c)

-----------------------------------------------------------------------------
(* Type correctness.                                                       *)

USE ConstantsAssumption

LEMMA NoJobType == NoJob \in Job
BY DEF NoJob, Job, Steps, Filling

LEMMA NoEntryType == NoEntry \in Entry
BY DEF NoEntry, Entry, Statuses

LEMMA TypeInit == Init => TypeOK
BY NoJobType, NoEntryType DEF Init, TypeOK, Statuses, Versions

LEMMA DoneType ==
    ASSUME TypeOK, NEW w \in Workers, Done(w)
    PROVE  job' \in [Workers -> Job]
BY NoJobType DEF Done, TypeOK

LEMMA StepType ==
    ASSUME TypeOK, NEW w \in Workers, NEW label \in Steps, Step(w, label)
    PROVE  job' \in [Workers -> Job]
BY DEF Step, TypeOK, Job

LEMMA ReturnType ==
    ASSUME TypeOK, NEW w \in Workers, NEW outcome \in Steps, Return(w, outcome)
    PROVE  job' \in [Workers -> Job]
BY DEF Return, TypeOK, Job, NoJob

LEMMA AnswerType ==
    ASSUME TypeOK, NEW w \in Workers, NEW ver, Answer(w, ver)
    PROVE  job' \in [Workers -> Job]
<1>1. {"accepted", "denied"} \subseteq Steps
  BY DEF Steps
<1>2. \E outcome \in Steps : Return(w, outcome)
  BY <1>1 DEF Answer
<1> QED
  BY <1>2, ReturnType

LEMMA FinishType ==
    ASSUME TypeOK, NEW w \in Workers, NEW label \in Steps, Finish(w, label)
    PROVE  job' \in [Workers -> Job]
BY StepType, DoneType DEF Finish

LEMMA StoreType ==
    ASSUME TypeOK, NEW c \in Caches, NEW status \in Statuses \cup {"revoking"},
           NEW ver \in Nat, NEW exp \in Nat, Store(c, status, ver, exp)
    PROVE  cache' \in [Caches -> Entry]
BY NoEntryType DEF Store, TypeOK, Entry

LEMMA ExpiryType ==
    ASSUME TypeOK, NEW w \in Workers
    PROVE  ActiveExpiry(w) \in Nat /\ DenyExpiry \in Nat
BY DEF ActiveExpiry, DenyExpiry, Minimum, TypeOK, Job

LEMMA WriteDenyType ==
    ASSUME TypeOK, NEW w \in Workers, job[w].at \in Caches, WriteDeny(w, "revoked")
    PROVE  cache' \in [Caches -> Entry] /\ sealed' \in [Caches -> BOOLEAN]
<1>1. job[w].snap \in Nat /\ DenyExpiry \in Nat /\ "revoked" \in Statuses
  BY ExpiryType DEF TypeOK, Job, Statuses
<1>2. CASE Store(job[w].at, "revoked", job[w].snap, DenyExpiry) /\ sealed' = [sealed EXCEPT ![job[w].at] =
              @ \/ ("revoked" = "revoked" /\ row.status = "revoked")]
  BY <1>1, <1>2, StoreType DEF TypeOK
<1>3. CASE UNCHANGED <<cache, sealed>>
  BY <1>3 DEF TypeOK
<1> QED
  BY <1>2, <1>3 DEF WriteDeny

LEMMA WorkType ==
    ASSUME IInv, NEW w \in Workers, Work(w)
    PROVE  TypeOK'
<1> USE DEF IInv
<1>0. {"idle", "load", "fill", "denyWrite", "confirm", "denied", "eval", "filled", "rotateRead",
       "rotateUpdate", "fence", "commit", "tombstone"} \subseteq Steps
  BY DEF Steps, Filling
<1>1. job[w] \in Job /\ row.ver \in Nat /\ now + TTL \in Nat /\ row.ver + 1 \in Nat /\ TypeOK
  BY DEF TypeOK
<1>2. job[w].pc # "idle" => job[w].at \in Caches
  BY DEF JobOK
<1>3. CASE Lookup(w)
  <2>1. job' \in [Workers -> Job]
    <3>1. CASE Answer(w, cache[job[w].at].ver)
      BY <1>1, <3>1, AnswerType
    <3>2. CASE Return(w, "denied")
      BY <1>0, <1>1, <3>2, ReturnType
    <3>3. CASE job' = [job EXCEPT ![w].pc = "load", ![w].deadline = now + TTL]
      BY <1>0, <1>1, <3>3 DEF TypeOK, Job
    <3> QED
      BY <1>3, <3>1, <3>2, <3>3 DEF Lookup
  <2> QED
    BY <1>3, <2>1 DEF Lookup, TypeOK
<1>4. CASE Load(w)
  <2>1. job' \in [Workers -> Job]
    BY <1>0, <1>1, <1>4 DEF Load, TypeOK, Job
  <2> QED
    BY <1>4, <2>1 DEF Load, TypeOK
<1>5. CASE DenyWrite(w)
  <2>1. job' \in [Workers -> Job]
    BY <1>0, <1>1, <1>5, ReturnType DEF DenyWrite
  <2>2. cache' \in [Caches -> Entry] /\ sealed' \in [Caches -> BOOLEAN]
    BY <1>1, <1>2, <1>5, WriteDenyType DEF DenyWrite
  <2> QED
    BY <1>5, <2>1, <2>2 DEF DenyWrite, TypeOK
<1>6. CASE Fill(w)
  <2>1. job' \in [Workers -> Job]
    BY <1>0, <1>1, <1>6, FinishType, StepType DEF Fill
  <2> QED
    BY <1>6, <2>1 DEF Fill, TypeOK
<1>7. CASE Eval(w)
  <2>1. job' \in [Workers -> Job]
    BY <1>0, <1>1, <1>7, FinishType, DoneType, AnswerType DEF Eval
  <2>2. cache' \in [Caches -> Entry]
    <3>1. CASE UNCHANGED cache
      BY <3>1 DEF TypeOK
    <3>2. CASE Store(job[w].at, "active", job[w].snap, ActiveExpiry(w))
      <4>1. job[w].snap \in Nat /\ "active" \in Statuses /\ job[w].at \in Caches
        BY <1>1, <1>2, <1>7 DEF Job, Statuses, Eval
      <4> QED
        BY <1>1, <3>2, <4>1, ExpiryType, StoreType
    <3> QED
      BY <1>7, <3>1, <3>2 DEF Eval
  <2> QED
    BY <1>7, <2>1, <2>2 DEF Eval, TypeOK
<1>8. CASE Filled(w)
  <2>1. job' \in [Workers -> Job]
    BY <1>0, <1>1, <1>8, StepType, AnswerType DEF Filled
  <2> QED
    BY <1>8, <2>1 DEF Filled, TypeOK
<1>9. CASE Confirm(w)
  <2>1. job' \in [Workers -> Job]
    BY <1>0, <1>1, <1>9, ReturnType, AnswerType DEF Confirm
  <2> QED
    BY <1>9, <2>1 DEF Confirm, TypeOK
<1>10. CASE Insert(w)
  <2>1. job' \in [Workers -> Job]
    <3>1. CASE Done(w)
      BY <1>1, <3>1, DoneType
    <3>2. CASE job' = [job EXCEPT ![w].pc = "fill", ![w].snap = 1]
      BY <1>0, <1>1, <3>2 DEF TypeOK, Job
    <3> QED
      BY <1>10, <3>1, <3>2 DEF Insert
  <2> QED
    BY <1>10, <2>1 DEF Insert, TypeOK, Statuses
<1>11. CASE RotateRead(w)
  <2>1. job' \in [Workers -> Job]
    <3>1. CASE Done(w)
      BY <1>1, <3>1, DoneType
    <3>2. CASE job' = [job EXCEPT ![w].pc = "rotateUpdate", ![w].snap = row.ver]
      BY <1>0, <1>1, <3>2 DEF TypeOK, Job
    <3>3. CASE ToFence(w, "revoke")
      BY <1>0, <1>1, <3>3 DEF TypeOK, Job, ToFence, NoJob
    <3> QED
      BY <1>11, <3>1, <3>2, <3>3 DEF RotateRead
  <2> QED
    BY <1>11, <2>1 DEF RotateRead, TypeOK
<1>12. CASE RotateUpdate(w)
  <2>1. job' \in [Workers -> Job]
    <3>1. CASE Step(w, "fill")
      BY <1>0, <1>1, <3>1, StepType
    <3>2. CASE job' = [job EXCEPT ![w].pc = "rotateRead", ![w].deadline = now + TTL]
      BY <1>0, <1>1, <3>2 DEF TypeOK, Job
    <3> QED
      BY <1>12, <3>1, <3>2 DEF RotateUpdate
  <2> QED
    BY <1>12, <2>1 DEF RotateUpdate, TypeOK
<1>13. CASE Advance(w)
  <2>1. job' \in [Workers -> Job]
    <3>1. CASE Done(w)
      BY <1>1, <3>1, DoneType
    <3>2. CASE job' = [job EXCEPT ![w].pc = "fill", ![w].snap = row.ver + 1]
      BY <1>0, <1>1, <3>2 DEF TypeOK, Job
    <3> QED
      BY <1>13, <3>1, <3>2 DEF Advance
  <2> QED
    BY <1>13, <2>1 DEF Advance, TypeOK, Versions
<1>14. CASE Candidate(w)
  <2>1. job' \in [Workers -> Job]
    <3>1. CASE ToFence(w, job[w].op)
      BY <1>0, <1>1, <3>1 DEF TypeOK, Job, ToFence, NoJob
    <3> QED
      BY <1>1, <1>14, <3>1, DoneType DEF Candidate
  <2> QED
    BY <1>14, <2>1 DEF Candidate, TypeOK
<1>15. CASE Fence(w)
  <2>1. job' \in [Workers -> Job]
    BY <1>0, <1>1, <1>15, DoneType, StepType DEF Fence
  <2>2. cache' \in [Caches -> Entry]
    <3>1. job[w].snap \in Nat /\ job[w].at \in Caches
      BY <1>1, <1>2, <1>15 DEF Job, Fence
    <3> QED
      BY <1>1, <1>15, <3>1, ExpiryType, StoreType DEF Fence, TypeOK
  <2> QED
    BY <1>15, <2>1, <2>2 DEF Fence, TypeOK
<1>16. CASE Commit(w)
  <2>1. job' \in [Workers -> Job]
    <3>1. CASE Done(w)
      BY <1>1, <3>1, DoneType
    <3>2. CASE job' = [job EXCEPT ![w].pc = "tombstone",
                         ![w].snap = IF job[w].op = "revokeAll" THEN row.ver ELSE @]
      BY <1>0, <1>1, <3>2 DEF TypeOK, Job
    <3> QED
      BY <1>16, <3>1, <3>2 DEF Commit
  <2> QED
    BY <1>16, <2>1 DEF Commit, TypeOK, Versions, Statuses
<1>17. CASE Tombstone(w)
  <2>1. job' \in [Workers -> Job]
    BY <1>1, <1>17, DoneType DEF Tombstone
  <2>2. cache' \in [Caches -> Entry] /\ sealed' \in [Caches -> BOOLEAN]
    BY <1>1, <1>2, <1>17, WriteDenyType DEF Tombstone
  <2> QED
    BY <1>17, <2>1, <2>2 DEF Tombstone, TypeOK
<1> QED
  BY <1>3, <1>4, <1>5, <1>6, <1>7, <1>8, <1>9, <1>10, <1>11, <1>12, <1>13, <1>14, <1>15, <1>16,
     <1>17 DEF Work

LEMMA StartType ==
    ASSUME TypeOK, NEW w \in Workers, NEW c \in Caches, Start(w, c)
    PROVE  TypeOK'
<1>0. {"lookup", "insert", "rotateRead", "advance", "candidate"} \subseteq Steps
  BY DEF Steps
<1>1. now + TTL \in Nat /\ now \in Nat /\ sealed[c] \in BOOLEAN
  BY DEF TypeOK
<1>2. CASE \E v \in Versions : Validate(w, c, v)
  <2> PICK v \in Versions : Validate(w, c, v)
    BY <1>2
  <2> DEFINE j == [NoJob EXCEPT !.op = "validate", !.pc = "lookup", !.at = c, !.token = v,
                                !.start = now, !.late = sealed[c]]
  <2>0. j \in Job
    <3>1. v \in Nat
      BY DEF Versions
    <3>2. CASE sealed[c] = TRUE
      BY <1>0, <1>1, <3>1, <3>2 DEF Job, NoJob
    <3>3. CASE sealed[c] = FALSE
      BY <1>0, <1>1, <3>1, <3>3 DEF Job, NoJob
    <3> QED
      BY <1>1, <3>2, <3>3
  <2>1. job' \in [Workers -> Job]
    BY <2>0 DEF Validate, TypeOK
  <2> QED
    BY <2>1 DEF Validate, TypeOK
<1>3. ASSUME NEW label \in {"insert", "rotateRead", "advance"}, NEW v \in Nat,
             StartWrite(w, c, label, v)
      PROVE  TypeOK'
  <2>1. job' \in [Workers -> Job]
    BY <1>0, <1>1, <1>3 DEF StartWrite, TypeOK, Job, NoJob
  <2> QED
    BY <1>3, <2>1 DEF StartWrite, TypeOK
<1>4. ASSUME NEW op \in {"revoke", "revokeAll"}, StartRevoke(w, c, op)
      PROVE  TypeOK'
  <2>1. job' \in [Workers -> Job]
    BY <1>0, <1>4 DEF StartRevoke, TypeOK, Job, NoJob
  <2> QED
    BY <1>4, <2>1 DEF StartRevoke, TypeOK
<1> QED
  BY <1>2, <1>3, <1>4 DEF Start, CreateUserSession, RotateUserSessionRefresh,
     AdvanceUserSessionAuthVersion, RevokeUserSession, RevokeUserSessions, Versions

LEMMA TickType ==
    ASSUME TypeOK, Tick
    PROVE  TypeOK'
BY NoEntryType DEF Tick, TypeOK

LEMMA EndType ==
    ASSUME TypeOK, NEW w \in Workers, End(w)
    PROVE  TypeOK'
<1>1. job' \in [Workers -> Job]
  BY DoneType DEF End
<1> QED
  BY <1>1 DEF End, TypeOK

-----------------------------------------------------------------------------
(* What a step leaves alone stays right.                                   *)

\* Only jobs and caches change.
Calm == now' = now /\ row' = row /\ endedAt' = endedAt

\* The row is created, advanced or revoked.
Evolve ==
    /\ now' = now
    /\ \/ /\ row.status = "none" /\ MaxVersion > 0
          /\ row' = [status |-> "active", ver |-> 1]
          /\ endedAt' = endedAt
       \/ /\ row.status = "active" /\ row.ver < MaxVersion
          /\ row' = [row EXCEPT !.ver = @ + 1]
          /\ endedAt' = [endedAt EXCEPT ![row.ver] = now]
       \/ /\ row.status = "active"
          /\ row' = [row EXCEPT !.status = "revoked"]
          /\ endedAt' = [endedAt EXCEPT ![row.ver] = now]

LEMMA CalmJob ==
    ASSUME TypeOK, NEW u \in Workers, JobOK(u), job'[u] = job[u], Calm,
           \A c \in Caches : sealed[c] => sealed'[c]
    PROVE  JobOK(u)'
BY DEF JobOK, Calm, Horizon, Ended, Validating

LEMMA CalmCache ==
    ASSUME TypeOK, NEW c \in Caches, CacheOK(c), cache'[c] = cache[c], Calm, sealed'[c] = sealed[c]
    PROVE  CacheOK(c)'
BY DEF CacheOK, Calm, Horizon, Ended

\* A version that was not ended ends now at the earliest.
LEMMA EvolveHorizon ==
    ASSUME TypeOK, EndsOK, Evolve, NEW v \in 1 .. row.ver
    PROVE  /\ v \in 1 .. row'.ver
           /\ row'.ver \in 1 .. MaxVersion
           /\ Horizon(v)' = Horizon(v)
           /\ Ended(v) => Ended(v)' /\ endedAt'[v] = endedAt[v]
           /\ ~ Ended(v) /\ Ended(v)' => endedAt'[v] = now
BY DEF TypeOK, EndsOK, Evolve, Horizon, Ended, Versions

LEMMA EvolveEnds ==
    ASSUME TypeOK, EndsOK, Evolve
    PROVE  EndsOK'
<1>1. row.ver \in Nat /\ now \in Nat /\ endedAt \in [Versions -> Nat] /\ now' = now
  BY DEF TypeOK, Evolve
<1>2. CASE endedAt' = endedAt /\ row'.status = "active"
  BY <1>1, <1>2 DEF EndsOK
<1>3. CASE row.status = "active" /\ endedAt' = [endedAt EXCEPT ![row.ver] = now]
  <2>1. row.ver \in Versions
    BY <1>3 DEF TypeOK, Versions
  <2>2. \A v \in Versions : endedAt'[v] <= now
    BY <1>1, <1>3, <2>1 DEF EndsOK
  <2>3. endedAt'[row.ver] = now
    BY <1>1, <1>3, <2>1
  <2>4. row'.status = "revoked" => row'.ver = row.ver
    BY <1>3 DEF Evolve, TypeOK
  <2>5. 1 .. row.ver \subseteq Versions
    BY <2>1 DEF Versions
  <2> QED
    BY <1>1, <2>2, <2>3, <2>4, <2>5 DEF EndsOK
<1> QED
  BY <1>2, <1>3 DEF Evolve

LEMMA EvolveJob ==
    ASSUME TypeOK, EndsOK, NEW u \in Workers, JobOK(u), job'[u] = job[u], Evolve, sealed' = sealed
    PROVE  JobOK(u)'
<1>1. \A v \in 1 .. row.ver :
         /\ v \in 1 .. row'.ver
         /\ Horizon(v)' = Horizon(v)
         /\ Ended(v) => endedAt'[v] = endedAt[v]
         /\ ~ Ended(v) /\ Ended(v)' => endedAt'[v] = now
  BY EvolveHorizon
<1>2. now' = now /\ job[u] \in Job
  BY DEF Evolve, TypeOK
<1>3. job[u].start \in Nat /\ now \in Nat
  BY <1>2 DEF Job, TypeOK
<1> QED
  BY <1>1, <1>2, <1>3 DEF JobOK, Validating, Filling

LEMMA EvolveCache ==
    ASSUME TypeOK, EndsOK, NEW c \in Caches, CacheOK(c), cache'[c] = cache[c], Evolve, sealed' = sealed
    PROVE  CacheOK(c)'
<1>1. \A v \in 1 .. row.ver : v \in 1 .. row'.ver /\ Horizon(v)' = Horizon(v)
  BY EvolveHorizon
<1>2. now' = now /\ ~ sealed[c]
  BY DEF Evolve, CacheOK
<1> QED
  BY <1>1, <1>2 DEF CacheOK

LEMMA TickInv ==
    ASSUME IInv, Tick
    PROVE  IInv'
<1> USE DEF IInv
<1>0. TypeOK /\ now \in Nat /\ endedAt \in [Versions -> Nat] /\ row.ver \in 0 .. MaxVersion
  BY DEF TypeOK
<1>1. TypeOK'
  BY TickType
<1>2. EndsOK'
  BY <1>0 DEF EndsOK, Tick
<1>3. \A v \in 1 .. row.ver : Horizon(v) <= Horizon(v)' /\ Horizon(v) \in Nat /\ Horizon(v)' \in Nat
  BY <1>0 DEF Horizon, Ended, Tick, Versions
<1>4. ASSUME NEW w \in Workers
      PROVE  JobOK(w)'
  <2>1. JobOK(w) /\ job[w] \in Job
    BY DEF TypeOK
  <2>2. job[w].deadline \in Nat /\ job[w].start \in Nat
    BY <2>1 DEF Job
  <2> QED
    BY <1>0, <1>3, <2>1, <2>2 DEF JobOK, Tick, Ended
<1>5. ASSUME NEW c \in Caches
      PROVE  CacheOK(c)'
  <2>1. CacheOK(c) /\ cache[c] \in Entry
    BY DEF TypeOK
  <2>2. cache[c].exp \in Nat /\ cache[c].ver \in Nat
    BY <2>1 DEF Entry
  <2>3. CASE cache[c].exp <= now + 1
    <3>1. cache'[c].status = "none"
      BY <2>3 DEF Tick, NoEntry
    <3>2. ~ (sealed[c] /\ now + 1 < ExpiresAt /\ now + 1 < endedAt[row.ver] + TTL)
      <4> SUFFICES ASSUME sealed[c], now + 1 < ExpiresAt, now + 1 < endedAt[row.ver] + TTL
                   PROVE  FALSE
        OBVIOUS
      <4>1. row.ver \in Versions
        BY <2>1 DEF CacheOK, TypeOK, Versions
      <4>2. endedAt[row.ver] \in Nat
        BY <1>0, <4>1
      <4> QED
        BY <1>0, <2>1, <2>2, <2>3, <4>2 DEF CacheOK
    <3> QED
      BY <2>1, <3>1, <3>2 DEF CacheOK, Tick
  <2>4. CASE ~ (cache[c].exp <= now + 1)
    <3>1. cache'[c] = cache[c]
      BY <2>4 DEF Tick
    <3>2. row.status = "revoked" => endedAt[row.ver] \in Nat
      BY <1>0 DEF TypeOK, Versions
    <3> QED
      BY <1>0, <1>3, <2>1, <2>2, <2>4, <3>1, <3>2 DEF CacheOK, Tick
  <2> QED
    BY <2>3, <2>4
<1> QED
  BY <1>1, <1>2, <1>4, <1>5

-----------------------------------------------------------------------------
(* The job of the worker that takes the step.                              *)

LEMMA OnlyOwnJob ==
    ASSUME TypeOK, NEW w \in Workers, Work(w) \/ End(w) \/ \E c \in Caches : Start(w, c)
    PROVE  \A u \in Workers \ {w} : job'[u] = job[u]
<1>1. \E j : job' = [job EXCEPT ![w] = j]
  BY DEF Work, End, Start, Lookup, Load, DenyWrite, Fill, Eval, Filled, Confirm, Insert,
         RotateRead, RotateUpdate, Advance, Candidate, Fence, Commit, Tombstone, Validate,
         CreateUserSession, RotateUserSessionRefresh, AdvanceUserSessionAuthVersion, StartWrite,
         RevokeUserSession, RevokeUserSessions, StartRevoke, Answer, Return, Done, Step, Finish,
         ToFence
<1> QED
  BY <1>1 DEF TypeOK

LEMMA DoneOK ==
    ASSUME TypeOK, NEW w \in Workers, Done(w)
    PROVE  JobOK(w)'
BY DEF TypeOK, Done, NoJob, JobOK, Validating, Filling

LEMMA DeniedOK ==
    ASSUME TypeOK, NEW w \in Workers, JobOK(w), job[w].op = "validate", Return(w, "denied"),
           now' = now, row' = row, \A c \in Caches : sealed[c] => sealed'[c]
    PROVE  JobOK(w)'
<1>1. job'[w] = [NoJob EXCEPT !.op = "validate", !.pc = "denied", !.at = job[w].at,
                   !.token = job[w].token, !.start = job[w].start, !.late = job[w].late]
  BY DEF Return, TypeOK
<1>2. /\ job'[w].op = "validate" /\ job'[w].pc = "denied" /\ job'[w].at = job[w].at
      /\ job'[w].token = job[w].token /\ job'[w].start = job[w].start /\ job'[w].late = job[w].late
  BY <1>1 DEF NoJob
<1> QED
  BY <1>2 DEF JobOK, Validating, Filling

LEMMA AnswerOK ==
    ASSUME TypeOK, NEW w \in Workers, JobOK(w), job[w].op = "validate",
           NEW ver, Answer(w, ver), Calm, sealed' = sealed,
           ver = job[w].token => /\ ~ job[w].late
                                 /\ Ended(ver) => job[w].start < endedAt[ver] + TTL
    PROVE  JobOK(w)'
<1>1. CASE Return(w, "denied")
  BY <1>1, DeniedOK DEF Calm
<1>2. CASE Return(w, "accepted") /\ ver = job[w].token
  <2>1. job'[w] = [NoJob EXCEPT !.op = "validate", !.pc = "accepted", !.at = job[w].at,
                     !.token = job[w].token, !.start = job[w].start, !.late = job[w].late]
    BY <1>2 DEF Return, TypeOK
  <2>2. /\ job'[w].op = "validate" /\ job'[w].pc = "accepted" /\ job'[w].at = job[w].at
        /\ job'[w].token = job[w].token /\ job'[w].start = job[w].start
        /\ job'[w].late = job[w].late
    BY <2>1 DEF NoJob
  <2> QED
    BY <1>2, <2>2 DEF JobOK, Validating, Filling, Calm, Ended
<1> QED
  BY <1>1, <1>2 DEF Answer

\* A snapshot read after the validation started answers it.
LEMMA SnapshotAnswers ==
    ASSUME TypeOK, NEW w \in Workers, JobOK(w), job[w].op = "validate", job[w].pc \in Filling,
           Answer(w, job[w].snap), Calm, sealed' = sealed
    PROVE  JobOK(w)'
<1>1. ~ job[w].late
  BY DEF JobOK, Filling
<1>2. job[w].snap \in 1 .. row.ver /\ (Ended(job[w].snap) => job[w].start <= endedAt[job[w].snap])
  BY DEF JobOK
<1>3. endedAt[job[w].snap] \in Nat /\ job[w].start \in Nat
  BY <1>2 DEF TypeOK, Versions, Job
<1>4. Ended(job[w].snap) => job[w].start < endedAt[job[w].snap] + TTL
  BY <1>2, <1>3
<1> QED
  BY <1>1, <1>4, AnswerOK

LEMMA MoveOK ==
    ASSUME TypeOK, NEW w \in Workers, JobOK(w), Calm, sealed' = sealed,
           NEW from \in Filling, NEW label, job[w].pc = from, Finish(w, label),
           \/ label = "confirm" \/ label = "denied" \/ label = "filled"
    PROVE  JobOK(w)'
<1>1. CASE Done(w)
  BY <1>1, DoneOK
<1>2. CASE job[w].op = "validate" /\ Step(w, label)
  <2>1. job'[w] = [job[w] EXCEPT !.pc = label]
    BY <1>2 DEF Step, TypeOK
  <2>2. job[w] \in Job
    BY DEF TypeOK
  <2>3. /\ job'[w].pc = label /\ job'[w].op = job[w].op /\ job'[w].at = job[w].at
        /\ job'[w].token = job[w].token /\ job'[w].start = job[w].start
        /\ job'[w].snap = job[w].snap /\ job'[w].deadline = job[w].deadline
        /\ job'[w].late = job[w].late
    BY <2>1, <2>2 DEF Job
  <2> QED
    BY <1>2, <2>3 DEF JobOK, Validating, Filling, Calm, Horizon, Ended
<1> QED
  BY <1>1, <1>2 DEF Finish

-----------------------------------------------------------------------------
(* The Redis of the worker that takes the step.                            *)

\* An active snapshot ends in time, and finds a tombstone in its way as long as
\* it could still be read after one.
LEMMA ActiveStoreOK ==
    ASSUME TypeOK, EndsOK, NEW w \in Workers, JobOK(w), job[w].pc = "eval",
           NEW c \in Caches, c = job[w].at, CacheOK(c),
           ~ Refuses(c, "active", job[w].snap),
           Store(c, "active", job[w].snap, ActiveExpiry(w)), Calm, sealed' = sealed
    PROVE  CacheOK(c)'
<1>1. /\ job[w].snap \in 1 .. row.ver /\ job[w].deadline <= Horizon(job[w].snap)
      /\ job[w].deadline \in Nat /\ now \in Nat /\ row.ver \in 0 .. MaxVersion
  BY DEF JobOK, Filling, TypeOK, Job
<1>2. endedAt[job[w].snap] \in Nat
  BY <1>1 DEF TypeOK, Versions
<1>3. cache[c].status \notin {"revoking", "revoked"}
  BY DEF Refuses
<1>4. ActiveExpiry(w) <= job[w].deadline /\ ActiveExpiry(w) <= ExpiresAt /\ ActiveExpiry(w) \in Nat
  BY <1>1 DEF ActiveExpiry, Minimum
<1>5. sealed[c] => now >= ExpiresAt \/ now >= endedAt[row.ver] + TTL
  <2>1. row.status = "revoked" => endedAt[row.ver] \in Nat
    BY <1>1 DEF TypeOK, Versions
  <2> QED
    BY <1>1, <1>3, <2>1 DEF CacheOK
<1>6. sealed[c] => ActiveExpiry(w) <= now
  <2> SUFFICES ASSUME sealed[c]
               PROVE  ActiveExpiry(w) <= now
    OBVIOUS
  <2>1. row.status = "revoked" /\ row.ver \in 1 .. row.ver /\ endedAt[row.ver] \in Nat
    BY <1>1 DEF CacheOK, TypeOK, Versions
  <2>2. endedAt[job[w].snap] <= endedAt[row.ver]
    BY <1>1, <2>1 DEF EndsOK
  <2>3. Ended(job[w].snap)
    BY <1>1, <2>1 DEF Ended
  <2>4. job[w].deadline <= endedAt[job[w].snap] + TTL
    BY <1>1, <2>3 DEF Horizon
  <2> QED
    BY <1>1, <1>2, <1>4, <1>5, <2>1, <2>2, <2>4
<1>7. CASE ActiveExpiry(w) <= now
  <2>1. cache'[c] = NoEntry
    BY <1>7 DEF Store, TypeOK
  <2>2. cache'[c].status = "none"
    BY <2>1 DEF NoEntry
  <2> QED
    BY <1>5, <2>2, <1>1 DEF CacheOK, Calm, TypeOK, Versions
<1>8. CASE ~ (ActiveExpiry(w) <= now)
  <2>1. cache'[c] = [status |-> "active", ver |-> job[w].snap, exp |-> ActiveExpiry(w)]
    BY <1>8 DEF Store, TypeOK
  <2>2. /\ cache'[c].status = "active" /\ cache'[c].ver = job[w].snap
        /\ cache'[c].exp = ActiveExpiry(w)
    BY <2>1
  <2> PICK v \in 1 .. row.ver : v = job[w].snap
    BY <1>1
  <2>3. Horizon(v)' = Horizon(v) /\ Horizon(v) \in Nat
    BY <1>1, <1>2 DEF Horizon, Ended, Calm, TypeOK
  <2> QED
    BY <1>1, <1>4, <1>6, <1>8, <2>2, <2>3 DEF CacheOK, Calm
<1> QED
  BY <1>7, <1>8

\* A deny state outlives every snapshot that could still be written.
LEMMA DenyStoreOK ==
    ASSUME TypeOK, EndsOK, NEW c \in Caches, CacheOK(c),
           NEW status \in {"revoking", "revoked"}, NEW ver \in Nat,
           Store(c, status, ver, DenyExpiry), Calm,
           sealed'[c] => sealed[c] \/ row.status = "revoked"
    PROVE  CacheOK(c)'
<1>1. now \in Nat /\ DenyExpiry \in Nat /\ now < DenyExpiry
  BY DEF TypeOK, DenyExpiry, Minimum
<1>2. cache'[c] = [status |-> status, ver |-> ver, exp |-> DenyExpiry]
  BY <1>1 DEF Store, TypeOK
<1>3. cache'[c].status = status /\ cache'[c].exp = DenyExpiry
  BY <1>2
<1>4. sealed'[c] => row.status = "revoked"
  BY DEF CacheOK
<1>5. ASSUME row.status = "revoked", now < ExpiresAt
      PROVE  DenyExpiry >= ExpiresAt \/ DenyExpiry >= endedAt[row.ver] + TTL
  <2>1. row.ver \in Versions
    BY <1>5 DEF TypeOK, Versions
  <2>2. endedAt[row.ver] \in Nat /\ endedAt[row.ver] <= now
    BY <2>1 DEF TypeOK, EndsOK
  <2> QED
    BY <1>1, <1>5, <2>2 DEF DenyExpiry, Minimum
<1> QED
  BY <1>1, <1>3, <1>4, <1>5 DEF CacheOK, Calm

LEMMA WriteDenyOK ==
    ASSUME TypeOK, EndsOK, NEW w \in Workers, job[w].at \in Caches, job[w].snap \in Nat,
           \A c \in Caches : CacheOK(c), WriteDeny(w, "revoked"), Calm
    PROVE  /\ \A c \in Caches : CacheOK(c)'
           /\ \A c \in Caches : sealed[c] => sealed'[c]
<1>1. CASE UNCHANGED <<cache, sealed>>
  BY <1>1, CalmCache
<1>2. CASE /\ Store(job[w].at, "revoked", job[w].snap, DenyExpiry)
           /\ sealed' = [sealed EXCEPT ![job[w].at] =
                            @ \/ ("revoked" = "revoked" /\ row.status = "revoked")]
  <2> PICK d \in Caches : d = job[w].at
    OBVIOUS
  <2>1. \A c \in Caches \ {d} : cache'[c] = cache[c] /\ sealed'[c] = sealed[c]
    BY <1>2 DEF Store, TypeOK
  <2>2. sealed'[d] <=> sealed[d] \/ row.status = "revoked"
    BY <1>2 DEF TypeOK
  <2>3. CacheOK(d)'
    BY <1>2, <2>2, DenyStoreOK
  <2>4. \A c \in Caches \ {d} : CacheOK(c)'
    BY <2>1, CalmCache
  <2> QED
    BY <2>1, <2>2, <2>3, <2>4
<1> QED
  BY <1>1, <1>2 DEF WriteDeny

-----------------------------------------------------------------------------
(* The invariant is inductive.                                             *)

LEMMA InitInv == Init => IInv
<1> SUFFICES ASSUME Init
             PROVE  IInv
  OBVIOUS
<1>1. TypeOK
  BY TypeInit
<1>2. EndsOK
  BY DEF Init, EndsOK, Versions
<1>3. \A w \in Workers : JobOK(w)
  BY DEF Init, JobOK, NoJob, Validating, Filling
<1>4. \A c \in Caches : CacheOK(c)
  BY DEF Init, CacheOK, NoEntry
<1> QED
  BY <1>1, <1>2, <1>3, <1>4 DEF IInv

LEMMA CalmInv ==
    ASSUME IInv, NEW w \in Workers, Calm, TypeOK', JobOK(w)',
           \A u \in Workers \ {w} : job'[u] = job[u],
           \A c \in Caches : CacheOK(c)',
           \A c \in Caches : sealed[c] => sealed'[c]
    PROVE  IInv'
<1>1. \A u \in Workers \ {w} : JobOK(u)'
  BY CalmJob DEF IInv
<1>2. EndsOK'
  BY DEF IInv, EndsOK, Calm
<1> QED
  BY <1>1, <1>2 DEF IInv

\* Steps that touch only the worker's own job.
LEMMA LocalInv ==
    ASSUME IInv, NEW w \in Workers, Calm, UNCHANGED <<cache, sealed>>, TypeOK', JobOK(w)',
           \A u \in Workers \ {w} : job'[u] = job[u]
    PROVE  IInv'
<1>1. \A c \in Caches : CacheOK(c)'
  BY CalmCache DEF IInv
<1> QED
  BY <1>1, CalmInv

LEMMA EvolveInv ==
    ASSUME IInv, NEW w \in Workers, Evolve, UNCHANGED <<cache, sealed>>, TypeOK', JobOK(w)',
           \A u \in Workers \ {w} : job'[u] = job[u]
    PROVE  IInv'
<1>1. \A u \in Workers \ {w} : JobOK(u)'
  BY EvolveJob DEF IInv
<1>2. \A c \in Caches : CacheOK(c)'
  BY EvolveCache DEF IInv
<1>3. EndsOK'
  BY EvolveEnds DEF IInv
<1> QED
  BY <1>1, <1>2, <1>3 DEF IInv

LEMMA EndInv ==
    ASSUME IInv, NEW w \in Workers, End(w)
    PROVE  IInv'
<1>1. TypeOK' /\ \A u \in Workers \ {w} : job'[u] = job[u]
  BY EndType, OnlyOwnJob DEF IInv
<1>2. JobOK(w)'
  BY DoneOK DEF IInv, End
<1> QED
  BY <1>1, <1>2, LocalInv DEF End, Calm

LEMMA StartInv ==
    ASSUME IInv, NEW w \in Workers, NEW c \in Caches, Start(w, c)
    PROVE  IInv'
<1>1. TypeOK' /\ \A u \in Workers \ {w} : job'[u] = job[u]
  BY StartType, OnlyOwnJob DEF IInv
<1>2. TypeOK /\ now \in Nat
  BY DEF IInv, TypeOK
<1>3. ASSUME NEW v \in Versions, Validate(w, c, v)
      PROVE  IInv'
  <2>1. job'[w] = [NoJob EXCEPT !.op = "validate", !.pc = "lookup", !.at = c, !.token = v,
                                !.start = now, !.late = sealed[c]]
    BY <1>2, <1>3 DEF Validate, TypeOK
  <2>2. /\ job'[w].op = "validate" /\ job'[w].pc = "lookup" /\ job'[w].at = c
        /\ job'[w].token = v /\ job'[w].start = now /\ job'[w].late = sealed[c]
    BY <2>1 DEF NoJob
  <2>3. v \in 1 .. row.ver
    BY <1>2, <1>3 DEF Validate, Versions, TypeOK
  <2>4. JobOK(w)'
    BY <1>2, <1>3, <2>2, <2>3 DEF JobOK, Validating, Filling, Validate
  <2> QED
    BY <1>1, <1>3, <2>4, LocalInv DEF Validate, Calm
<1>4. ASSUME NEW label \in {"insert", "rotateRead", "advance"}, NEW v, StartWrite(w, c, label, v)
      PROVE  IInv'
  <2>1. job'[w] = [NoJob EXCEPT !.op = "write", !.pc = label, !.at = c, !.snap = v,
                                !.deadline = now + TTL]
    BY <1>2, <1>4 DEF StartWrite, TypeOK
  <2>2. /\ job'[w].op = "write" /\ job'[w].pc = label /\ job'[w].at = c
        /\ job'[w].deadline = now + TTL /\ job'[w].late = FALSE
    BY <2>1 DEF NoJob
  <2>3. JobOK(w)'
    BY <1>2, <1>4, <2>2 DEF JobOK, Validating, Filling, StartWrite
  <2> QED
    BY <1>1, <1>4, <2>3, LocalInv DEF StartWrite, Calm
<1>5. ASSUME NEW op \in {"revoke", "revokeAll"}, StartRevoke(w, c, op)
      PROVE  IInv'
  <2>1. job'[w] = [NoJob EXCEPT !.op = op, !.pc = "candidate", !.at = c]
    BY <1>2, <1>5 DEF StartRevoke, TypeOK
  <2>2. /\ job'[w].op = op /\ job'[w].pc = "candidate" /\ job'[w].at = c /\ job'[w].late = FALSE
    BY <2>1 DEF NoJob
  <2>3. JobOK(w)'
    BY <1>5, <2>2 DEF JobOK, Validating, Filling
  <2> QED
    BY <1>1, <1>5, <2>3, LocalInv DEF StartRevoke, Calm
<1> QED
  BY <1>3, <1>4, <1>5 DEF Start, CreateUserSession, RotateUserSessionRefresh,
     AdvanceUserSessionAuthVersion, RevokeUserSession, RevokeUserSessions

LEMMA ValidateStepInv ==
    ASSUME IInv, NEW w \in Workers,
           \/ Lookup(w) \/ Load(w) \/ DenyWrite(w) \/ Fill(w) \/ Eval(w) \/ Filled(w) \/ Confirm(w)
    PROVE  IInv'
<1>0. TypeOK' /\ \A u \in Workers \ {w} : job'[u] = job[u]
  BY WorkType, OnlyOwnJob DEF Work, IInv
<1>1. TypeOK /\ EndsOK /\ JobOK(w) /\ job[w] \in Job /\ now \in Nat /\ row.ver \in 0 .. MaxVersion
  BY DEF IInv, TypeOK
<1>2. /\ job[w].pc # "idle" => job[w].at \in Caches
      /\ job[w].pc \in Validating \ {"fill", "eval"} => job[w].op = "validate"
      /\ job[w].start \in Nat /\ job[w].deadline \in Nat /\ job[w].snap \in Nat
  BY <1>1 DEF JobOK, Job
<1>3. CASE Lookup(w)
  <2> PICK c \in Caches : c = job[w].at
    BY <1>2, <1>3 DEF Lookup
  <2>0. job[w].op = "validate" /\ Calm /\ UNCHANGED <<cache, sealed>> /\ CacheOK(c)
    BY <1>2, <1>3 DEF Lookup, Validating, Calm, IInv
  <2>1. CASE cache[c].status = "active" /\ Answer(w, cache[c].ver)
    <3>1. ~ job[w].late
      BY <1>1, <2>0, <2>1 DEF JobOK, CacheOK
    <3>2. /\ cache[c].ver \in 1 .. row.ver /\ cache[c].exp <= Horizon(cache[c].ver)
          /\ now < cache[c].exp /\ cache[c].exp \in Nat
      BY <2>0, <2>1, <1>1 DEF CacheOK, TypeOK, Entry
    <3>3. endedAt[cache[c].ver] \in Nat /\ job[w].start <= now
      BY <1>1, <2>0, <3>2 DEF TypeOK, Versions, JobOK
    <3>4. Ended(cache[c].ver) => job[w].start < endedAt[cache[c].ver] + TTL
      BY <1>1, <1>2, <3>2, <3>3 DEF Horizon
    <3>5. JobOK(w)'
      BY <1>1, <2>0, <2>1, <3>1, <3>4, AnswerOK
    <3> QED
      BY <1>0, <2>0, <3>5, LocalInv
  <2>2. CASE Return(w, "denied")
    <3>1. JobOK(w)'
      BY <1>1, <2>0, <2>2, DeniedOK DEF Calm
    <3> QED
      BY <1>0, <2>0, <3>1, LocalInv
  <2>3. CASE job' = [job EXCEPT ![w].pc = "load", ![w].deadline = now + TTL]
    <3>1. /\ job'[w].pc = "load" /\ job'[w].op = job[w].op /\ job'[w].at = job[w].at
          /\ job'[w].token = job[w].token /\ job'[w].start = job[w].start
          /\ job'[w].deadline = now + TTL /\ job'[w].late = job[w].late
      BY <1>1, <2>3 DEF TypeOK, Job
    <3>2. JobOK(w)'
      BY <1>1, <1>3, <2>0, <3>1 DEF JobOK, Validating, Filling, Calm, Lookup
    <3> QED
      BY <1>0, <2>0, <3>2, LocalInv
  <2> QED
    BY <1>3, <2>1, <2>2, <2>3 DEF Lookup
<1>4. CASE Load(w)
  <2>0. job[w].op = "validate" /\ Calm /\ UNCHANGED <<cache, sealed>>
    BY <1>2, <1>4 DEF Load, Validating, Calm
  <2>1. CASE RowActive /\ job' = [job EXCEPT ![w].pc = "fill", ![w].snap = row.ver]
    <3>1. /\ job'[w].pc = "fill" /\ job'[w].op = job[w].op /\ job'[w].at = job[w].at
          /\ job'[w].token = job[w].token /\ job'[w].start = job[w].start
          /\ job'[w].deadline = job[w].deadline /\ job'[w].late = job[w].late
          /\ job'[w].snap = row.ver
      BY <1>1, <2>1 DEF TypeOK, Job
    <3>2. ~ Ended(row.ver) /\ row.ver \in 1 .. row.ver
      BY <1>1, <2>1 DEF Ended, RowActive, TypeOK
    <3>3. ~ job[w].late
      <4>1. job[w].late => sealed[job[w].at] /\ job[w].at \in Caches
        BY <1>1, <1>2, <1>4 DEF JobOK, Load
      <4> QED
        BY <4>1, <2>1 DEF IInv, CacheOK, RowActive
    <3>4. JobOK(w)'
      BY <1>1, <1>2, <1>4, <2>0, <3>1, <3>2, <3>3 DEF JobOK, Validating, Filling, Calm, Load,
         Horizon, Ended
    <3> QED
      BY <1>0, <2>0, <3>4, LocalInv
  <2>2. CASE job' = [job EXCEPT ![w].pc = "denyWrite", ![w].snap = row.ver]
    <3>1. /\ job'[w].pc = "denyWrite" /\ job'[w].op = job[w].op /\ job'[w].at = job[w].at
          /\ job'[w].token = job[w].token /\ job'[w].start = job[w].start
          /\ job'[w].late = job[w].late
      BY <1>1, <2>2 DEF TypeOK, Job
    <3>2. JobOK(w)'
      BY <1>1, <1>4, <2>0, <3>1 DEF JobOK, Validating, Filling, Calm, Load
    <3> QED
      BY <1>0, <2>0, <3>2, LocalInv
  <2> QED
    BY <1>4, <2>1, <2>2 DEF Load
<1>5. CASE DenyWrite(w)
  <2>0. job[w].op = "validate" /\ Calm /\ job[w].at \in Caches
    BY <1>2, <1>5 DEF DenyWrite, Validating, Calm
  <2>1. /\ \A c \in Caches : CacheOK(c)'
        /\ \A c \in Caches : sealed[c] => sealed'[c]
    BY <1>1, <1>2, <1>5, <2>0, WriteDenyOK DEF DenyWrite, IInv
  <2>2. JobOK(w)'
    BY <1>1, <1>5, <2>0, <2>1, DeniedOK DEF DenyWrite, Calm
  <2> QED
    BY <1>0, <2>0, <2>1, <2>2, CalmInv
<1>6. CASE Fill(w)
  <2>0. Calm /\ UNCHANGED <<cache, sealed>> /\ job[w].pc = "fill" /\ "fill" \in Filling
    BY <1>6 DEF Fill, Calm, Filling
  <2>1. CASE Finish(w, "confirm") \/ Finish(w, "denied")
    <3>1. JobOK(w)'
      BY <1>1, <2>0, <2>1, MoveOK
    <3> QED
      BY <1>0, <2>0, <3>1, LocalInv
  <2>2. CASE Step(w, "eval")
    <3>1. /\ job'[w].pc = "eval" /\ job'[w].op = job[w].op /\ job'[w].at = job[w].at
          /\ job'[w].token = job[w].token /\ job'[w].start = job[w].start
          /\ job'[w].snap = job[w].snap /\ job'[w].deadline = job[w].deadline
          /\ job'[w].late = job[w].late
      BY <1>1, <2>2 DEF Step, TypeOK, Job
    <3>2. JobOK(w)'
      BY <1>1, <2>0, <3>1 DEF JobOK, Validating, Filling, Calm, Horizon, Ended
    <3> QED
      BY <1>0, <2>0, <3>2, LocalInv
  <2> QED
    BY <1>6, <2>1, <2>2 DEF Fill
<1>7. CASE Eval(w)
  <2> PICK c \in Caches : c = job[w].at
    BY <1>2, <1>7 DEF Eval
  <2>0. Calm /\ sealed' = sealed /\ job[w].pc = "eval" /\ "eval" \in Filling
    BY <1>7 DEF Eval, Calm, Filling
  <2>1. CASE Finish(w, "denied") /\ UNCHANGED cache
    <3>1. JobOK(w)'
      BY <1>1, <2>0, <2>1, MoveOK
    <3> QED
      BY <1>0, <2>0, <2>1, <3>1, LocalInv
  <2>2. CASE /\ ~ Refuses(c, "active", job[w].snap)
             /\ Store(c, "active", job[w].snap, ActiveExpiry(w))
             /\ Finish(w, "filled")
    <3>1. JobOK(w)'
      BY <1>1, <2>0, <2>2, MoveOK
    <3>2. CacheOK(c)'
      BY <1>1, <2>0, <2>2, ActiveStoreOK DEF IInv
    <3>3. \A d \in Caches \ {c} : cache'[d] = cache[d]
      BY <1>1, <2>2 DEF Store, TypeOK
    <3>4. \A d \in Caches \ {c} : CacheOK(d)'
      BY <1>1, <2>0, <3>3, CalmCache DEF IInv
    <3>5. \A d \in Caches : CacheOK(d)'
      BY <3>2, <3>4
    <3> QED
      BY <1>0, <2>0, <3>1, <3>5, CalmInv
  <2>3. CASE /\ IF job[w].op = "validate" THEN Answer(w, job[w].snap) ELSE Done(w)
             /\ UNCHANGED cache
    <3>1. JobOK(w)'
      BY <1>1, <2>0, <2>3, SnapshotAnswers, DoneOK
    <3> QED
      BY <1>0, <2>0, <2>3, <3>1, LocalInv
  <2> QED
    BY <1>7, <2>1, <2>2, <2>3 DEF Eval
<1>8. CASE Filled(w)
  <2>0. /\ Calm /\ UNCHANGED <<cache, sealed>> /\ job[w].pc = "filled" /\ "filled" \in Filling
        /\ job[w].op = "validate"
    BY <1>2, <1>8 DEF Filled, Calm, Filling, Validating
  <2>1. CASE Step(w, "confirm")
    <3>1. Finish(w, "confirm")
      BY <2>0, <2>1 DEF Finish
    <3>2. JobOK(w)'
      BY <1>1, <2>0, <3>1, MoveOK
    <3> QED
      BY <1>0, <2>0, <3>2, LocalInv
  <2>2. CASE Answer(w, job[w].snap)
    <3>1. JobOK(w)'
      BY <1>1, <2>0, <2>2, SnapshotAnswers
    <3> QED
      BY <1>0, <2>0, <3>1, LocalInv
  <2> QED
    BY <1>8, <2>1, <2>2 DEF Filled
<1>9. CASE Confirm(w)
  <2>0. /\ Calm /\ UNCHANGED <<cache, sealed>> /\ job[w].pc \in Filling
        /\ job[w].op = "validate"
    BY <1>2, <1>9 DEF Confirm, Calm, Filling, Validating
  <2>1. JobOK(w)'
    BY <1>1, <1>9, <2>0, SnapshotAnswers, DeniedOK DEF Confirm, Calm
  <2> QED
    BY <1>0, <2>0, <2>1, LocalInv
<1> QED
  BY <1>3, <1>4, <1>5, <1>6, <1>7, <1>8, <1>9

LEMMA WriteStepInv ==
    ASSUME IInv, NEW w \in Workers,
           \/ Insert(w) \/ RotateRead(w) \/ RotateUpdate(w) \/ Advance(w)
           \/ Candidate(w) \/ Fence(w) \/ Commit(w) \/ Tombstone(w)
    PROVE  IInv'
<1>0. TypeOK' /\ \A u \in Workers \ {w} : job'[u] = job[u]
  BY WorkType, OnlyOwnJob DEF Work, IInv
<1>1. TypeOK /\ EndsOK /\ JobOK(w) /\ job[w] \in Job /\ now \in Nat /\ row.ver \in 0 .. MaxVersion
  BY DEF IInv, TypeOK
<1>2. /\ job[w].pc # "idle" => job[w].at \in Caches /\ job[w].op # "none"
      /\ job[w].deadline \in Nat /\ job[w].snap \in Nat
  BY <1>1 DEF JobOK, Job
<1>3. job[w].op # "validate" /\ job[w].late = FALSE /\ job[w].pc # "idle"
  BY <1>1 DEF JobOK, Validating, Filling, Insert, RotateRead, RotateUpdate, Advance, Candidate,
     Fence, Commit, Tombstone, Job
<1>4. ASSUME Done(w), Calm, UNCHANGED <<cache, sealed>>
      PROVE  IInv'
  <2>1. JobOK(w)'
    BY <1>1, <1>4, DoneOK
  <2> QED
    BY <1>0, <1>4, <2>1, LocalInv
<1>5. ASSUME NEW op, op \notin {"validate", "none"}, ToFence(w, op), Calm, UNCHANGED <<cache, sealed>>
      PROVE  IInv'
  <2>1. job'[w] = [NoJob EXCEPT !.op = op, !.pc = "fence", !.at = job[w].at, !.snap = row.ver]
    BY <1>1, <1>5 DEF ToFence, TypeOK
  <2>2. /\ job'[w].op = op /\ job'[w].pc = "fence" /\ job'[w].at = job[w].at
        /\ job'[w].late = FALSE
    BY <2>1 DEF NoJob
  <2>3. JobOK(w)'
    BY <1>2, <1>3, <1>5, <2>2 DEF JobOK, Validating, Filling
  <2> QED
    BY <1>0, <1>5, <2>3, LocalInv
<1>6. CASE Insert(w)
  <2>1. CASE /\ row.status = "none" /\ MaxVersion > 0
             /\ row' = [status |-> "active", ver |-> 1]
             /\ job' = [job EXCEPT ![w].pc = "fill", ![w].snap = 1]
    <3>1. Evolve /\ UNCHANGED <<cache, sealed>> /\ now' = now /\ endedAt' = endedAt
      BY <1>6, <2>1 DEF Insert, Evolve
    <3>2. /\ job'[w].pc = "fill" /\ job'[w].op = job[w].op /\ job'[w].at = job[w].at
          /\ job'[w].deadline = job[w].deadline /\ job'[w].late = FALSE /\ job'[w].snap = 1
      BY <1>1, <1>3, <2>1 DEF TypeOK, Job
    <3>3. Horizon(1)' = now + TTL /\ row'.ver = 1
      BY <1>1, <2>1, <3>1 DEF Horizon, Ended
    <3>4. JobOK(w)'
      BY <1>1, <1>2, <1>3, <1>6, <3>1, <3>2, <3>3 DEF JobOK, Validating, Filling, Insert
    <3> QED
      BY <1>0, <3>1, <3>4, EvolveInv
  <2> QED
    BY <1>4, <1>6, <2>1 DEF Insert, Calm
<1>7. CASE RotateRead(w)
  <2>1. CASE row.status = "active" /\ job' = [job EXCEPT ![w].pc = "rotateUpdate", ![w].snap = row.ver]
    <3>1. Calm /\ UNCHANGED <<cache, sealed>>
      BY <1>7 DEF RotateRead, Calm
    <3>2. /\ job'[w].pc = "rotateUpdate" /\ job'[w].op = job[w].op /\ job'[w].at = job[w].at
          /\ job'[w].deadline = job[w].deadline /\ job'[w].late = FALSE /\ job'[w].snap = row.ver
      BY <1>1, <1>3, <2>1 DEF TypeOK, Job
    <3>3. ~ Ended(row.ver) /\ row.ver \in 1 .. row.ver
      BY <1>1, <2>1 DEF Ended, TypeOK
    <3>4. JobOK(w)'
      BY <1>1, <1>2, <1>3, <1>7, <3>1, <3>2, <3>3 DEF JobOK, Validating, Filling, RotateRead, Calm,
         Horizon, Ended
    <3> QED
      BY <1>0, <3>1, <3>4, LocalInv
  <2> QED
    BY <1>4, <1>5, <1>7, <2>1 DEF RotateRead, Calm
<1>8. CASE RotateUpdate(w)
  <2>0. Calm /\ UNCHANGED <<cache, sealed>>
    BY <1>8 DEF RotateUpdate, Calm
  <2>1. CASE Step(w, "fill")
    <3>1. /\ job'[w].pc = "fill" /\ job'[w].op = job[w].op /\ job'[w].at = job[w].at
          /\ job'[w].deadline = job[w].deadline /\ job'[w].late = FALSE
          /\ job'[w].snap = job[w].snap
      BY <1>1, <1>3, <2>1 DEF Step, TypeOK, Job
    <3>2. JobOK(w)'
      BY <1>1, <1>2, <1>3, <1>8, <2>0, <3>1 DEF JobOK, Validating, Filling, RotateUpdate, Calm,
         Horizon, Ended
    <3> QED
      BY <1>0, <2>0, <3>2, LocalInv
  <2>2. CASE job' = [job EXCEPT ![w].pc = "rotateRead", ![w].deadline = now + TTL]
    <3>1. /\ job'[w].pc = "rotateRead" /\ job'[w].op = job[w].op /\ job'[w].at = job[w].at
          /\ job'[w].deadline = now + TTL /\ job'[w].late = FALSE
      BY <1>1, <1>3, <2>2 DEF TypeOK, Job
    <3>2. JobOK(w)'
      BY <1>1, <1>2, <1>3, <2>0, <3>1 DEF JobOK, Validating, Filling, Calm
    <3> QED
      BY <1>0, <2>0, <3>2, LocalInv
  <2> QED
    BY <1>8, <2>1, <2>2 DEF RotateUpdate
<1>9. CASE Advance(w)
  <2>1. CASE /\ row.status = "active" /\ row.ver < MaxVersion
             /\ row' = [row EXCEPT !.ver = @ + 1]
             /\ endedAt' = [endedAt EXCEPT ![row.ver] = now]
             /\ job' = [job EXCEPT ![w].pc = "fill", ![w].snap = row.ver + 1]
    <3>1. Evolve /\ UNCHANGED <<cache, sealed>> /\ now' = now
      BY <1>9, <2>1 DEF Advance, Evolve
    <3>2. /\ job'[w].pc = "fill" /\ job'[w].op = job[w].op /\ job'[w].at = job[w].at
          /\ job'[w].deadline = job[w].deadline /\ job'[w].late = FALSE
          /\ job'[w].snap = row.ver + 1
      BY <1>1, <1>3, <2>1 DEF TypeOK, Job
    <3> PICK v \in Nat : v = row.ver + 1
      BY <1>1
    <3>3. Horizon(v)' = now + TTL /\ row'.ver = v /\ v \in 1 .. v
      BY <1>1, <2>1, <3>1 DEF Horizon, Ended, TypeOK
    <3>4. JobOK(w)'
      BY <1>1, <1>2, <1>3, <1>9, <3>1, <3>2, <3>3 DEF JobOK, Validating, Filling, Advance
    <3> QED
      BY <1>0, <3>1, <3>4, EvolveInv
  <2> QED
    BY <1>4, <1>9, <2>1 DEF Advance, Calm
<1>10. CASE Candidate(w)
  BY <1>2, <1>3, <1>4, <1>5, <1>10 DEF Candidate, Calm
<1>11. CASE Fence(w)
  <2> PICK c \in Caches : c = job[w].at
    BY <1>2, <1>3
  <2>1. CASE Store(c, "revoking", job[w].snap, DenyExpiry) /\ Step(w, "commit")
    <3>1. Calm /\ sealed' = sealed
      BY <1>11 DEF Fence, Calm
    <3>2. CacheOK(c)'
      BY <1>1, <1>2, <2>1, <3>1, DenyStoreOK DEF IInv
    <3>3. \A d \in Caches \ {c} : cache'[d] = cache[d]
      BY <1>1, <2>1 DEF Store, TypeOK
    <3>4. \A d \in Caches \ {c} : CacheOK(d)'
      BY <1>1, <3>1, <3>3, CalmCache DEF IInv
    <3>5. /\ job'[w].pc = "commit" /\ job'[w].op = job[w].op /\ job'[w].at = job[w].at
          /\ job'[w].late = FALSE
      BY <1>1, <1>3, <2>1 DEF Step, TypeOK, Job
    <3>6. JobOK(w)'
      BY <1>2, <1>3, <3>5 DEF JobOK, Validating, Filling
    <3>7. \A d \in Caches : CacheOK(d)'
      BY <3>2, <3>4
    <3> QED
      BY <1>0, <3>1, <3>6, <3>7, CalmInv
  <2> QED
    BY <1>4, <1>11, <2>1 DEF Fence, Calm
<1>12. CASE Commit(w)
  <2>1. CASE /\ row.status = "active"
             /\ row' = [row EXCEPT !.status = "revoked"]
             /\ endedAt' = [endedAt EXCEPT ![row.ver] = now]
             /\ job' = [job EXCEPT ![w].pc = "tombstone",
                          ![w].snap = IF job[w].op = "revokeAll" THEN row.ver ELSE @]
    <3>1. Evolve /\ UNCHANGED <<cache, sealed>>
      BY <1>12, <2>1 DEF Commit, Evolve
    <3>2. /\ job'[w].pc = "tombstone" /\ job'[w].op = job[w].op /\ job'[w].at = job[w].at
          /\ job'[w].late = FALSE
      BY <1>1, <1>3, <2>1 DEF TypeOK, Job
    <3>3. JobOK(w)'
      BY <1>2, <1>3, <3>2 DEF JobOK, Validating, Filling
    <3> QED
      BY <1>0, <3>1, <3>3, EvolveInv
  <2> QED
    BY <1>4, <1>12, <2>1 DEF Commit, Calm
<1>13. CASE Tombstone(w)
  <2>0. Calm /\ job[w].at \in Caches
    BY <1>2, <1>3, <1>13 DEF Tombstone, Calm
  <2>1. /\ \A c \in Caches : CacheOK(c)'
        /\ \A c \in Caches : sealed[c] => sealed'[c]
    BY <1>1, <1>2, <1>13, <2>0, WriteDenyOK DEF Tombstone, IInv
  <2>2. JobOK(w)'
    BY <1>1, <1>13, DoneOK DEF Tombstone
  <2> QED
    BY <1>0, <2>0, <2>1, <2>2, CalmInv
<1> QED
  BY <1>6, <1>7, <1>8, <1>9, <1>10, <1>11, <1>12, <1>13

LEMMA StutterInv ==
    ASSUME IInv, UNCHANGED vars
    PROVE  IInv'
<1>1. /\ now' = now /\ row' = row /\ cache' = cache /\ job' = job /\ endedAt' = endedAt
      /\ sealed' = sealed /\ Calm
  BY DEF vars, Calm
<1>2. TypeOK' /\ EndsOK'
  BY <1>1 DEF IInv, TypeOK, EndsOK
<1>3. \A w \in Workers : JobOK(w)'
  BY <1>1, CalmJob DEF IInv
<1>4. \A c \in Caches : CacheOK(c)'
  BY <1>1, CalmCache DEF IInv
<1> QED
  BY <1>2, <1>3, <1>4 DEF IInv

LEMMA NextInv == IInv /\ [Next]_vars => IInv'
<1> SUFFICES ASSUME IInv, [Next]_vars
             PROVE  IInv'
  OBVIOUS
<1>1. CASE UNCHANGED vars
  BY <1>1, StutterInv
<1>2. CASE Tick
  BY <1>2, TickInv
<1>3. ASSUME NEW w \in Workers, (\E c \in Caches : Start(w, c)) \/ Work(w) \/ End(w)
      PROVE  IInv'
  BY <1>3, StartInv, EndInv, ValidateStepInv, WriteStepInv DEF Work
<1> QED
  BY <1>1, <1>2, <1>3 DEF Next


-----------------------------------------------------------------------------
(* The theorems.                                                           *)

\* The inductive invariant holds in every reachable state.
THEOREM Invariance == Spec => []IInv
BY InitInv, NextInv, PTL DEF Spec

\* The row, the caches and the jobs keep their types.
THEOREM TypeCorrect == Spec => []TypeOK
<1>1. IInv => TypeOK
  BY DEF IInv
<1> QED
  BY <1>1, Invariance, PTL

\* A validation that starts one cache lifetime after a version was replaced or
\* revoked does not accept it, on any number of nodes and Redis servers.
THEOREM Staleness == Spec => []BoundedStaleness
<1>1. IInv => BoundedStaleness
  BY DEF IInv, JobOK, BoundedStaleness
<1> QED
  BY <1>1, Invariance, PTL

\* After a Redis has taken the tombstone of the revoked session no validation
\* that starts on it accepts the session.
THEOREM Revocation == Spec => []RevokedAtOnce
<1>1. IInv => RevokedAtOnce
  BY DEF IInv, JobOK, RevokedAtOnce
<1> QED
  BY <1>1, Invariance, PTL

\* Every active snapshot, stored or in memory, ends within one lifetime of the
\* moment its version was last valid.
THEOREM Snapshots == Spec => []SnapshotsBounded
<1>1. IInv => SnapshotsBounded
  BY DEF IInv, JobOK, CacheOK, SnapshotsBounded
<1> QED
  BY <1>1, Invariance, PTL

-----------------------------------------------------------------------------
(* The refinement: every step is a step of SessionAuthority or changes     *)
(* nothing it speaks of.                                                   *)

Deciding(pc) == pc \notin {"accepted", "denied"}

\* Only the worker's own call can change.
LEMMA OneCall ==
    ASSUME NEW w \in Workers, \A u \in Workers \ {w} : job'[u] = job[u], NEW call, call = Call(w)'
    PROVE  [u \in Workers |-> Call(u)]' = [[u \in Workers |-> Call(u)] EXCEPT ![w] = call]
<1>1. \A u \in Workers \ {w} : Call(u)' = Call(u)
  BY DEF Call
<1> QED
  BY <1>1

\* The call ends, goes on, or is answered.
LEMMA AnsweredCall ==
    ASSUME IInv, IInv', NEW w \in Workers, Calm, \A u \in Workers \ {w} : job'[u] = job[u],
           \/ job'[w].op # "validate"
           \/ /\ job[w].op = "validate" /\ Deciding(job[w].pc) /\ job'[w].op = "validate"
              /\ job'[w].token = job[w].token /\ job'[w].start = job[w].start
              /\ job'[w].pc = "accepted" => now < ExpiresAt
    PROVE  [Authority!Next]_(Authority!vars)
<1> DEFINE calls == [u \in Workers |-> Call(u)]
<1>0. now' = now /\ row' = row /\ endedAt' = endedAt
  BY DEF Calm
<1>1. CASE job'[w].op # "validate"
  <2>1. Call(w)' = Authority!NoCall
    BY <1>1 DEF Call, Authority!NoCall
  <2>2. calls' = [calls EXCEPT ![w] = Authority!NoCall]
    BY <2>1, OneCall
  <2>3. Authority!End(w)
    BY <1>0, <2>2 DEF Authority!End
  <2> QED
    BY <2>3 DEF Authority!Next
<1>2. CASE /\ job[w].op = "validate" /\ Deciding(job[w].pc) /\ job'[w].op = "validate"
           /\ job'[w].token = job[w].token /\ job'[w].start = job[w].start
           /\ job'[w].pc = "accepted" => now < ExpiresAt
  <2>1. calls[w] = [st |-> "asked", token |-> job[w].token, start |-> job[w].start]
    BY <1>2 DEF Call, Deciding
  <2>2. CASE Deciding(job'[w].pc)
    <3>1. Call(w)' = calls[w]
      BY <1>2, <2>1, <2>2 DEF Call, Deciding
    <3>2. calls' = calls
      BY <3>1, OneCall
    <3> QED
      BY <1>0, <3>2 DEF Authority!vars
  <2>3. CASE job'[w].pc = "denied"
    <3>1. Call(w)' = [calls[w] EXCEPT !.st = "denied"]
      BY <1>2, <2>1, <2>3 DEF Call
    <3>2. calls' = [calls EXCEPT ![w].st = "denied"]
      BY <3>1, OneCall
    <3>3. Authority!Deny(w)
      BY <1>0, <2>1, <3>2 DEF Authority!Deny
    <3> QED
      BY <3>3 DEF Authority!Next
  <2>4. CASE job'[w].pc = "accepted"
    <3>1. Call(w)' = [calls[w] EXCEPT !.st = "accepted"]
      BY <1>2, <2>1, <2>4 DEF Call
    <3>2. calls' = [calls EXCEPT ![w].st = "accepted"]
      BY <3>1, OneCall
    <3>3. /\ job[w].token \in 1 .. row.ver /\ job[w].start <= now
          /\ Ended(job[w].token) => job[w].start < endedAt[job[w].token] + TTL
      BY <1>0, <1>2, <2>4 DEF IInv, JobOK, Ended
    <3>4. row.ver \in Nat /\ row.status # "none" /\ now \in Nat /\ job[w].start \in Nat
      BY <3>3 DEF IInv, TypeOK, Job
    <3>5. Authority!MayAccept(job[w].token, job[w].start)
      BY <1>2, <2>4, <3>3, <3>4 DEF Authority!MayAccept, Authority!Ended, Ended
    <3>6. Authority!Accept(w)
      BY <1>0, <2>1, <3>2, <3>5 DEF Authority!Accept
    <3> QED
      BY <3>6 DEF Authority!Next
  <2> QED
    BY <2>2, <2>3, <2>4 DEF Deciding
<1> QED
  BY <1>1, <1>2

\* A step on the row is the abstract one.
LEMMA RowStep ==
    ASSUME NEW w \in Workers, Evolve, \A u \in Workers \ {w} : job'[u] = job[u],
           job[w].op # "validate", job'[w].op # "validate"
    PROVE  [Authority!Next]_(Authority!vars)
<1> DEFINE calls == [u \in Workers |-> Call(u)]
<1>1. calls' = calls
  <2>1. Call(w)' = Call(w)
    BY DEF Call
  <2> QED
    BY <2>1, OneCall
<1>2. Authority!Create \/ Authority!Advance \/ Authority!Revoke
  BY <1>1 DEF Evolve, Authority!Create, Authority!Advance, Authority!Revoke
<1> QED
  BY <1>2 DEF Authority!Next

\* A request presents its token.
LEMMA AskStep ==
    ASSUME IInv, NEW w \in Workers, NEW c \in Caches, NEW v \in Versions, Validate(w, c, v),
           \A u \in Workers \ {w} : job'[u] = job[u]
    PROVE  [Authority!Next]_(Authority!vars)
<1> DEFINE calls == [u \in Workers |-> Call(u)]
           asked == [st |-> "asked", token |-> v, start |-> now]
<1>1. job'[w].op = "validate" /\ job'[w].pc = "lookup" /\ job'[w].token = v /\ job'[w].start = now
  BY DEF Validate, IInv, TypeOK, NoJob
<1>2. Call(w)' = asked
  BY <1>1 DEF Call
<1>3. calls' = [calls EXCEPT ![w] = asked]
  BY <1>2, OneCall
<1>4. job[w].op = "none"
  BY DEF Validate, IInv, JobOK
<1>5. calls[w].st = "idle"
  BY <1>4 DEF Call
<1>6. Authority!Ask(w, v)
  BY <1>3, <1>5 DEF Authority!Ask, Authority!Versions, Versions, Validate
<1>7. v \in Authority!Versions
  BY DEF Authority!Versions, Versions
<1> QED
  BY <1>6, <1>7 DEF Authority!Next

\* Answers, returns and moves of a validation keep its token and its start.
LEMMA ReturnKeeps ==
    ASSUME TypeOK, NEW w \in Workers, NEW outcome, Return(w, outcome)
    PROVE  /\ job'[w].op = "validate" /\ job'[w].token = job[w].token
           /\ job'[w].start = job[w].start /\ job'[w].pc = outcome
<1>1. job'[w] = [NoJob EXCEPT !.op = "validate", !.pc = outcome, !.at = job[w].at,
                   !.token = job[w].token, !.start = job[w].start, !.late = job[w].late]
  BY DEF Return, TypeOK
<1> QED
  BY <1>1 DEF NoJob

LEMMA AnswerKeeps ==
    ASSUME TypeOK, NEW w \in Workers, NEW ver, Answer(w, ver)
    PROVE  /\ job'[w].op = "validate" /\ job'[w].token = job[w].token
           /\ job'[w].start = job[w].start
           /\ job'[w].pc = "accepted" => now < ExpiresAt
<1>1. CASE Return(w, "denied")
  BY <1>1, ReturnKeeps
<1>2. CASE Return(w, "accepted") /\ now < ExpiresAt
  BY <1>2, ReturnKeeps
<1> QED
  BY <1>1, <1>2 DEF Answer

LEMMA StepKeeps ==
    ASSUME TypeOK, NEW w \in Workers, NEW label, Step(w, label), label # "accepted"
    PROVE  /\ job'[w].op = job[w].op /\ job'[w].token = job[w].token
           /\ job'[w].start = job[w].start /\ job'[w].pc # "accepted"
BY DEF Step, TypeOK, Job

LEMMA DoneKeeps ==
    ASSUME TypeOK, NEW w \in Workers, Done(w)
    PROVE  job'[w].op # "validate"
BY DEF Done, TypeOK, NoJob

LEMMA FinishKeeps ==
    ASSUME TypeOK, NEW w \in Workers, NEW label, Finish(w, label), label # "accepted"
    PROVE  \/ job'[w].op # "validate"
           \/ /\ job[w].op = "validate" /\ job'[w].op = "validate"
              /\ job'[w].token = job[w].token /\ job'[w].start = job[w].start
              /\ job'[w].pc # "accepted"
BY StepKeeps, DoneKeeps DEF Finish

LEMMA ValidationStep ==
    ASSUME IInv, IInv', NEW w \in Workers,
           \/ Lookup(w) \/ Load(w) \/ DenyWrite(w) \/ Fill(w) \/ Eval(w) \/ Filled(w) \/ Confirm(w)
    PROVE  [Authority!Next]_(Authority!vars)
<1> DEFINE Kept == \/ job'[w].op # "validate"
                   \/ /\ job[w].op = "validate" /\ job'[w].op = "validate"
                      /\ job'[w].token = job[w].token /\ job'[w].start = job[w].start
                      /\ job'[w].pc = "accepted" => now < ExpiresAt
<1>1. TypeOK /\ job[w] \in Job /\ \A u \in Workers \ {w} : job'[u] = job[u]
  BY OnlyOwnJob DEF IInv, TypeOK, Work
<1>2. Calm
  BY DEF Calm, Lookup, Load, DenyWrite, Fill, Eval, Filled, Confirm
<1>3. job[w].pc \in {"lookup", "load", "denyWrite"} \cup Filling
  BY DEF Lookup, Load, DenyWrite, Fill, Eval, Filled, Confirm, Filling
<1>4. Deciding(job[w].pc)
  BY <1>3 DEF Deciding, Filling
<1>5. job[w].pc \in {"lookup", "load", "denyWrite", "filled", "confirm"} => job[w].op = "validate"
  BY DEF IInv, JobOK, Validating, Filling
<1>6. CASE Lookup(w)
  <2>1. Kept
    <3>1. CASE Answer(w, cache[job[w].at].ver)
      BY <1>1, <1>5, <1>6, <3>1, AnswerKeeps DEF Lookup
    <3>2. CASE Return(w, "denied")
      BY <1>1, <1>5, <1>6, <3>2, ReturnKeeps DEF Lookup
    <3>3. CASE job' = [job EXCEPT ![w].pc = "load", ![w].deadline = now + TTL]
      BY <1>1, <1>5, <1>6, <3>3 DEF Lookup, TypeOK, Job
    <3> QED
      BY <1>6, <3>1, <3>2, <3>3 DEF Lookup
  <2> QED
    BY <1>1, <1>2, <1>4, <2>1, AnsweredCall
<1>7. CASE Load(w)
  <2>1. Kept
    BY <1>1, <1>5, <1>7 DEF Load, TypeOK, Job
  <2> QED
    BY <1>1, <1>2, <1>4, <2>1, AnsweredCall
<1>8. CASE DenyWrite(w)
  <2>1. Kept
    BY <1>1, <1>5, <1>8, ReturnKeeps DEF DenyWrite
  <2> QED
    BY <1>1, <1>2, <1>4, <2>1, AnsweredCall
<1>9. CASE Fill(w)
  <2>1. Kept
    <3>1. CASE Finish(w, "confirm") \/ Finish(w, "denied")
      BY <1>1, <3>1, FinishKeeps
    <3>2. CASE Step(w, "eval")
      BY <1>1, <3>2, StepKeeps
    <3> QED
      BY <1>9, <3>1, <3>2 DEF Fill
  <2> QED
    BY <1>1, <1>2, <1>4, <2>1, AnsweredCall
<1>10. CASE Eval(w)
  <2>1. Kept
    <3>1. CASE Finish(w, "filled") \/ Finish(w, "denied")
      BY <1>1, <3>1, FinishKeeps
    <3>2. CASE IF job[w].op = "validate" THEN Answer(w, job[w].snap) ELSE Done(w)
      BY <1>1, <3>2, AnswerKeeps, DoneKeeps
    <3> QED
      BY <1>10, <3>1, <3>2 DEF Eval
  <2> QED
    BY <1>1, <1>2, <1>4, <2>1, AnsweredCall
<1>11. CASE Filled(w)
  <2>1. Kept
    BY <1>1, <1>5, <1>11, StepKeeps, AnswerKeeps DEF Filled
  <2> QED
    BY <1>1, <1>2, <1>4, <2>1, AnsweredCall
<1>12. CASE Confirm(w)
  <2>1. Kept
    BY <1>1, <1>5, <1>12, ReturnKeeps, AnswerKeeps DEF Confirm
  <2> QED
    BY <1>1, <1>2, <1>4, <2>1, AnsweredCall
<1> QED
  BY <1>6, <1>7, <1>8, <1>9, <1>10, <1>11, <1>12

LEMMA WriteStep ==
    ASSUME IInv, IInv', NEW w \in Workers,
           \/ Insert(w) \/ RotateRead(w) \/ RotateUpdate(w) \/ Advance(w)
           \/ Candidate(w) \/ Fence(w) \/ Commit(w) \/ Tombstone(w)
    PROVE  [Authority!Next]_(Authority!vars)
<1>1. TypeOK /\ job[w] \in Job /\ \A u \in Workers \ {w} : job'[u] = job[u]
  BY OnlyOwnJob DEF IInv, TypeOK, Work
<1>2. job[w].pc \in {"insert", "rotateRead", "rotateUpdate", "advance", "candidate", "fence",
                     "commit", "tombstone"}
  BY DEF Insert, RotateRead, RotateUpdate, Advance, Candidate, Fence, Commit, Tombstone
<1>3. job[w].op # "validate"
  BY <1>2 DEF IInv, JobOK, Validating, Filling
<1>4. job'[w].op # "validate"
  <2>1. CASE Done(w)
    BY <1>1, <2>1, DoneKeeps
  <2>2. ASSUME NEW label, Step(w, label)
        PROVE  job'[w].op # "validate"
    BY <1>1, <1>3, <2>2 DEF Step, TypeOK, Job
  <2>3. CASE ToFence(w, "revoke") \/ ToFence(w, job[w].op)
    <3>1. ASSUME NEW op, ToFence(w, op) PROVE job'[w].op = op
      <4> DEFINE fenced == [NoJob EXCEPT !.op = op, !.pc = "fence", !.at = job[w].at,
                                         !.snap = row.ver]
      <4>1. job'[w] = fenced
        BY <1>1, <3>1 DEF ToFence, TypeOK
      <4>2. fenced.op = op
        BY DEF NoJob
      <4> QED
        BY <4>1, <4>2
    <3> QED
      BY <1>3, <2>3, <3>1
  <2>4. CASE Insert(w) \/ Advance(w)
    BY <1>1, <1>3, <2>1, <2>4 DEF Insert, Advance, TypeOK, Job
  <2>5. CASE RotateRead(w) \/ RotateUpdate(w)
    BY <1>1, <1>3, <2>1, <2>2, <2>3, <2>5 DEF RotateRead, RotateUpdate, TypeOK, Job
  <2>6. CASE Candidate(w) \/ Fence(w) \/ Tombstone(w)
    BY <2>1, <2>2, <2>3, <2>6 DEF Candidate, Fence, Tombstone
  <2>7. CASE Commit(w)
    BY <1>1, <1>3, <2>1, <2>7 DEF Commit, TypeOK, Job
  <2> QED
    BY <2>4, <2>5, <2>6, <2>7
<1>5. Calm \/ Evolve
  BY DEF Calm, Evolve, Insert, RotateRead, RotateUpdate, Advance, Candidate, Fence, Commit, Tombstone
<1> QED
  BY <1>1, <1>3, <1>4, <1>5, AnsweredCall, RowStep

LEMMA StartStep ==
    ASSUME IInv, IInv', NEW w \in Workers, NEW c \in Caches, Start(w, c)
    PROVE  [Authority!Next]_(Authority!vars)
<1>1. TypeOK /\ \A u \in Workers \ {w} : job'[u] = job[u]
  BY OnlyOwnJob DEF IInv
<1>2. ASSUME NEW v \in Versions, Validate(w, c, v)
      PROVE  [Authority!Next]_(Authority!vars)
  BY <1>1, <1>2, AskStep
<1>3. ASSUME NEW label, NEW v, StartWrite(w, c, label, v)
      PROVE  [Authority!Next]_(Authority!vars)
  <2>1. job'[w].op # "validate" /\ Calm
    BY <1>1, <1>3 DEF StartWrite, TypeOK, NoJob, Calm
  <2> QED
    BY <1>1, <2>1, AnsweredCall
<1>4. ASSUME NEW op \in {"revoke", "revokeAll"}, StartRevoke(w, c, op)
      PROVE  [Authority!Next]_(Authority!vars)
  <2>1. job'[w].op # "validate" /\ Calm
    BY <1>1, <1>4 DEF StartRevoke, TypeOK, NoJob, Calm
  <2> QED
    BY <1>1, <2>1, AnsweredCall
<1> QED
  BY <1>2, <1>3, <1>4 DEF Start, CreateUserSession, RotateUserSessionRefresh,
     AdvanceUserSessionAuthVersion, RevokeUserSession, RevokeUserSessions

LEMMA TickStep ==
    ASSUME Tick
    PROVE  [Authority!Next]_(Authority!vars)
<1>1. [u \in Workers |-> Call(u)]' = [u \in Workers |-> Call(u)]
  BY DEF Tick, Call
<1>2. Authority!Tick
  BY <1>1 DEF Tick, Authority!Tick
<1> QED
  BY <1>2 DEF Authority!Next

LEMMA EndStep ==
    ASSUME IInv, IInv', NEW w \in Workers, End(w)
    PROVE  [Authority!Next]_(Authority!vars)
<1>1. \A u \in Workers \ {w} : job'[u] = job[u]
  BY OnlyOwnJob DEF IInv
<1>2. Calm /\ job'[w].op # "validate"
  BY DoneKeeps DEF IInv, End, Calm
<1> QED
  BY <1>1, <1>2, AnsweredCall

LEMMA NextRefines ==
    ASSUME IInv, IInv', [Next]_vars
    PROVE  [Authority!Next]_(Authority!vars)
<1>1. CASE UNCHANGED vars
  <2>1. [u \in Workers |-> Call(u)]' = [u \in Workers |-> Call(u)]
    BY <1>1 DEF vars, Call
  <2> QED
    BY <1>1, <2>1 DEF vars, Authority!vars
<1>2. CASE Tick
  BY <1>2, TickStep
<1>3. ASSUME NEW w \in Workers, (\E c \in Caches : Start(w, c)) \/ Work(w) \/ End(w)
      PROVE  [Authority!Next]_(Authority!vars)
  BY <1>3, StartStep, EndStep, ValidationStep, WriteStep DEF Work
<1> QED
  BY <1>1, <1>2, <1>3 DEF Next

LEMMA InitRefines == Init => Authority!Init
BY DEF Init, Authority!Init, Authority!NoCall, Authority!Versions, Versions, Call, NoJob

\* The caches implement the authority of the row: whatever a caller sees is what
\* the row allows, or allowed less than one lifetime before the call.
THEOREM Refinement == Spec => ImplementsAuthority
<1>1. IInv /\ IInv' /\ [Next]_vars => [Authority!Next]_(Authority!vars)
  BY NextRefines
<1> QED
  BY <1>1, InitRefines, Invariance, PTL DEF Spec, ImplementsAuthority, Authority!Spec

=============================================================================
