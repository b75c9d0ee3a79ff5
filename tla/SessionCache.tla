---------------------------- MODULE SessionCache ----------------------------
(***************************************************************************)
(* One login session: its user_sessions row and its snapshots in Redis     *)
(* (model/user_session.go), read by every request with an access token     *)
(* (service/auth_session.go).                                              *)
(*                                                                         *)
(* A request runs on a node; nodes share one Redis or have one each.       *)
(* Every SQL statement or transaction and every Redis call is one step,    *)
(* and time may pass between any two of them.  Redis calls may fail and a  *)
(* process may die between any two steps.  lockForUpdate does nothing on   *)
(* SQLite, so only the WHERE clauses order the transactions.  The clocks   *)
(* of the nodes and of Redis agree.                                        *)
(***************************************************************************)
EXTENDS Naturals

CONSTANTS
    Workers,    \* requests and jobs that run at the same time
    Caches,     \* Redis servers
    NoCache,
    MaxVersion, \* bound: versions of the session
    MaxTime,    \* bound: the clock
    TTL,        \* userCacheTTLSeconds
    ExpiresAt   \* the session's expires_at

ASSUME ConstantsAssumption ==
    /\ NoCache \notin Caches
    /\ MaxVersion \in Nat /\ MaxTime \in Nat /\ ExpiresAt \in Nat
    /\ TTL \in Nat \ {0}

VARIABLES
    now,       \* the clock
    row,       \* the user_sessions row: status and version
    cache,     \* the session's hash in each Redis
    job,       \* each worker's step, node and local variables
    endedAt,   \* history: when each version stopped being valid
    sealed     \* history: each Redis has taken the tombstone of the revoked row

vars == <<now, row, cache, job, endedAt, sealed>>

Versions == 1 .. MaxVersion

Statuses == {"none", "active", "revoked"}
Entry == [status : Statuses \cup {"revoking"}, ver : Nat, exp : Nat]
NoEntry == [status |-> "none", ver |-> 0, exp |-> 0]

\* The steps of a request that publishes an active snapshot.
Filling == {"fill", "eval", "filled", "confirm"}
Steps == Filling \cup
         {"idle", "lookup", "load", "denyWrite", "accepted", "denied",
          "insert", "rotateRead", "rotateUpdate", "advance",
          "candidate", "fence", "commit", "tombstone"}

\* token and start belong to a validation; snap is the version of the row in
\* memory; deadline is cacheDeadline; late says that the validation started
\* after its Redis had taken a revoked tombstone.
Job == [op : {"none", "validate", "write", "revoke", "revokeAll"}, pc : Steps, at : Caches \cup {NoCache},
        token : Nat, start : Nat, snap : Nat, deadline : Nat, late : BOOLEAN]

NoJob == [op |-> "none", pc |-> "idle", at |-> NoCache, token |-> 0, start |-> 0,
          snap |-> 0, deadline |-> 0, late |-> FALSE]

(***************************************************************************)
(* The cache.                                                              *)
(***************************************************************************)

Minimum(a, b) == IF a < b THEN a ELSE b

\* Slip: a delayed fill starts a full lifetime of its own.
Slip_ActiveExpiry(w) == Minimum(now + TTL, ExpiresAt)

\* The PEXPIREAT of an active snapshot.
ActiveExpiry(w) == Minimum(job[w].deadline, ExpiresAt)

\* The PEXPIRE of a deny state, counted from the write.
DenyExpiry ==
    IF now < ExpiresAt THEN Minimum(now + TTL, ExpiresAt) ELSE now + 1

\* Slip: the script compares versions only.
Slip_Refuses(c, status, ver) == cache[c].ver > ver

\* The script's two early returns.  An expired key has no fields.
Refuses(c, status, ver) ==
    \/ status = "active" /\ cache[c].status \in {"revoking", "revoked"}
    \/ cache[c].ver > ver

\* HSET and the expiry; a key whose time has passed is deleted.
Store(c, status, ver, exp) ==
    cache' = [cache EXCEPT ![c] =
                IF exp <= now THEN NoEntry ELSE [status |-> status, ver |-> ver, exp |-> exp]]

Step(w, label) == job' = [job EXCEPT ![w].pc = label]

Done(w) == job' = [job EXCEPT ![w] = NoJob]

\* GetUserSessionCached returns: only the token and the start still matter.
Return(w, outcome) ==
    job' = [job EXCEPT ![w] = [NoJob EXCEPT !.op = "validate", !.pc = outcome, !.at = job[w].at,
                                 !.token = job[w].token, !.start = job[w].start,
                                 !.late = job[w].late]]

\* ValidateLoginSession compares the snapshot's version with the token's.
Answer(w, ver) ==
    Return(w, IF ver = job[w].token /\ now < ExpiresAt THEN "accepted" ELSE "denied")

\* A rotation, a security change or a creation answers its caller; whether it
\* confirms a stale snapshot first changes nothing but the answer.
Finish(w, label) ==
    IF job[w].op = "validate" THEN Step(w, label) ELSE Done(w)

\* A revoker goes on with the row it has read.
ToFence(w, op) ==
    job' = [job EXCEPT ![w] = [NoJob EXCEPT !.op = op, !.pc = "fence", !.at = job[w].at,
                                 !.snap = row.ver]]

\* Slip: only the expiry is compared.
Slip_RowActive == row.status # "none" /\ now < ExpiresAt

\* The row that was read is active, not revoked and not expired.
RowActive == row.status = "active" /\ now < ExpiresAt

(***************************************************************************)
(* ValidateLoginSession and GetUserSessionCached.                          *)
(***************************************************************************)

Validate(w, c, v) ==
    /\ job[w].pc = "idle" /\ v <= row.ver
    /\ job' = [job EXCEPT ![w] = [NoJob EXCEPT !.op = "validate", !.pc = "lookup", !.at = c,
                                    !.token = v, !.start = now, !.late = sealed[c]]]
    /\ UNCHANGED <<now, row, cache, endedAt, sealed>>

\* getUserSessionCache; a miss or a Redis error falls back to the row.
Lookup(w) ==
    LET e == cache[job[w].at] IN
    /\ job[w].pc = "lookup"
    /\ \/ e.status = "active" /\ Answer(w, e.ver)
       \/ e.status \in {"revoking", "revoked"} /\ Return(w, "denied")
       \/ job' = [job EXCEPT ![w].pc = "load", ![w].deadline = now + TTL]
    /\ UNCHANGED <<now, row, cache, endedAt, sealed>>

\* GetUserSessionBySID.
Load(w) ==
    /\ job[w].pc = "load"
    /\ IF RowActive
       THEN job' = [job EXCEPT ![w].pc = "fill", ![w].snap = row.ver]
       ELSE job' = [job EXCEPT ![w].pc = "denyWrite", ![w].snap = row.ver]
    /\ UNCHANGED <<now, row, cache, endedAt, sealed>>

\* writeUserSessionCache of a deny state: taken, refused, or lost with Redis.
WriteDeny(w, status) ==
    LET c == job[w].at IN
    \/ /\ ~ Refuses(c, status, job[w].snap)
       /\ Store(c, status, job[w].snap, DenyExpiry)
       /\ sealed' = [sealed EXCEPT ![c] = @ \/ (status = "revoked" /\ row.status = "revoked")]
    \/ UNCHANGED <<cache, sealed>>

\* The row is revoked or expired: its tombstone, whatever becomes of it.
DenyWrite(w) ==
    /\ job[w].pc = "denyWrite"
    /\ WriteDeny(w, "revoked")
    /\ Return(w, "denied")
    /\ UNCHANGED <<now, row, endedAt>>

\* Slip: the lifetime starts with the fill, not with the read.
Slip_Fill(w) ==
    /\ job[w].pc = "fill"
    /\ job' = [job EXCEPT ![w].pc = "eval", ![w].deadline = now + TTL]
    /\ UNCHANGED <<now, row, cache, endedAt, sealed>>

\* writeUserSessionCache of an active snapshot, up to the script.
Fill(w) ==
    /\ job[w].pc = "fill"
    /\ \/ now >= job[w].deadline /\ Finish(w, "confirm")
       \/ now < job[w].deadline /\ now >= ExpiresAt /\ Finish(w, "denied")
       \/ now < job[w].deadline /\ now < ExpiresAt /\ Step(w, "eval")
    /\ UNCHANGED <<now, row, cache, endedAt, sealed>>

\* The script, or a Redis error, which is logged and leaves the answer alone.
Eval(w) ==
    LET c == job[w].at IN
    /\ job[w].pc = "eval"
    /\ \/ /\ Refuses(c, "active", job[w].snap)
          /\ Finish(w, "denied")
          /\ UNCHANGED cache
       \/ /\ ~ Refuses(c, "active", job[w].snap)
          /\ Store(c, "active", job[w].snap, ActiveExpiry(w))
          /\ Finish(w, "filled")
       \/ /\ IF job[w].op = "validate" THEN Answer(w, job[w].snap) ELSE Done(w)
          /\ UNCHANGED cache
    /\ UNCHANGED <<now, row, endedAt, sealed>>

\* completedAt.
Filled(w) ==
    /\ job[w].pc = "filled"
    /\ IF now >= job[w].deadline THEN Step(w, "confirm") ELSE Answer(w, job[w].snap)
    /\ UNCHANGED <<now, row, cache, endedAt, sealed>>

\* confirmUserSessionActiveSnapshot.
Confirm(w) ==
    /\ job[w].pc = "confirm"
    /\ IF RowActive /\ row.ver = job[w].snap THEN Answer(w, job[w].snap) ELSE Return(w, "denied")
    /\ UNCHANGED <<now, row, cache, endedAt, sealed>>

(***************************************************************************)
(* CreateUserSession, RotateUserSessionRefresh and                         *)
(* AdvanceUserSessionAuthVersion: the deadline comes before the statement. *)
(* They, and the revocations, compare expires_at with the time at which    *)
(* they started; later than that they change nothing.                      *)
(***************************************************************************)

StartWrite(w, c, label, ver) ==
    /\ job[w].pc = "idle" /\ now < ExpiresAt
    /\ job' = [job EXCEPT ![w] = [NoJob EXCEPT !.op = "write", !.pc = label, !.at = c,
                                    !.snap = ver, !.deadline = now + TTL]]
    /\ UNCHANGED <<now, row, cache, endedAt, sealed>>

CreateUserSession(w, c) == row.status = "none" /\ StartWrite(w, c, "insert", 0)
RotateUserSessionRefresh(w, c) == row.status # "none" /\ StartWrite(w, c, "rotateRead", 0)
AdvanceUserSessionAuthVersion(w, c, v) ==
    row.status # "none" /\ v <= row.ver /\ StartWrite(w, c, "advance", v)

\* Slip: the version's default is forgotten.
Slip_Insert(w) ==
    /\ job[w].pc = "insert"
    /\ \/ /\ row.status = "none" /\ now < ExpiresAt /\ MaxVersion > 0
          /\ row' = [row EXCEPT !.status = "active"]
          /\ job' = [job EXCEPT ![w].pc = "fill", ![w].snap = row.ver]
       \/ Done(w) /\ UNCHANGED row
    /\ UNCHANGED <<now, cache, endedAt, sealed>>

\* createUserSessionWithTx.
Insert(w) ==
    /\ job[w].pc = "insert"
    /\ \/ /\ row.status = "none" /\ now < ExpiresAt /\ MaxVersion > 0
          /\ row' = [status |-> "active", ver |-> 1]
          /\ job' = [job EXCEPT ![w].pc = "fill", ![w].snap = 1]
       \/ Done(w) /\ UNCHANGED row
    /\ UNCHANGED <<now, cache, endedAt, sealed>>

\* The presented token is the newest one, a known one whose grace is over, or
\* neither.
RotateRead(w) ==
    /\ job[w].pc = "rotateRead"
    /\ \/ row.status = "active" /\ job' = [job EXCEPT ![w].pc = "rotateUpdate", ![w].snap = row.ver]
       \/ row.status = "active" /\ ToFence(w, "revoke")
       \/ Done(w)
    /\ UNCHANGED <<now, row, cache, endedAt, sealed>>

\* The UPDATE changes the digests, which this module leaves out; the version in
\* memory may be older than the row's.  A lost race reads again.
RotateUpdate(w) ==
    /\ job[w].pc = "rotateUpdate"
    /\ \/ row.status = "active" /\ Step(w, "fill")
       \/ job' = [job EXCEPT ![w].pc = "rotateRead", ![w].deadline = now + TTL]
    /\ UNCHANGED <<now, row, cache, endedAt, sealed>>

\* The transaction compares the version the caller's token carries.
Advance(w) ==
    /\ job[w].pc = "advance"
    /\ \/ /\ row.status = "active" /\ row.ver = job[w].snap /\ row.ver < MaxVersion
          /\ row' = [row EXCEPT !.ver = @ + 1]
          /\ endedAt' = [endedAt EXCEPT ![row.ver] = now]
          /\ job' = [job EXCEPT ![w].pc = "fill", ![w].snap = row.ver + 1]
       \/ Done(w) /\ UNCHANGED <<row, endedAt>>
    /\ UNCHANGED <<now, cache, sealed>>

(***************************************************************************)
(* RevokeUserSession, RevokeUserSessionByRefreshHash and                   *)
(* revokeUserSessions: fence, row, tombstone.                              *)
(***************************************************************************)

StartRevoke(w, c, op) ==
    /\ job[w].pc = "idle" /\ row.status # "none" /\ now < ExpiresAt
    /\ job' = [job EXCEPT ![w] = [NoJob EXCEPT !.op = op, !.pc = "candidate", !.at = c]]
    /\ UNCHANGED <<now, row, cache, endedAt, sealed>>

RevokeUserSession(w, c) == StartRevoke(w, c, "revoke")
RevokeUserSessions(w, c) == StartRevoke(w, c, "revokeAll")

\* The row is read; RevokeUserSessionByRefreshHash may also reject its token.
Candidate(w) ==
    /\ job[w].pc = "candidate"
    /\ \/ row.status = "active" /\ ToFence(w, job[w].op)
       \/ Done(w)
    /\ UNCHANGED <<now, row, cache, endedAt, sealed>>

\* writeUserSessionDenyFence: without the fence nothing is revoked.
Fence(w) ==
    /\ job[w].pc = "fence"
    /\ \/ /\ ~ Refuses(job[w].at, "revoking", job[w].snap)
          /\ Store(job[w].at, "revoking", job[w].snap, DenyExpiry)
          /\ Step(w, "commit")
       \/ Done(w) /\ UNCHANGED cache
    /\ UNCHANGED <<now, row, endedAt, sealed>>

\* The row is revoked unless it already is, or the transaction fails.  The bulk
\* revocation goes on with the row the transaction locked.
Commit(w) ==
    /\ job[w].pc = "commit"
    /\ \/ /\ row.status = "active"
          /\ row' = [row EXCEPT !.status = "revoked"]
          /\ endedAt' = [endedAt EXCEPT ![row.ver] = now]
          /\ job' = [job EXCEPT ![w].pc = "tombstone",
                                ![w].snap = IF job[w].op = "revokeAll" THEN row.ver ELSE @]
       \/ Done(w) /\ UNCHANGED <<row, endedAt>>
    /\ UNCHANGED <<now, cache, sealed>>

\* A tombstone that Redis refuses or loses is only logged.
Tombstone(w) ==
    /\ job[w].pc = "tombstone"
    /\ WriteDeny(w, "revoked")
    /\ Done(w)
    /\ UNCHANGED <<now, row, endedAt>>

(***************************************************************************)
(* The specification.                                                      *)
(***************************************************************************)

\* Keys expire by themselves.
Tick ==
    /\ now < MaxTime
    /\ now' = now + 1
    /\ cache' = [c \in Caches |-> IF cache[c].exp <= now + 1 THEN NoEntry ELSE cache[c]]
    /\ UNCHANGED <<row, job, endedAt, sealed>>

\* The answer has been sent, or the process dies in the middle.
End(w) ==
    /\ job[w].pc # "idle"
    /\ Done(w)
    /\ UNCHANGED <<now, row, cache, endedAt, sealed>>

Init ==
    /\ now = 0
    /\ row = [status |-> "none", ver |-> 0]
    /\ cache = [c \in Caches |-> NoEntry]
    /\ job = [w \in Workers |-> NoJob]
    /\ endedAt = [v \in Versions |-> 0]
    /\ sealed = [c \in Caches |-> FALSE]

Start(w, c) ==
    \/ \E v \in Versions : Validate(w, c, v) \/ AdvanceUserSessionAuthVersion(w, c, v)
    \/ CreateUserSession(w, c) \/ RotateUserSessionRefresh(w, c)
    \/ RevokeUserSession(w, c) \/ RevokeUserSessions(w, c)

Work(w) ==
    \/ Lookup(w) \/ Load(w) \/ DenyWrite(w) \/ Fill(w) \/ Eval(w) \/ Filled(w) \/ Confirm(w)
    \/ Insert(w) \/ RotateRead(w) \/ RotateUpdate(w) \/ Advance(w)
    \/ Candidate(w) \/ Fence(w) \/ Commit(w) \/ Tombstone(w)

Next ==
    \/ Tick
    \/ \E w \in Workers : (\E c \in Caches : Start(w, c)) \/ Work(w) \/ End(w)

Spec == Init /\ [][Next]_vars

(***************************************************************************)
(* Properties.                                                             *)
(***************************************************************************)

TypeOK ==
    /\ now \in Nat
    /\ row \in [status : Statuses, ver : 0 .. MaxVersion]
    /\ row.status = "none" <=> row.ver = 0
    /\ cache \in [Caches -> Entry]
    /\ job \in [Workers -> Job]
    /\ endedAt \in [Versions -> Nat]
    /\ sealed \in [Caches -> BOOLEAN]

\* Version v of the session has been replaced or revoked.
Ended(v) == v < row.ver \/ (v = row.ver /\ row.status = "revoked")

\* The time until which version v may still be accepted.
Horizon(v) == IF Ended(v) THEN endedAt[v] + TTL ELSE now + TTL

\* However reads, fills, fences, failures and crashes interleave on however many
\* Redis servers, a validation that starts one cache lifetime after a version of
\* the session was replaced or revoked does not accept it.
BoundedStaleness ==
    \A w \in Workers :
        job[w].pc = "accepted" /\ Ended(job[w].token) =>
            job[w].start < endedAt[job[w].token] + TTL

\* Once a Redis has taken the tombstone of a revoked session, no validation that
\* starts on it afterwards accepts the session: neither a fill that was delayed
\* past the tombstone's own expiry nor a second revocation brings it back.
RevokedAtOnce ==
    \A w \in Workers : job[w].late => job[w].pc # "accepted"

\* Every active snapshot, in Redis or in the memory of a request, ends within one
\* lifetime of the moment its version was last valid.
SnapshotsBounded ==
    /\ \A c \in Caches : cache[c].status = "active" =>
          /\ cache[c].ver \in 1 .. row.ver
          /\ cache[c].exp <= Horizon(cache[c].ver) /\ cache[c].exp <= ExpiresAt
    /\ \A w \in Workers : job[w].pc \in Filling \cup {"rotateUpdate"} =>
          /\ job[w].snap \in 1 .. row.ver
          /\ job[w].deadline <= Horizon(job[w].snap)

\* What a caller sees of the validations.
Call(w) ==
    IF job[w].op # "validate" THEN [st |-> "idle", token |-> 0, start |-> 0]
    ELSE [st |-> IF job[w].pc \in {"accepted", "denied"} THEN job[w].pc ELSE "asked",
          token |-> job[w].token, start |-> job[w].start]

Authority == INSTANCE SessionAuthority WITH call <- [w \in Workers |-> Call(w)]

\* The caches implement the authority of the row with a bounded delay.
ImplementsAuthority == Authority!Spec

=============================================================================
