-------------------------- MODULE SessionAuthority --------------------------
(***************************************************************************)
(* What the session caches promise: the user_sessions row decides, and a   *)
(* node may go on accepting what the row no longer allows for less than    *)
(* one cache lifetime (docs/authentication.md, the topology of several     *)
(* Redis servers).  Nothing here mentions a cache.                         *)
(***************************************************************************)
EXTENDS Naturals

CONSTANTS
    Workers,    \* requests
    MaxVersion, \* bound: versions of the session
    MaxTime,    \* bound: the clock
    TTL,        \* userCacheTTLSeconds
    ExpiresAt   \* the session's expires_at

VARIABLES
    now,      \* the clock
    row,      \* the user_sessions row: status and version
    endedAt,  \* when each version stopped being valid
    call      \* the validations of the requests

vars == <<now, row, endedAt, call>>

Versions == 1 .. MaxVersion

NoCall == [st |-> "idle", token |-> 0, start |-> 0]

\* Version v of the session has been replaced or revoked.
Ended(v) == v < row.ver \/ (v = row.ver /\ row.status = "revoked")

\* A validation that started at time s may accept version v.
MayAccept(v, s) ==
    /\ v <= row.ver /\ row.status # "none"
    /\ Ended(v) => s < endedAt[v] + TTL
    /\ s < ExpiresAt

Init ==
    /\ now = 0
    /\ row = [status |-> "none", ver |-> 0]
    /\ endedAt = [v \in Versions |-> 0]
    /\ call = [w \in Workers |-> NoCall]

Tick == now < MaxTime /\ now' = now + 1 /\ UNCHANGED <<row, endedAt, call>>

Create ==
    /\ row.status = "none"
    /\ row' = [status |-> "active", ver |-> 1]
    /\ UNCHANGED <<now, endedAt, call>>

Advance ==
    /\ row.status = "active" /\ row.ver < MaxVersion
    /\ endedAt' = [endedAt EXCEPT ![row.ver] = now]
    /\ row' = [row EXCEPT !.ver = @ + 1]
    /\ UNCHANGED <<now, call>>

Revoke ==
    /\ row.status = "active"
    /\ endedAt' = [endedAt EXCEPT ![row.ver] = now]
    /\ row' = [row EXCEPT !.status = "revoked"]
    /\ UNCHANGED <<now, call>>

\* A request presents an access token of version v.
Ask(w, v) ==
    /\ call[w].st = "idle"
    /\ v \in Versions /\ v <= row.ver
    /\ call' = [call EXCEPT ![w] = [st |-> "asked", token |-> v, start |-> now]]
    /\ UNCHANGED <<now, row, endedAt>>

Accept(w) ==
    /\ call[w].st = "asked"
    /\ MayAccept(call[w].token, call[w].start)
    /\ call' = [call EXCEPT ![w].st = "accepted"]
    /\ UNCHANGED <<now, row, endedAt>>

Deny(w) ==
    /\ call[w].st = "asked"
    /\ call' = [call EXCEPT ![w].st = "denied"]
    /\ UNCHANGED <<now, row, endedAt>>

\* The request ends, or its process dies.
End(w) ==
    /\ call' = [call EXCEPT ![w] = NoCall]
    /\ UNCHANGED <<now, row, endedAt>>

Next ==
    \/ Tick \/ Create \/ Advance \/ Revoke
    \/ \E w \in Workers : (\E v \in Versions : Ask(w, v)) \/ Accept(w) \/ Deny(w) \/ End(w)

Spec == Init /\ [][Next]_vars

=============================================================================
