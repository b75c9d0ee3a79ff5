-------------------------- MODULE WebSessionProofs --------------------------
(***************************************************************************)
(* Proofs about WebSession for every number of tabs, sessions, retries,    *)
(* user steps and faults.                                                  *)
(***************************************************************************)
EXTENDS WebSession, TLAPS

(***************************************************************************)
(* The inductive invariant.                                                *)
(***************************************************************************)

\* m speaks of session s.
Mentions(m, s) == s \in {m.exp, m.bearer, m.cookie.sid, m.sid, m.set.sid}

\* What a message carries: only a granted refresh or login hands out a token.
MessageOK(m) ==
    /\ m.set # NoCookie => m.kind \in {"refresh", "login"} /\ m.status = "ok"
    /\ m.kind = "refresh" /\ m.status = "ok" => m.writes
    /\ m.kind = "login" => m.exp = NoSid /\ m.bearer = NoSid /\ m.cookie = NoCookie
    /\ m.kind = "login" /\ m.status = "ok" =>
          m.sid \in Sids /\ m.writes /\ m.set = Newest(m.sid)

Messages == \A m \in net : MessageOK(m)

\* Every session anyone speaks of was created; the rows beyond made are empty;
\* a tab was told only of ends the server has made.
KnownSids ==
    /\ \A s \in Sids : s > made => row[s].status = "none"
    /\ \A t \in Tabs : store[t].sid <= made
    /\ \A t \in Tabs : \A s \in told[t] : row[s].status = "revoked"
    /\ cookie.sid <= made
    /\ \A m \in net : \A s \in Sids : Mentions(m, s) => s <= made

\* m is a refresh its page still waits for.
Pending(m) == m.kind = "refresh" /\ m.live

\* A page waits for at most one refresh message, the one of its runner.
OneRefresh ==
    /\ \A t \in Tabs : ref[t].st = "waiting" => ref[t].race < RaceRetries
    /\ \A m \in net : Pending(m) => ref[m.tab].st = "sent"
    /\ \A m, n \in net : Pending(m) /\ Pending(n) /\ m.tab = n.tab => m = n

\* A refresh the page still accepts was granted before the page was told of the
\* end of that session.
GrantsAreValid ==
    \A m \in net :
        Pending(m) /\ m.status = "ok" /\ ref[m.tab].current => m.sid \notin told[m.tab]

\* m is the answer of a successful login.
NewLogin(m) == m.kind = "login" /\ m.status = "ok"

\* Until the answer of a login arrives nobody else knows its session.
LoginsAreNew ==
    \A m \in net :
        NewLogin(m) =>
            /\ \A t \in Tabs : store[t].sid # m.sid /\ m.sid \notin told[t]
            /\ cookie.sid # m.sid
            /\ \A n \in net : n # m => ~ Mentions(n, m.sid)

\* The page that waits for a refresh answer holds the Web Lock.
SenderHoldsLock == \A t \in Tabs : ref[t].st = "sent" => HoldsLock(t)

\* As long as no refresh answer is lost, the newest token is in the cookie or on
\* its way to it, and no refresh carries an older one.
TokenIsNewest ==
    ~ lost =>
        /\ \A m \in net : m.kind = "refresh" => m.live
        /\ \A m \in net : m.kind = "refresh" /\ m.status = "request" => m.cookie.age = 0
        /\ \A m \in net : m.set.age = 0
        /\ cookie.age = 0 \/ \E m \in net : m.kind = "refresh" /\ m.status = "ok"

\* The sessions in messages, cookie, stores and rows.
SidsOK == Messages /\ KnownSids /\ LoginsAreNew

\* The runners and their messages.
RefreshesOK == OneRefresh /\ GrantsAreValid

\* The sessions shown.
UsersOK == SignedOutStaysOut

\* What the Web Lock adds.
LocksOK == SenderHoldsLock /\ TokenIsNewest /\ ReuseNeedsLoss

Inv ==
    /\ TypeOK /\ SidsOK /\ RefreshesOK /\ UsersOK
    /\ HasLocks => LocksOK

-----------------------------------------------------------------------------
(* Operators.                                                              *)

USE ConstantsAssumption

\* The other tabs keep their order in the lock's queue.
LEMMA LeaveQueue ==
    ASSUME lockq \in Seq(Tabs), NEW t \in Tabs
    PROVE  /\ Leave(t) \in Seq(Tabs)
           /\ \A u \in Tabs : u # t /\ lockq # <<>> /\ Head(lockq) = u =>
                 Leave(t) # <<>> /\ Head(Leave(t)) = u
<1>1. CASE \E i \in DOMAIN lockq : lockq[i] = t
  <2>1. PICK i \in DOMAIN lockq : lockq[i] = t /\ i = CHOOSE j \in DOMAIN lockq : lockq[j] = t
    BY <1>1
  <2>2. Leave(t) = SubSeq(lockq, 1, i - 1) \o SubSeq(lockq, i + 1, Len(lockq))
    BY <1>1, <2>1 DEF Leave
  <2>3. i \in Nat /\ 1 <= i /\ i <= Len(lockq) /\ Len(lockq) \in Nat
    BY <2>1
  <2>4. SubSeq(lockq, 1, i - 1) \in Seq(Tabs) /\ SubSeq(lockq, i + 1, Len(lockq)) \in Seq(Tabs)
    BY <2>3
  <2>5. ASSUME NEW u \in Tabs, u # t, lockq # <<>>, Head(lockq) = u
        PROVE  Leave(t) # <<>> /\ Head(Leave(t)) = u
    <3>1. i # 1
      BY <2>1, <2>5
    <3>2. Len(SubSeq(lockq, 1, i - 1)) = i - 1 /\ SubSeq(lockq, 1, i - 1)[1] = lockq[1]
      BY <2>3, <3>1
    <3> QED
      BY <2>2, <2>3, <2>4, <2>5, <3>1, <3>2
  <2> QED
    BY <2>2, <2>4, <2>5
<1>2. CASE ~ \E i \in DOMAIN lockq : lockq[i] = t
  BY <1>2 DEF Leave
<1> QED
  BY <1>1, <1>2

LEMMA TokenTypes ==
    /\ NoSid \in Sid0 /\ NoCookie \in Token
    /\ \A s \in Sid0 : Newest(s) \in Token
BY DEF NoSid, NoCookie, Sid0, Sids, Token, Newest

LEMMA OlderToken ==
    ASSUME NEW k \in Token, NEW s \in Sid0
    PROVE  Older(k, s) \in Token /\ Older(k, s).sid = k.sid /\ (k.sid # s => Older(k, s) = k)
BY DEF Token, Older

LEMMA StoreTypes ==
    /\ \A b \in {"idle", "checking", "complete"} : SignedOut(b) \in Store
    /\ \A s \in Sid0, u \in Sid0, v \in 0 .. 1 : Bundle(s, u, v) \in Store
BY TokenTypes DEF SignedOut, Bundle, Store

LEMMA RefreshTypes ==
    NoRefresh \in Refresh /\ [NoRefresh EXCEPT !.st = "queued"] \in Refresh
<1>1. NoRefresh \in Refresh
  BY DEF NoRefresh, Refresh
<1> QED
  BY <1>1 DEF Refresh

LEMMA NewPageType == NewPage \in Page
BY TokenTypes DEF NewPage, Page

LEMMA NewRowType == NewRow \in Row /\ [NewRow EXCEPT !.status = "none"] \in Row
<1>1. NewRow \in Row
  BY DEF NewRow, Row
<1> QED
  BY <1>1 DEF Row

\* x is a request of t's page: it speaks of the session shown and of the cookie's.
IsRequest(t, kind, x) ==
    /\ x \in Message
    /\ x.kind = kind /\ x.tab = t /\ x.live /\ x.status = "request"
    /\ x.sid = NoSid /\ ~ x.writes /\ x.set = NoCookie
    /\ x.exp \in {NoSid, store[t].sid} /\ x.bearer \in {NoSid, store[t].sid}
    /\ x.cookie \in {NoCookie, cookie}
    /\ kind \notin {"refresh", "logout"} => x.exp = NoSid /\ x.cookie = NoCookie
    /\ kind = "login" => x.bearer = NoSid

LEMMA RequestMade ==
    ASSUME TypeOK, NEW t \in Tabs, NEW kind \in {"refresh", "login", "logout", "change", "save"}
    PROVE  /\ IsRequest(t, kind, Request(t, kind))
           /\ IsRequest(t, kind, [Request(t, kind) EXCEPT !.exp = NoSid])
<1>1. store[t].sid \in Sid0 /\ Bearer(t) \in {NoSid, store[t].sid} /\ store[t].ver \in 0 .. 1
  BY DEF TypeOK, Store, Bearer
<1>2. NoSid \in Sid0 /\ NoCookie \in Token /\ cookie \in Token
  BY TokenTypes DEF TypeOK
<1> DEFINE x == Request(t, kind)
           y == [x EXCEPT !.exp = NoSid]
<1>3. x \in Message
  BY <1>1, <1>2 DEF Request, Message
<1>4. IsRequest(t, kind, x)
  BY <1>1, <1>3 DEF Request, IsRequest
<1>5. y \in Message
  <2> HIDE DEF x
  <2> QED
    BY <1>2, <1>3 DEF Message
<1>6. /\ y.kind = x.kind /\ y.tab = x.tab /\ y.live = x.live /\ y.status = x.status
      /\ y.sid = x.sid /\ y.writes = x.writes /\ y.set = x.set /\ y.exp = NoSid
      /\ y.bearer = x.bearer /\ y.cookie = x.cookie
  <2> HIDE DEF x
  <2> QED
    BY <1>3 DEF Message
<1>7. IsRequest(t, kind, y)
  <2> HIDE DEF x, y
  <2> QED
    BY <1>4, <1>5, <1>6 DEF IsRequest
<1> QED
  BY <1>4, <1>7

\* x answers m: it speaks of no session m does not speak of.
IsAnswer(m, status, sid, x) ==
    /\ x \in Message
    /\ x.kind = m.kind /\ x.tab = m.tab /\ x.live = m.live
    /\ x.status = status /\ x.sid = sid
    /\ x.exp = NoSid /\ x.bearer = NoSid /\ x.cookie = NoCookie

LEMMA AnswerMade ==
    ASSUME TypeOK, NEW m \in net, NEW status \in Answers, NEW sid \in Sid0
    PROVE  LET x == Answer(m, status, sid) IN
           /\ IsAnswer(m, status, sid, x) /\ x.writes = m.writes /\ x.set = m.set
           /\ \A k \in Token : /\ IsAnswer(m, status, sid, WithCookie(x, k))
                               /\ WithCookie(x, k).writes /\ WithCookie(x, k).set = k
<1> DEFINE v == IF sid = NoSid THEN 0 ELSE row[sid].ver
<1>1. v \in 0 .. 1
  BY DEF TypeOK, Row, Sid0
<1>2. NoSid \in Sid0 /\ NoCookie \in Token /\ m \in Message
  BY TokenTypes DEF TypeOK
<1>3. Answer(m, status, sid) =
        [m EXCEPT !.status = status, !.sid = sid, !.ver = v,
                  !.exp = NoSid, !.bearer = NoSid, !.cookie = NoCookie]
  BY DEF Answer
<1> HIDE DEF v
<1> DEFINE x == Answer(m, status, sid)
<1>4. IsAnswer(m, status, sid, x) /\ x.writes = m.writes /\ x.set = m.set
  <2>1. x \in Message
    BY <1>1, <1>2, <1>3 DEF Message
  <2>2. /\ x.kind = m.kind /\ x.tab = m.tab /\ x.live = m.live
        /\ x.status = status /\ x.sid = sid
    BY <1>2, <1>3 DEF Message
  <2>3. /\ x.exp = NoSid /\ x.bearer = NoSid /\ x.cookie = NoCookie
        /\ x.writes = m.writes /\ x.set = m.set
    BY <1>2, <1>3 DEF Message
  <2> QED
    BY <2>1, <2>2, <2>3 DEF IsAnswer
<1> HIDE DEF x
<1>5. ASSUME NEW k \in Token
      PROVE  /\ IsAnswer(m, status, sid, WithCookie(x, k))
             /\ WithCookie(x, k).writes /\ WithCookie(x, k).set = k
  BY <1>4 DEF IsAnswer, Message, WithCookie
<1> QED
  BY <1>4, <1>5 DEF x

Aged(m, s) == [m EXCEPT !.cookie = Older(@, s), !.set = Older(@, s)]
Orphan(m) == [m EXCEPT !.live = FALSE]

\* n is m with other tokens of the same sessions, or without its page.
IsCopy(m, n) ==
    /\ n \in Message
    /\ n.kind = m.kind /\ n.tab = m.tab /\ n.exp = m.exp /\ n.bearer = m.bearer
    /\ n.status = m.status /\ n.sid = m.sid /\ n.writes = m.writes
    /\ n.cookie.sid = m.cookie.sid /\ n.set.sid = m.set.sid

LEMMA AgedMade ==
    ASSUME NEW m \in Message, NEW s \in Sid0
    PROVE  /\ IsCopy(m, Aged(m, s)) /\ Aged(m, s).live = m.live
           /\ m.cookie.sid # s => Aged(m, s).cookie = m.cookie
           /\ m.set.sid # s => Aged(m, s).set = m.set
<1>1. m.cookie \in Token /\ m.set \in Token
  BY DEF Message
<1>2. Older(m.cookie, s) \in Token /\ Older(m.set, s) \in Token
  BY <1>1, OlderToken
<1>3. Aged(m, s) = [m EXCEPT !.cookie = Older(m.cookie, s), !.set = Older(m.set, s)]
  BY DEF Aged
<1>4. Aged(m, s) \in Message
  BY <1>2, <1>3 DEF Message
<1>5. Aged(m, s).cookie = Older(m.cookie, s) /\ Aged(m, s).set = Older(m.set, s)
  BY <1>3 DEF Message
<1>6. LET n == Aged(m, s) IN
        /\ n.kind = m.kind /\ n.tab = m.tab /\ n.exp = m.exp /\ n.bearer = m.bearer
        /\ n.status = m.status /\ n.sid = m.sid /\ n.writes = m.writes /\ n.live = m.live
  BY <1>3 DEF Message
<1> QED
  BY <1>1, <1>4, <1>5, <1>6, OlderToken DEF IsCopy

LEMMA OrphanMade ==
    ASSUME NEW m \in Message
    PROVE  /\ IsCopy(m, Orphan(m)) /\ ~ Orphan(m).live
           /\ Orphan(m).cookie = m.cookie /\ Orphan(m).set = m.set
<1>1. Orphan(m) \in Message
  BY DEF Message, Orphan
<1>2. LET n == Orphan(m) IN
        /\ n.kind = m.kind /\ n.tab = m.tab /\ n.exp = m.exp /\ n.bearer = m.bearer
        /\ n.status = m.status /\ n.sid = m.sid /\ n.writes = m.writes
  BY DEF Message, Orphan
<1>3. ~ Orphan(m).live /\ Orphan(m).cookie = m.cookie /\ Orphan(m).set = m.set
  BY DEF Message, Orphan
<1> QED
  BY <1>1, <1>2, <1>3 DEF IsCopy

-----------------------------------------------------------------------------
(* What the building blocks of the actions do to each tab.                 *)

\* t's entry of the lock's queue is gone, the order of the others is kept.
Left(t) ==
    /\ lockq' \in Seq(Tabs)
    /\ \A u \in Tabs : u # t /\ lockq # <<>> /\ Head(lockq) = u =>
          lockq' # <<>> /\ Head(lockq') = u

LEMMA Finished ==
    ASSUME TypeOK, NEW t \in Tabs, NEW outcome \in Outcomes, FinishRefresh(t, outcome)
    PROVE  /\ ref' \in [Tabs -> Refresh] /\ page' \in [Tabs -> Page]
           /\ ref'[t] = NoRefresh /\ \A u \in Tabs : u # t => ref'[u] = ref[u]
           /\ Left(t)
<1>1. ref' \in [Tabs -> Refresh] /\ ref'[t] = NoRefresh /\ \A u \in Tabs : u # t => ref'[u] = ref[u]
  BY RefreshTypes DEF FinishRefresh, TypeOK
<1>2. page' \in [Tabs -> Page]
  <2>1. page[t] \in Page
    BY DEF TypeOK
  <2> DEFINE p == [page[t] EXCEPT !.load = "mounted",
                     !.call = IF @ = "refreshing" THEN outcome ELSE @,
                     !.out = IF @ = "refreshing" THEN outcome ELSE @]
  <2>2. p \in Page
    BY <2>1 DEF Page
  <2>3. page' = [page EXCEPT ![t] = p]
    BY DEF FinishRefresh
  <2> HIDE DEF p
  <2> QED
    BY <2>2, <2>3 DEF TypeOK
<1>3. Left(t)
  <2>1. lockq' = Leave(t) /\ lockq \in Seq(Tabs)
    BY DEF FinishRefresh, TypeOK
  <2> QED
    BY <2>1, LeaveQueue DEF Left
<1> QED
  BY <1>1, <1>2, <1>3

LEMMA Started ==
    ASSUME TypeOK, NEW t \in Tabs, StartRefresh(t)
    PROVE  /\ ref' \in [Tabs -> Refresh] /\ lockq' \in Seq(Tabs)
           /\ \A u \in Tabs : u # t => ref'[u] = ref[u]
           /\ ref'[t] = ref[t] \/ (ref[t].st = "none" /\ ref'[t].st = "queued")
           /\ lockq # <<>> => lockq' # <<>> /\ Head(lockq') = Head(lockq)
<1>1. CASE ref[t].st = "none"
  <2>1. ref' = [ref EXCEPT ![t] = [NoRefresh EXCEPT !.st = "queued"]]
    BY <1>1 DEF StartRefresh
  <2>2. [NoRefresh EXCEPT !.st = "queued"].st = "queued"
    BY DEF NoRefresh
  <2>3. ref' \in [Tabs -> Refresh] /\ ref'[t].st = "queued" /\ \A u \in Tabs : u # t => ref'[u] = ref[u]
    BY <2>1, <2>2, RefreshTypes DEF TypeOK
  <2>4. lockq' = Append(lockq, t) \/ lockq' = lockq
    BY <1>1 DEF StartRefresh
  <2>5. /\ lockq' \in Seq(Tabs)
        /\ lockq # <<>> => lockq' # <<>> /\ Head(lockq') = Head(lockq)
    <3>1. lockq \in Seq(Tabs)
      BY DEF TypeOK
    <3>2. Append(lockq, t) \in Seq(Tabs) /\ Append(lockq, t) # <<>>
      BY <3>1
    <3>3. lockq # <<>> => Append(lockq, t)[1] = lockq[1]
      BY <3>1
    <3> QED
      BY <2>4, <3>1, <3>2, <3>3
  <2> QED
    BY <1>1, <2>3, <2>5
<1>2. CASE ref[t].st # "none"
  BY <1>2 DEF StartRefresh, TypeOK
<1> QED
  BY <1>1, <1>2

LEMMA Superseded ==
    ASSUME TypeOK, NEW t \in Tabs
    PROVE  /\ Supersede(t) \in [Tabs -> Refresh]
           /\ \A u \in Tabs : u # t => Supersede(t)[u] = ref[u]
           /\ ~ Supersede(t)[t].current
           /\ Supersede(t)[t].st = ref[t].st /\ Supersede(t)[t].race = ref[t].race
<1>1. ref[t] \in Refresh /\ ref \in [Tabs -> Refresh]
  BY DEF TypeOK
<1> DEFINE r == [ref[t] EXCEPT !.current = FALSE]
<1>2. r \in Refresh /\ ~ r.current /\ r.st = ref[t].st /\ r.race = ref[t].race
  BY <1>1 DEF Refresh
<1>3. Supersede(t) = [ref EXCEPT ![t] = r]
  BY DEF Supersede
<1> HIDE DEF r
<1> QED
  BY <1>1, <1>2, <1>3

LEMMA Published ==
    ASSUME TypeOK, NEW t \in Tabs, NEW kind \in {"authenticated", "signed_out"},
           NEW sid \in Sid0, Publish(t, kind, sid)
    PROVE  inbox' \in [Tabs -> Seq(Event)]
<1>1. sid # NoSid => [kind |-> kind, sid |-> sid] \in Event
  BY DEF Event, Sid0
<1> QED
  BY <1>1 DEF Publish, TypeOK

\* t learned of the end of at most the session sid, which the server has ended.
LEMMA Learned ==
    ASSUME TypeOK, NEW t \in Tabs, NEW sid, Tell(t, sid)
    PROVE  /\ told' \in [Tabs -> SUBSET Sids]
           /\ \A u \in Tabs : u # t => told'[u] = told[u]
           /\ \A s \in told'[t] : s \in told[t] \/ (s = sid /\ row[s].status = "revoked")
BY DEF Tell, TypeOK

\* What a new document leaves behind.
Unloaded(t) ==
    /\ store' \in [Tabs -> Store] /\ ref' \in [Tabs -> Refresh] /\ page' \in [Tabs -> Page]
    /\ inbox' \in [Tabs -> Seq(Event)] /\ lost' \in BOOLEAN
    /\ store'[t].sid = NoSid /\ store'[t].user = NoSid /\ ref'[t] = NoRefresh
    /\ \A u \in Tabs : u # t => store'[u] = store[u] /\ ref'[u] = ref[u]
    /\ Left(t)
    /\ net' = {IF m.tab = t THEN Orphan(m) ELSE m : m \in net}

LEMMA Unloads ==
    ASSUME TypeOK, NEW t \in Tabs, Unload(t)
    PROVE  Unloaded(t)
<1>1. /\ store' \in [Tabs -> Store] /\ store'[t] = SignedOut("idle")
      /\ \A u \in Tabs : u # t => store'[u] = store[u]
  BY StoreTypes DEF Unload, TypeOK
<1>2. store'[t].sid = NoSid /\ store'[t].user = NoSid
  BY <1>1 DEF SignedOut
<1>3. /\ ref' \in [Tabs -> Refresh] /\ ref'[t] = NoRefresh
      /\ \A u \in Tabs : u # t => ref'[u] = ref[u]
  BY RefreshTypes DEF Unload, TypeOK
<1>4. page' \in [Tabs -> Page]
  BY NewPageType DEF Unload, TypeOK
<1>5. inbox' \in [Tabs -> Seq(Event)]
  BY DEF Unload, TypeOK
<1>6. Left(t)
  BY LeaveQueue DEF Unload, TypeOK, Left
<1>7. lost' \in BOOLEAN
  BY DEF Unload
<1>8. net' = {IF m.tab = t THEN Orphan(m) ELSE m : m \in net}
  BY DEF Unload, Orphan
<1> QED
  BY <1>1, <1>2, <1>3, <1>4, <1>5, <1>6, <1>7, <1>8 DEF Unloaded

-----------------------------------------------------------------------------
(* Type correctness.                                                       *)

USE DEF client, browser, server, history, budgets

LEMMA SentType ==
    ASSUME TypeOK, NEW t \in Tabs, NEW kind \in {"refresh", "login", "logout", "change", "save"}
    PROVE  net \cup {Request(t, kind)} \subseteq Message
<1>1. IsRequest(t, kind, Request(t, kind))
  BY RequestMade
<1> QED
  BY <1>1 DEF IsRequest, TypeOK

LEMMA TypeRunRefresh ==
    ASSUME TypeOK, NEW t \in Tabs, RunRefresh(t)
    PROVE  TypeOK'
<1>1. CASE IsCurrent(t)
  <2>1. net' \subseteq Message
    <3>1. net' = net \cup {Request(t, "refresh")}
      BY <1>1 DEF RunRefresh
    <3> QED
      BY <3>1, SentType
  <2>2. ref' \in [Tabs -> Refresh]
    <3>1. ref[t] \in Refresh
      BY DEF TypeOK
    <3>2. [ref[t] EXCEPT !.st = "sent"] \in Refresh
      BY <3>1 DEF Refresh
    <3>3. ref' = [ref EXCEPT ![t] = [ref[t] EXCEPT !.st = "sent"]]
      BY <1>1 DEF RunRefresh
    <3> QED
      BY <3>2, <3>3 DEF TypeOK
  <2> QED
    BY <1>1, <2>1, <2>2 DEF RunRefresh, TypeOK
<1>2. CASE ~ IsCurrent(t)
  <2>1. FinishRefresh(t, "transient") /\ "transient" \in Outcomes
    BY <1>2 DEF RunRefresh, Outcomes
  <2>2. ref' \in [Tabs -> Refresh] /\ page' \in [Tabs -> Page] /\ lockq' \in Seq(Tabs)
    BY <2>1, Finished DEF Left
  <2> QED
    BY <1>2, <2>2 DEF RunRefresh, TypeOK
<1> QED
  BY <1>1, <1>2

LEMMA TypeRaceDelayEnds ==
    ASSUME TypeOK, OneRefresh, NEW t \in Tabs, RaceDelayEnds(t)
    PROVE  TypeOK'
<1>1. ref[t] \in Refresh /\ ref[t].race < RaceRetries
  BY DEF TypeOK, OneRefresh, RaceDelayEnds
<1>2. [ref[t] EXCEPT !.st = "queued", !.race = @ + 1] \in Refresh
  <2>1. ref[t].race + 1 \in 0 .. RaceRetries
    BY <1>1 DEF Refresh
  <2> QED
    BY <1>1, <2>1 DEF Refresh
<1>3. ref' = [ref EXCEPT ![t] = [ref[t] EXCEPT !.st = "queued", !.race = @ + 1]]
  BY DEF RaceDelayEnds
<1>4. ref' \in [Tabs -> Refresh]
  BY <1>2, <1>3 DEF TypeOK
<1> QED
  BY <1>4 DEF RaceDelayEnds, TypeOK

\* A store field of one tab changes that is neither the session nor the user.
LEMMA StoreKept ==
    ASSUME TypeOK, NEW t \in Tabs
    PROVE  /\ \A b \in {"idle", "checking", "complete"} :
                 LET st == [store EXCEPT ![t].boot = b] IN
                 /\ st \in [Tabs -> Store]
                 /\ \A u \in Tabs : st[u].sid = store[u].sid /\ st[u].user = store[u].user
           /\ LET st == [store EXCEPT ![t].fresh = FALSE] IN
                 /\ st \in [Tabs -> Store]
                 /\ \A u \in Tabs : st[u].sid = store[u].sid /\ st[u].user = store[u].user
<1>1. store \in [Tabs -> Store] /\ store[t] \in Store
  BY DEF TypeOK
<1>2. ASSUME NEW b \in {"idle", "checking", "complete"}
      PROVE  LET s == [store[t] EXCEPT !.boot = b] IN
             s \in Store /\ s.sid = store[t].sid /\ s.user = store[t].user
  BY <1>1 DEF Store
<1>3. LET s == [store[t] EXCEPT !.fresh = FALSE] IN
      s \in Store /\ s.sid = store[t].sid /\ s.user = store[t].user
  BY <1>1 DEF Store
<1> QED
  BY <1>1, <1>2, <1>3

\* The sessions shown stay, and their users but for one a card writes back.
SameSids ==
    \A t \in Tabs :
        /\ store'[t].sid = store[t].sid
        /\ \/ store'[t].user = store[t].user
           \/ page[t].save # NoSid /\ store'[t].user = page[t].save

\* One field of a page changes.
LEMMA PageSet ==
    ASSUME TypeOK, NEW t \in Tabs
    PROVE  /\ \A x \in {"booting", "mounted"} : [page EXCEPT ![t].load = x] \in [Tabs -> Page]
           /\ \A x \in {"none", "refreshing", "resent", "refused"} :
                 [page EXCEPT ![t].call = x] \in [Tabs -> Page]
           /\ \A x \in {"none", "sent"}, y \in Sid0 :
                 [page EXCEPT ![t].call = x, ![t].save = y] \in [Tabs -> Page]
           /\ \A x \in {"none", "sent", "refreshing", "resent"} :
                 [page EXCEPT ![t].out = x] \in [Tabs -> Page]
           /\ \A x \in {"none", "form", "wechat"} : [page EXCEPT ![t].login = x] \in [Tabs -> Page]
           /\ \A x \in BOOLEAN : [page EXCEPT ![t].change = x] \in [Tabs -> Page]
<1>1. page \in [Tabs -> Page] /\ page[t] \in Page
  BY DEF TypeOK
<1>2. ASSUME NEW x \in {"booting", "mounted"} PROVE [page[t] EXCEPT !.load = x] \in Page
  BY <1>1 DEF Page
<1>3. ASSUME NEW x \in {"none", "refreshing", "resent", "refused"}
      PROVE  [page[t] EXCEPT !.call = x] \in Page
  BY <1>1 DEF Page
<1>7. ASSUME NEW x \in {"none", "sent"}, NEW y \in Sid0
      PROVE  [page[t] EXCEPT !.call = x, !.save = y] \in Page
  BY <1>1 DEF Page
<1>4. ASSUME NEW x \in {"none", "sent", "refreshing", "resent"}
      PROVE  [page[t] EXCEPT !.out = x] \in Page
  BY <1>1 DEF Page
<1>5. ASSUME NEW x \in {"none", "form", "wechat"} PROVE [page[t] EXCEPT !.login = x] \in Page
  BY <1>1 DEF Page
<1>6. ASSUME NEW x \in BOOLEAN PROVE [page[t] EXCEPT !.change = x] \in Page
  BY <1>1 DEF Page
<1> QED
  BY <1>1, <1>2, <1>3, <1>4, <1>5, <1>6, <1>7

LEMMA Resolved ==
    ASSUME TypeOK, NEW t \in Tabs, Resolve(t)
    PROVE  store' \in [Tabs -> Store] /\ SameSids /\ StartRefresh(t)
BY StoreKept DEF Resolve, SameSids

LEMMA TypeBootstrap ==
    ASSUME TypeOK, NEW t \in Tabs, BootstrapAuthentication(t)
    PROVE  TypeOK'
<1>1. page' \in [Tabs -> Page]
  <2>1. CASE page' = [page EXCEPT ![t].load = "booting"]
    BY <2>1, PageSet
  <2>2. CASE page' = [page EXCEPT ![t].load = "mounted"]
    BY <2>2, PageSet
  <2> QED
    BY <2>1, <2>2 DEF BootstrapAuthentication
<1>2. store' \in [Tabs -> Store] /\ ref' \in [Tabs -> Refresh] /\ lockq' \in Seq(Tabs)
  <2>1. CASE hint /\ Resolve(t)
    BY <2>1, Resolved, Started
  <2>2. CASE UNCHANGED <<store, ref, lockq>>
    BY <2>2 DEF TypeOK
  <2> QED
    BY <2>1, <2>2 DEF BootstrapAuthentication
<1> QED
  BY <1>1, <1>2 DEF BootstrapAuthentication, TypeOK

LEMMA TypeCalls ==
    ASSUME TypeOK, NEW t \in Tabs,
           CallUnauthorized(t) \/ AnonymousCall(t) \/ Navigate(t) \/ GetFreshAuthHeaders(t)
    PROVE  TypeOK'
<1>1. CASE CallUnauthorized(t) \/ AnonymousCall(t)
  <2>0. page' = [page EXCEPT ![t].call = "refreshing"] /\ StartRefresh(t)
    BY <1>1 DEF CallUnauthorized, AnonymousCall
  <2>1. page' \in [Tabs -> Page] /\ StartRefresh(t)
    BY <2>0, PageSet
  <2>2. ref' \in [Tabs -> Refresh] /\ lockq' \in Seq(Tabs)
    BY <2>1, Started
  <2>3. ops' \in 0 .. MaxOps
    BY <1>1 DEF CallUnauthorized, AnonymousCall, TypeOK
  <2> QED
    BY <1>1, <2>1, <2>2, <2>3 DEF CallUnauthorized, AnonymousCall, TypeOK
<1>2. CASE Navigate(t)
  <2>1. store' \in [Tabs -> Store] /\ StartRefresh(t)
    BY <1>2, Resolved DEF Navigate
  <2>2. ref' \in [Tabs -> Refresh] /\ lockq' \in Seq(Tabs)
    BY <2>1, Started
  <2> QED
    BY <1>2, <2>1, <2>2 DEF Navigate, TypeOK
<1>3. CASE GetFreshAuthHeaders(t)
  <2>1. StartRefresh(t)
    BY <1>3 DEF GetFreshAuthHeaders
  <2>2. ref' \in [Tabs -> Refresh] /\ lockq' \in Seq(Tabs)
    BY <2>1, Started
  <2>3. ops' \in 0 .. MaxOps
    BY <1>3 DEF GetFreshAuthHeaders, TypeOK
  <2> QED
    BY <1>3, <2>2, <2>3 DEF GetFreshAuthHeaders, TypeOK
<1> QED
  BY <1>1, <1>2, <1>3

LEMMA UnloadedNet ==
    ASSUME TypeOK, NEW t \in Tabs, Unloaded(t)
    PROVE  net' \subseteq Message
BY OrphanMade DEF TypeOK, Unloaded, IsCopy

\* The five things the interceptor does when its refresh has settled.
LEMMA Settled ==
    ASSUME TypeOK, NEW t \in Tabs, CallSettles(t)
    PROVE  /\ UNCHANGED <<browser, server, budgets>>
           /\ \/ Unload(t) /\ told' = told
              \/ /\ page' \in [Tabs -> Page] /\ UNCHANGED <<inbox, lockq, lost>>
                 /\ \/ UNCHANGED <<store, ref, net, told>>
                    \/ UNCHANGED <<store, ref, told>> /\ net' = net \cup {Request(t, "save")}
                    \/ /\ store' = [store EXCEPT ![t] = SignedOut("complete")]
                       /\ ref' = Supersede(t) /\ Tell(t, store[t].sid) /\ UNCHANGED net
<1>1. CASE page[t].call = "authenticated" /\ page[t].save = NoSid
  <2>1. PICK x \in {"none", "refreshing", "resent", "refused"} :
          page' = [page EXCEPT ![t].call = x]
    BY <1>1 DEF CallSettles
  <2>2. [page EXCEPT ![t].call = x] \in [Tabs -> Page]
    BY PageSet
  <2>3. page' \in [Tabs -> Page]
    BY <2>1, <2>2
  <2> QED
    BY <1>1, <2>3 DEF CallSettles
<1>2. CASE page[t].call = "authenticated" /\ page[t].save # NoSid
  <2>1. page' = [page EXCEPT ![t].call = "resent"]
    BY <1>2 DEF CallSettles
  <2>2. page' \in [Tabs -> Page]
    BY <2>1, PageSet
  <2> QED
    BY <1>2, <2>2 DEF CallSettles
<1>3. CASE /\ page[t].call # "authenticated"
           /\ page' = [page EXCEPT ![t].call = "none", ![t].save = NoSid]
  <2>1. [page EXCEPT ![t].call = "none", ![t].save = NoSid] \in [Tabs -> Page]
    BY PageSet, TokenTypes
  <2> QED
    BY <1>3, <2>1 DEF CallSettles
<1> QED
  BY <1>1, <1>2, <1>3 DEF CallSettles

LEMMA TypeReloads ==
    ASSUME TypeOK, NEW t \in Tabs, CallSettles(t) \/ Reload(t)
    PROVE  TypeOK'
<1>1. CASE Unload(t) /\ told' = told
  <2>1. Unloaded(t) /\ net' \subseteq Message
    BY <1>1, Unloads, UnloadedNet
  <2>2. ops' \in 0 .. MaxOps /\ UNCHANGED <<browser, server, faults>>
    BY DEF CallSettles, Reload, TypeOK
  <2> QED
    BY <1>1, <2>1, <2>2 DEF Unloaded, Left, TypeOK
<1>2. CASE CallSettles(t) /\ ~ (Unload(t) /\ told' = told)
  <2>1. page' \in [Tabs -> Page] /\ UNCHANGED <<inbox, lockq, lost, browser, server, budgets>>
    BY <1>2, Settled
  <2>2. CASE UNCHANGED <<store, ref, net, told>>
    BY <2>1, <2>2 DEF TypeOK
  <2>3. CASE UNCHANGED <<store, ref, told>> /\ net' = net \cup {Request(t, "save")}
    <3>1. net' \subseteq Message
      BY <2>3, SentType
    <3> QED
      BY <2>1, <2>3, <3>1 DEF TypeOK
  <2>4. CASE /\ store' = [store EXCEPT ![t] = SignedOut("complete")]
             /\ ref' = Supersede(t) /\ Tell(t, store[t].sid) /\ UNCHANGED net
    <3>1. store' \in [Tabs -> Store]
      BY <2>4, StoreTypes DEF TypeOK
    <3>2. ref' \in [Tabs -> Refresh] /\ told' \in [Tabs -> SUBSET Sids]
      BY <2>4, Superseded, Learned
    <3> QED
      BY <2>1, <2>4, <3>1, <3>2 DEF TypeOK
  <2> QED
    BY <1>2, <2>2, <2>3, <2>4, Settled
<1> QED
  BY <1>1, <1>2 DEF Reload

LEMMA SignsOut ==
    ASSUME TypeOK, NEW t \in Tabs, SignOut(t)
    PROVE  /\ store' \in [Tabs -> Store] /\ ref' \in [Tabs -> Refresh] /\ page' \in [Tabs -> Page]
           /\ inbox' \in [Tabs -> Seq(Event)] /\ told' \in [Tabs -> SUBSET Sids]
           /\ store'[t].sid = NoSid /\ store'[t].user = NoSid
           /\ \A u \in Tabs : u # t => store'[u] = store[u]
           /\ ref' = Supersede(t) /\ Tell(t, store[t].sid) /\ lockq' = lockq
<1>1. /\ store' \in [Tabs -> Store] /\ store'[t] = SignedOut("complete")
      /\ \A u \in Tabs : u # t => store'[u] = store[u]
  BY StoreTypes DEF SignOut, TypeOK
<1>2. store'[t].sid = NoSid /\ store'[t].user = NoSid
  BY <1>1 DEF SignedOut
<1>3. ref' = Supersede(t) /\ Tell(t, store[t].sid) /\ lockq' = lockq
  BY DEF SignOut
<1>4. ref' \in [Tabs -> Refresh] /\ told' \in [Tabs -> SUBSET Sids]
  BY <1>3, Superseded, Learned
<1>5. page' \in [Tabs -> Page]
  BY PageSet DEF SignOut
<1>6. inbox' \in [Tabs -> Seq(Event)]
  <2>1. store[t].sid \in Sid0 /\ Publish(t, "signed_out", store[t].sid)
    BY DEF SignOut, TypeOK, Store
  <2> QED
    BY <2>1, Published
<1> QED
  BY <1>1, <1>2, <1>3, <1>4, <1>5, <1>6

LEMMA TypeSends ==
    ASSUME TypeOK, NEW t \in Tabs, Login(t) \/ Logout(t) \/ ChangeSecurity(t) \/ SaveSettings(t)
    PROVE  TypeOK'
<1>1. net' \subseteq Message
  <2>1. \E kind \in {"login", "logout", "change", "save"} : net' = net \cup {Request(t, kind)}
    BY DEF Login, Logout, ChangeSecurity, SaveSettings
  <2> QED
    BY <2>1, SentType
<1>2. page' \in [Tabs -> Page]
  <2>1. CASE \E way \in {"form", "wechat"} : page' = [page EXCEPT ![t].login = way]
    <3>1. PICK way \in {"none", "form", "wechat"} : page' = [page EXCEPT ![t].login = way]
      BY <2>1
    <3>2. [page EXCEPT ![t].login = way] \in [Tabs -> Page]
      BY PageSet
    <3> QED
      BY <3>1, <3>2
  <2>2. CASE page' = [page EXCEPT ![t].out = "sent"]
    BY <2>2, PageSet
  <2>3. CASE page' = [page EXCEPT ![t].change = TRUE]
    BY <2>3, PageSet
  <2>4. CASE page' = [page EXCEPT ![t].call = "sent", ![t].save = store[t].user]
    <3>1. store[t].user \in Sid0
      BY DEF TypeOK, Store
    <3> QED
      BY <2>4, <3>1, PageSet
  <2> QED
    BY <2>1, <2>2, <2>3, <2>4 DEF Login, Logout, ChangeSecurity, SaveSettings
<1>3. ops' \in 0 .. MaxOps
  BY DEF Login, Logout, ChangeSecurity, SaveSettings, TypeOK
<1> QED
  BY <1>1, <1>2, <1>3 DEF Login, Logout, ChangeSecurity, SaveSettings, TypeOK

LEMMA TypeLogoutResumes ==
    ASSUME TypeOK, NEW t \in Tabs, LogoutResumes(t)
    PROVE  TypeOK'
<1>1. CASE SignOut(t) /\ UNCHANGED net
  BY <1>1, SignsOut DEF LogoutResumes, TypeOK
<1>2. CASE ~ (SignOut(t) /\ UNCHANGED net)
  <2>1. net' = net \cup {Request(t, "logout")} \/ net' = net
    BY <1>2 DEF LogoutResumes
  <2>2. net' \subseteq Message
    BY <2>1, SentType DEF TypeOK
  <2>3. page' \in [Tabs -> Page]
    <3>1. CASE page' = [page EXCEPT ![t].out = "resent"]
      BY <3>1, PageSet
    <3>2. CASE page' = [page EXCEPT ![t].out = "none"]
      BY <3>2, PageSet
    <3> QED
      BY <1>2, <3>1, <3>2 DEF LogoutResumes
  <2> QED
    BY <1>2, <2>2, <2>3 DEF LogoutResumes, TypeOK
<1> QED
  BY <1>1, <1>2

LEMMA TypeTokenExpires ==
    ASSUME TypeOK, NEW t \in Tabs, TokenExpires(t)
    PROVE  TypeOK'
<1>1. store' \in [Tabs -> Store]
  BY StoreKept DEF TokenExpires
<1>2. ops' \in 0 .. MaxOps
  BY DEF TokenExpires, TypeOK
<1> QED
  BY <1>1, <1>2 DEF TokenExpires, TypeOK

LEMMA InboxTail ==
    ASSUME TypeOK, NEW t \in Tabs, inbox[t] # <<>>
    PROVE  [inbox EXCEPT ![t] = Tail(@)] \in [Tabs -> Seq(Event)]
<1>1. inbox \in [Tabs -> Seq(Event)] /\ inbox[t] \in Seq(Event)
  BY DEF TypeOK
<1>2. Tail(inbox[t]) \in Seq(Event)
  BY <1>1
<1> QED
  BY <1>1, <1>2

\* The three things the listener does with an event.
LEMMA Events ==
    ASSUME TypeOK, NEW t \in Tabs, HandleEvent(t)
    PROVE  \/ Unload(t) /\ told' = told
           \/ /\ store' = [store EXCEPT ![t] = SignedOut("complete")]
              /\ ref' = Supersede(t) /\ Tell(t, store[t].sid)
              /\ inbox' = [inbox EXCEPT ![t] = Tail(@)]
              /\ UNCHANGED <<page, lockq, net, lost>>
           \/ /\ inbox' = [inbox EXCEPT ![t] = Tail(@)]
              /\ UNCHANGED <<store, ref, page, lockq, net, told, lost>>
BY DEF HandleEvent

LEMMA TypeEvents ==
    ASSUME TypeOK, NEW t \in Tabs, HandleEvent(t) \/ IgnoreStaleEvent(t)
    PROVE  TypeOK'
<1>1. inbox[t] # <<>>
  BY DEF HandleEvent, IgnoreStaleEvent
<1>2. CASE IgnoreStaleEvent(t)
  <2>1. inbox' \in [Tabs -> Seq(Event)]
    BY <1>1, <1>2, InboxTail DEF IgnoreStaleEvent
  <2>2. faults' \in 0 .. MaxFaults
    BY <1>2 DEF IgnoreStaleEvent, TypeOK
  <2> QED
    BY <1>2, <2>1, <2>2 DEF IgnoreStaleEvent, TypeOK
<1>3. CASE HandleEvent(t)
  <2>1. UNCHANGED <<browser, server, budgets>>
    BY <1>3 DEF HandleEvent
  <2>2. CASE Unload(t) /\ told' = told
    <3>1. Unloaded(t) /\ net' \subseteq Message
      BY <2>2, Unloads, UnloadedNet
    <3> QED
      BY <2>1, <2>2, <3>1 DEF Unloaded, Left, TypeOK
  <2>3. CASE /\ store' = [store EXCEPT ![t] = SignedOut("complete")]
             /\ ref' = Supersede(t) /\ Tell(t, store[t].sid)
             /\ inbox' = [inbox EXCEPT ![t] = Tail(@)]
             /\ UNCHANGED <<page, lockq, net, lost>>
    <3>1. store' \in [Tabs -> Store]
      BY <2>3, StoreTypes DEF TypeOK
    <3>2. ref' \in [Tabs -> Refresh] /\ told' \in [Tabs -> SUBSET Sids]
      BY <2>3, Superseded, Learned
    <3>3. inbox' \in [Tabs -> Seq(Event)]
      BY <1>1, <2>3, InboxTail
    <3> QED
      BY <2>1, <2>3, <3>1, <3>2, <3>3 DEF TypeOK
  <2>4. CASE /\ inbox' = [inbox EXCEPT ![t] = Tail(@)]
             /\ UNCHANGED <<store, ref, page, lockq, net, told, lost>>
    BY <1>1, <2>1, <2>4, InboxTail DEF TypeOK
  <2> QED
    BY <1>3, <2>2, <2>3, <2>4, Events
<1> QED
  BY <1>2, <1>3

ClientTypes ==
    /\ store' \in [Tabs -> Store] /\ ref' \in [Tabs -> Refresh] /\ page' \in [Tabs -> Page]
    /\ inbox' \in [Tabs -> Seq(Event)] /\ lockq' \in Seq(Tabs)
    /\ told' \in [Tabs -> SUBSET Sids] /\ net' \subseteq Message

\* The store of t becomes that of a tab without a session.
LEMMA Cleared ==
    ASSUME TypeOK, NEW t \in Tabs, NEW b \in {"idle", "checking", "complete"},
           store' = [store EXCEPT ![t] = SignedOut(b)]
    PROVE  /\ store' \in [Tabs -> Store] /\ store'[t].sid = NoSid /\ store'[t].user = NoSid
           /\ \A u \in Tabs : u # t => store'[u] = store[u]
<1>1. /\ store' \in [Tabs -> Store] /\ store'[t] = SignedOut(b)
      /\ \A u \in Tabs : u # t => store'[u] = store[u]
  BY StoreTypes DEF TypeOK
<1> QED
  BY <1>1 DEF SignedOut

\* The store of t shows the session sid.
LEMMA Shown ==
    ASSUME TypeOK, NEW t \in Tabs, NEW sid \in Sid0, NEW user \in Sid0, NEW ver \in 0 .. 1,
           store' = [store EXCEPT ![t] = Bundle(sid, user, ver)]
    PROVE  /\ store' \in [Tabs -> Store] /\ store'[t].sid = sid /\ store'[t].user = user
           /\ \A u \in Tabs : u # t => store'[u] = store[u]
<1>1. /\ store' \in [Tabs -> Store] /\ store'[t] = Bundle(sid, user, ver)
      /\ \A u \in Tabs : u # t => store'[u] = store[u]
  BY StoreTypes DEF TypeOK
<1> QED
  BY <1>1 DEF Bundle

\* The ways an answered refresh ends: in each the runner settles.
Settles(t, m) ==
    /\ ref'[t] = NoRefresh /\ \A u \in Tabs : u # t => ref'[u] = ref[u]
    /\ Left(t)
    /\ net' = net \ {m}
    /\ \A u \in Tabs : u # t => store'[u].sid = store[u].sid /\ store'[u].user = store[u].user
    /\ \/ store'[t].sid = store[t].sid /\ store'[t].user = store[t].user /\ told' = told
       \/ store'[t].sid = NoSid /\ store'[t].user = NoSid /\ (told' = told \/ Tell(t, store[t].sid))
       \/ /\ IsCurrent(t) /\ m.status = "ok"
          /\ store'[t].sid = m.sid /\ store'[t].user = m.sid /\ told' = told

\* AUTH_REFRESH_RACE: the runner waits.
Waits(t, m) ==
    /\ ref'[t].st = "waiting" /\ ref'[t].current = ref[t].current
    /\ ref'[t].race < RaceRetries
    /\ \A u \in Tabs : u # t => ref'[u] = ref[u]
    /\ net' = net \ {m} /\ UNCHANGED <<store, page, inbox, lockq, told>>

\* A session mismatch: the runner asks again without a session.
Repeats(t, m) ==
    /\ ref'[t].st = ref[t].st /\ ref'[t].current = ref[t].current
    /\ \A u \in Tabs : u # t => ref'[u] = ref[u]
    /\ m.status = "mismatch"
    /\ \E x : IsRequest(t, "refresh", x) /\ net' = (net \ {m}) \cup {x}
    /\ store'[t].sid = NoSid /\ store'[t].user = NoSid
    /\ \A u \in Tabs : u # t => store'[u] = store[u]
    /\ UNCHANGED <<page, inbox, lockq, told>>

LEMMA RefreshAnswers ==
    ASSUME TypeOK, NEW m \in net, NEW status \in {m.status, "error"},
           m.status # "request" \/ status = "error",
           RefreshAnswered(m.tab, status, m.sid, m.ver, net \ {m})
    PROVE  /\ ClientTypes
           /\ Settles(m.tab, m) \/ Waits(m.tab, m) \/ Repeats(m.tab, m)
<1> DEFINE t == m.tab
<1>0. t \in Tabs /\ m \in Message /\ m.sid \in Sid0 /\ m.ver \in 0 .. 1
  BY DEF TypeOK, Message
<1> HIDE DEF t
<1>t. RefreshAnswered(t, status, m.sid, m.ver, net \ {m})
  BY DEF t
<1>n. net \ {m} \subseteq Message
  BY DEF TypeOK
<1>o. {"transient", "authenticated", "anonymous", "out_of_sync"} \subseteq Outcomes
  BY DEF Outcomes
<1>1. CASE /\ ~ IsCurrent(t) /\ FinishRefresh(t, "transient")
           /\ net' = net \ {m} /\ UNCHANGED <<store, inbox, told>>
  BY <1>0, <1>1, <1>n, <1>o, Finished DEF ClientTypes, Settles, Left, TypeOK, t
<1>2. CASE /\ IsCurrent(t) /\ status = "ok"
           /\ store' = [store EXCEPT ![t] = Bundle(m.sid, m.sid, m.ver)]
           /\ FinishRefresh(t, "authenticated")
           /\ net' = net \ {m} /\ UNCHANGED <<inbox, told>>
  <2>1. /\ store' \in [Tabs -> Store] /\ store'[t].sid = m.sid /\ store'[t].user = m.sid
        /\ \A u \in Tabs : u # t => store'[u] = store[u]
    BY <1>0, <1>2, Shown
  <2> QED
    BY <1>0, <1>2, <1>n, <1>o, <2>1, Finished DEF ClientTypes, Settles, Left, TypeOK, t
<1>3. CASE /\ IsCurrent(t) /\ status = "race" /\ ref[t].race < RaceRetries
           /\ ref' = [ref EXCEPT ![t].st = "waiting"]
           /\ net' = net \ {m} /\ UNCHANGED <<store, page, inbox, lockq, told>>
  <2>1. ref[t] \in Refresh
    BY <1>0 DEF TypeOK
  <2> DEFINE r == [ref[t] EXCEPT !.st = "waiting"]
  <2>2. r \in Refresh /\ r.st = "waiting" /\ r.current = ref[t].current /\ r.race = ref[t].race
    BY <2>1 DEF Refresh
  <2>3. ref' = [ref EXCEPT ![t] = r]
    BY <1>3
  <2> HIDE DEF r
  <2>4. ref' \in [Tabs -> Refresh] /\ ref'[t] = r /\ \A u \in Tabs : u # t => ref'[u] = ref[u]
    BY <1>0, <2>2, <2>3 DEF TypeOK
  <2> QED
    BY <1>0, <1>3, <1>n, <2>2, <2>4 DEF ClientTypes, Waits, TypeOK, t
<1>4. CASE /\ IsCurrent(t) /\ status = "mismatch" /\ ref[t].retry
           /\ store' = [store EXCEPT ![t] = SignedOut("idle")]
           /\ ref' = [ref EXCEPT ![t].retry = FALSE, ![t].race = 0]
           /\ net' = (net \ {m}) \cup {[Request(t, "refresh") EXCEPT !.exp = NoSid]}
           /\ UNCHANGED <<page, inbox, lockq, told>>
  <2>1. ref[t] \in Refresh
    BY <1>0 DEF TypeOK
  <2> DEFINE r == [ref[t] EXCEPT !.retry = FALSE, !.race = 0]
             x == [Request(t, "refresh") EXCEPT !.exp = NoSid]
  <2>2. r \in Refresh /\ r.st = ref[t].st /\ r.current = ref[t].current
    <3>1. 0 \in 0 .. RaceRetries
      OBVIOUS
    <3>2. r \in Refresh
      BY <2>1, <3>1 DEF Refresh
    <3>3. r.st = ref[t].st /\ r.current = ref[t].current
      BY <2>1 DEF Refresh
    <3> QED
      BY <3>2, <3>3
  <2>3. ref' = [ref EXCEPT ![t] = r]
    BY <1>4
  <2>4. IsRequest(t, "refresh", x)
    BY <1>0, RequestMade
  <2>5. net' = (net \ {m}) \cup {x}
    BY <1>4
  <2> HIDE DEF r, x
  <2>6. ref' \in [Tabs -> Refresh] /\ ref'[t] = r /\ \A u \in Tabs : u # t => ref'[u] = ref[u]
    BY <1>0, <2>2, <2>3 DEF TypeOK
  <2>7. /\ store' \in [Tabs -> Store] /\ store'[t].sid = NoSid /\ store'[t].user = NoSid
        /\ \A u \in Tabs : u # t => store'[u] = store[u]
    BY <1>0, <1>4, Cleared
  <2>8. ClientTypes
    BY <1>4, <1>n, <2>4, <2>5, <2>6, <2>7 DEF ClientTypes, IsRequest, TypeOK
  <2>9. m.status = "mismatch"
    BY <1>4
  <2>10. Repeats(t, m)
    BY <1>4, <2>2, <2>4, <2>5, <2>6, <2>7, <2>9 DEF Repeats
  <2> QED
    BY <2>8, <2>10 DEF t
<1>5. CASE /\ IsCurrent(t) /\ status = "unauthorized"
           /\ store' = [store EXCEPT ![t] = SignedOut("complete")]
           /\ Publish(t, "signed_out", store[t].sid)
           /\ Tell(t, store[t].sid)
           /\ FinishRefresh(t, "anonymous")
           /\ net' = net \ {m}
  <2>1. /\ store' \in [Tabs -> Store] /\ store'[t].sid = NoSid /\ store'[t].user = NoSid
        /\ \A u \in Tabs : u # t => store'[u] = store[u]
    BY <1>0, <1>5, Cleared
  <2>2. store[t].sid \in Sid0
    BY <1>0 DEF TypeOK, Store
  <2>3. inbox' \in [Tabs -> Seq(Event)] /\ told' \in [Tabs -> SUBSET Sids]
    BY <1>0, <1>5, <2>2, Published, Learned
  <2> QED
    BY <1>0, <1>5, <1>n, <1>o, <2>1, <2>3, Finished DEF ClientTypes, Settles, Left, t
<1>6. CASE /\ IsCurrent(t) /\ status = "error"
           /\ store' = [store EXCEPT ![t].boot = "idle"]
           /\ FinishRefresh(t, "transient")
           /\ net' = net \ {m} /\ UNCHANGED <<inbox, told>>
  <2>1. /\ store' \in [Tabs -> Store]
        /\ \A u \in Tabs : store'[u].sid = store[u].sid /\ store'[u].user = store[u].user
    BY <1>0, <1>6, StoreKept
  <2> QED
    BY <1>0, <1>6, <1>n, <1>o, <2>1, Finished DEF ClientTypes, Settles, Left, TypeOK, t
<1>7. CASE /\ store' = [store EXCEPT ![t] = SignedOut("complete")]
           /\ FinishRefresh(t, "out_of_sync")
           /\ net' = net \ {m} /\ UNCHANGED <<inbox, told>>
  <2>1. /\ store' \in [Tabs -> Store] /\ store'[t].sid = NoSid /\ store'[t].user = NoSid
        /\ \A u \in Tabs : u # t => store'[u] = store[u]
    BY <1>0, <1>7, Cleared
  <2> QED
    BY <1>0, <1>7, <1>n, <1>o, <2>1, Finished DEF ClientTypes, Settles, Left, TypeOK, t
<1> QED
  BY <1>t, <1>1, <1>2, <1>3, <1>4, <1>5, <1>6, <1>7 DEF RefreshAnswered

\* t clears its store after a sign-out.
Clears(t) ==
    /\ store'[t].sid = NoSid /\ store'[t].user = NoSid
    /\ \A u \in Tabs : u # t => store'[u] = store[u]
    /\ ref' = Supersede(t) /\ Tell(t, store[t].sid) /\ lockq' = lockq

\* t shows the session of a login.
SignsIn(t, m) ==
    /\ NewLogin(m)
    /\ store'[t].sid = m.sid /\ store'[t].user = m.sid
    /\ \A u \in Tabs : u # t => store'[u] = store[u]
    /\ ref' = Supersede(t) /\ UNCHANGED <<lockq, told>>

\* t keeps its session and asks for a refresh, supersedes one, or does neither.
Stays(t) ==
    /\ SameSids /\ told' = told
    /\ \/ StartRefresh(t)
       \/ ref' = Supersede(t) /\ lockq' = lockq
       \/ UNCHANGED <<ref, lockq>>

LEMMA LoginAnswers ==
    ASSUME TypeOK, NEW m \in net, m.kind = "login", NEW status \in {m.status, "error"},
           LoginAnswered(m.tab, status, m.sid), net' = net \ {m}
    PROVE  ClientTypes /\ (Stays(m.tab) \/ SignsIn(m.tab, m))
<1> DEFINE t == m.tab
<1>0. t \in Tabs /\ m.sid \in Sid0
  BY DEF TypeOK, Message
<1> HIDE DEF t
<1>t. LoginAnswered(t, status, m.sid)
  BY DEF t
<1>1. page' \in [Tabs -> Page] /\ net' \subseteq Message /\ lockq' = lockq /\ told' = told
  <2>1. page' = [page EXCEPT ![t].login = "none"] /\ lockq' = lockq /\ told' = told
    BY <1>t DEF LoginAnswered
  <2> QED
    BY <1>0, <2>1, PageSet DEF TypeOK
<1>2. CASE /\ status = "ok" /\ store' = [store EXCEPT ![t] = Bundle(m.sid, m.sid, 0)]
           /\ ref' = Supersede(t) /\ Publish(t, "authenticated", m.sid)
  <2>1. /\ store' = [store EXCEPT ![t] = Bundle(m.sid, m.sid, 0)]
        /\ ref' = Supersede(t) /\ Publish(t, "authenticated", m.sid)
    BY <1>2
  <2>2. /\ store' \in [Tabs -> Store] /\ store'[t].sid = m.sid /\ store'[t].user = m.sid
        /\ \A u \in Tabs : u # t => store'[u] = store[u]
    <3>1. 0 \in 0 .. 1
      OBVIOUS
    <3> QED
      BY <1>0, <2>1, <3>1, Shown
  <2>3. ref' \in [Tabs -> Refresh] /\ inbox' \in [Tabs -> Seq(Event)]
    BY <1>0, <2>1, Superseded, Published
  <2>4. ClientTypes
    BY <1>1, <2>2, <2>3 DEF ClientTypes, TypeOK
  <2>5. SignsIn(t, m)
    BY <1>1, <1>2, <2>1, <2>2 DEF SignsIn, NewLogin
  <2> QED
    BY <2>4, <2>5 DEF t
<1>3. CASE UNCHANGED <<store, ref, inbox>>
  BY <1>1, <1>3 DEF ClientTypes, Stays, SameSids, TypeOK, t
<1> QED
  BY <1>t, <1>2, <1>3 DEF LoginAnswered

LEMMA LogoutAnswers ==
    ASSUME TypeOK, NEW m \in net, NEW status, LogoutAnswered(m.tab, status), net' = net \ {m}
    PROVE  ClientTypes /\ (Stays(m.tab) \/ Clears(m.tab))
<1> DEFINE t == m.tab
<1>0. t \in Tabs /\ net' \subseteq Message
  BY DEF TypeOK, Message
<1> HIDE DEF t
<1>t. LogoutAnswered(t, status)
  BY DEF t
<1>1. CASE SignOut(t)
  BY <1>0, <1>1, SignsOut DEF ClientTypes, Clears, TypeOK, t
<1>2. CASE /\ page' = [page EXCEPT ![t].out = "refreshing"]
           /\ StartRefresh(t) /\ UNCHANGED <<store, inbox, told>>
  <2>1. page' \in [Tabs -> Page]
    BY <1>0, <1>2, PageSet
  <2>2. ref' \in [Tabs -> Refresh] /\ lockq' \in Seq(Tabs)
    BY <1>0, <1>2, Started
  <2> QED
    BY <1>0, <1>2, <2>1, <2>2 DEF ClientTypes, Stays, SameSids, TypeOK, t
<1>3. CASE /\ page' = [page EXCEPT ![t].out = "none"]
           /\ UNCHANGED <<store, ref, inbox, lockq, told>>
  <2>1. page' \in [Tabs -> Page]
    BY <1>0, <1>3, PageSet
  <2> QED
    BY <1>0, <1>3, <2>1 DEF ClientTypes, Stays, SameSids, TypeOK, t
<1> QED
  BY <1>t, <1>1, <1>2, <1>3 DEF LogoutAnswered

LEMMA ChangeAnswers ==
    ASSUME TypeOK, NEW m \in net, NEW status, ChangeAnswered(m.tab, status, m.sid, m.ver),
           net' = net \ {m}
    PROVE  ClientTypes /\ Stays(m.tab)
<1> DEFINE t == m.tab
<1>0. t \in Tabs /\ net' \subseteq Message /\ m.sid \in Sid0 /\ m.ver \in 0 .. 1
  BY DEF TypeOK, Message
<1> HIDE DEF t
<1>t. ChangeAnswered(t, status, m.sid, m.ver)
  BY DEF t
<1>1. page' \in [Tabs -> Page] /\ UNCHANGED <<inbox, lockq, told>>
  <2>1. page' = [page EXCEPT ![t].change = FALSE] /\ UNCHANGED <<inbox, lockq, told>>
    BY <1>t DEF ChangeAnswered
  <2> QED
    BY <1>0, <2>1, PageSet
<1>2. CASE status = "ok" /\ ShowsSession(t, m.sid)
  <2>1. /\ store' = [store EXCEPT ![t] = Bundle(m.sid, store[t].user, m.ver)]
        /\ ref' = Supersede(t) /\ store[t].sid = m.sid
    BY <1>t, <1>2 DEF ChangeAnswered, ShowsSession
  <2>2. store[t].user \in Sid0
    BY <1>0 DEF TypeOK, Store
  <2>3. /\ store' \in [Tabs -> Store] /\ store'[t].sid = m.sid /\ store'[t].user = store[t].user
        /\ \A u \in Tabs : u # t => store'[u] = store[u]
    BY <1>0, <2>1, <2>2, Shown
  <2>4. ref' \in [Tabs -> Refresh]
    BY <1>0, <2>1, Superseded
  <2> QED
    BY <1>0, <1>1, <2>1, <2>3, <2>4 DEF ClientTypes, Stays, SameSids, TypeOK, t
<1>3. CASE ~ (status = "ok" /\ ShowsSession(t, m.sid))
  <2>1. UNCHANGED <<store, ref>>
    BY <1>t, <1>3 DEF ChangeAnswered
  <2> QED
    BY <1>0, <1>1, <2>1 DEF ClientTypes, Stays, SameSids, TypeOK, t
<1> QED
  BY <1>2, <1>3

LEMMA SaveAnswers ==
    ASSUME TypeOK, NEW m \in net, NEW status, SaveAnswered(m.tab, status), net' = net \ {m}
    PROVE  ClientTypes /\ Stays(m.tab)
<1> DEFINE t == m.tab
<1>0. t \in Tabs /\ net' \subseteq Message
  BY DEF TypeOK, Message
<1> HIDE DEF t
<1>t. SaveAnswered(t, status)
  BY DEF t
<1>s. [page EXCEPT ![t].call = "none", ![t].save = NoSid] \in [Tabs -> Page]
  BY <1>0, PageSet, TokenTypes
<1>1. CASE /\ store' = [store EXCEPT ![t].user = IF page[t].save # NoSid THEN page[t].save ELSE @]
           /\ page' = [page EXCEPT ![t].call = "none", ![t].save = NoSid]
           /\ UNCHANGED <<ref, inbox, lockq, told>>
  <2> DEFINE user == IF page[t].save # NoSid THEN page[t].save ELSE store[t].user
             st == [store[t] EXCEPT !.user = user]
  <2>1. store[t] \in Store /\ user \in Sid0
    BY <1>0 DEF TypeOK, Store, Page
  <2>2. store' = [store EXCEPT ![t] = st]
    BY <1>1
  <2>3. user = store[t].user \/ (page[t].save # NoSid /\ user = page[t].save)
    OBVIOUS
  <2> HIDE DEF user
  <2>4. st \in Store /\ st.sid = store[t].sid /\ st.user = user
    BY <2>1 DEF Store
  <2> HIDE DEF st
  <2>5. store' \in [Tabs -> Store] /\ store'[t] = st /\ \A u \in Tabs : u # t => store'[u] = store[u]
    BY <1>0, <2>2, <2>4 DEF TypeOK
  <2>6. SameSids
    BY <2>3, <2>4, <2>5 DEF SameSids
  <2> QED
    BY <1>0, <1>1, <1>s, <2>5, <2>6 DEF ClientTypes, Stays, TypeOK, t
<1>2. CASE /\ page' = [page EXCEPT ![t].call = "refreshing"]
           /\ StartRefresh(t) /\ UNCHANGED <<store, inbox, told>>
  <2>1. page' \in [Tabs -> Page]
    BY <1>0, <1>2, PageSet
  <2>2. ref' \in [Tabs -> Refresh] /\ lockq' \in Seq(Tabs)
    BY <1>0, <1>2, Started
  <2> QED
    BY <1>0, <1>2, <2>1, <2>2 DEF ClientTypes, Stays, SameSids, TypeOK, t
<1>3. CASE /\ page' = [page EXCEPT ![t].call = "refused"]
           /\ UNCHANGED <<store, ref, inbox, lockq, told>>
  <2>1. page' \in [Tabs -> Page]
    BY <1>0, <1>3, PageSet
  <2> QED
    BY <1>0, <1>3, <2>1 DEF ClientTypes, Stays, SameSids, TypeOK, t
<1>4. CASE /\ page' = [page EXCEPT ![t].call = "none", ![t].save = NoSid]
           /\ UNCHANGED <<store, ref, inbox, lockq, told>>
  BY <1>0, <1>4, <1>s DEF ClientTypes, Stays, SameSids, TypeOK, t
<1> QED
  BY <1>t, <1>1, <1>2, <1>3, <1>4 DEF SaveAnswered

\* What happens to the page when the answer m arrives or fails.
Handled(m) ==
    \/ m.kind = "refresh" /\ (Settles(m.tab, m) \/ Waits(m.tab, m) \/ Repeats(m.tab, m))
    \/ /\ m.kind # "refresh" /\ net' = net \ {m}
       /\ Stays(m.tab) \/ SignsIn(m.tab, m) \/ Clears(m.tab)

LEMMA Handles ==
    ASSUME TypeOK, NEW m \in net, NEW status \in {m.status, "error"},
           m.status # "request" \/ status = "error", Handle(m, status, net \ {m})
    PROVE  ClientTypes /\ Handled(m)
<1>1. CASE m.kind = "refresh" /\ RefreshAnswered(m.tab, status, m.sid, m.ver, net \ {m})
  BY <1>1, RefreshAnswers DEF Handled
<1>2. CASE m.kind = "login" /\ LoginAnswered(m.tab, status, m.sid) /\ net' = net \ {m}
  BY <1>2, LoginAnswers DEF Handled
<1>3. CASE m.kind = "logout" /\ LogoutAnswered(m.tab, status) /\ net' = net \ {m}
  BY <1>3, LogoutAnswers DEF Handled
<1>4. CASE m.kind = "change" /\ ChangeAnswered(m.tab, status, m.sid, m.ver) /\ net' = net \ {m}
  BY <1>4, ChangeAnswers DEF Handled
<1>5. CASE m.kind = "save" /\ SaveAnswered(m.tab, status) /\ net' = net \ {m}
  BY <1>5, SaveAnswers DEF Handled
<1> QED
  BY <1>1, <1>2, <1>3, <1>4, <1>5 DEF Handle

LEMMA CookieTaken ==
    ASSUME TypeOK, NEW m \in net, TakeCookie(m)
    PROVE  cookie' \in Token /\ hint' \in BOOLEAN
BY DEF TypeOK, Message, TakeCookie

LEMMA TypeReceives ==
    ASSUME TypeOK, NEW m \in net, Receive(m) \/ Lose(m) \/ ReceiveOrphan(m)
    PROVE  TypeOK'
<1>1. CASE Receive(m)
  <2>1. ClientTypes
    BY <1>1, Handles DEF Receive
  <2>2. cookie' \in Token /\ hint' \in BOOLEAN
    BY <1>1, CookieTaken DEF Receive
  <2> QED
    BY <1>1, <2>1, <2>2 DEF Receive, ClientTypes, TypeOK
<1>2. CASE Lose(m)
  <2>1. ClientTypes
    BY <1>2, Handles DEF Lose
  <2>2. faults' \in 0 .. MaxFaults /\ lost' \in BOOLEAN
    BY <1>2 DEF Lose, TypeOK
  <2> QED
    BY <1>2, <2>1, <2>2 DEF Lose, ClientTypes, TypeOK
<1>3. CASE ReceiveOrphan(m)
  <2>1. cookie' \in Token /\ hint' \in BOOLEAN
    BY <1>3, CookieTaken DEF ReceiveOrphan, TypeOK
  <2>2. net' \subseteq Message
    BY <1>3 DEF ReceiveOrphan, TypeOK
  <2> QED
    BY <1>3, <2>1, <2>2 DEF ReceiveOrphan, TypeOK
<1> QED
  BY <1>1, <1>2, <1>3

\* The server answers m without handing out a token.
Replied(m) ==
    \E x \in Message :
        /\ IsAnswer(m, x.status, x.sid, x)
        /\ net' = (net \ {m}) \cup {x}
        /\ x.set \in {m.set, NoCookie} /\ x.sid \in {NoSid, m.bearer}
        /\ m.kind # "login" /\ x.status # "request"
        /\ m.kind = "refresh" => x.status # "ok"

\* A refresh is granted: to the previous token, or to the newest one, which
\* ages every token of the session.
Granted(m) ==
    LET s == m.cookie.sid IN
    /\ m.kind = "refresh" /\ s \in Sids /\ row[s].status = "active"
    /\ \E x \in Message :
        /\ IsAnswer(m, "ok", s, x) /\ x.writes /\ x.set = Newest(s)
        /\ \/ /\ m.cookie.age = 1
              /\ net' = (net \ {m}) \cup {x} /\ cookie' = cookie
           \/ /\ m.cookie.age = 0
              /\ net' = {Aged(n, s) : n \in net \ {m}} \cup {x} /\ cookie' = Older(cookie, s)

\* Sessions end; one of them for reuse of a refresh token if reuse is TRUE.
Ends(reuse) ==
    \A s \in Sids :
        /\ row'[s].status = row[s].status \/ (row[s].status = "active" /\ row'[s].status = "revoked")
        /\ reuse \/ row'[s].reuse = row[s].reuse

LEMMA RefreshServed ==
    ASSUME TypeOK, NEW m \in net, ServeRefresh(m)
    PROVE  /\ row' \in [Sids -> Row]
           /\ m.kind = "refresh" /\ m.status = "request"
           /\ \/ Replied(m) /\ cookie' = cookie /\ Ends(m.cookie.age = 1)
              \/ Granted(m) /\ row' = row
<1> DEFINE s == m.cookie.sid
           rest == net \ {m}
<1>0. m \in Message /\ s \in Sid0 /\ m.cookie.age \in 0 .. 2 /\ NoCookie \in Token /\ NoSid \in Sid0
  BY TokenTypes DEF TypeOK, Message, Token
<1>k. m.kind = "refresh" /\ m.status = "request"
  BY DEF ServeRefresh
<1>a. {"unauthorized", "mismatch", "ok"} \subseteq Answers
  BY DEF Answers
<1>1. ASSUME net' = rest \cup {WithCookie(Answer(m, "unauthorized", NoSid), NoCookie)}
      PROVE  Replied(m)
  <2> DEFINE x == WithCookie(Answer(m, "unauthorized", NoSid), NoCookie)
  <2>1. IsAnswer(m, "unauthorized", NoSid, x) /\ x.set = NoCookie
    BY <1>0, <1>a, AnswerMade
  <2>2. net' = rest \cup {x}
    BY <1>1
  <2> HIDE DEF x
  <2> QED
    BY <1>k, <2>1, <2>2 DEF Replied, IsAnswer
<1>2. ASSUME net' = rest \cup {Answer(m, "mismatch", NoSid)}
      PROVE  Replied(m)
  <2> DEFINE x == Answer(m, "mismatch", NoSid)
  <2>1. IsAnswer(m, "mismatch", NoSid, x) /\ x.set = m.set
    BY <1>0, <1>a, AnswerMade
  <2>2. net' = rest \cup {x}
    BY <1>2
  <2> HIDE DEF x
  <2> QED
    BY <1>k, <2>1, <2>2 DEF Replied, IsAnswer
<1>3. UNCHANGED row => row' \in [Sids -> Row] /\ Ends(m.cookie.age = 1)
  BY DEF Ends, TypeOK
<1>4. CASE s = NoSid
  BY <1>1, <1>3, <1>4, <1>k DEF ServeRefresh
<1>5. CASE s # NoSid /\ m.exp \notin {NoSid, s}
  BY <1>2, <1>3, <1>5, <1>k DEF ServeRefresh
<1>6. CASE s # NoSid /\ m.exp \in {NoSid, s}
  <2>0. s \in Sids
    BY <1>0, <1>6 DEF Sid0
  <2> DEFINE x == WithCookie(Answer(m, "ok", s), Newest(s))
  <2>1. IsAnswer(m, "ok", s, x) /\ x.writes /\ x.set = Newest(s)
    BY <1>0, <1>a, AnswerMade, TokenTypes
  <2>2. CASE /\ row[s].status = "active" /\ m.cookie.age = 0
             /\ cookie' = Older(cookie, s)
             /\ net' = AgedNet(rest, s) \cup {x}
             /\ UNCHANGED row
    <3>1. AgedNet(rest, s) = {Aged(n, s) : n \in rest}
      BY DEF AgedNet, Aged
    <3>2. net' = {Aged(n, s) : n \in rest} \cup {x}
      BY <2>2, <3>1
    <3> HIDE DEF x
    <3>3. Granted(m)
      BY <1>k, <2>0, <2>1, <2>2, <3>2 DEF Granted, IsAnswer
    <3> QED
      BY <1>3, <1>k, <2>2, <3>3
  <2>3. CASE /\ row[s].status = "active" /\ m.cookie.age = 1
             /\ net' = rest \cup {x} /\ UNCHANGED <<cookie, row>>
    <3> HIDE DEF x
    <3>1. Granted(m)
      BY <1>k, <2>0, <2>1, <2>3 DEF Granted, IsAnswer
    <3> QED
      BY <1>3, <1>k, <2>3, <3>1
  <2>4. CASE /\ row[s].status = "active" /\ m.cookie.age = 1
             /\ row' = [row EXCEPT ![s].status = "revoked", ![s].reuse = TRUE]
             /\ net' = rest \cup {WithCookie(Answer(m, "unauthorized", NoSid), NoCookie)}
             /\ UNCHANGED cookie
    <3>1. Replied(m)
      BY <1>1, <2>4
    <3>2. row[s] \in Row /\ row \in [Sids -> Row]
      BY <2>0 DEF TypeOK
    <3> DEFINE r == [row[s] EXCEPT !.status = "revoked", !.reuse = TRUE]
    <3>3. r \in Row /\ r.status = "revoked"
      BY <3>2 DEF Row
    <3>4. row' = [row EXCEPT ![s] = r]
      BY <2>4
    <3> HIDE DEF r
    <3>5. row' \in [Sids -> Row] /\ row'[s].status = "revoked" /\ \A q \in Sids : q # s => row'[q] = row[q]
      BY <2>0, <3>2, <3>3, <3>4
    <3>6. Ends(m.cookie.age = 1)
      BY <2>4, <3>5 DEF Ends
    <3> QED
      BY <1>k, <2>4, <3>1, <3>5, <3>6
  <2>5. CASE /\ net' = rest \cup {WithCookie(Answer(m, "unauthorized", NoSid), NoCookie)}
             /\ UNCHANGED <<cookie, row>>
    BY <1>1, <1>3, <1>k, <2>5
  <2> QED
    BY <1>6, <2>2, <2>3, <2>4, <2>5 DEF ServeRefresh
<1> QED
  BY <1>4, <1>5, <1>6

\* A login is granted a session nobody has heard of.
LoggedIn(m) ==
    LET s == made + 1 IN
    /\ m.kind = "login" /\ m.status = "request" /\ s \in Sids /\ made' = s
    /\ row' = [row EXCEPT ![s] = NewRow]
    /\ \E x \in Message :
        /\ IsAnswer(m, "ok", s, x) /\ x.writes /\ x.set = Newest(s)
        /\ net' = (net \ {m}) \cup {x}

LEMMA LoginServed ==
    ASSUME TypeOK, NEW m \in net, ServeLogin(m)
    PROVE  LoggedIn(m) /\ row' \in [Sids -> Row]
<1> DEFINE s == made + 1
           y == Answer(m, "ok", NoSid)
           z == [y EXCEPT !.sid = s]
           x == WithCookie(z, Newest(s))
<1>1. s \in Sids /\ s \in Sid0
  BY DEF TypeOK, ServeLogin, Sids, Sid0
<1>2. /\ m.kind = "login" /\ m.status = "request" /\ made' = s
      /\ row' = [row EXCEPT ![s] = NewRow]
      /\ net' = (net \ {m}) \cup {x}
  BY DEF ServeLogin
<1>3. "ok" \in Answers /\ NoSid \in Sid0 /\ Newest(s) \in Token
  BY <1>1, TokenTypes DEF Answers
<1>4. IsAnswer(m, "ok", NoSid, y)
  BY <1>3, AnswerMade
<1>5. row' \in [Sids -> Row]
  BY <1>1, <1>2, NewRowType DEF TypeOK
<1> HIDE DEF s, y
<1>6. IsAnswer(m, "ok", s, z)
  BY <1>1, <1>4 DEF IsAnswer, Message
<1> HIDE DEF z
<1>7. IsAnswer(m, "ok", s, x) /\ x.writes /\ x.set = Newest(s)
  BY <1>3, <1>6 DEF IsAnswer, Message, WithCookie
<1> HIDE DEF x
<1>8. LoggedIn(m)
  BY <1>1, <1>2, <1>7 DEF LoggedIn, IsAnswer, s
<1> QED
  BY <1>5, <1>8

LEMMA LogoutServed ==
    ASSUME TypeOK, NEW m \in net, ServeLogout(m)
    PROVE  /\ row' \in [Sids -> Row] /\ Replied(m) /\ Ends(FALSE)
           /\ m.kind = "logout" /\ m.status = "request"
<1>k. m.kind = "logout" /\ m.status = "request"
  BY DEF ServeLogout
<1>0. {"ok", "mismatch"} \subseteq Answers /\ NoSid \in Sid0 /\ NoCookie \in Token
  BY TokenTypes DEF Answers
<1>1. CASE net' = (net \ {m}) \cup {Answer(m, "mismatch", NoSid)} /\ UNCHANGED row
  <2> DEFINE x == Answer(m, "mismatch", NoSid)
  <2>1. IsAnswer(m, "mismatch", NoSid, x) /\ x.set = m.set
    BY <1>0, AnswerMade
  <2>2. net' = (net \ {m}) \cup {x}
    BY <1>1
  <2> HIDE DEF x
  <2>3. Replied(m)
    BY <1>k, <2>1, <2>2 DEF Replied, IsAnswer
  <2> QED
    BY <1>1, <1>k, <2>3 DEF Ends, TypeOK
<1>2. ASSUME NEW target, NEW c \in BOOLEAN,
             row' = [s \in Sids |-> IF s = target /\ row[s].status = "active"
                                    THEN [row[s] EXCEPT !.status = "revoked"] ELSE row[s]],
             net' = (net \ {m}) \cup {IF c THEN WithCookie(Answer(m, "ok", NoSid), NoCookie)
                                      ELSE Answer(m, "ok", NoSid)}
      PROVE  row' \in [Sids -> Row] /\ Replied(m) /\ Ends(FALSE)
  <2> DEFINE x == IF c THEN WithCookie(Answer(m, "ok", NoSid), NoCookie)
                  ELSE Answer(m, "ok", NoSid)
  <2>1. IsAnswer(m, "ok", NoSid, x) /\ x.set \in {m.set, NoCookie}
    BY <1>0, AnswerMade
  <2>2. net' = (net \ {m}) \cup {x}
    BY <1>2
  <2> HIDE DEF x
  <2>3. Replied(m)
    BY <1>k, <2>1, <2>2 DEF Replied, IsAnswer
  <2>4. \A s \in Sids :
          /\ row'[s] \in Row /\ row'[s].reuse = row[s].reuse
          /\ row'[s].status = row[s].status \/ (row[s].status = "active" /\ row'[s].status = "revoked")
    BY <1>2 DEF TypeOK, Row
  <2>5. row' \in [Sids -> Row]
    BY <1>2, <2>4
  <2> QED
    BY <2>3, <2>4, <2>5 DEF Ends
<1>3. CASE m.exp # NoSid /\ m.cookie.sid \notin {NoSid, m.exp}
  BY <1>1, <1>3, <1>k DEF ServeLogout
<1>4. CASE ~ (m.exp # NoSid /\ m.cookie.sid \notin {NoSid, m.exp})
  <2> DEFINE c == m.bearer = NoSid \/ m.cookie.sid = m.bearer
  <2>1. PICK target :
          row' = [s \in Sids |-> IF s = target /\ row[s].status = "active"
                                 THEN [row[s] EXCEPT !.status = "revoked"] ELSE row[s]]
    BY <1>4 DEF ServeLogout
  <2>2. net' = (net \ {m}) \cup {IF c THEN WithCookie(Answer(m, "ok", NoSid), NoCookie)
                                 ELSE Answer(m, "ok", NoSid)}
    BY <1>4 DEF ServeLogout
  <2>3. c \in BOOLEAN
    OBVIOUS
  <2> HIDE DEF c
  <2> QED
    BY <1>2, <1>k, <2>1, <2>2, <2>3
<1> QED
  BY <1>3, <1>4

LEMMA ChangeServed ==
    ASSUME TypeOK, NEW m \in net, ServeChange(m)
    PROVE  /\ row' \in [Sids -> Row] /\ Replied(m) /\ Ends(FALSE)
           /\ m.kind = "change" /\ m.status = "request"
<1>k. m.kind = "change" /\ m.status = "request"
  BY DEF ServeChange
<1>0. {"ok", "unauthorized"} \subseteq Answers /\ NoSid \in Sid0 /\ m.bearer \in Sid0
  BY TokenTypes DEF Answers, TypeOK, Message
<1>1. ASSUME NEW others \in SUBSET (Sids \ {m.bearer}),
             row' = [s \in Sids |->
                      CASE s = m.bearer -> [row[s] EXCEPT !.ver = 1]
                        [] s \in others /\ row[s].status = "active" ->
                             [row[s] EXCEPT !.status = "revoked"]
                        [] OTHER -> row[s]],
             net' = (net \ {m}) \cup {[Answer(m, "ok", m.bearer) EXCEPT !.ver = 1]}
      PROVE  row' \in [Sids -> Row] /\ Replied(m) /\ Ends(FALSE)
  <2> DEFINE y == Answer(m, "ok", m.bearer)
             x == [y EXCEPT !.ver = 1]
  <2>1. IsAnswer(m, "ok", m.bearer, y) /\ y.set = m.set
    BY <1>0, AnswerMade
  <2>2. net' = (net \ {m}) \cup {x}
    BY <1>1
  <2> HIDE DEF y
  <2>3. IsAnswer(m, "ok", m.bearer, x) /\ x.set = m.set
    BY <2>1 DEF IsAnswer, Message
  <2> HIDE DEF x
  <2>4. Replied(m)
    BY <1>k, <2>2, <2>3 DEF Replied, IsAnswer
  <2>5. ASSUME NEW s \in Sids
        PROVE  /\ row'[s] \in Row /\ row'[s].reuse = row[s].reuse
               /\ \/ row'[s].status = row[s].status
                  \/ row[s].status = "active" /\ row'[s].status = "revoked"
    <3>1. row[s] \in Row
      BY DEF TypeOK
    <3>2. LET x1 == [row[s] EXCEPT !.ver = 1]
              x2 == [row[s] EXCEPT !.status = "revoked"]
          IN  /\ x1 \in Row /\ x1.reuse = row[s].reuse /\ x1.status = row[s].status
              /\ x2 \in Row /\ x2.reuse = row[s].reuse /\ x2.status = "revoked"
      BY <3>1 DEF Row
    <3>3. \/ row'[s] = [row[s] EXCEPT !.ver = 1]
          \/ row[s].status = "active" /\ row'[s] = [row[s] EXCEPT !.status = "revoked"]
          \/ row'[s] = row[s]
      BY <1>1
    <3> QED
      BY <3>1, <3>2, <3>3
  <2>6. row' \in [Sids -> Row]
    BY <1>1, <2>5 DEF TypeOK
  <2> QED
    BY <1>k, <2>4, <2>5, <2>6 DEF Ends
<1>2. CASE net' = (net \ {m}) \cup {Answer(m, "unauthorized", NoSid)} /\ UNCHANGED row
  <2> DEFINE x == Answer(m, "unauthorized", NoSid)
  <2>1. IsAnswer(m, "unauthorized", NoSid, x) /\ x.set = m.set
    BY <1>0, AnswerMade
  <2>2. net' = (net \ {m}) \cup {x}
    BY <1>2
  <2> HIDE DEF x
  <2>3. Replied(m)
    BY <1>k, <2>1, <2>2 DEF Replied, IsAnswer
  <2> QED
    BY <1>2, <1>k, <2>3 DEF Ends, TypeOK
<1> QED
  BY <1>1, <1>2, <1>k DEF ServeChange

LEMMA SaveServed ==
    ASSUME TypeOK, NEW m \in net, ServeSave(m)
    PROVE  Replied(m) /\ m.kind = "save" /\ m.status = "request" /\ row' = row
<1>1. PICK status \in {"ok", "unauthorized"} : net' = (net \ {m}) \cup {Answer(m, status, NoSid)}
  BY DEF ServeSave
<1>2. status \in Answers /\ NoSid \in Sid0
  BY TokenTypes DEF Answers
<1> DEFINE x == Answer(m, status, NoSid)
<1>3. IsAnswer(m, status, NoSid, x) /\ x.set = m.set
  BY <1>2, AnswerMade
<1>4. net' = (net \ {m}) \cup {x}
  BY <1>1
<1> HIDE DEF x
<1>5. m.kind = "save" /\ m.status = "request" /\ row' = row
  BY DEF ServeSave
<1> QED
  BY <1>3, <1>4, <1>5 DEF Replied, IsAnswer

LEMMA ErrorServed ==
    ASSUME TypeOK, NEW m \in net, ServeError(m)
    PROVE  Replied(m) /\ m.kind = "refresh" /\ m.status = "request" /\ row' = row
<1>1. {"race", "other", "unauthorized"} \subseteq Answers /\ NoSid \in Sid0 /\ NoCookie \in Token
  BY TokenTypes DEF Answers
<1>2. PICK status \in {"race", "other", "unauthorized"} :
        \E x \in {Answer(m, status, NoSid), WithCookie(Answer(m, status, NoSid), NoCookie)} :
          net' = (net \ {m}) \cup {x}
  BY DEF ServeError
<1>x. PICK x \in {Answer(m, status, NoSid), WithCookie(Answer(m, status, NoSid), NoCookie)} :
        net' = (net \ {m}) \cup {x}
  BY <1>2
<1>3. IsAnswer(m, status, NoSid, x) /\ x.set \in {m.set, NoCookie}
  BY <1>1, <1>2, <1>x, AnswerMade
<1>4. m.kind = "refresh" /\ m.status = "request" /\ row' = row
  BY DEF ServeError
<1> QED
  BY <1>x, <1>3, <1>4 DEF Replied, IsAnswer

LEMMA RowRevoked ==
    ASSUME TypeOK, NEW s \in Sids, RevokeElsewhere(s)
    PROVE  row' \in [Sids -> Row] /\ Ends(FALSE)
<1>1. row' = [row EXCEPT ![s].status = "revoked"] /\ row[s].status = "active"
  BY DEF RevokeElsewhere
<1>2. \A q \in Sids :
        /\ row'[q] \in Row /\ row'[q].reuse = row[q].reuse
        /\ row'[q].status = row[q].status \/ (row[q].status = "active" /\ row'[q].status = "revoked")
  BY <1>1 DEF TypeOK, Row
<1>3. row' \in [Sids -> Row]
  BY <1>1, <1>2 DEF TypeOK
<1> QED
  BY <1>2, <1>3 DEF Ends

LEMMA RepliedType ==
    ASSUME TypeOK, NEW m \in net, Replied(m)
    PROVE  net' \subseteq Message
BY DEF Replied, TypeOK

LEMMA GrantedType ==
    ASSUME TypeOK, NEW m \in net, Granted(m)
    PROVE  net' \subseteq Message /\ cookie' \in Token
<1> DEFINE s == m.cookie.sid
<1>1. s \in Sid0 /\ net \subseteq Message /\ cookie \in Token
  BY DEF TypeOK, Message, Token
<1>2. \A n \in net : Aged(n, s) \in Message
  BY <1>1, AgedMade DEF IsCopy
<1>3. Older(cookie, s) \in Token
  BY <1>1, OlderToken
<1> HIDE DEF s
<1> QED
  BY <1>1, <1>2, <1>3 DEF Granted, s

LEMMA TypeServes ==
    ASSUME TypeOK, NEW m \in net, Serve(m) \/ ServeError(m)
    PROVE  TypeOK'
<1>1. CASE ServeRefresh(m)
  <2>1. net' \subseteq Message /\ cookie' \in Token /\ row' \in [Sids -> Row]
    BY <1>1, RefreshServed, RepliedType, GrantedType DEF TypeOK
  <2> QED
    BY <1>1, <2>1 DEF ServeRefresh, TypeOK
<1>2. CASE ServeLogin(m)
  <2>1. LoggedIn(m) /\ row' \in [Sids -> Row]
    BY <1>2, LoginServed
  <2>2. net' \subseteq Message /\ made' \in 0 .. MaxSids
    BY <2>1 DEF LoggedIn, TypeOK, Sids
  <2> QED
    BY <1>2, <2>1, <2>2 DEF ServeLogin, TypeOK
<1>3. CASE ServeLogout(m)
  <2>1. net' \subseteq Message /\ row' \in [Sids -> Row]
    BY <1>3, LogoutServed, RepliedType
  <2> QED
    BY <1>3, <2>1 DEF ServeLogout, TypeOK
<1>4. CASE ServeChange(m)
  <2>1. net' \subseteq Message /\ row' \in [Sids -> Row]
    BY <1>4, ChangeServed, RepliedType
  <2> QED
    BY <1>4, <2>1 DEF ServeChange, TypeOK
<1>5. CASE ServeError(m)
  <2>1. net' \subseteq Message
    BY <1>5, ErrorServed, RepliedType
  <2>2. faults' \in 0 .. MaxFaults
    BY <1>5 DEF ServeError, TypeOK
  <2> QED
    BY <1>5, <2>1, <2>2 DEF ServeError, TypeOK
<1>6. CASE ServeSave(m)
  <2>1. net' \subseteq Message
    BY <1>6, SaveServed, RepliedType
  <2> QED
    BY <1>6, <2>1 DEF ServeSave, TypeOK
<1> QED
  BY <1>1, <1>2, <1>3, <1>4, <1>5, <1>6 DEF Serve

LEMMA TypeRevokes ==
    ASSUME TypeOK, NEW s \in Sids, RevokeElsewhere(s)
    PROVE  TypeOK'
<1>1. row' \in [Sids -> Row]
  BY RowRevoked
<1>2. faults' \in 0 .. MaxFaults
  BY DEF RevokeElsewhere, TypeOK
<1> QED
  BY <1>1, <1>2 DEF RevokeElsewhere, TypeOK

LEMMA TypeStutters ==
    ASSUME TypeOK, UNCHANGED vars
    PROVE  TypeOK'
BY DEF TypeOK, vars

LEMMA TypeStep ==
    ASSUME TypeOK, OneRefresh, Next
    PROVE  TypeOK'
<1>1. ASSUME NEW t \in Tabs, TabStep(t) \/ UserStep(t) PROVE TypeOK'
  BY <1>1, TypeRunRefresh, TypeRaceDelayEnds, TypeBootstrap, TypeCalls, TypeReloads, TypeSends,
     TypeLogoutResumes, TypeTokenExpires, TypeEvents DEF TabStep, UserStep
<1>2. ASSUME NEW m \in net,
             Serve(m) \/ ServeError(m) \/ Receive(m) \/ Lose(m) \/ ReceiveOrphan(m)
      PROVE  TypeOK'
  BY <1>2, TypeServes, TypeReceives
<1>3. ASSUME NEW s \in Sids, RevokeElsewhere(s) PROVE TypeOK'
  BY <1>3, TypeRevokes
<1> QED
  BY <1>1, <1>2, <1>3 DEF Next

LEMMA TypeInit ==
    ASSUME Init
    PROVE  TypeOK
<1>1. store \in [Tabs -> Store] /\ ref \in [Tabs -> Refresh] /\ page \in [Tabs -> Page]
  BY StoreTypes, RefreshTypes, NewPageType DEF Init
<1>2. inbox \in [Tabs -> Seq(Event)] /\ lockq \in Seq(Tabs)
  BY DEF Init
<1>3. made \in 0 .. MaxSids /\ hint \in BOOLEAN
  BY DEF Init
<1>4. cookie \in Token
  <2>1. made \in Sid0
    BY <1>3 DEF Sid0, Sids, NoSid
  <2> QED
    BY <2>1 DEF Init, Token
<1>5. row \in [Sids -> Row]
  BY NewRowType DEF Init
<1>6. net \subseteq Message /\ ops \in 0 .. MaxOps /\ faults \in 0 .. MaxFaults
  BY DEF Init
<1>7. told \in [Tabs -> SUBSET Sids] /\ lost \in BOOLEAN
  BY DEF Init
<1> QED
  BY <1>1, <1>2, <1>3, <1>4, <1>5, <1>6, <1>7 DEF TypeOK

-----------------------------------------------------------------------------
(* The sessions in messages, cookie, stores and rows.                      *)

\* The tabs learn of no session, except one shown, and only of ended ones.
ToldEnded ==
    \A u \in Tabs : \A s \in told'[u] :
        s \in told[u] \/ (s = store[u].sid /\ row[s].status = "revoked")

LEMMA ToldByTell ==
    ASSUME TypeOK, NEW t \in Tabs, told' = told \/ Tell(t, store[t].sid)
    PROVE  ToldEnded
BY Learned DEF ToldEnded

\* Nothing is sent.
LEMMA SidsKept ==
    ASSUME TypeOK, TypeOK', SidsOK, net' = net, cookie' = cookie, row' = row, made' = made,
           \A u \in Tabs : store'[u].sid \in {NoSid, store[u].sid}, ToldEnded
    PROVE  SidsOK'
<1>1. Messages'
  BY DEF SidsOK, Messages
<1>2. KnownSids'
  <2>1. 0 <= made
    BY DEF TypeOK
  <2>2. \A u \in Tabs : store'[u].sid <= made
    BY <2>1 DEF SidsOK, KnownSids, NoSid
  <2>3. \A u \in Tabs : \A s \in told'[u] : row[s].status = "revoked"
    BY DEF SidsOK, KnownSids, ToldEnded
  <2> QED
    BY <2>2, <2>3 DEF SidsOK, KnownSids
<1>3. LoginsAreNew'
  BY DEF SidsOK, Messages, MessageOK, LoginsAreNew, ToldEnded, NoSid, Sids, NewLogin
<1> QED
  BY <1>1, <1>2, <1>3 DEF SidsOK

\* A request is sent, perhaps in the place of an answer that brings no token.
LEMMA SidsSent ==
    ASSUME TypeOK, TypeOK', SidsOK, NEW t \in Tabs, NEW kind, NEW x, IsRequest(t, kind, x), NEW m,
           kind = "login" => x.bearer = NoSid,
           net' = (net \ {m}) \cup {x}, cookie' \in {cookie, NoCookie}, row' = row, made' = made,
           told' = told, \A u \in Tabs : store'[u].sid \in {NoSid, store[u].sid}
    PROVE  SidsOK'
<1>1. \A s \in Sids : Mentions(x, s) => s = store[t].sid \/ s = cookie.sid
  BY DEF IsRequest, Mentions, NoSid, NoCookie, Sids
<1>2. Messages'
  <2>1. MessageOK(x)
    BY DEF IsRequest, MessageOK, NoSid
  <2> QED
    BY <2>1 DEF SidsOK, Messages
<1>3. KnownSids'
  <2>1. \A n \in net' : \A s \in Sids : Mentions(n, s) => s <= made
    BY <1>1 DEF SidsOK, KnownSids
  <2>2. 0 <= made
    BY DEF TypeOK
  <2>3. cookie'.sid <= made /\ \A u \in Tabs : store'[u].sid <= made
    BY <2>2 DEF SidsOK, KnownSids, NoCookie, NoSid
  <2> QED
    BY <2>1, <2>3 DEF SidsOK, KnownSids
<1>4. LoginsAreNew'
  <2> SUFFICES ASSUME NEW n \in net', NewLogin(n)
               PROVE  /\ \A u \in Tabs : store'[u].sid # n.sid /\ n.sid \notin told'[u]
                      /\ cookie'.sid # n.sid
                      /\ \A k \in net' : k # n => ~ Mentions(k, n.sid)
    BY DEF LoginsAreNew
  <2>1. n # x /\ n \in net
    BY DEF NewLogin, IsRequest
  <2>2. n.sid \in Sids /\ n.sid # NoSid
    BY <2>1 DEF SidsOK, Messages, MessageOK, NewLogin, Sids, NoSid
  <2>3. /\ \A u \in Tabs : store[u].sid # n.sid /\ n.sid \notin told[u]
        /\ cookie.sid # n.sid
        /\ \A k \in net : k # n => ~ Mentions(k, n.sid)
    BY <2>1 DEF SidsOK, LoginsAreNew
  <2> QED
    BY <1>1, <2>2, <2>3 DEF NoCookie
<1> QED
  BY <1>2, <1>3, <1>4 DEF SidsOK

\* A message leaves the net; its token may be stored, its session shown.
LEMMA SidsTaken ==
    ASSUME TypeOK, TypeOK', SidsOK, NEW m \in net, net' = net \ {m},
           cookie' \in {cookie, m.set}, row' = row, made' = made, ToldEnded,
           \A u \in Tabs : store'[u].sid \in {NoSid, store[u].sid, m.sid}
    PROVE  SidsOK'
<1>0. Mentions(m, m.sid) /\ Mentions(m, m.set.sid)
  BY DEF Mentions
<1>1. Messages'
  BY DEF SidsOK, Messages
<1>2. KnownSids'
  <2>1. m.sid \in Sid0 /\ m.set.sid \in Sid0 /\ made \in Nat
    BY DEF TypeOK, Message, Token
  <2>2. m.sid <= made /\ m.set.sid <= made
    BY <1>0, <2>1 DEF SidsOK, KnownSids, Sid0, NoSid
  <2>3. \A u \in Tabs : store'[u].sid <= made
    BY <2>1, <2>2 DEF SidsOK, KnownSids, NoSid
  <2> QED
    BY <2>2, <2>3 DEF SidsOK, KnownSids, ToldEnded
<1>3. LoginsAreNew'
  <2> SUFFICES ASSUME NEW n \in net', NewLogin(n)
               PROVE  /\ \A u \in Tabs : store'[u].sid # n.sid /\ n.sid \notin told'[u]
                      /\ cookie'.sid # n.sid
                      /\ \A k \in net' : k # n => ~ Mentions(k, n.sid)
    BY DEF LoginsAreNew
  <2>1. n.sid \in Sids /\ n.sid # NoSid
    BY DEF SidsOK, Messages, MessageOK, NewLogin, Sids, NoSid
  <2>2. /\ \A u \in Tabs : store[u].sid # n.sid /\ n.sid \notin told[u]
        /\ cookie.sid # n.sid
        /\ \A k \in net : k # n => ~ Mentions(k, n.sid)
    BY DEF SidsOK, LoginsAreNew
  <2>3. m.sid # n.sid /\ m.set.sid # n.sid
    BY <1>0, <2>2
  <2> QED
    BY <2>1, <2>2, <2>3 DEF ToldEnded
<1> QED
  BY <1>1, <1>2, <1>3 DEF SidsOK

\* The messages are replaced by copies, and m perhaps by an answer that
\* speaks of no other session.
LEMMA SidsCopied ==
    ASSUME TypeOK, TypeOK', SidsOK, NEW m, NEW X, NEW c, NEW rest \in SUBSET net,
           \A n \in rest : IsCopy(n, c[n]) /\ MessageOK(c[n]),
           X # {} => m \in net /\ m \notin rest,
           \A x \in X : /\ MessageOK(x) /\ ~ NewLogin(x)
                        /\ \A s \in Sids : Mentions(x, s) => Mentions(m, s),
           net' = {c[n] : n \in rest} \cup X, cookie'.sid = cookie.sid, made' = made, told' = told,
           NEW reuse, Ends(reuse), \A u \in Tabs : store'[u].sid \in {NoSid, store[u].sid}
    PROVE  SidsOK'
<1>0. \A n \in rest : \A s : Mentions(c[n], s) <=> Mentions(n, s)
  BY DEF IsCopy, Mentions
<1>1. Messages'
  BY DEF Messages
<1>2. KnownSids'
  <2>1. \A s \in Sids : s > made => row'[s].status = "none"
    BY DEF SidsOK, KnownSids, Ends
  <2>2. 0 <= made
    BY DEF TypeOK
  <2>3. \A u \in Tabs : store'[u].sid <= made
    BY <2>2 DEF SidsOK, KnownSids, NoSid
  <2>4. \A u \in Tabs : \A s \in told[u] : row'[s].status = "revoked"
    <3> SUFFICES ASSUME NEW u \in Tabs, NEW s \in told[u] PROVE row'[s].status = "revoked"
      OBVIOUS
    <3>1. s \in Sids
      BY DEF TypeOK
    <3>2. row[s].status = "revoked"
      BY DEF SidsOK, KnownSids
    <3> QED
      BY <3>1, <3>2 DEF Ends
  <2>5. \A n \in net' : \A s \in Sids : Mentions(n, s) => s <= made
    <3> SUFFICES ASSUME NEW n \in net', NEW s \in Sids, Mentions(n, s) PROVE s <= made
      OBVIOUS
    <3>1. \E k \in net : Mentions(k, s)
      BY <1>0
    <3> QED
      BY <3>1 DEF SidsOK, KnownSids
  <2>6. cookie'.sid <= made
    BY DEF SidsOK, KnownSids
  <2> QED
    BY <2>1, <2>3, <2>4, <2>5, <2>6 DEF KnownSids
<1>3. LoginsAreNew'
  <2> SUFFICES ASSUME NEW y \in net', NewLogin(y)
               PROVE  /\ \A u \in Tabs : store'[u].sid # y.sid /\ y.sid \notin told'[u]
                      /\ cookie'.sid # y.sid
                      /\ \A k \in net' : k # y => ~ Mentions(k, y.sid)
    BY DEF LoginsAreNew
  <2>1. PICK n \in rest : y = c[n]
    OBVIOUS
  <2>2. NewLogin(n) /\ y.sid = n.sid
    BY <2>1 DEF NewLogin, IsCopy
  <2>3. n.sid \in Sids /\ n.sid # NoSid
    BY <2>2 DEF SidsOK, Messages, MessageOK, NewLogin, Sids, NoSid
  <2>4. /\ \A u \in Tabs : store[u].sid # n.sid /\ n.sid \notin told[u]
        /\ cookie.sid # n.sid
        /\ \A k \in net : k # n => ~ Mentions(k, n.sid)
    BY <2>2 DEF SidsOK, LoginsAreNew
  <2>5. ASSUME NEW k \in net', k # y PROVE ~ Mentions(k, n.sid)
    <3>1. CASE k \in X
      BY <2>3, <2>4, <3>1
    <3>2. CASE \E l \in rest : k = c[l]
      <4>1. PICK l \in rest : k = c[l]
        BY <3>2
      <4>2. l # n
        BY <2>1, <2>5, <4>1
      <4> QED
        BY <1>0, <2>4, <4>1, <4>2
    <3> QED
      BY <3>1, <3>2
  <2> QED
    BY <2>2, <2>3, <2>4, <2>5
<1> QED
  BY <1>1, <1>2, <1>3 DEF SidsOK

LEMMA SelfCopy ==
    ASSUME TypeOK, Messages
    PROVE  \A n \in net : LET c == [k \in net |-> k] IN IsCopy(n, c[n]) /\ MessageOK(c[n])
BY DEF IsCopy, TypeOK, Messages

LEMMA SidsReplied ==
    ASSUME TypeOK, TypeOK', SidsOK, NEW m \in net, m.status = "request", Replied(m),
           cookie' = cookie, made' = made, told' = told, store' = store, NEW reuse, Ends(reuse)
    PROVE  SidsOK'
<1>1. PICK x \in Message :
        /\ IsAnswer(m, x.status, x.sid, x)
        /\ net' = (net \ {m}) \cup {x}
        /\ x.set \in {m.set, NoCookie} /\ x.sid \in {NoSid, m.bearer}
        /\ m.kind # "login" /\ x.status # "request"
        /\ m.kind = "refresh" => x.status # "ok"
  BY DEF Replied
<1>2. x.set = NoCookie
  BY <1>1 DEF SidsOK, Messages, MessageOK
<1>3. MessageOK(x) /\ ~ NewLogin(x)
  BY <1>1, <1>2 DEF MessageOK, NewLogin, IsAnswer
<1>4. \A s \in Sids : Mentions(x, s) => Mentions(m, s)
  BY <1>1, <1>2 DEF Mentions, IsAnswer, NoCookie, NoSid, Sids
<1> DEFINE c == [k \in net |-> k]
           rest == net \ {m}
<1>5. net' = {c[n] : n \in rest} \cup {x}
  BY <1>1
<1>6. \A n \in rest : IsCopy(n, c[n]) /\ MessageOK(c[n])
  BY SelfCopy DEF SidsOK
<1>7. \A u \in Tabs : store'[u].sid \in {NoSid, store[u].sid}
  OBVIOUS
<1> DEFINE X == {x}
<1>8. /\ X # {} => m \in net /\ m \notin rest
      /\ \A y \in X : MessageOK(y) /\ ~ NewLogin(y) /\ \A s \in Sids : Mentions(y, s) => Mentions(m, s)
      /\ net' = {c[n] : n \in rest} \cup X /\ rest \in SUBSET net
  BY <1>3, <1>4, <1>5
<1> HIDE DEF c, rest, X
<1> QED
  BY <1>6, <1>7, <1>8, SidsCopied

LEMMA SidsGranted ==
    ASSUME TypeOK, TypeOK', SidsOK, NEW m \in net, m.status = "request", Granted(m),
           row' = row, made' = made, told' = told, store' = store
    PROVE  SidsOK'
<1> DEFINE s == m.cookie.sid
           rest == net \ {m}
<1>1. m.kind = "refresh" /\ s \in Sids /\ s \in Sid0 /\ s # NoSid
  BY DEF Granted, Sid0, Sids, NoSid
<1>2. PICK x \in Message :
        /\ IsAnswer(m, "ok", s, x) /\ x.writes /\ x.set = Newest(s)
        /\ \/ net' = rest \cup {x} /\ cookie' = cookie
           \/ net' = {Aged(n, s) : n \in rest} \cup {x} /\ cookie' = Older(cookie, s)
  BY DEF Granted
<1>3. MessageOK(x) /\ ~ NewLogin(x)
  BY <1>1, <1>2 DEF MessageOK, NewLogin, IsAnswer
<1>4. \A q \in Sids : Mentions(x, q) => Mentions(m, q)
  BY <1>1, <1>2 DEF Mentions, IsAnswer, NoCookie, NoSid, Sids, Newest
<1>5. cookie'.sid = cookie.sid
  BY <1>1, <1>2, OlderToken DEF TypeOK
<1>6. Ends(FALSE) /\ \A u \in Tabs : store'[u].sid \in {NoSid, store[u].sid}
  BY DEF Ends
<1>7. \A n \in rest : IsCopy(n, Aged(n, s)) /\ MessageOK(Aged(n, s))
  <2> SUFFICES ASSUME NEW n \in rest PROVE IsCopy(n, Aged(n, s)) /\ MessageOK(Aged(n, s))
    OBVIOUS
  <2>1. n \in Message /\ MessageOK(n)
    BY DEF TypeOK, SidsOK, Messages
  <2>2. /\ IsCopy(n, Aged(n, s))
        /\ n.cookie.sid # s => Aged(n, s).cookie = n.cookie
        /\ n.set.sid # s => Aged(n, s).set = n.set
    BY <1>1, <2>1, AgedMade
  <2>3. NewLogin(n) => n.sid # s
    BY DEF SidsOK, LoginsAreNew, Mentions
  <2>4. n.set = NoCookie => n.set.sid # s
    BY <1>1 DEF NoCookie
  <2>5. n.cookie = NoCookie => n.cookie.sid # s
    BY <1>1 DEF NoCookie
  <2>6. n.kind = "login" /\ n.status = "ok" => n.set.sid # s
    BY <2>1, <2>3 DEF MessageOK, NewLogin, Newest
  <2> QED
    BY <2>1, <2>2, <2>4, <2>5, <2>6 DEF MessageOK, IsCopy
<1> DEFINE X == {x}
<1>8. /\ X # {} => m \in net /\ m \notin rest
      /\ \A y \in X : MessageOK(y) /\ ~ NewLogin(y) /\ \A q \in Sids : Mentions(y, q) => Mentions(m, q)
      /\ rest \in SUBSET net
  BY <1>3, <1>4
<1>9. CASE net' = rest \cup {x}
  <2> DEFINE c == [k \in net |-> k]
  <2>1. net' = {c[n] : n \in rest} \cup X
    BY <1>9
  <2>2. \A n \in rest : IsCopy(n, c[n]) /\ MessageOK(c[n])
    BY SelfCopy DEF SidsOK
  <2> HIDE DEF c, rest, X
  <2> QED
    BY <1>5, <1>6, <1>8, <2>1, <2>2, SidsCopied
<1>10. CASE net' = {Aged(n, s) : n \in rest} \cup {x}
  <2> DEFINE c == [k \in net |-> Aged(k, s)]
  <2>1. net' = {c[n] : n \in rest} \cup X
    BY <1>10
  <2>2. \A n \in rest : IsCopy(n, c[n]) /\ MessageOK(c[n])
    BY <1>7
  <2> HIDE DEF c, rest, X
  <2> QED
    BY <1>5, <1>6, <1>8, <2>1, <2>2, SidsCopied
<1> QED
  BY <1>2, <1>9, <1>10

LEMMA SidsUnloaded ==
    ASSUME TypeOK, TypeOK', SidsOK, NEW t \in Tabs, Unloaded(t), cookie' = cookie, row' = row,
           made' = made, told' = told
    PROVE  SidsOK'
<1> DEFINE c == [m \in net |-> IF m.tab = t THEN Orphan(m) ELSE m]
<1>1. \A n \in net : IsCopy(n, c[n]) /\ MessageOK(c[n])
  <2> SUFFICES ASSUME NEW n \in net PROVE IsCopy(n, c[n]) /\ MessageOK(c[n])
    OBVIOUS
  <2>1. n \in Message /\ MessageOK(n)
    BY DEF TypeOK, SidsOK, Messages
  <2>2. IsCopy(n, Orphan(n)) /\ Orphan(n).cookie = n.cookie /\ Orphan(n).set = n.set
    BY <2>1, OrphanMade
  <2>3. MessageOK(Orphan(n))
    BY <2>1, <2>2 DEF MessageOK, IsCopy
  <2>4. IsCopy(n, n)
    BY <2>1 DEF IsCopy
  <2> QED
    BY <2>1, <2>2, <2>3, <2>4
<1>2. net' = {c[n] : n \in net} \cup {}
  BY DEF Unloaded
<1>3. Ends(FALSE) /\ \A u \in Tabs : store'[u].sid \in {NoSid, store[u].sid}
  BY DEF Ends, Unloaded
<1> DEFINE X == {}
<1>4. X = {} /\ net' = {c[n] : n \in net} \cup X /\ \A x \in X : FALSE
  BY <1>2
<1> HIDE DEF c, X
<1> QED
  BY <1>1, <1>3, <1>4, SidsCopied

LEMMA SidsRevoked ==
    ASSUME TypeOK, TypeOK', SidsOK, UNCHANGED <<net, cookie, made, told, store>>, Ends(FALSE)
    PROVE  SidsOK'
<1> DEFINE c == [k \in net |-> k]
           X == {}
<1>1. \A n \in net : IsCopy(n, c[n]) /\ MessageOK(c[n])
  BY SelfCopy DEF SidsOK
<1>2. X = {} /\ net' = {c[n] : n \in net} \cup X /\ \A x \in X : FALSE
  OBVIOUS
<1>3. \A u \in Tabs : store'[u].sid \in {NoSid, store[u].sid}
  OBVIOUS
<1> HIDE DEF c, X
<1> QED
  BY <1>1, <1>2, <1>3, SidsCopied

\* The new session is one past every session anyone speaks of.
LEMMA SidsLoggedIn ==
    ASSUME TypeOK, TypeOK', SidsOK, NEW m \in net, LoggedIn(m),
           cookie' = cookie, told' = told, store' = store
    PROVE  SidsOK'
<1> DEFINE s == made + 1
<1>1. PICK x \in Message :
        /\ IsAnswer(m, "ok", s, x) /\ x.writes /\ x.set = Newest(s)
        /\ net' = (net \ {m}) \cup {x}
  BY DEF LoggedIn
<1>2. m.kind = "login" /\ s \in Sids /\ made' = s /\ row' = [row EXCEPT ![s] = NewRow]
  BY DEF LoggedIn
<1>3. made \in Nat /\ s = made + 1
  BY DEF TypeOK
<1> HIDE DEF s
<1>4. \A q \in Sids : Mentions(x, q) => q = s
  BY <1>1 DEF Mentions, IsAnswer, NoCookie, NoSid, Sids, Newest
<1>5. /\ \A u \in Tabs : store[u].sid # s /\ s \notin told[u]
      /\ cookie.sid # s
      /\ \A k \in net : ~ Mentions(k, s)
  <2>1. row[s].status = "none"
    BY <1>2, <1>3 DEF SidsOK, KnownSids, Sids
  <2>2. \A u \in Tabs : s \notin told[u]
    BY <2>1 DEF SidsOK, KnownSids
  <2>3. /\ \A u \in Tabs : store[u].sid \in Nat
        /\ cookie.sid \in Nat
    BY DEF TypeOK, Store, Token, Sid0, Sids, NoSid
  <2>4. cookie.sid # s /\ \A u \in Tabs : store[u].sid # s
    BY <1>3, <2>3 DEF SidsOK, KnownSids
  <2>5. \A k \in net : ~ Mentions(k, s)
    BY <1>2, <1>3 DEF SidsOK, KnownSids, Sids
  <2> QED
    BY <2>2, <2>4, <2>5
<1>6. Messages'
  <2>1. MessageOK(x)
    BY <1>1, <1>2 DEF MessageOK, IsAnswer
  <2> QED
    BY <1>1, <2>1 DEF SidsOK, Messages
<1>7. KnownSids'
  <2>1. \A q \in Sids : q > s => row'[q].status = "none"
    <3> SUFFICES ASSUME NEW q \in Sids, q > s PROVE row'[q].status = "none"
      OBVIOUS
    <3>1. q > made /\ q # s
      BY <1>3 DEF Sids
    <3>2. row'[q] = row[q]
      BY <1>2, <3>1 DEF TypeOK
    <3> QED
      BY <3>1, <3>2 DEF SidsOK, KnownSids
  <2>2. \A u \in Tabs : store[u].sid \in Nat /\ store[u].sid <= made
    BY DEF SidsOK, KnownSids, TypeOK, Store, Sid0, Sids, NoSid
  <2>3. \A u \in Tabs : store[u].sid <= s
    BY <1>3, <2>2
  <2>4. cookie.sid <= s
    <3>1. cookie.sid \in Nat /\ cookie.sid <= made
      BY DEF SidsOK, KnownSids, TypeOK, Token, Sid0, Sids, NoSid
    <3> QED
      BY <1>3, <3>1
  <2>5. \A u \in Tabs : \A q \in told[u] : row'[q].status = "revoked"
    <3> SUFFICES ASSUME NEW u \in Tabs, NEW q \in told[u] PROVE row'[q].status = "revoked"
      OBVIOUS
    <3>1. q \in Sids /\ q # s /\ row[q].status = "revoked"
      BY <1>5 DEF SidsOK, KnownSids, TypeOK
    <3> QED
      BY <1>2, <3>1 DEF TypeOK
  <2>6. \A k \in net' : \A q \in Sids : Mentions(k, q) => q <= s
    <3> SUFFICES ASSUME NEW k \in net', NEW q \in Sids, Mentions(k, q) PROVE q <= s
      OBVIOUS
    <3>1. q \in Nat /\ (q = s \/ q <= made)
      BY <1>1, <1>4 DEF SidsOK, KnownSids, Sids
    <3> QED
      BY <1>3, <3>1
  <2> QED
    BY <1>2, <2>1, <2>3, <2>4, <2>5, <2>6 DEF KnownSids
<1>8. LoginsAreNew'
  <2> SUFFICES ASSUME NEW y \in net', NewLogin(y)
               PROVE  /\ \A u \in Tabs : store'[u].sid # y.sid /\ y.sid \notin told'[u]
                      /\ cookie'.sid # y.sid
                      /\ \A k \in net' : k # y => ~ Mentions(k, y.sid)
    BY DEF LoginsAreNew
  <2>1. CASE y = x
    <3>1. y.sid = s
      BY <1>1, <2>1 DEF IsAnswer
    <3> QED
      BY <1>1, <1>5, <2>1, <3>1
  <2>2. CASE y # x
    <3>1. y \in net /\ y.sid \in Sids
      BY <1>1, <2>2 DEF SidsOK, Messages, MessageOK, NewLogin
    <3>2. /\ \A u \in Tabs : store[u].sid # y.sid /\ y.sid \notin told[u]
          /\ cookie.sid # y.sid
          /\ \A k \in net : k # y => ~ Mentions(k, y.sid)
      BY <3>1 DEF SidsOK, LoginsAreNew
    <3>3. y.sid # s
      BY <1>5, <3>1 DEF Mentions
    <3>4. ~ Mentions(x, y.sid)
      BY <1>4, <3>1, <3>3
    <3> QED
      BY <1>1, <3>2, <3>4
  <2> QED
    BY <2>1, <2>2
<1> QED
  BY <1>6, <1>7, <1>8 DEF SidsOK

-----------------------------------------------------------------------------
(* The runners and their messages.                                         *)

\* A pending refresh keeps its runner, its epoch and what its page knows.
RunnerKept(t) ==
    /\ ref'[t].st = "sent"
    /\ ref'[t].current => ref[t].current /\ told'[t] = told[t]

\* A new message: no other pending refresh of its tab, and no token of a session
\* whose end its tab knows.
NewOK(x, rest) ==
    Pending(x) =>
        /\ ref'[x.tab].st = "sent"
        /\ \A n \in rest : Pending(n) => n.tab # x.tab
        /\ x.status = "ok" /\ ref'[x.tab].current => x.sid \notin told'[x.tab]

WaitersOK == \A t \in Tabs : ref'[t].st = "waiting" => ref'[t].race < RaceRetries

LEMMA RefreshesCopied ==
    ASSUME TypeOK, RefreshesOK, NEW X, NEW c, NEW rest \in SUBSET net,
           \A n \in rest : IsCopy(n, c[n]) /\ (c[n].live => n.live),
           net' = {c[n] : n \in rest} \cup X,
           \A x, y \in X : x = y, \A x \in X : NewOK(x, rest),
           \A n \in rest : Pending(c[n]) => RunnerKept(n.tab),
           WaitersOK
    PROVE  RefreshesOK'
<1>0. \A n \in rest : /\ Pending(c[n]) => Pending(n)
                      /\ c[n].tab = n.tab /\ c[n].status = n.status /\ c[n].sid = n.sid
  BY DEF Pending, IsCopy
<1>1. \A n \in net' : Pending(n) => ref'[n.tab].st = "sent"
  BY <1>0 DEF RunnerKept, NewOK
<1>2. ASSUME NEW p \in net', NEW q \in net', Pending(p), Pending(q), p.tab = q.tab
      PROVE  p = q
  <2>1. CASE p \in X /\ q \in X
    BY <2>1
  <2>2. CASE p \in X /\ q \notin X
    <3>1. PICK n \in rest : q = c[n]
      BY <2>2
    <3> QED
      BY <1>0, <1>2, <2>2, <3>1 DEF NewOK
  <2>3. CASE p \notin X /\ q \in X
    <3>1. PICK n \in rest : p = c[n]
      BY <2>3
    <3> QED
      BY <1>0, <1>2, <2>3, <3>1 DEF NewOK
  <2>4. CASE p \notin X /\ q \notin X
    <3>1. PICK n \in rest : p = c[n]
      BY <2>4
    <3>2. PICK k \in rest : q = c[k]
      BY <2>4
    <3>3. n = k
      BY <1>0, <1>2, <3>1, <3>2 DEF RefreshesOK, OneRefresh
    <3> QED
      BY <3>1, <3>2, <3>3
  <2> QED
    BY <2>1, <2>2, <2>3, <2>4
<1>3. OneRefresh'
  BY <1>1, <1>2 DEF OneRefresh, WaitersOK
<1>4. GrantsAreValid'
  <2> SUFFICES ASSUME NEW p \in net', Pending(p), p.status = "ok", ref'[p.tab].current
               PROVE  p.sid \notin told'[p.tab]
    BY DEF GrantsAreValid
  <2>1. CASE p \in X
    BY <2>1 DEF NewOK
  <2>2. CASE p \notin X
    <3>1. PICK n \in rest : p = c[n]
      BY <2>2
    <3>2. Pending(n) /\ n.status = "ok" /\ n.sid = p.sid /\ n.tab = p.tab
      BY <1>0, <3>1
    <3>3. ref[n.tab].current /\ told'[n.tab] = told[n.tab]
      BY <3>1, <3>2 DEF RunnerKept
    <3> QED
      BY <3>2, <3>3 DEF RefreshesOK, GrantsAreValid
  <2> QED
    BY <2>1, <2>2
<1> QED
  BY <1>3, <1>4 DEF RefreshesOK

\* No message is copied.
LEMMA RefreshesNew ==
    ASSUME TypeOK, RefreshesOK, NEW x, NEW rest \in SUBSET net,
           net' = rest \cup {x}, NewOK(x, rest),
           \A n \in rest : Pending(n) => RunnerKept(n.tab), WaitersOK
    PROVE  RefreshesOK'
<1> DEFINE X == {x}
           c == [n \in net |-> n]
<1>1. \A n \in rest : IsCopy(n, c[n]) /\ (c[n].live => n.live) /\ c[n] = n
  BY DEF IsCopy, TypeOK
<1>2. net' = {c[n] : n \in rest} \cup X /\ (\A p, q \in X : p = q) /\ \A p \in X : NewOK(p, rest)
  OBVIOUS
<1>3. \A n \in rest : Pending(c[n]) => RunnerKept(n.tab)
  BY <1>1
<1> HIDE DEF X, c
<1> QED
  BY <1>1, <1>2, <1>3, RefreshesCopied

LEMMA RefreshesLeft ==
    ASSUME TypeOK, RefreshesOK, net' \in SUBSET net,
           \A n \in net' : Pending(n) => RunnerKept(n.tab), WaitersOK
    PROVE  RefreshesOK'
<1> DEFINE X == {}
           c == [n \in net |-> n]
           rest == net'
<1>1. \A n \in rest : IsCopy(n, c[n]) /\ (c[n].live => n.live) /\ c[n] = n
  BY DEF IsCopy, TypeOK
<1>2. net' = {c[n] : n \in rest} \cup X /\ (\A p, q \in X : p = q) /\ \A p \in X : NewOK(p, rest)
  OBVIOUS
<1>3. \A n \in rest : Pending(c[n]) => RunnerKept(n.tab)
  BY <1>1
<1>4. rest \in SUBSET net
  OBVIOUS
<1> HIDE DEF X, c, rest
<1> QED
  BY <1>1, <1>2, <1>3, <1>4, RefreshesCopied

\* The runners do not change.
LEMMA RunnersSame ==
    ASSUME RefreshesOK, TypeOK, ref' = ref, told' = told
    PROVE  WaitersOK /\ \A n \in net : Pending(n) => RunnerKept(n.tab)
BY DEF WaitersOK, RunnerKept, RefreshesOK, OneRefresh

\* A refresh is started or joined: one under way is not disturbed.
LEMMA RunnersStarted ==
    ASSUME RefreshesOK, TypeOK, NEW t \in Tabs, StartRefresh(t), told' = told
    PROVE  WaitersOK /\ \A n \in net : Pending(n) => RunnerKept(n.tab)
<1>1. /\ \A u \in Tabs : u # t => ref'[u] = ref[u]
      /\ ref'[t] = ref[t] \/ (ref[t].st = "none" /\ ref'[t].st = "queued")
  BY Started
<1>2. WaitersOK
  BY <1>1 DEF WaitersOK, RefreshesOK, OneRefresh
<1>3. ASSUME NEW n \in net, Pending(n) PROVE RunnerKept(n.tab)
  <2>1. n.tab \in Tabs /\ ref[n.tab].st = "sent"
    BY <1>3 DEF TypeOK, Message, RefreshesOK, OneRefresh
  <2> QED
    BY <1>1, <2>1 DEF RunnerKept
<1> QED
  BY <1>2, <1>3

\* An answer on its way is refused after the epoch changes.
LEMMA RunnersSuperseded ==
    ASSUME RefreshesOK, TypeOK, NEW t \in Tabs, ref' = Supersede(t),
           \A u \in Tabs : u # t => told'[u] = told[u]
    PROVE  WaitersOK /\ \A n \in net : Pending(n) => RunnerKept(n.tab)
<1>1. /\ \A u \in Tabs : u # t => ref'[u] = ref[u]
      /\ ~ ref'[t].current /\ ref'[t].st = ref[t].st /\ ref'[t].race = ref[t].race
  BY Superseded
<1>2. WaitersOK
  BY <1>1 DEF WaitersOK, RefreshesOK, OneRefresh
<1>3. ASSUME NEW n \in net, Pending(n) PROVE RunnerKept(n.tab)
  <2>1. n.tab \in Tabs /\ ref[n.tab].st = "sent"
    BY <1>3 DEF TypeOK, Message, RefreshesOK, OneRefresh
  <2> QED
    BY <1>1, <2>1 DEF RunnerKept
<1> QED
  BY <1>2, <1>3

\* The runner of t settles once its message is gone.
LEMMA RunnersSettled ==
    ASSUME RefreshesOK, TypeOK, NEW t \in Tabs, ref'[t] = NoRefresh,
           \A u \in Tabs : u # t => ref'[u] = ref[u] /\ told'[u] = told[u],
           NEW rest \in SUBSET net, \A n \in rest : Pending(n) => n.tab # t
    PROVE  WaitersOK /\ \A n \in rest : Pending(n) => RunnerKept(n.tab)
<1>1. WaitersOK
  BY DEF WaitersOK, RefreshesOK, OneRefresh, NoRefresh
<1>2. ASSUME NEW n \in rest, Pending(n) PROVE RunnerKept(n.tab)
  <2>1. n.tab \in Tabs /\ ref[n.tab].st = "sent" /\ n.tab # t
    BY <1>2 DEF TypeOK, Message, RefreshesOK, OneRefresh
  <2> QED
    BY <2>1 DEF RunnerKept
<1> QED
  BY <1>1, <1>2

-----------------------------------------------------------------------------
(* The sessions shown.                                                     *)

LEMMA UsersKept ==
    ASSUME TypeOK', UsersOK,
           \A u \in Tabs :
              \/ store'[u].sid = NoSid
              \/ store'[u].sid = store[u].sid /\ told'[u] = told[u]
              \/ store'[u].sid \notin told'[u]
    PROVE  UsersOK'
<1>1. \A u \in Tabs : NoSid \notin told'[u]
  BY DEF TypeOK, NoSid, Sids
<1> QED
  BY <1>1 DEF UsersOK, SignedOutStaysOut

-----------------------------------------------------------------------------
(* With Web Locks: the lock and the age of the tokens.                     *)

\* Only the tab that holds the lock has a refresh in flight, and only one.
LEMMA SoleRefresh ==
    ASSUME HasLocks, TypeOK, RefreshesOK, LocksOK, ~ lost,
           NEW m \in net, m.kind = "refresh"
    PROVE  /\ m.live /\ HoldsLock(m.tab) /\ ref[m.tab].st = "sent"
           /\ \A n \in net : n.kind = "refresh" => n = m
<1>1. \A n \in net : n.kind = "refresh" =>
         Pending(n) /\ n.tab \in Tabs /\ ref[n.tab].st = "sent" /\ HoldsLock(n.tab)
  BY DEF LocksOK, TokenIsNewest, SenderHoldsLock, RefreshesOK, OneRefresh, Pending, TypeOK, Message
<1>2. \A n \in net : n.kind = "refresh" => n.tab = m.tab
  BY <1>1 DEF HoldsLock
<1>3. \A n \in net : n.kind = "refresh" => n = m
  BY <1>1, <1>2 DEF RefreshesOK, OneRefresh
<1> QED
  BY <1>1, <1>3 DEF Pending

\* The tab that may send has the newest token in the cookie.
LEMMA SenderHasNewest ==
    ASSUME HasLocks, TypeOK, RefreshesOK, LocksOK, ~ lost, NEW t \in Tabs, HoldsLock(t),
           \A n \in net : n.kind = "refresh" /\ n.status = "ok" => n.tab # t
    PROVE  cookie.age = 0
<1>1. ASSUME NEW n \in net, n.kind = "refresh", n.status = "ok" PROVE FALSE
  <2>1. HoldsLock(n.tab)
    BY <1>1, SoleRefresh
  <2> QED
    BY <1>1, <2>1 DEF HoldsLock
<1> QED
  BY <1>1 DEF LocksOK, TokenIsNewest

LEMMA LocksSame ==
    ASSUME HasLocks, TypeOK, SenderHoldsLock, lockq' = lockq,
           \A u \in Tabs : ref'[u].st = "sent" => ref[u].st = "sent" \/ HoldsLock(u)
    PROVE  SenderHoldsLock'
BY DEF SenderHoldsLock, HoldsLock

LEMMA LocksStarted ==
    ASSUME HasLocks, TypeOK, SenderHoldsLock, NEW t \in Tabs, StartRefresh(t)
    PROVE  SenderHoldsLock'
<1>1. /\ \A u \in Tabs : u # t => ref'[u] = ref[u]
      /\ ref'[t] = ref[t] \/ (ref[t].st = "none" /\ ref'[t].st = "queued")
      /\ lockq # <<>> => lockq' # <<>> /\ Head(lockq') = Head(lockq)
  BY Started
<1> QED
  BY <1>1 DEF SenderHoldsLock, HoldsLock

LEMMA LocksLeft ==
    ASSUME HasLocks, TypeOK, SenderHoldsLock, NEW t \in Tabs, Left(t), ref'[t] = NoRefresh,
           \A u \in Tabs : u # t => ref'[u] = ref[u]
    PROVE  SenderHoldsLock'
BY DEF SenderHoldsLock, HoldsLock, Left, NoRefresh

LEMMA LocksSuperseded ==
    ASSUME HasLocks, TypeOK, SenderHoldsLock, NEW t \in Tabs, ref' = Supersede(t), lockq' = lockq
    PROVE  SenderHoldsLock'
<1>1. \A u \in Tabs : ref'[u].st = "sent" => ref[u].st = "sent"
  BY Superseded
<1> QED
  BY <1>1, LocksSame

LEMMA TokenKept ==
    ASSUME TokenIsNewest, UNCHANGED <<net, cookie, lost>>
    PROVE  TokenIsNewest'
BY DEF TokenIsNewest

LEMMA TokenSentOther ==
    ASSUME TokenIsNewest, NEW t, NEW kind, NEW x, IsRequest(t, kind, x), kind # "refresh",
           net' = net \cup {x}, cookie' = cookie, lost' = lost
    PROVE  TokenIsNewest'
<1>1. x.kind # "refresh" /\ x.set.age = 0
  BY DEF IsRequest, NoCookie
<1> QED
  BY <1>1 DEF TokenIsNewest

LEMMA TokenSentRefresh ==
    ASSUME TokenIsNewest, NEW t, NEW m, NEW x, IsRequest(t, "refresh", x),
           ~ lost => cookie.age = 0,
           net' = (net \ {m}) \cup {x}, cookie' \in {cookie, NoCookie}, lost' = lost
    PROVE  TokenIsNewest'
<1>1. x.live /\ x.set.age = 0 /\ (~ lost => x.cookie.age = 0)
  BY DEF IsRequest, NoCookie
<1>2. ~ lost => cookie'.age = 0
  BY DEF NoCookie
<1> QED
  BY <1>1, <1>2 DEF TokenIsNewest

LEMMA TokenTaken ==
    ASSUME TypeOK, TokenIsNewest, NEW m \in net, MessageOK(m), net' = net \ {m},
           ~ lost' => ~ lost,
           \/ cookie' = IF m.writes THEN m.set ELSE cookie
           \/ cookie' = cookie /\ (~ lost' => m.kind # "refresh")
    PROVE  TokenIsNewest'
<1> SUFFICES ASSUME ~ lost' PROVE TokenIsNewest'
  BY DEF TokenIsNewest
<1>1. /\ \A n \in net : n.kind = "refresh" => n.live
      /\ \A n \in net : n.kind = "refresh" /\ n.status = "request" => n.cookie.age = 0
      /\ \A n \in net : n.set.age = 0
      /\ cookie.age = 0 \/ \E n \in net : n.kind = "refresh" /\ n.status = "ok"
  BY DEF TokenIsNewest
<1>2. cookie'.age = 0 \/ \E n \in net' : n.kind = "refresh" /\ n.status = "ok"
  <2>1. CASE m.writes /\ cookie' = m.set
    BY <1>1, <2>1
  <2>2. CASE cookie' = cookie /\ (m.kind = "refresh" => m.status # "ok")
    BY <1>1, <2>2
  <2> QED
    BY <2>1, <2>2 DEF MessageOK
<1> QED
  BY <1>1, <1>2 DEF TokenIsNewest

LEMMA TokenReplied ==
    ASSUME TypeOK, TokenIsNewest, NEW m \in net, m.status = "request", MessageOK(m), Replied(m),
           cookie' = cookie, lost' = lost
    PROVE  TokenIsNewest'
<1>1. PICK x \in Message :
        /\ IsAnswer(m, x.status, x.sid, x)
        /\ net' = (net \ {m}) \cup {x}
        /\ x.set \in {m.set, NoCookie}
        /\ m.kind # "login" /\ x.status # "request"
  BY DEF Replied
<1>2. x.set.age = 0
  BY <1>1 DEF MessageOK, NoCookie
<1>3. x.kind = m.kind /\ x.live = m.live
  BY <1>1 DEF IsAnswer
<1> QED
  BY <1>1, <1>2, <1>3 DEF TokenIsNewest

LEMMA TokenLoggedIn ==
    ASSUME TypeOK, TokenIsNewest, NEW m \in net, LoggedIn(m), cookie' = cookie, lost' = lost
    PROVE  TokenIsNewest'
<1>1. PICK x \in Message :
        /\ IsAnswer(m, "ok", made + 1, x) /\ x.set = Newest(made + 1)
        /\ net' = (net \ {m}) \cup {x}
  BY DEF LoggedIn
<1>2. x.kind = "login" /\ m.kind = "login" /\ x.set.age = 0
  BY <1>1 DEF LoggedIn, IsAnswer, Newest
<1> QED
  BY <1>1, <1>2 DEF TokenIsNewest

LEMMA TokenGranted ==
    ASSUME HasLocks, TypeOK, SidsOK, RefreshesOK, LocksOK, NEW m \in net, m.status = "request",
           Granted(m), lost' = lost
    PROVE  TokenIsNewest'
<1> SUFFICES ASSUME ~ lost PROVE TokenIsNewest'
  BY DEF TokenIsNewest
<1> DEFINE s == m.cookie.sid
<1>0. m.kind = "refresh" /\ m.cookie.age = 0 /\ s \in Sid0 /\ s \in Sids /\ s # NoSid
  BY DEF Granted, LocksOK, TokenIsNewest, Sid0, Sids, NoSid
<1>1. PICK x \in Message :
        /\ IsAnswer(m, "ok", s, x) /\ x.writes /\ x.set = Newest(s)
        /\ net' = {Aged(n, s) : n \in net \ {m}} \cup {x}
  BY <1>0 DEF Granted
<1>2. x.kind = "refresh" /\ x.status = "ok" /\ x.live /\ x.set.age = 0
  BY <1>0, <1>1, SoleRefresh DEF IsAnswer, Newest
<1>3. ASSUME NEW n \in net \ {m}
      PROVE  Aged(n, s).kind # "refresh" /\ Aged(n, s).set.age = 0
  <2>1. n \in Message /\ n.kind # "refresh" /\ n.set.age = 0 /\ MessageOK(n)
    BY <1>0, SoleRefresh DEF TypeOK, LocksOK, TokenIsNewest, SidsOK, Messages
  <2>2. /\ IsCopy(n, Aged(n, s))
        /\ n.set.sid # s => Aged(n, s).set = n.set
    BY <1>0, <2>1, AgedMade
  <2>3. n.set = NoCookie \/ (NewLogin(n) /\ n.set = Newest(n.sid))
    BY <2>1 DEF MessageOK, NewLogin
  <2>4. NewLogin(n) => n.sid # s
    BY DEF SidsOK, LoginsAreNew, Mentions
  <2>5. n.set.sid # s
    BY <1>0, <2>3, <2>4 DEF NoCookie, Newest
  <2> QED
    BY <2>1, <2>2, <2>5 DEF IsCopy
<1> HIDE DEF s
<1>4. \A k \in net' : k = x \/ (k.kind # "refresh" /\ k.set.age = 0)
  BY <1>1, <1>3
<1>5. x \in net'
  BY <1>1
<1> QED
  BY <1>2, <1>4, <1>5 DEF TokenIsNewest

LEMMA TokenUnloaded ==
    ASSUME HasLocks, TypeOK, RefreshesOK, LocksOK, NEW t \in Tabs, Unloaded(t), cookie' = cookie,
           lost' = (lost \/ ref[t].st = "sent")
    PROVE  TokenIsNewest'
<1> SUFFICES ASSUME ~ lost' PROVE TokenIsNewest'
  BY DEF TokenIsNewest
<1>1. ~ lost /\ ref[t].st # "sent"
  OBVIOUS
<1>2. /\ \A n \in net : n.kind = "refresh" => n.live
      /\ \A n \in net : n.kind = "refresh" /\ n.status = "request" => n.cookie.age = 0
      /\ \A n \in net : n.set.age = 0
      /\ cookie.age = 0 \/ \E n \in net : n.kind = "refresh" /\ n.status = "ok"
  BY <1>1 DEF LocksOK, TokenIsNewest
<1>3. \A n \in net : n.kind = "refresh" => n.tab # t
  BY <1>1, SoleRefresh
<1>4. \A k \in net' : k \in net \/ (k.kind # "refresh" /\ k.set.age = 0)
  <2> SUFFICES ASSUME NEW n \in net, n.tab = t
               PROVE  Orphan(n).kind # "refresh" /\ Orphan(n).set.age = 0
    BY DEF Unloaded
  <2>1. IsCopy(n, Orphan(n)) /\ Orphan(n).set = n.set
    BY OrphanMade DEF TypeOK
  <2> QED
    BY <1>2, <1>3, <2>1 DEF IsCopy
<1>5. \A n \in net : n.kind = "refresh" => n \in net'
  BY <1>3 DEF Unloaded
<1> QED
  BY <1>2, <1>4, <1>5 DEF TokenIsNewest

LEMMA ReuseKept ==
    ASSUME TypeOK, TypeOK', ReuseNeedsLoss, lost => lost',
           lost \/ Ends(FALSE) \/ \A s \in Sids : row'[s].reuse => row[s].reuse
    PROVE  ReuseNeedsLoss'
BY DEF ReuseNeedsLoss, Ends, TypeOK, Row

-----------------------------------------------------------------------------
(* Every step preserves the invariant.                                     *)

\* What the quiet steps leave alone.
Elsewhere == <<net, cookie, row, made, lost>>

\* A tab asks for a refresh, supersedes one, or only changes its page.
LEMMA QuietStep ==
    ASSUME Inv, TypeOK', NEW t \in Tabs, Stays(t), UNCHANGED Elsewhere
    PROVE  Inv'
<1>0. TypeOK /\ SidsOK /\ RefreshesOK /\ UsersOK /\ SameSids /\ told' = told /\ UNCHANGED Elsewhere
  BY DEF Inv, Stays
<1>1. SidsOK'
  <2>1. ToldEnded /\ \A u \in Tabs : store'[u].sid \in {NoSid, store[u].sid}
    BY <1>0 DEF ToldEnded, SameSids
  <2> QED
    BY <1>0, <2>1, SidsKept DEF Elsewhere
<1>2. RefreshesOK'
  <2>1. WaitersOK /\ \A n \in net : Pending(n) => RunnerKept(n.tab)
    BY <1>0, RunnersStarted, RunnersSuperseded, RunnersSame DEF Stays
  <2>2. net' \in SUBSET net /\ \A n \in net' : Pending(n) => RunnerKept(n.tab)
    BY <1>0, <2>1 DEF Elsewhere
  <2> QED
    BY <1>0, <2>1, <2>2, RefreshesLeft
<1>3. UsersOK'
  BY <1>0, UsersKept DEF SameSids
<1>4. ASSUME HasLocks PROVE LocksOK'
  <2>1. SenderHoldsLock /\ TokenIsNewest /\ ReuseNeedsLoss
    BY <1>4 DEF Inv, LocksOK
  <2>2. SenderHoldsLock'
    BY <1>0, <1>4, <2>1, LocksStarted, LocksSuperseded, LocksSame DEF Stays
  <2>3. TokenIsNewest'
    BY <1>0, <2>1, TokenKept DEF Elsewhere
  <2>4. ReuseNeedsLoss'
    <3>1. row' = row /\ lost' = lost
      BY <1>0 DEF Elsewhere
    <3> QED
      BY <1>0, <2>1, <3>1, ReuseKept
  <2> QED
    BY <2>2, <2>3, <2>4 DEF LocksOK
<1> QED
  BY <1>0, <1>1, <1>2, <1>3, <1>4 DEF Inv

\* A tab signs out.
LEMMA ClearStep ==
    ASSUME Inv, TypeOK', NEW t \in Tabs, Clears(t), UNCHANGED Elsewhere
    PROVE  Inv'
<1>0. TypeOK /\ SidsOK /\ RefreshesOK /\ UsersOK /\ UNCHANGED Elsewhere
  BY DEF Inv
<1>t. ToldEnded /\ \A u \in Tabs : u # t => told'[u] = told[u]
  BY <1>0, ToldByTell, Learned DEF Clears
<1>1. SidsOK'
  <2>1. \A u \in Tabs : store'[u].sid \in {NoSid, store[u].sid}
    BY DEF Clears
  <2> QED
    BY <1>0, <1>t, <2>1, SidsKept DEF Elsewhere
<1>2. RefreshesOK'
  <2>1. WaitersOK /\ \A n \in net : Pending(n) => RunnerKept(n.tab)
    BY <1>0, <1>t, RunnersSuperseded DEF Clears
  <2>2. net' \in SUBSET net /\ \A n \in net' : Pending(n) => RunnerKept(n.tab)
    BY <1>0, <2>1 DEF Elsewhere
  <2> QED
    BY <1>0, <2>1, <2>2, RefreshesLeft
<1>3. UsersOK'
  BY <1>0, <1>t, UsersKept DEF Clears
<1>4. ASSUME HasLocks PROVE LocksOK'
  <2>1. SenderHoldsLock /\ TokenIsNewest /\ ReuseNeedsLoss
    BY <1>4 DEF Inv, LocksOK
  <2>2. SenderHoldsLock'
    BY <1>0, <1>4, <2>1, LocksSuperseded DEF Clears
  <2>3. TokenIsNewest'
    BY <1>0, <2>1, TokenKept DEF Elsewhere
  <2>4. ReuseNeedsLoss'
    <3>1. row' = row /\ lost' = lost
      BY <1>0 DEF Elsewhere
    <3> QED
      BY <1>0, <2>1, <3>1, ReuseKept
  <2> QED
    BY <2>2, <2>3, <2>4 DEF LocksOK
<1> QED
  BY <1>0, <1>1, <1>2, <1>3, <1>4 DEF Inv

\* A page is left.
LEMMA UnloadStep ==
    ASSUME Inv, TypeOK', NEW t \in Tabs, Unload(t), UNCHANGED <<cookie, row, made, told>>
    PROVE  Inv'
<1>0. TypeOK /\ SidsOK /\ RefreshesOK /\ UsersOK /\ UNCHANGED <<cookie, row, made, told>>
  BY DEF Inv
<1>u. Unloaded(t)
  BY <1>0, Unloads
<1>1. SidsOK'
  BY <1>0, <1>u, SidsUnloaded
<1>2. RefreshesOK'
  <2> DEFINE c == [m \in net |-> IF m.tab = t THEN Orphan(m) ELSE m]
             X == {}
  <2>1. \A n \in net : IsCopy(n, c[n]) /\ (c[n].live => n.live) /\ (Pending(c[n]) => Pending(n) /\ n.tab # t)
    <3> SUFFICES ASSUME NEW n \in net
                 PROVE  /\ IsCopy(n, c[n]) /\ (c[n].live => n.live)
                        /\ Pending(c[n]) => Pending(n) /\ n.tab # t
      OBVIOUS
    <3>1. n \in Message
      BY <1>0 DEF TypeOK
    <3>2. IsCopy(n, n) /\ IsCopy(n, Orphan(n)) /\ ~ Orphan(n).live
      BY <3>1, OrphanMade DEF IsCopy
    <3>3. CASE n.tab = t
      BY <3>2, <3>3 DEF Pending
    <3>4. CASE n.tab # t
      BY <3>2, <3>4 DEF Pending
    <3> QED
      BY <3>3, <3>4
  <2>2. WaitersOK
    <3>1. ref'[t].st = "none" /\ \A u \in Tabs : u # t => ref'[u] = ref[u]
      BY <1>u DEF Unloaded, NoRefresh
    <3> QED
      BY <1>0, <3>1 DEF WaitersOK, RefreshesOK, OneRefresh
  <2>3. \A n \in net : Pending(c[n]) => RunnerKept(n.tab)
    <3> HIDE DEF c
    <3> SUFFICES ASSUME NEW n \in net, Pending(c[n]) PROVE RunnerKept(n.tab)
      OBVIOUS
    <3>1. Pending(n) /\ n.tab # t /\ n.tab \in Tabs
      BY <1>0, <2>1 DEF TypeOK, Message
    <3> QED
      BY <1>0, <1>u, <3>1 DEF Unloaded, RunnerKept, RefreshesOK, OneRefresh
  <2>4. /\ net' = {c[n] : n \in net} \cup X /\ net \in SUBSET net
        /\ \A p, q \in X : p = q
        /\ \A p \in X : NewOK(p, net)
    BY <1>u DEF Unloaded
  <2> HIDE DEF c, X
  <2> QED
    BY <1>0, <2>1, <2>2, <2>3, <2>4, RefreshesCopied
<1>3. UsersOK'
  BY <1>0, <1>u, UsersKept DEF Unloaded
<1>4. ASSUME HasLocks PROVE LocksOK'
  <2>1. LocksOK /\ SenderHoldsLock /\ TokenIsNewest /\ ReuseNeedsLoss
    BY <1>4 DEF Inv, LocksOK
  <2>2. SenderHoldsLock'
    BY <1>0, <1>4, <1>u, <2>1, LocksLeft DEF Unloaded
  <2>3. lost' = (lost \/ ref[t].st = "sent")
    BY DEF Unload
  <2>4. TokenIsNewest'
    BY <1>0, <1>4, <1>u, <2>1, <2>3, TokenUnloaded
  <2>5. ReuseNeedsLoss'
    BY <1>0, <2>1, <2>3, ReuseKept
  <2> QED
    BY <2>2, <2>4, <2>5 DEF LocksOK
<1> QED
  BY <1>0, <1>1, <1>2, <1>3, <1>4 DEF Inv

\* A sign-in, a sign-out, a security change or a save is sent.
LEMMA SendStep ==
    ASSUME Inv, TypeOK', NEW t \in Tabs, NEW kind \in {"login", "logout", "change", "save"},
           net' = net \cup {Request(t, kind)},
           UNCHANGED <<store, ref, lockq, cookie, row, made, told, lost>>
    PROVE  Inv'
<1>0. TypeOK /\ SidsOK /\ RefreshesOK /\ UsersOK
  BY DEF Inv
<1> DEFINE x == Request(t, kind)
<1>x. IsRequest(t, kind, x)
  BY <1>0, RequestMade
<1>n. net' = net \cup {x} /\ net' = (net \ {x}) \cup {x}
  OBVIOUS
<1> HIDE DEF x
<1>1. SidsOK'
  <2>1. kind = "login" => x.bearer = NoSid
    BY <1>x DEF IsRequest
  <2>2. cookie' \in {cookie, NoCookie} /\ \A u \in Tabs : store'[u].sid \in {NoSid, store[u].sid}
    OBVIOUS
  <2> QED
    BY <1>0, <1>x, <1>n, <2>1, <2>2, SidsSent
<1>2. RefreshesOK'
  <2>1. NewOK(x, net)
    BY <1>x DEF NewOK, Pending, IsRequest
  <2> QED
    BY <1>0, <1>n, <2>1, RunnersSame, RefreshesNew
<1>3. UsersOK'
  BY <1>0, UsersKept
<1>4. ASSUME HasLocks PROVE LocksOK'
  <2>1. SenderHoldsLock /\ TokenIsNewest /\ ReuseNeedsLoss
    BY <1>4 DEF Inv, LocksOK
  <2>2. SenderHoldsLock'
    BY <1>0, <1>4, <2>1, LocksSame
  <2>3. TokenIsNewest'
    BY <1>n, <1>x, <2>1, TokenSentOther
  <2>4. ReuseNeedsLoss'
    BY <1>0, <2>1, ReuseKept
  <2> QED
    BY <2>2, <2>3, <2>4 DEF LocksOK
<1> QED
  BY <1>1, <1>2, <1>3, <1>4 DEF Inv

\* The runner whose turn it is sends, or gives up.
LEMMA RunStep ==
    ASSUME Inv, TypeOK', NEW t \in Tabs, RunRefresh(t)
    PROVE  Inv'
<1>0. TypeOK /\ SidsOK /\ RefreshesOK /\ UsersOK
  BY DEF Inv
<1>f. UNCHANGED <<store, cookie, row, made, told, lost>> /\ ref[t].st = "queued" /\ HoldsLock(t)
  BY DEF RunRefresh
<1>p. \A n \in net : Pending(n) => n.tab # t
  BY <1>0, <1>f DEF RefreshesOK, OneRefresh
<1>3. UsersOK'
  BY <1>0, <1>f, UsersKept
<1>4. CASE IsCurrent(t)
  <2> DEFINE x == Request(t, "refresh")
  <2>x. IsRequest(t, "refresh", x)
    BY <1>0, RequestMade
  <2>n. net' = net \cup {x} /\ net' = (net \ {x}) \cup {x} /\ lockq' = lockq
    BY <1>4 DEF RunRefresh
  <2> HIDE DEF x
  <2>r. /\ ref'[t].st = "sent" /\ \A u \in Tabs : u # t => ref'[u] = ref[u]
    BY <1>0, <1>4 DEF RunRefresh, TypeOK, Refresh
  <2>1. SidsOK'
    <3>1. cookie' \in {cookie, NoCookie} /\ \A u \in Tabs : store'[u].sid \in {NoSid, store[u].sid}
      BY <1>f
    <3> QED
      BY <1>0, <1>f, <2>x, <2>n, <3>1, SidsSent
  <2>2. RefreshesOK'
    <3>1. NewOK(x, net)
      BY <1>p, <2>r, <2>x DEF NewOK, IsRequest
    <3>2. WaitersOK
      BY <1>0, <2>r DEF WaitersOK, RefreshesOK, OneRefresh
    <3>3. \A n \in net : Pending(n) => RunnerKept(n.tab)
      <4> SUFFICES ASSUME NEW n \in net, Pending(n) PROVE RunnerKept(n.tab)
        OBVIOUS
      <4>1. n.tab \in Tabs /\ n.tab # t /\ ref[n.tab].st = "sent"
        BY <1>0, <1>p DEF TypeOK, Message, RefreshesOK, OneRefresh
      <4> QED
        BY <1>f, <2>r, <4>1 DEF RunnerKept
    <3> QED
      BY <1>0, <2>n, <3>1, <3>2, <3>3, RefreshesNew
  <2>3. ASSUME HasLocks PROVE LocksOK'
    <3>1. LocksOK /\ SenderHoldsLock /\ TokenIsNewest /\ ReuseNeedsLoss
      BY <2>3 DEF Inv, LocksOK
    <3>2. SenderHoldsLock'
      BY <1>0, <1>f, <2>3, <2>n, <2>r, <3>1, LocksSame
    <3>3. ~ lost => cookie.age = 0
      <4> SUFFICES ASSUME ~ lost PROVE cookie.age = 0
        OBVIOUS
      <4>1. \A n \in net : n.kind = "refresh" => n.tab # t
        BY <1>0, <1>f, <2>3, <3>1, SoleRefresh
      <4> QED
        BY <1>0, <1>f, <2>3, <3>1, <4>1, SenderHasNewest
    <3>4. TokenIsNewest'
      BY <1>f, <2>n, <2>x, <3>1, <3>3, TokenSentRefresh
    <3>5. ReuseNeedsLoss'
      BY <1>0, <1>f, <3>1, ReuseKept
    <3> QED
      BY <3>2, <3>4, <3>5 DEF LocksOK
  <2> QED
    BY <1>3, <2>1, <2>2, <2>3 DEF Inv
<1>5. CASE ~ IsCurrent(t)
  <2>1. FinishRefresh(t, "transient") /\ net' = net /\ "transient" \in Outcomes
    BY <1>5 DEF RunRefresh, Outcomes
  <2>2. Left(t) /\ ref'[t] = NoRefresh /\ \A u \in Tabs : u # t => ref'[u] = ref[u]
    BY <1>0, <2>1, Finished
  <2>3. SidsOK'
    <3>1. ToldEnded /\ \A u \in Tabs : store'[u].sid \in {NoSid, store[u].sid}
      BY <1>f DEF ToldEnded
    <3> QED
      BY <1>0, <1>f, <2>1, <3>1, SidsKept
  <2>4. RefreshesOK'
    <3>1. WaitersOK /\ \A n \in net : Pending(n) => RunnerKept(n.tab)
      BY <1>0, <1>f, <1>p, <2>2, RunnersSettled
    <3> QED
      BY <1>0, <2>1, <3>1, RefreshesLeft
  <2>5. ASSUME HasLocks PROVE LocksOK'
    <3>1. SenderHoldsLock /\ TokenIsNewest /\ ReuseNeedsLoss
      BY <2>5 DEF Inv, LocksOK
    <3>2. SenderHoldsLock'
      BY <1>0, <2>2, <2>5, <3>1, LocksLeft
    <3>3. TokenIsNewest'
      BY <1>f, <2>1, <3>1, TokenKept
    <3>4. ReuseNeedsLoss'
      BY <1>0, <1>f, <3>1, ReuseKept
    <3> QED
      BY <3>2, <3>3, <3>4 DEF LocksOK
  <2> QED
    BY <1>3, <2>3, <2>4, <2>5 DEF Inv
<1> QED
  BY <1>4, <1>5

\* The delay after a race ends.
LEMMA DelayStep ==
    ASSUME Inv, TypeOK', NEW t \in Tabs, RaceDelayEnds(t)
    PROVE  Inv'
<1>0. TypeOK /\ SidsOK /\ RefreshesOK /\ UsersOK
  BY DEF Inv
<1>f. UNCHANGED <<store, lockq, net, cookie, row, made, told, lost>> /\ ref[t].st = "waiting"
  BY DEF RaceDelayEnds
<1>r. ref'[t].st = "queued" /\ \A u \in Tabs : u # t => ref'[u] = ref[u]
  BY <1>0 DEF RaceDelayEnds, TypeOK, Refresh
<1>1. SidsOK'
  <2>1. ToldEnded /\ \A u \in Tabs : store'[u].sid \in {NoSid, store[u].sid}
    BY <1>f DEF ToldEnded
  <2> QED
    BY <1>0, <1>f, <2>1, SidsKept
<1>2. RefreshesOK'
  <2>1. WaitersOK
    BY <1>0, <1>r DEF WaitersOK, RefreshesOK, OneRefresh
  <2>2. ASSUME NEW n \in net, Pending(n) PROVE RunnerKept(n.tab)
    <3>1. n.tab \in Tabs /\ n.tab # t /\ ref[n.tab].st = "sent"
      BY <1>0, <1>f, <2>2 DEF TypeOK, Message, RefreshesOK, OneRefresh
    <3> QED
      BY <1>f, <1>r, <3>1 DEF RunnerKept
  <2> QED
    BY <1>0, <1>f, <2>1, <2>2, RefreshesLeft
<1>3. UsersOK'
  BY <1>0, <1>f, UsersKept
<1>4. ASSUME HasLocks PROVE LocksOK'
  <2>1. SenderHoldsLock /\ TokenIsNewest /\ ReuseNeedsLoss
    BY <1>4 DEF Inv, LocksOK
  <2>2. SenderHoldsLock'
    BY <1>0, <1>4, <1>f, <1>r, <2>1, LocksSame
  <2>3. TokenIsNewest'
    BY <1>f, <2>1, TokenKept
  <2>4. ReuseNeedsLoss'
    BY <1>0, <1>f, <2>1, ReuseKept
  <2> QED
    BY <2>2, <2>3, <2>4 DEF LocksOK
<1> QED
  BY <1>1, <1>2, <1>3, <1>4 DEF Inv

\* The answer x takes the place of m and of its page's wait.
LEMMA AnswerIsNew ==
    ASSUME TypeOK, RefreshesOK, NEW m \in net, NEW x, IsAnswer(m, x.status, x.sid, x),
           ref' = ref, told' = told, x.status = "ok" /\ m.kind = "refresh" => x.sid \notin told[m.tab]
    PROVE  NewOK(x, net \ {m})
<1> SUFFICES ASSUME Pending(x)
             PROVE  /\ ref'[x.tab].st = "sent"
                    /\ \A n \in net \ {m} : Pending(n) => n.tab # x.tab
                    /\ x.status = "ok" => x.sid \notin told'[x.tab]
  BY DEF NewOK
<1>1. Pending(m) /\ x.tab = m.tab /\ m.kind = "refresh"
  BY DEF Pending, IsAnswer
<1>2. ref[m.tab].st = "sent" /\ \A n \in net : Pending(n) /\ n.tab = m.tab => n = m
  BY <1>1 DEF RefreshesOK, OneRefresh
<1> QED
  BY <1>1, <1>2

\* What the server's steps leave alone.
Clients == <<store, ref, lockq, told, lost>>

LEMMA ReplyStep ==
    ASSUME Inv, TypeOK', NEW m \in net, m.status = "request", Replied(m), NEW reuse, Ends(reuse),
           UNCHANGED Clients, cookie' = cookie, made' = made,
           HasLocks => lost \/ \A s \in Sids : row'[s].reuse => row[s].reuse
    PROVE  Inv'
<1>0. /\ TypeOK /\ SidsOK /\ RefreshesOK /\ UsersOK
      /\ UNCHANGED <<store, ref, lockq, told, lost>>
  BY DEF Inv, Clients
<1>1. SidsOK'
  BY <1>0, SidsReplied
<1>2. RefreshesOK'
  <2>1. PICK x \in Message :
          /\ IsAnswer(m, x.status, x.sid, x) /\ net' = (net \ {m}) \cup {x}
          /\ m.kind = "refresh" => x.status # "ok"
    BY DEF Replied
  <2>2. NewOK(x, net \ {m})
    BY <1>0, <2>1, AnswerIsNew
  <2>3. WaitersOK /\ \A n \in net \ {m} : Pending(n) => RunnerKept(n.tab)
    BY <1>0, RunnersSame
  <2> QED
    BY <1>0, <2>1, <2>2, <2>3, RefreshesNew
<1>3. UsersOK'
  BY <1>0, UsersKept
<1>4. ASSUME HasLocks PROVE LocksOK'
  <2>1. SenderHoldsLock /\ TokenIsNewest /\ ReuseNeedsLoss
    BY <1>4 DEF Inv, LocksOK
  <2>2. SenderHoldsLock'
    BY <1>0, <1>4, <2>1, LocksSame
  <2>3. TokenIsNewest'
    BY <1>0, <2>1, TokenReplied DEF SidsOK, Messages
  <2>4. ReuseNeedsLoss'
    BY <1>0, <1>4, <2>1, ReuseKept
  <2> QED
    BY <2>2, <2>3, <2>4 DEF LocksOK
<1> QED
  BY <1>1, <1>2, <1>3, <1>4 DEF Inv

LEMMA GrantStep ==
    ASSUME Inv, TypeOK', NEW m \in net, m.status = "request", Granted(m),
           UNCHANGED Clients, row' = row, made' = made
    PROVE  Inv'
<1>0. /\ TypeOK /\ SidsOK /\ RefreshesOK /\ UsersOK
      /\ UNCHANGED <<store, ref, lockq, told, lost>>
  BY DEF Inv, Clients
<1> DEFINE s == m.cookie.sid
           rest == net \ {m}
<1>1. SidsOK'
  BY <1>0, SidsGranted
<1>2. RefreshesOK'
  <2>1. PICK x \in Message :
          /\ IsAnswer(m, "ok", s, x)
          /\ \/ net' = rest \cup {x}
             \/ net' = {Aged(n, s) : n \in rest} \cup {x}
    BY DEF Granted
  <2>2. s \in Sid0 /\ s \notin told[m.tab] /\ m.tab \in Tabs
    <3>1. s \in Sids /\ row[s].status = "active" /\ m.tab \in Tabs
      BY <1>0 DEF Granted, TypeOK, Message
    <3>2. s \notin told[m.tab]
      BY <1>0, <3>1 DEF SidsOK, KnownSids
    <3> QED
      BY <3>1, <3>2 DEF Sid0
  <2>3. NewOK(x, rest)
    <3>1. x.status = "ok" /\ x.sid = s
      BY <2>1 DEF IsAnswer
    <3> QED
      BY <1>0, <2>1, <2>2, <3>1, AnswerIsNew
  <2>4. WaitersOK /\ \A n \in rest : Pending(n) => RunnerKept(n.tab)
    BY <1>0, RunnersSame
  <2>5. CASE net' = rest \cup {x}
    BY <1>0, <2>3, <2>4, <2>5, RefreshesNew
  <2>6. CASE net' = {Aged(n, s) : n \in rest} \cup {x}
    <3> DEFINE c == [n \in net |-> Aged(n, s)]
               X == {x}
    <3>1. \A n \in rest : IsCopy(n, c[n]) /\ (c[n].live => n.live)
      BY <1>0, <2>2, AgedMade DEF TypeOK
    <3>2. \A n \in rest : Pending(c[n]) => RunnerKept(n.tab)
      <4> HIDE DEF c, rest
      <4> QED
        BY <2>4, <3>1 DEF Pending, IsCopy
    <3>3. /\ net' = {c[n] : n \in rest} \cup X /\ rest \in SUBSET net
          /\ \A p, q \in X : p = q
          /\ \A p \in X : NewOK(p, rest)
      BY <2>3, <2>6
    <3> HIDE DEF c, X, rest
    <3> QED
      BY <1>0, <2>4, <3>1, <3>2, <3>3, RefreshesCopied
  <2> QED
    BY <2>1, <2>5, <2>6
<1>3. UsersOK'
  BY <1>0, UsersKept
<1>4. ASSUME HasLocks PROVE LocksOK'
  <2>1. LocksOK /\ SenderHoldsLock /\ TokenIsNewest /\ ReuseNeedsLoss
    BY <1>4 DEF Inv, LocksOK
  <2>2. SenderHoldsLock'
    BY <1>0, <1>4, <2>1, LocksSame
  <2>3. TokenIsNewest'
    BY <1>0, <1>4, <2>1, TokenGranted
  <2>4. ReuseNeedsLoss'
    BY <1>0, <2>1, ReuseKept
  <2> QED
    BY <2>2, <2>3, <2>4 DEF LocksOK
<1> QED
  BY <1>1, <1>2, <1>3, <1>4 DEF Inv

LEMMA LoginStep ==
    ASSUME Inv, TypeOK', NEW m \in net, LoggedIn(m), UNCHANGED Clients, cookie' = cookie
    PROVE  Inv'
<1>0. /\ TypeOK /\ SidsOK /\ RefreshesOK /\ UsersOK
      /\ UNCHANGED <<store, ref, lockq, told, lost>>
  BY DEF Inv, Clients
<1>1. SidsOK'
  BY <1>0, SidsLoggedIn
<1>2. RefreshesOK'
  <2>1. PICK x \in Message : IsAnswer(m, "ok", made + 1, x) /\ net' = (net \ {m}) \cup {x}
    BY DEF LoggedIn
  <2>2. x.kind = "login"
    BY <2>1 DEF IsAnswer, LoggedIn
  <2>3. NewOK(x, net \ {m})
    BY <2>2 DEF NewOK, Pending
  <2>4. WaitersOK /\ \A n \in net \ {m} : Pending(n) => RunnerKept(n.tab)
    BY <1>0, RunnersSame
  <2> QED
    BY <1>0, <2>1, <2>3, <2>4, RefreshesNew
<1>3. UsersOK'
  BY <1>0, UsersKept
<1>4. ASSUME HasLocks PROVE LocksOK'
  <2>1. SenderHoldsLock /\ TokenIsNewest /\ ReuseNeedsLoss
    BY <1>4 DEF Inv, LocksOK
  <2>2. SenderHoldsLock'
    BY <1>0, <1>4, <2>1, LocksSame
  <2>3. TokenIsNewest'
    BY <1>0, <2>1, TokenLoggedIn
  <2>4. ReuseNeedsLoss'
    <3>1. row' = [row EXCEPT ![made + 1] = NewRow] /\ ~ NewRow.reuse
      BY DEF LoggedIn, NewRow
    <3>2. \A s \in Sids : row'[s].reuse => row[s].reuse
      BY <1>0, <3>1 DEF TypeOK
    <3> QED
      BY <1>0, <2>1, <3>2, ReuseKept
  <2> QED
    BY <2>2, <2>3, <2>4 DEF LocksOK
<1> QED
  BY <1>1, <1>2, <1>3, <1>4 DEF Inv

LEMMA RevokeStep ==
    ASSUME Inv, TypeOK', Ends(FALSE), UNCHANGED <<Clients, net, cookie, made>>
    PROVE  Inv'
<1>0. /\ TypeOK /\ SidsOK /\ RefreshesOK /\ UsersOK
      /\ UNCHANGED <<store, ref, lockq, told, lost, net, cookie, made>>
  BY DEF Inv, Clients
<1>1. SidsOK'
  BY <1>0, SidsRevoked
<1>2. RefreshesOK'
  <2>1. WaitersOK /\ \A n \in net' : Pending(n) => RunnerKept(n.tab)
    BY <1>0, RunnersSame
  <2>2. net' \in SUBSET net
    BY <1>0
  <2> QED
    BY <1>0, <2>1, <2>2, RefreshesLeft
<1>3. UsersOK'
  BY <1>0, UsersKept
<1>4. ASSUME HasLocks PROVE LocksOK'
  <2>1. SenderHoldsLock /\ TokenIsNewest /\ ReuseNeedsLoss
    BY <1>4 DEF Inv, LocksOK
  <2>2. SenderHoldsLock'
    BY <1>0, <1>4, <2>1, LocksSame
  <2>3. TokenIsNewest'
    BY <1>0, <2>1, TokenKept
  <2>4. ReuseNeedsLoss'
    BY <1>0, <2>1, ReuseKept
  <2> QED
    BY <2>2, <2>3, <2>4 DEF LocksOK
<1> QED
  BY <1>1, <1>2, <1>3, <1>4 DEF Inv

LEMMA ServeStep ==
    ASSUME Inv, TypeOK', NEW m \in net, Serve(m) \/ ServeError(m)
    PROVE  Inv'
<1>0. TypeOK
  BY DEF Inv
<1>1. CASE ServeRefresh(m)
  <2>1. UNCHANGED Clients /\ made' = made
    BY <1>1 DEF ServeRefresh, Clients
  <2>2. m.kind = "refresh" /\ m.status = "request"
    BY <1>0, <1>1, RefreshServed
  <2>3. CASE Replied(m) /\ cookie' = cookie /\ Ends(m.cookie.age = 1)
    <3>1. HasLocks /\ ~ lost => m.cookie.age # 1
      BY <2>2 DEF Inv, LocksOK, TokenIsNewest
    <3>2. HasLocks => lost \/ \A s \in Sids : row'[s].reuse => row[s].reuse
      BY <2>3, <3>1 DEF Ends
    <3> QED
      BY <2>1, <2>2, <2>3, <3>2, ReplyStep
  <2>4. CASE Granted(m) /\ row' = row
    BY <2>1, <2>2, <2>4, GrantStep
  <2> QED
    BY <1>0, <1>1, <2>3, <2>4, RefreshServed
<1>2. CASE ServeLogin(m)
  <2>1. LoggedIn(m) /\ UNCHANGED Clients /\ cookie' = cookie
    BY <1>0, <1>2, LoginServed DEF ServeLogin, Clients
  <2> QED
    BY <2>1, LoginStep
<1>3. CASE ServeLogout(m) \/ ServeChange(m)
  <2>1. Replied(m) /\ Ends(FALSE) /\ m.status = "request"
    BY <1>0, <1>3, LogoutServed, ChangeServed
  <2>2. UNCHANGED Clients /\ cookie' = cookie /\ made' = made
    BY <1>3 DEF ServeLogout, ServeChange, Clients
  <2>3. \A s \in Sids : row'[s].reuse => row[s].reuse
    BY <2>1 DEF Ends
  <2> QED
    BY <2>1, <2>2, <2>3, ReplyStep
<1>4. CASE ServeError(m) \/ ServeSave(m)
  <2>1. Replied(m) /\ row' = row /\ m.status = "request"
    BY <1>0, <1>4, ErrorServed, SaveServed
  <2>2. UNCHANGED Clients /\ cookie' = cookie /\ made' = made
    BY <1>4 DEF ServeError, ServeSave, Clients
  <2>3. Ends(FALSE) /\ \A s \in Sids : row'[s].reuse => row[s].reuse
    BY <2>1 DEF Ends
  <2> QED
    BY <2>1, <2>2, <2>3, ReplyStep
<1> QED
  BY <1>1, <1>2, <1>3, <1>4 DEF Serve

\* m reaches its page, or is lost on the way.
Arrives(m) ==
    /\ m \in net /\ m.live /\ UNCHANGED <<row, made>>
    /\ \/ cookie' = (IF m.writes THEN m.set ELSE cookie) /\ lost' = lost
       \/ cookie' = cookie /\ lost' = (lost \/ m.kind = "refresh")

LEMMA ArrivedToken ==
    ASSUME TypeOK, SidsOK, NEW m, Arrives(m), net' = net \ {m}, HasLocks => TokenIsNewest
    PROVE  HasLocks => TokenIsNewest'
<1>1. /\ m \in net /\ (~ lost' => ~ lost)
      /\ \/ cookie' = IF m.writes THEN m.set ELSE cookie
         \/ cookie' = cookie /\ (~ lost' => m.kind # "refresh")
  <2>1. CASE cookie' = (IF m.writes THEN m.set ELSE cookie) /\ lost' = lost
    BY <2>1 DEF Arrives
  <2>2. CASE cookie' = cookie /\ lost' = (lost \/ m.kind = "refresh")
    BY <2>2 DEF Arrives
  <2> QED
    BY <2>1, <2>2 DEF Arrives
<1>2. MessageOK(m)
  BY <1>1 DEF SidsOK, Messages
<1> QED
  BY <1>1, <1>2, TokenTaken

\* The runner settles with the answer.
LEMMA SettleStep ==
    ASSUME Inv, TypeOK', NEW m, Arrives(m), m.kind = "refresh", Settles(m.tab, m)
    PROVE  Inv'
<1> DEFINE t == m.tab
<1>0. TypeOK /\ SidsOK /\ RefreshesOK /\ UsersOK
  BY DEF Inv
<1>m. m \in net /\ t \in Tabs /\ Pending(m) /\ UNCHANGED <<row, made>> /\ (lost => lost')
  BY <1>0 DEF Arrives, Pending, TypeOK, Message
<1>n. net' = net \ {m}
  BY DEF Settles
<1>t. told' = told \/ Tell(t, store[t].sid)
  BY DEF Settles
<1>p. \A n \in net \ {m} : Pending(n) => n.tab # t
  BY <1>0, <1>m DEF RefreshesOK, OneRefresh
<1>1. SidsOK'
  <2>1. ToldEnded
    BY <1>0, <1>m, <1>t, ToldByTell
  <2>2. cookie' \in {cookie, m.set}
    BY DEF Arrives
  <2>3. \A u \in Tabs : store'[u].sid \in {NoSid, store[u].sid, m.sid}
    BY DEF Settles
  <2> QED
    BY <1>0, <1>m, <1>n, <2>1, <2>2, <2>3, SidsTaken
<1>r. \A u \in Tabs : u # t => ref'[u] = ref[u] /\ told'[u] = told[u]
  BY <1>0, <1>m, <1>t, Learned DEF Settles
<1>2. RefreshesOK'
  <2>1. ref'[t] = NoRefresh
    BY DEF Settles
  <2>2. net \ {m} \in SUBSET net
    OBVIOUS
  <2>3. WaitersOK /\ \A n \in net \ {m} : Pending(n) => RunnerKept(n.tab)
    BY <1>0, <1>m, <1>p, <1>r, <2>1, <2>2, RunnersSettled
  <2> QED
    BY <1>0, <1>n, <2>2, <2>3, RefreshesLeft
<1>3. UsersOK'
  <2>1. \A u \in Tabs : u # t =>
          store'[u].sid = store[u].sid /\ store'[u].user = store[u].user /\ told'[u] = told[u]
    BY <1>r DEF Settles
  <2>2. CASE /\ IsCurrent(t) /\ m.status = "ok"
             /\ store'[t].sid = m.sid /\ store'[t].user = m.sid /\ told' = told
    <3>1. m.sid \notin told[t]
      BY <1>0, <1>m, <2>2 DEF RefreshesOK, GrantsAreValid, IsCurrent
    <3> QED
      BY <1>0, <2>1, <2>2, <3>1, UsersKept
  <2>3. CASE store'[t].sid = NoSid /\ store'[t].user = NoSid
    BY <1>0, <2>1, <2>3, UsersKept
  <2>4. CASE store'[t].sid = store[t].sid /\ store'[t].user = store[t].user /\ told' = told
    BY <1>0, <2>1, <2>4, UsersKept
  <2> QED
    BY <2>2, <2>3, <2>4 DEF Settles
<1>4. ASSUME HasLocks PROVE LocksOK'
  <2>1. SenderHoldsLock /\ TokenIsNewest /\ ReuseNeedsLoss
    BY <1>4 DEF Inv, LocksOK
  <2>2. SenderHoldsLock'
    <3>1. Left(t) /\ ref'[t] = NoRefresh /\ \A u \in Tabs : u # t => ref'[u] = ref[u]
      BY DEF Settles
    <3> QED
      BY <1>0, <1>4, <1>m, <2>1, <3>1, LocksLeft
  <2>3. TokenIsNewest'
    BY <1>0, <1>4, <1>n, <2>1, ArrivedToken
  <2>4. ReuseNeedsLoss'
    BY <1>0, <1>m, <2>1, ReuseKept
  <2> QED
    BY <2>2, <2>3, <2>4 DEF LocksOK
<1> QED
  BY <1>1, <1>2, <1>3, <1>4 DEF Inv

\* The runner waits after a race.
LEMMA WaitStep ==
    ASSUME Inv, TypeOK', NEW m, Arrives(m), m.kind = "refresh", Waits(m.tab, m)
    PROVE  Inv'
<1> DEFINE t == m.tab
<1>0. TypeOK /\ SidsOK /\ RefreshesOK /\ UsersOK
  BY DEF Inv
<1>m. m \in net /\ t \in Tabs /\ Pending(m) /\ UNCHANGED <<row, made>> /\ (lost => lost')
  BY <1>0 DEF Arrives, Pending, TypeOK, Message
<1>w. /\ net' = net \ {m} /\ UNCHANGED <<store, lockq, told>>
      /\ ref'[t].st = "waiting" /\ ref'[t].race < RaceRetries
      /\ \A u \in Tabs : u # t => ref'[u] = ref[u]
  BY DEF Waits
<1>1. SidsOK'
  <2>1. ToldEnded /\ cookie' \in {cookie, m.set}
    BY <1>w DEF ToldEnded, Arrives
  <2>2. \A u \in Tabs : store'[u].sid \in {NoSid, store[u].sid, m.sid}
    BY <1>w
  <2> QED
    BY <1>0, <1>m, <1>w, <2>1, <2>2, SidsTaken
<1>2. RefreshesOK'
  <2>1. WaitersOK
    BY <1>0, <1>w DEF WaitersOK, RefreshesOK, OneRefresh
  <2>2. ASSUME NEW n \in net', Pending(n) PROVE RunnerKept(n.tab)
    <3>1. n \in net /\ n # m /\ n.tab \in Tabs
      BY <1>0, <1>w DEF TypeOK, Message
    <3>2. n.tab # t /\ ref[n.tab].st = "sent"
      BY <1>0, <1>m, <2>2, <3>1 DEF RefreshesOK, OneRefresh
    <3> QED
      BY <1>w, <3>1, <3>2 DEF RunnerKept
  <2>3. net' \in SUBSET net
    BY <1>w
  <2> QED
    BY <1>0, <2>1, <2>2, <2>3, RefreshesLeft
<1>3. UsersOK'
  BY <1>0, <1>w, UsersKept
<1>4. ASSUME HasLocks PROVE LocksOK'
  <2>1. SenderHoldsLock /\ TokenIsNewest /\ ReuseNeedsLoss
    BY <1>4 DEF Inv, LocksOK
  <2>2. SenderHoldsLock'
    BY <1>0, <1>4, <1>w, <2>1, LocksSame
  <2>3. TokenIsNewest'
    BY <1>0, <1>4, <1>w, <2>1, ArrivedToken
  <2>4. ReuseNeedsLoss'
    BY <1>0, <1>m, <2>1, ReuseKept
  <2> QED
    BY <2>2, <2>3, <2>4 DEF LocksOK
<1> QED
  BY <1>1, <1>2, <1>3, <1>4 DEF Inv

\* The runner asks again after a mismatch.
LEMMA RepeatStep ==
    ASSUME Inv, TypeOK', NEW m, Arrives(m), m.kind = "refresh", Repeats(m.tab, m)
    PROVE  Inv'
<1> DEFINE t == m.tab
           rest == net \ {m}
<1>0. TypeOK /\ SidsOK /\ RefreshesOK /\ UsersOK
  BY DEF Inv
<1>m. m \in net /\ t \in Tabs /\ Pending(m) /\ UNCHANGED <<row, made>> /\ (lost => lost')
  BY <1>0 DEF Arrives, Pending, TypeOK, Message
<1>s. ref[t].st = "sent" /\ \A n \in net : Pending(n) /\ n.tab = t => n = m
  BY <1>0, <1>m DEF RefreshesOK, OneRefresh
<1>x. PICK x : IsRequest(t, "refresh", x) /\ net' = (net \ {m}) \cup {x}
  BY DEF Repeats
<1>r. /\ UNCHANGED <<lockq, told>> /\ m.status = "mismatch"
      /\ ref'[t].st = "sent"
      /\ \A u \in Tabs : u # t => ref'[u] = ref[u]
      /\ store'[t].sid = NoSid /\ store'[t].user = NoSid
      /\ \A u \in Tabs : u # t => store'[u] = store[u]
  BY <1>s DEF Repeats
<1>c. cookie' \in {cookie, NoCookie}
  <2>1. m.set = NoCookie
    BY <1>0, <1>m, <1>r DEF SidsOK, Messages, MessageOK
  <2> QED
    BY <2>1 DEF Arrives
<1>1. SidsOK'
  <2>1. \A u \in Tabs : store'[u].sid \in {NoSid, store[u].sid}
    BY <1>r
  <2> QED
    BY <1>0, <1>m, <1>x, <1>r, <1>c, <2>1, SidsSent
<1>2. RefreshesOK'
  <2>1. WaitersOK
    BY <1>0, <1>r DEF WaitersOK, RefreshesOK, OneRefresh
  <2>2. NewOK(x, rest)
    BY <1>s, <1>x, <1>r DEF NewOK, IsRequest
  <2>3. ASSUME NEW n \in rest, Pending(n) PROVE RunnerKept(n.tab)
    <3>1. n \in net /\ n.tab # t /\ n.tab \in Tabs /\ ref[n.tab].st = "sent"
      BY <1>0, <1>s, <2>3 DEF TypeOK, Message, RefreshesOK, OneRefresh
    <3> QED
      BY <1>r, <3>1 DEF RunnerKept
  <2>4. rest \in SUBSET net /\ net' = rest \cup {x}
    BY <1>x
  <2> HIDE DEF rest
  <2> QED
    BY <1>0, <2>1, <2>2, <2>3, <2>4, RefreshesNew
<1>3. UsersOK'
  BY <1>0, <1>r, UsersKept
<1>4. ASSUME HasLocks PROVE LocksOK'
  <2>1. LocksOK /\ SenderHoldsLock /\ TokenIsNewest /\ ReuseNeedsLoss
    BY <1>4 DEF Inv, LocksOK
  <2>2. SenderHoldsLock'
    BY <1>0, <1>4, <1>s, <1>r, <2>1, LocksSame
  <2>3. TokenIsNewest'
    <3>1. CASE lost'
      BY <3>1 DEF TokenIsNewest
    <3>2. CASE ~ lost'
      <4>1. ~ lost /\ lost' = lost
        BY <1>0, <1>m, <3>2 DEF TypeOK
      <4>2. HoldsLock(t) /\ \A n \in net : n.kind = "refresh" => n = m
        BY <1>0, <1>4, <1>m, <2>1, <4>1, SoleRefresh
      <4>3. cookie.age = 0
        BY <1>0, <1>4, <1>m, <1>r, <2>1, <4>1, <4>2, SenderHasNewest
      <4> QED
        BY <1>x, <1>c, <2>1, <4>1, <4>3, TokenSentRefresh
    <3> QED
      BY <3>1, <3>2
  <2>4. ReuseNeedsLoss'
    BY <1>0, <1>m, <2>1, ReuseKept
  <2> QED
    BY <2>2, <2>3, <2>4 DEF LocksOK
<1> QED
  BY <1>1, <1>2, <1>3, <1>4 DEF Inv

\* The answer of a sign-in, a sign-out, a security change or a save arrives.
LEMMA OtherStep ==
    ASSUME Inv, TypeOK', NEW m, Arrives(m), m.kind # "refresh", net' = net \ {m},
           Stays(m.tab) \/ SignsIn(m.tab, m) \/ Clears(m.tab)
    PROVE  Inv'
<1> DEFINE t == m.tab
<1>0. TypeOK /\ SidsOK /\ RefreshesOK /\ UsersOK
  BY DEF Inv
<1>m. m \in net /\ t \in Tabs /\ UNCHANGED <<row, made>> /\ (lost => lost')
  BY <1>0 DEF Arrives, TypeOK, Message
<1>t. told' = told \/ Tell(t, store[t].sid)
  BY DEF Stays, SignsIn, Clears
<1>u. \A u \in Tabs : u # t => told'[u] = told[u]
  BY <1>0, <1>m, <1>t, Learned
<1>1. SidsOK'
  <2>1. ToldEnded
    BY <1>0, <1>m, <1>t, ToldByTell
  <2>2. cookie' \in {cookie, m.set}
    BY DEF Arrives
  <2>3. \A u \in Tabs : store'[u].sid \in {NoSid, store[u].sid, m.sid}
    BY DEF Stays, SignsIn, Clears, SameSids
  <2> QED
    BY <1>0, <1>m, <2>1, <2>2, <2>3, SidsTaken
<1>2. RefreshesOK'
  <2>1. WaitersOK /\ \A n \in net : Pending(n) => RunnerKept(n.tab)
    <3>1. CASE ref' = Supersede(t)
      BY <1>0, <1>m, <1>u, <3>1, RunnersSuperseded
    <3>2. CASE Stays(t) /\ ref' # Supersede(t)
      BY <1>0, <1>m, <3>2, RunnersStarted, RunnersSame DEF Stays
    <3> QED
      BY <3>1, <3>2 DEF SignsIn, Clears
  <2>2. net' \in SUBSET net
    OBVIOUS
  <2> QED
    BY <1>0, <2>1, <2>2, RefreshesLeft
<1>3. UsersOK'
  <2>1. CASE Stays(t)
    BY <1>0, <2>1, UsersKept DEF Stays, SameSids
  <2>2. CASE SignsIn(t, m)
    <3>1. m.sid \notin told[t]
      BY <1>0, <1>m, <2>2 DEF SignsIn, SidsOK, LoginsAreNew
    <3> QED
      BY <1>0, <2>2, <3>1, UsersKept DEF SignsIn
  <2>3. CASE Clears(t)
    BY <1>0, <1>u, <2>3, UsersKept DEF Clears
  <2> QED
    BY <2>1, <2>2, <2>3
<1>4. ASSUME HasLocks PROVE LocksOK'
  <2>1. SenderHoldsLock /\ TokenIsNewest /\ ReuseNeedsLoss
    BY <1>4 DEF Inv, LocksOK
  <2>2. SenderHoldsLock'
    BY <1>0, <1>4, <1>m, <2>1, LocksStarted, LocksSuperseded, LocksSame DEF Stays, SignsIn, Clears
  <2>3. TokenIsNewest'
    BY <1>0, <1>4, <2>1, ArrivedToken
  <2>4. ReuseNeedsLoss'
    BY <1>0, <1>m, <2>1, ReuseKept
  <2> QED
    BY <2>2, <2>3, <2>4 DEF LocksOK
<1> QED
  BY <1>1, <1>2, <1>3, <1>4 DEF Inv

\* An answer whose page is gone.
LEMMA OrphanStep ==
    ASSUME Inv, TypeOK', NEW m \in net, ReceiveOrphan(m)
    PROVE  Inv'
<1>0. TypeOK /\ SidsOK /\ RefreshesOK /\ UsersOK
  BY DEF Inv
<1>f. /\ UNCHANGED <<store, ref, lockq, told, lost, row, made>> /\ net' = net \ {m} /\ ~ m.live
      /\ cookie' = (IF m.writes THEN m.set ELSE cookie) \/ cookie' = cookie
  BY DEF ReceiveOrphan, TakeCookie
<1>1. SidsOK'
  <2>1. ToldEnded /\ cookie' \in {cookie, m.set}
    BY <1>f DEF ToldEnded
  <2>2. \A u \in Tabs : store'[u].sid \in {NoSid, store[u].sid, m.sid}
    BY <1>f
  <2> QED
    BY <1>0, <1>f, <2>1, <2>2, SidsTaken
<1>2. RefreshesOK'
  <2>1. WaitersOK /\ \A n \in net : Pending(n) => RunnerKept(n.tab)
    BY <1>0, <1>f, RunnersSame
  <2>2. net' \in SUBSET net /\ \A n \in net' : Pending(n) => RunnerKept(n.tab)
    BY <1>f, <2>1
  <2> QED
    BY <1>0, <2>1, <2>2, RefreshesLeft
<1>3. UsersOK'
  BY <1>0, <1>f, UsersKept
<1>4. ASSUME HasLocks PROVE LocksOK'
  <2>1. SenderHoldsLock /\ TokenIsNewest /\ ReuseNeedsLoss
    BY <1>4 DEF Inv, LocksOK
  <2>2. SenderHoldsLock'
    BY <1>0, <1>4, <1>f, <2>1, LocksSame
  <2>3. TokenIsNewest'
    <3>1. MessageOK(m) /\ (~ lost' => m.kind # "refresh") /\ (~ lost' => ~ lost)
      BY <1>0, <1>f, <2>1 DEF SidsOK, Messages, TokenIsNewest
    <3> QED
      BY <1>0, <1>f, <2>1, <3>1, TokenTaken
  <2>4. ReuseNeedsLoss'
    BY <1>0, <1>f, <2>1, ReuseKept
  <2> QED
    BY <2>2, <2>3, <2>4 DEF LocksOK
<1> QED
  BY <1>1, <1>2, <1>3, <1>4 DEF Inv

LEMMA ReceiveStep ==
    ASSUME Inv, TypeOK', NEW m \in net, Receive(m) \/ Lose(m)
    PROVE  Inv'
<1>0. TypeOK
  BY DEF Inv
<1>1. Arrives(m)
  BY DEF Receive, Lose, TakeCookie, Arrives
<1>2. Handled(m)
  <2>1. CASE Receive(m)
    BY <1>0, <2>1, Handles DEF Receive
  <2>2. CASE Lose(m)
    BY <1>0, <2>2, Handles DEF Lose
  <2> QED
    BY <2>1, <2>2
<1> QED
  BY <1>1, <1>2, SettleStep, WaitStep, RepeatStep, OtherStep DEF Handled

LEMMA TabStepKeeps ==
    ASSUME Inv, TypeOK', NEW t \in Tabs, TabStep(t)
    PROVE  Inv'
<1>0. TypeOK
  BY DEF Inv
<1>1. CASE RunRefresh(t)
  BY <1>1, RunStep
<1>2. CASE RaceDelayEnds(t)
  BY <1>2, DelayStep
<1>3. CASE BootstrapAuthentication(t)
  <2>1. UNCHANGED Elsewhere /\ told' = told
    BY <1>3 DEF BootstrapAuthentication, Elsewhere
  <2>2. CASE Resolve(t)
    BY <1>0, <2>1, <2>2, Resolved, QuietStep DEF Stays
  <2>3. CASE UNCHANGED <<store, ref, lockq>>
    BY <2>1, <2>3, QuietStep DEF Stays, SameSids
  <2> QED
    BY <1>3, <2>2, <2>3 DEF BootstrapAuthentication
<1>4. CASE CallUnauthorized(t)
  <2>1. UNCHANGED Elsewhere /\ Stays(t)
    BY <1>4 DEF CallUnauthorized, Elsewhere, Stays, SameSids
  <2> QED
    BY <2>1, QuietStep
<1>5. CASE CallSettles(t)
  <2>1. UNCHANGED <<cookie, row, made>>
    BY <1>5 DEF CallSettles
  <2>2. CASE Unload(t) /\ told' = told
    BY <2>1, <2>2, UnloadStep
  <2>3. CASE UNCHANGED <<store, ref, lockq, net, told, lost>>
    BY <2>1, <2>3, QuietStep DEF Stays, SameSids, Elsewhere
  <2>4. CASE UNCHANGED <<store, ref, lockq, told, lost>> /\ net' = net \cup {Request(t, "save")}
    BY <2>1, <2>4, SendStep
  <2>5. CASE /\ store' = [store EXCEPT ![t] = SignedOut("complete")]
             /\ ref' = Supersede(t) /\ Tell(t, store[t].sid)
             /\ UNCHANGED <<lockq, net, lost>>
    <3>1. Clears(t)
      BY <1>0, <2>5, Cleared DEF Clears
    <3> QED
      BY <2>1, <2>5, <3>1, ClearStep DEF Elsewhere
  <2> QED
    BY <1>0, <1>5, <2>2, <2>3, <2>4, <2>5, Settled
<1>6. CASE LogoutResumes(t)
  <2>1. UNCHANGED <<cookie, row, made, lost>>
    BY <1>6 DEF LogoutResumes
  <2>2. CASE net' = net \cup {Request(t, "logout")} /\ UNCHANGED <<store, ref, inbox, lockq, told>>
    BY <2>1, <2>2, SendStep
  <2>3. CASE SignOut(t) /\ UNCHANGED net
    <3>1. Clears(t)
      BY <1>0, <2>3, SignsOut DEF Clears
    <3> QED
      BY <2>1, <2>3, <3>1, ClearStep DEF Elsewhere
  <2>4. CASE UNCHANGED <<store, ref, inbox, lockq, net, told>>
    BY <2>1, <2>4, QuietStep DEF Stays, SameSids, Elsewhere
  <2> QED
    BY <1>6, <2>2, <2>3, <2>4 DEF LogoutResumes
<1>7. CASE HandleEvent(t)
  <2>1. UNCHANGED <<cookie, row, made>>
    BY <1>7 DEF HandleEvent
  <2>2. CASE Unload(t) /\ told' = told
    BY <2>1, <2>2, UnloadStep
  <2>3. CASE /\ store' = [store EXCEPT ![t] = SignedOut("complete")]
             /\ ref' = Supersede(t) /\ Tell(t, store[t].sid)
             /\ UNCHANGED <<page, lockq, net, lost>>
    <3>1. Clears(t)
      BY <1>0, <2>3, Cleared DEF Clears
    <3> QED
      BY <2>1, <2>3, <3>1, ClearStep DEF Elsewhere
  <2>4. CASE UNCHANGED <<store, ref, page, lockq, net, told, lost>>
    BY <2>1, <2>4, QuietStep DEF Stays, SameSids, Elsewhere
  <2> QED
    BY <1>0, <1>7, <2>2, <2>3, <2>4, Events
<1> QED
  BY <1>1, <1>2, <1>3, <1>4, <1>5, <1>6, <1>7 DEF TabStep

LEMMA UserStepKeeps ==
    ASSUME Inv, TypeOK', NEW t \in Tabs, UserStep(t)
    PROVE  Inv'
<1>0. TypeOK
  BY DEF Inv
<1>1. CASE Navigate(t)
  <2>1. UNCHANGED Elsewhere /\ told' = told /\ Resolve(t)
    BY <1>1 DEF Navigate, Elsewhere
  <2> QED
    BY <1>0, <2>1, Resolved, QuietStep DEF Stays
<1>2. CASE GetFreshAuthHeaders(t)
  <2>1. UNCHANGED Elsewhere /\ Stays(t)
    BY <1>2 DEF GetFreshAuthHeaders, Elsewhere, Stays, SameSids
  <2> QED
    BY <2>1, QuietStep
<1>3. CASE Reload(t)
  BY <1>3, UnloadStep DEF Reload
<1>4. CASE TokenExpires(t)
  <2>1. UNCHANGED Elsewhere /\ UNCHANGED <<ref, lockq, told>>
    BY <1>4 DEF TokenExpires, Elsewhere
  <2>2. SameSids
    BY <1>0, <1>4, StoreKept DEF TokenExpires, SameSids
  <2> QED
    BY <2>1, <2>2, QuietStep DEF Stays
<1>5. CASE Login(t)
  BY <1>5, SendStep DEF Login
<1>6. CASE Logout(t)
  BY <1>6, SendStep DEF Logout
<1>7. CASE ChangeSecurity(t)
  BY <1>7, SendStep DEF ChangeSecurity
<1>9. CASE SaveSettings(t)
  BY <1>9, SendStep DEF SaveSettings
<1>10. CASE AnonymousCall(t)
  <2>1. UNCHANGED Elsewhere /\ Stays(t)
    BY <1>10 DEF AnonymousCall, Elsewhere, Stays, SameSids
  <2> QED
    BY <2>1, QuietStep
<1>8. CASE IgnoreStaleEvent(t)
  <2>1. UNCHANGED Elsewhere /\ Stays(t)
    BY <1>8 DEF IgnoreStaleEvent, Elsewhere, Stays, SameSids
  <2> QED
    BY <2>1, QuietStep
<1> QED
  BY <1>1, <1>2, <1>3, <1>4, <1>5, <1>6, <1>7, <1>8, <1>9, <1>10 DEF UserStep

LEMMA StutterKeeps ==
    ASSUME Inv, UNCHANGED vars
    PROVE  Inv'
<1>1. UNCHANGED <<store, ref, lockq, cookie, net, row, made, told, lost>>
  BY DEF vars
<1>2. TypeOK'
  BY TypeStutters DEF Inv
<1>3. SidsOK'
  BY <1>1 DEF Inv, SidsOK, Messages, KnownSids, LoginsAreNew
<1>4. RefreshesOK'
  BY <1>1 DEF Inv, RefreshesOK, OneRefresh, GrantsAreValid
<1>5. UsersOK'
  BY <1>1 DEF Inv, UsersOK, SignedOutStaysOut
<1>6. HasLocks => LocksOK'
  BY <1>1 DEF Inv, LocksOK, SenderHoldsLock, HoldsLock, TokenIsNewest, ReuseNeedsLoss
<1> QED
  BY <1>2, <1>3, <1>4, <1>5, <1>6 DEF Inv

LEMMA InvInit ==
    ASSUME Init
    PROVE  Inv
<1>1. TypeOK
  BY TypeInit
<1>2. SidsOK
  <2>1. \A s \in Sids : s > made => row[s].status = "none"
    <3>1. [NewRow EXCEPT !.status = "none"].status = "none"
      BY DEF NewRow
    <3>2. \A s \in Sids : s > made => ~ (s <= made)
      BY <1>1 DEF TypeOK, Sids
    <3> QED
      BY <3>1, <3>2 DEF Init
  <2>2. (\A t \in Tabs : store[t].sid = 0 /\ told[t] = {}) /\ cookie.sid = made /\ net = {}
    BY DEF Init, SignedOut, NoSid
  <2>3. 0 <= made /\ made <= made
    BY <1>1 DEF TypeOK
  <2> QED
    BY <2>1, <2>2, <2>3 DEF SidsOK, Messages, KnownSids, LoginsAreNew
<1>3. RefreshesOK
  BY DEF Init, NoRefresh, RefreshesOK, OneRefresh, GrantsAreValid
<1>4. UsersOK
  BY DEF Init, SignedOut, UsersOK, SignedOutStaysOut
<1>5. LocksOK
  <2>1. SenderHoldsLock
    BY DEF Init, NoRefresh, SenderHoldsLock
  <2>2. TokenIsNewest
    BY DEF Init, TokenIsNewest
  <2>3. ReuseNeedsLoss
    <3>1. ~ NewRow.reuse /\ ~ [NewRow EXCEPT !.status = "none"].reuse
      BY DEF NewRow
    <3> QED
      BY <3>1 DEF Init, ReuseNeedsLoss
  <2> QED
    BY <2>1, <2>2, <2>3 DEF LocksOK
<1> QED
  BY <1>1, <1>2, <1>3, <1>4, <1>5 DEF Inv

\* Inv is an invariant: every action of every tab, of the server and of the
\* network preserves it.
THEOREM Invariance == Spec => []Inv
<1>1. Init => Inv
  BY InvInit
<1>2. Inv /\ [Next]_vars => Inv'
  <2> SUFFICES ASSUME Inv, [Next]_vars PROVE Inv'
    OBVIOUS
  <2>1. CASE UNCHANGED vars
    BY <2>1, StutterKeeps
  <2>2. CASE Next
    <3>1. TypeOK'
      BY <2>2, TypeStep DEF Inv, RefreshesOK
    <3>2. ASSUME NEW t \in Tabs, TabStep(t) \/ UserStep(t) PROVE Inv'
      BY <3>1, <3>2, TabStepKeeps, UserStepKeeps
    <3>3. ASSUME NEW m \in net, Serve(m) \/ ServeError(m) PROVE Inv'
      BY <3>1, <3>3, ServeStep
    <3>4. ASSUME NEW m \in net, Receive(m) \/ Lose(m) \/ ReceiveOrphan(m) PROVE Inv'
      BY <3>1, <3>4, ReceiveStep, OrphanStep
    <3>5. ASSUME NEW s \in Sids, RevokeElsewhere(s) PROVE Inv'
      <4>1. Ends(FALSE)
        BY <3>5, RowRevoked DEF Inv
      <4>2. UNCHANGED <<Clients, net, cookie, made>>
        BY <3>5 DEF RevokeElsewhere, Clients
      <4> QED
        BY <3>1, <4>1, <4>2, RevokeStep
    <3> QED
      BY <2>2, <3>2, <3>3, <3>4, <3>5 DEF Next
  <2> QED
    BY <2>1, <2>2
<1> QED
  BY <1>1, <1>2, PTL DEF Spec

\* Type correctness of the browser session.
THEOREM TypeCorrect == Spec => []TypeOK
<1>1. Inv => TypeOK
  BY DEF Inv
<1> QED
  BY <1>1, Invariance, PTL

\* The step leaves u's account and session together, or as they were but for a
\* user a card writes back.
AccountKept(u) ==
    \/ store'[u].user = store'[u].sid
    \/ /\ store'[u].sid = store[u].sid
       /\ \/ store'[u].user = store[u].user
          \/ page[u].save # NoSid /\ store'[u].user = page[u].save

LEMMA AnswerKeepsAccounts ==
    ASSUME TypeOK, NEW m \in net, Receive(m) \/ Lose(m), NEW u \in Tabs
    PROVE  AccountKept(u)
<1>1. Handled(m)
  BY Handles DEF Receive, Lose
<1> QED
  BY <1>1 DEF Handled, Settles, Waits, Repeats, Stays, SameSids, SignsIn, Clears, AccountKept

LEMMA TabKeepsAccounts ==
    ASSUME TypeOK, NEW t \in Tabs, TabStep(t) \/ UserStep(t), NEW u \in Tabs
    PROVE  AccountKept(u)
<1>1. CASE store' = store
  BY <1>1 DEF AccountKept
<1>2. CASE Unload(t)
  BY <1>2, Unloads DEF Unloaded, AccountKept
<1>3. CASE store' = [store EXCEPT ![t] = SignedOut("complete")]
  BY <1>3, Cleared DEF AccountKept
<1>4. CASE Resolve(t)
  BY <1>4, Resolved DEF SameSids, AccountKept
<1>5. CASE store' = [store EXCEPT ![t].fresh = FALSE]
  BY <1>5, StoreKept DEF AccountKept
<1>6. CASE TabStep(t)
  <2>1. CASE BootstrapAuthentication(t)
    BY <1>1, <1>4, <2>1 DEF BootstrapAuthentication
  <2>2. CASE CallSettles(t)
    BY <1>1, <1>2, <1>3, <2>2 DEF CallSettles
  <2>3. CASE LogoutResumes(t)
    BY <1>1, <1>3, <2>3 DEF LogoutResumes, SignOut
  <2>4. CASE HandleEvent(t)
    BY <1>1, <1>2, <1>3, <2>4, Events
  <2>5. CASE RunRefresh(t) \/ RaceDelayEnds(t) \/ CallUnauthorized(t)
    BY <1>1, <2>5 DEF RunRefresh, RaceDelayEnds, CallUnauthorized
  <2> QED
    BY <1>6, <2>1, <2>2, <2>3, <2>4, <2>5 DEF TabStep
<1>7. CASE UserStep(t)
  <2>1. CASE Navigate(t)
    BY <1>4, <2>1 DEF Navigate
  <2>2. CASE Reload(t)
    BY <1>2, <2>2 DEF Reload
  <2>3. CASE TokenExpires(t)
    BY <1>5, <2>3 DEF TokenExpires
  <2>4. CASE GetFreshAuthHeaders(t) \/ AnonymousCall(t) \/ IgnoreStaleEvent(t)
    BY <1>1, <2>4 DEF GetFreshAuthHeaders, AnonymousCall, IgnoreStaleEvent
  <2>5. CASE Login(t) \/ Logout(t) \/ ChangeSecurity(t) \/ SaveSettings(t)
    BY <1>1, <2>5 DEF Login, Logout, ChangeSecurity, SaveSettings
  <2> QED
    BY <1>7, <2>1, <2>2, <2>3, <2>4, <2>5 DEF UserStep
<1> QED
  BY <1>6, <1>7

\* A tab starts to show another account than its session's only when a settings
\* card of the profile writes back the user it captured (setUser): answers of
\* refreshes, sign-ins and rotations and the events of other tabs never do it.
THEOREM AccountsMixOnlyBySaves == Spec => OnlySavesMixAccounts
<1>1. ASSUME TypeOK, [Next]_vars, NEW u \in Tabs
      PROVE  AccountKept(u)
  <2>1. CASE store' = store
    BY <2>1 DEF AccountKept
  <2>2. CASE \E t \in Tabs : TabStep(t) \/ UserStep(t)
    BY <1>1, <2>2, TabKeepsAccounts
  <2>3. CASE \E m \in net : Receive(m) \/ Lose(m)
    BY <1>1, <2>3, AnswerKeepsAccounts
  <2>4. CASE \E m \in net : Serve(m) \/ ServeError(m) \/ ReceiveOrphan(m)
    BY <2>1, <2>4 DEF Serve, ServeRefresh, ServeLogin, ServeLogout, ServeChange, ServeSave,
                      ServeError, ReceiveOrphan
  <2>5. CASE \E s \in Sids : RevokeElsewhere(s)
    BY <2>1, <2>5 DEF RevokeElsewhere
  <2>6. CASE UNCHANGED vars
    BY <2>1, <2>6 DEF vars
  <2> QED
    BY <1>1, <2>2, <2>3, <2>4, <2>5, <2>6 DEF Next
<1>2. TypeOK /\ [Next]_vars =>
        [\A t \in Tabs :
           (store[t].user = store[t].sid /\ store'[t].user # store'[t].sid)
             => /\ page[t].save # NoSid /\ store'[t].user = page[t].save
                /\ store'[t].sid = store[t].sid]_vars
  BY <1>1 DEF AccountKept
<1> QED
  BY <1>2, TypeCorrect, PTL DEF Spec, OnlySavesMixAccounts

\* A tab never shows again a session whose end it has handled: the epoch of
\* auth-session.ts refuses every answer issued before.
THEOREM EndIsFinal == Spec => []SignedOutStaysOut
<1>1. Inv => SignedOutStaysOut
  BY DEF Inv, UsersOK
<1> QED
  BY <1>1, Invariance, PTL

\* With Web Locks the refreshes of one browser never look like token reuse to the
\* server unless an answer was lost or its page was left.
THEOREM LocksPreventReuse ==
    ASSUME HasLocks
    PROVE  Spec => []ReuseNeedsLoss
<1>1. Inv => ReuseNeedsLoss
  BY DEF Inv, LocksOK
<1> QED
  BY <1>1, Invariance, PTL
=============================================================================
