---------------------------- MODULE WebSession ------------------------------
(***************************************************************************)
(* The login session of a browser with several tabs, and the server it     *)
(* talks to.  Each tab keeps its credentials in memory (stores/            *)
(* auth-store.ts) and runs lib/auth-session.ts and lib/http-client.ts; the *)
(* tabs share the refresh cookie, one Web Lock and a BroadcastChannel      *)
(* (lib/auth-session-sync.ts, routes/__root.tsx).  The server rotates the  *)
(* refresh token on every use (service/auth_session.go,                    *)
(* controller/auth_session.go, model/user_session.go).                     *)
(*                                                                         *)
(* A request carries the cookie it was sent with; its Set-Cookie takes     *)
(* effect when the answer arrives, whatever the page does with the answer. *)
(* Answers arrive in any order, may be lost, and outlive their page.       *)
(***************************************************************************)
EXTENDS Naturals, Sequences, FiniteSets

CONSTANTS
    Tabs,
    MaxSids,      \* bound: login sessions the server hands out
    RaceRetries,  \* refreshRaceDelays.length
    HasLocks,     \* navigator.locks exists
    MaxOps,       \* bound: sign-ins, sign-outs, security changes, saved settings, early refreshes,
                  \* anonymous calls, reloads, token lifetimes, revocations elsewhere
    MaxFaults     \* bound: lost messages, error answers, stale events

ASSUME ConstantsAssumption ==
    /\ MaxSids \in Nat /\ RaceRetries \in Nat /\ MaxOps \in Nat /\ MaxFaults \in Nat
    /\ HasLocks \in BOOLEAN

VARIABLES
    store,   \* each tab's auth store
    ref,     \* each tab's refreshPromise and the runner behind it
    page,    \* each tab: event subscription, pending API call, sign-out and security change
    inbox,   \* events posted to each tab and not yet handled
    lockq,   \* the Web Lock's queue; its head holds the lock
    cookie,  \* the refresh cookie
    hint,    \* the session hint cookie
    net,     \* requests and answers in flight
    row,     \* the server's user_sessions rows
    made,    \* number of sessions created
    ops, faults,
    told,    \* history: sessions whose end, already made by the server, the tab has handled
    lost     \* history: some refresh answer did not reach the page that asked for it

client == <<store, ref, page, inbox, lockq>>
browser == <<cookie, hint>>
server == <<row, made>>
history == <<told, lost>>
budgets == <<ops, faults>>
vars == <<client, browser, net, server, budgets, history>>

NoSid == 0
Sids == 1 .. MaxSids
Sid0 == Sids \cup {NoSid}

\* A refresh token by its session and its distance from the newest of the
\* family: 0 is refresh_hash, 1 previous_refresh_hash, 2 anything older.
Token == [sid : Sid0, age : 0 .. 2]
NoCookie == [sid |-> NoSid, age |-> 0]

Outcomes == {"authenticated", "anonymous", "out_of_sync", "transient"}
Answers == {"ok", "unauthorized", "mismatch", "race", "error", "other"}

\* user stands for the account shown, by the session it came with.
\* ver is the session version inside the access token.
Store == [sid : Sid0, user : Sid0, fresh : BOOLEAN, ver : 0 .. 1,
          boot : {"idle", "checking", "complete"}]
\* current stands for authEpoch === refreshEpoch: epochs only grow.
Refresh == [st : {"none", "queued", "sent", "waiting"}, current : BOOLEAN, retry : BOOLEAN,
            race : 0 .. RaceRetries]
\* call is an API request under way that the interceptor may have to repeat;
\* save is the user that request's card captured, NoSid when it is no save.
Page == [load : {"cold", "booting", "mounted"},
         call : {"none", "sent", "refreshing", "resent", "refused"} \cup Outcomes,
         out : {"none", "sent", "refreshing", "resent"} \cup Outcomes,
         login : {"none", "form", "wechat"}, change : BOOLEAN, save : Sid0]
Event == [kind : {"authenticated", "signed_out"}, sid : Sids]
Message == [kind : {"refresh", "login", "logout", "change", "save"}, tab : Tabs, live : BOOLEAN,
            exp : Sid0, bearer : Sid0, ver : 0 .. 1, cookie : Token,
            status : Answers \cup {"request"}, sid : Sid0, writes : BOOLEAN, set : Token]
Row == [status : {"none", "active", "revoked"}, ver : 0 .. 1, reuse : BOOLEAN]

SignedOut(boot) == [sid |-> NoSid, user |-> NoSid, fresh |-> FALSE, ver |-> 0, boot |-> boot]
NoRefresh == [st |-> "none", current |-> TRUE, retry |-> TRUE, race |-> 0]
NewPage == [load |-> "cold", call |-> "none", out |-> "none", login |-> "none", change |-> FALSE,
            save |-> NoSid]
NewRow == [status |-> "active", ver |-> 0, reuse |-> FALSE]

\* A browser without a session, or one that comes back to a session, whose
\* hint may be missing.
Init ==
    /\ store = [t \in Tabs |-> SignedOut("idle")]
    /\ ref = [t \in Tabs |-> NoRefresh]
    /\ page = [t \in Tabs |-> NewPage]
    /\ inbox = [t \in Tabs |-> <<>>]
    /\ lockq = <<>>
    /\ made \in {n \in {0, 1} : n <= MaxSids}
    /\ cookie = [sid |-> made, age |-> 0]
    /\ hint \in {h \in BOOLEAN : h => made = 1}
    /\ row = [s \in Sids |-> IF s <= made THEN NewRow ELSE [NewRow EXCEPT !.status = "none"]]
    /\ net = {}
    /\ ops = 0 /\ faults = 0
    /\ told = [t \in Tabs |-> {}]
    /\ lost = FALSE

-----------------------------------------------------------------------------
(* The store and the cross-tab channel.                                    *)

\* The root component is mounted and listens to the events.
Mounted(t) == page[t].load = "mounted"

\* Slip: the event is posted although the tab showed no session.
Slip_Publish(t, kind, sid) ==
    inbox' = [u \in Tabs |->
                IF u # t /\ Mounted(u)
                THEN Append(inbox[u], [kind |-> kind, sid |-> sid])
                ELSE inbox[u]]

\* publishAuthSessionEvent: every other subscribed tab gets the event.
Publish(t, kind, sid) ==
    inbox' = [u \in Tabs |->
                IF u # t /\ Mounted(u) /\ sid # NoSid
                THEN Append(inbox[u], [kind |-> kind, sid |-> sid])
                ELSE inbox[u]]

\* setBundle, with the user that applyAuthBundle's caller passes.
Bundle(sid, user, ver) ==
    [sid |-> sid, user |-> user, fresh |-> TRUE, ver |-> ver, boot |-> "complete"]

\* authEpoch += 1.
Supersede(t) == [ref EXCEPT ![t].current = FALSE]

\* Slip: an answer is accepted whatever happened since the request.
Slip_IsCurrent(t) == TRUE

\* isCurrent: nothing has changed the authentication since the refresh began.
IsCurrent(t) == ref[t].current

HasSession(t) == store[t].user # NoSid /\ store[t].sid # NoSid

\* currentValidAuthBundle finds none.
Invalid(t) == ~ HasSession(t) \/ ~ store[t].fresh

\* The bearer of a request: parsed by the server only while it has not expired.
Bearer(t) == IF store[t].fresh THEN store[t].sid ELSE NoSid

\* The cookie's path is /api/user/auth: only refresh and logout carry it, with
\* the X-Auth-Session header.  No refresh or login handler reads the bearer.
Request(t, kind) ==
    LET auth == kind \in {"refresh", "logout"} IN
    [kind |-> kind, tab |-> t, live |-> TRUE,
     exp |-> IF auth THEN store[t].sid ELSE NoSid,
     bearer |-> IF kind \in {"refresh", "login"} THEN NoSid ELSE Bearer(t),
     ver |-> IF kind \in {"change", "save"} THEN store[t].ver ELSE 0,
     cookie |-> IF auth THEN cookie ELSE NoCookie,
     status |-> "request", sid |-> NoSid, writes |-> FALSE, set |-> NoCookie]

\* The history variable of SignedOutStaysOut: t handled the end of sid.
Tell(t, sid) ==
    told' = [told EXCEPT ![t] = @ \cup {s \in {sid} \cap Sids : row[s].status = "revoked"}]

-----------------------------------------------------------------------------
(* The refresh runner.                                                     *)

\* refreshAuthentication: join the refresh under way or queue a new one.
StartRefresh(t) ==
    IF ref[t].st = "none"
    THEN /\ ref' = [ref EXCEPT ![t] = [NoRefresh EXCEPT !.st = "queued"]]
         /\ lockq' = IF HasLocks THEN Append(lockq, t) ELSE lockq
    ELSE UNCHANGED <<ref, lockq>>

\* The tab's request leaves the lock's queue: released, or dropped with its page.
Leave(t) ==
    IF \E i \in DOMAIN lockq : lockq[i] = t
    THEN LET i == CHOOSE i \in DOMAIN lockq : lockq[i] = t
         IN  SubSeq(lockq, 1, i - 1) \o SubSeq(lockq, i + 1, Len(lockq))
    ELSE lockq

\* Slip: the lock stays with the tab.
Slip_FinishRefresh(t, outcome) ==
    /\ ref' = [ref EXCEPT ![t] = NoRefresh]
    /\ page' = [page EXCEPT ![t].load = "mounted",
                            ![t].call = IF @ = "refreshing" THEN outcome ELSE @,
                            ![t].out = IF @ = "refreshing" THEN outcome ELSE @]
    /\ UNCHANGED lockq

\* The refreshPromise settles: the lock is released and every caller resumes,
\* the root route's beforeLoad among them, after which its component mounts
\* and subscribes to the events.
FinishRefresh(t, outcome) ==
    /\ ref' = [ref EXCEPT ![t] = NoRefresh]
    /\ lockq' = Leave(t)
    /\ page' = [page EXCEPT ![t].load = "mounted",
                            ![t].call = IF @ = "refreshing" THEN outcome ELSE @,
                            ![t].out = IF @ = "refreshing" THEN outcome ELSE @]

\* Slip: tabs refresh side by side.
Slip_HoldsLock(t) == TRUE

HoldsLock(t) == HasLocks => (lockq # <<>> /\ Head(lockq) = t)

\* run(): a superseded refresh sends nothing.
RunRefresh(t) ==
    /\ ref[t].st = "queued" /\ HoldsLock(t)
    /\ IF IsCurrent(t)
       THEN /\ net' = net \cup {Request(t, "refresh")}
            /\ ref' = [ref EXCEPT ![t].st = "sent"]
            /\ UNCHANGED <<page, lockq>>
       ELSE FinishRefresh(t, "transient") /\ UNCHANGED net
    /\ UNCHANGED <<store, inbox, browser, server, budgets, history>>

\* The delay between two attempts after AUTH_REFRESH_RACE has passed.
RaceDelayEnds(t) ==
    /\ ref[t].st = "waiting"
    /\ ref' = [ref EXCEPT ![t].st = "queued", ![t].race = @ + 1]
    /\ UNCHANGED <<store, page, inbox, lockq, browser, net, server, budgets, history>>

\* What run() does with an answer; msgs are the messages left in flight.
RefreshAnswered(t, status, sid, ver, msgs) ==
    \/ /\ ~ IsCurrent(t)
       /\ FinishRefresh(t, "transient")
       /\ net' = msgs
       /\ UNCHANGED <<store, inbox, told>>
    \/ /\ IsCurrent(t) /\ status = "ok"
       /\ store' = [store EXCEPT ![t] = Bundle(sid, sid, ver)]
       /\ FinishRefresh(t, "authenticated")
       /\ net' = msgs
       /\ UNCHANGED <<inbox, told>>
    \/ /\ IsCurrent(t) /\ status = "race" /\ ref[t].race < RaceRetries
       /\ ref' = [ref EXCEPT ![t].st = "waiting"]
       /\ net' = msgs
       /\ UNCHANGED <<store, page, inbox, lockq, told>>
    \/ /\ IsCurrent(t) /\ status = "mismatch" /\ ref[t].retry
       /\ store' = [store EXCEPT ![t] = SignedOut("idle")]
       /\ ref' = [ref EXCEPT ![t].retry = FALSE, ![t].race = 0]
       /\ net' = msgs \cup {[Request(t, "refresh") EXCEPT !.exp = NoSid]}
       /\ UNCHANGED <<page, inbox, lockq, told>>
    \/ /\ IsCurrent(t) /\ status = "unauthorized"
       /\ store' = [store EXCEPT ![t] = SignedOut("complete")]
       /\ Publish(t, "signed_out", store[t].sid)
       /\ Tell(t, store[t].sid)
       /\ FinishRefresh(t, "anonymous")
       /\ net' = msgs
    \/ /\ IsCurrent(t) /\ status = "error"
       /\ store' = [store EXCEPT ![t].boot = "idle"]
       /\ FinishRefresh(t, "transient")
       /\ net' = msgs
       /\ UNCHANGED <<inbox, told>>
    \/ /\ IsCurrent(t)
       /\ \/ status = "race" /\ ref[t].race = RaceRetries
          \/ status = "mismatch" /\ ~ ref[t].retry
          \/ status = "other"
       /\ store' = [store EXCEPT ![t] = SignedOut("complete")]
       /\ FinishRefresh(t, "out_of_sync")
       /\ net' = msgs
       /\ UNCHANGED <<inbox, told>>

-----------------------------------------------------------------------------
(* Who asks for a refresh.                                                 *)

\* resolveAuthentication, called by route guards and by the bootstrap.
Resolve(t) ==
    /\ Invalid(t)
    /\ store[t].boot # "complete" \/ HasSession(t)
    /\ store' = [store EXCEPT ![t].boot = "checking"]
    /\ StartRefresh(t)

\* The root route's beforeLoad: without a hint a cold page asks nobody.
BootstrapAuthentication(t) ==
    /\ page[t].load = "cold"
    /\ \/ /\ hint /\ Resolve(t)
          /\ page' = [page EXCEPT ![t].load = "booting"]
       \/ /\ ~ hint
          /\ page' = [page EXCEPT ![t].load = "mounted"]
          /\ UNCHANGED <<store, ref, lockq>>
    /\ UNCHANGED <<inbox, browser, net, server, budgets, history>>

\* A navigation to a protected route or to the sign-in page.
Navigate(t) ==
    /\ Mounted(t)
    /\ Resolve(t)
    /\ UNCHANGED <<page, inbox, browser, net, server, budgets, history>>

\* getFreshAuthHeaders, without a token or in its last minute.
GetFreshAuthHeaders(t) ==
    /\ ops < MaxOps /\ ops' = ops + 1
    /\ Mounted(t) /\ ref[t].st = "none"
    /\ StartRefresh(t)
    /\ UNCHANGED <<store, page, inbox, browser, net, server, faults, history>>

\* The access token the server accepts: unexpired, of an active session, at
\* the session's version.
Accepted(t) ==
    /\ store[t].sid # NoSid /\ store[t].fresh
    /\ row[store[t].sid].status = "active"
    /\ row[store[t].sid].ver = store[t].ver

\* Slip: the interceptor refreshes only when the token has run out locally.
Slip_CallUnauthorized(t) ==
    /\ Mounted(t) /\ page[t].call = "none"
    /\ store[t].sid # NoSid /\ ~ store[t].fresh
    /\ page' = [page EXCEPT ![t].call = "refreshing"]
    /\ StartRefresh(t)
    /\ UNCHANGED <<store, inbox, browser, net, server, budgets, history>>

\* An API request answered 401 refreshes once before it is repeated.
CallUnauthorized(t) ==
    /\ Mounted(t) /\ page[t].call = "none"
    /\ store[t].sid # NoSid /\ ~ Accepted(t)
    /\ page' = [page EXCEPT ![t].call = "refreshing"]
    /\ StartRefresh(t)
    /\ UNCHANGED <<store, inbox, browser, net, server, budgets, history>>

\* A new document: memory is gone, the requests under way lose their page.
Unload(t) ==
    /\ store' = [store EXCEPT ![t] = SignedOut("idle")]
    /\ ref' = [ref EXCEPT ![t] = NoRefresh]
    /\ page' = [page EXCEPT ![t] = NewPage]
    /\ inbox' = [inbox EXCEPT ![t] = <<>>]
    /\ lockq' = Leave(t)
    /\ net' = {IF m.tab = t THEN [m EXCEPT !.live = FALSE] ELSE m : m \in net}
    /\ lost' = (lost \/ ref[t].st = "sent")

\* The interceptor resumes: repeat the request, or leave for the sign-in page.
\* A second refusal clears the store; redirectToSignIn does nothing on /sign-in.
CallSettles(t) ==
    /\ \/ /\ page[t].call = "authenticated" /\ page[t].save = NoSid
          /\ page' = [page EXCEPT ![t].call = IF Accepted(t) THEN "none" ELSE "refused"]
          /\ UNCHANGED <<store, ref, inbox, lockq, net, told, lost>>
       \/ /\ page[t].call = "authenticated" /\ page[t].save # NoSid
          /\ page' = [page EXCEPT ![t].call = "resent"]
          /\ net' = net \cup {Request(t, "save")}
          /\ UNCHANGED <<store, ref, inbox, lockq, told, lost>>
       \/ /\ page[t].call \in {"anonymous", "out_of_sync", "transient"}
          /\ page' = [page EXCEPT ![t].call = "none", ![t].save = NoSid]
          /\ UNCHANGED <<store, ref, inbox, lockq, net, told, lost>>
       \/ /\ page[t].call = "refused"
          /\ store' = [store EXCEPT ![t] = SignedOut("complete")]
          /\ ref' = Supersede(t)
          /\ page' = [page EXCEPT ![t].call = "none", ![t].save = NoSid]
          /\ Tell(t, store[t].sid)
          /\ UNCHANGED <<inbox, lockq, net, lost>>
       \/ page[t].call \in {"anonymous", "out_of_sync", "refused"} /\ Unload(t) /\ UNCHANGED told
    /\ UNCHANGED <<browser, server, budgets>>

\* A request of a page without a session is answered 401: a refresh as well.
AnonymousCall(t) ==
    /\ ops < MaxOps /\ ops' = ops + 1
    /\ Mounted(t) /\ page[t].call = "none" /\ store[t].sid = NoSid
    /\ page' = [page EXCEPT ![t].call = "refreshing"]
    /\ StartRefresh(t)
    /\ UNCHANGED <<store, inbox, browser, net, server, faults, history>>

\* The user reloads the page.
Reload(t) ==
    /\ ops < MaxOps /\ ops' = ops + 1
    /\ Mounted(t)
    /\ Unload(t)
    /\ UNCHANGED <<browser, server, faults, told>>

\* Fifteen minutes pass.
TokenExpires(t) ==
    /\ ops < MaxOps /\ ops' = ops + 1
    /\ store[t].fresh
    /\ store' = [store EXCEPT ![t].fresh = FALSE]
    /\ UNCHANGED <<ref, page, inbox, lockq, browser, net, server, faults, history>>

-----------------------------------------------------------------------------
(* Signing in, signing out, changing a password.                           *)

\* The sign-in form, shown to a tab without a session, or the WeChat route.
Login(t) ==
    /\ ops < MaxOps /\ ops' = ops + 1
    /\ Mounted(t) /\ page[t].login = "none"
    /\ made + Cardinality({m \in net : m.kind = "login" /\ m.status = "request"}) < MaxSids
    /\ \E way \in {"form", "wechat"} :
         /\ way = "form" => store[t].sid = NoSid
         /\ page' = [page EXCEPT ![t].login = way]
    /\ net' = net \cup {Request(t, "login")}
    /\ UNCHANGED <<store, ref, inbox, lockq, browser, server, faults, history>>

\* handleLoginSuccess ignores the answer once its form is gone or another
\* session has appeared; the WeChat route applies it without a check.
LoginAnswered(t, status, sid) ==
    /\ page' = [page EXCEPT ![t].login = "none"]
    /\ \/ /\ status = "ok" /\ (page[t].login = "wechat" \/ store[t].sid = NoSid)
          /\ store' = [store EXCEPT ![t] = Bundle(sid, sid, 0)]
          /\ ref' = Supersede(t)
          /\ Publish(t, "authenticated", sid)
       \/ /\ status # "ok" \/ page[t].login = "form"
          /\ UNCHANGED <<store, ref, inbox>>
    /\ UNCHANGED <<lockq, told>>

\* logout(): the sign-out dialog, and resetSession before an OAuth login.
Logout(t) ==
    /\ ops < MaxOps /\ ops' = ops + 1
    /\ Mounted(t) /\ page[t].out = "none"
    /\ cookie # NoCookie \/ store[t].sid # NoSid
    /\ net' = net \cup {Request(t, "logout")}
    /\ page' = [page EXCEPT ![t].out = "sent"]
    /\ UNCHANGED <<store, ref, inbox, lockq, browser, server, faults, history>>

\* clearAuthenticatedClientState after a successful sign-out.
SignOut(t) ==
    /\ store' = [store EXCEPT ![t] = SignedOut("complete")]
    /\ ref' = Supersede(t)
    /\ page' = [page EXCEPT ![t].out = "none"]
    /\ Publish(t, "signed_out", store[t].sid)
    /\ Tell(t, store[t].sid)
    /\ UNCHANGED lockq

\* executeLogout: a mismatch is repaired by a refresh, once.
LogoutAnswered(t, status) ==
    \/ status = "ok" /\ SignOut(t)
    \/ /\ status = "mismatch" /\ page[t].out = "sent"
       /\ page' = [page EXCEPT ![t].out = "refreshing"]
       /\ StartRefresh(t)
       /\ UNCHANGED <<store, inbox, told>>
    \/ /\ status # "ok" /\ ~ (status = "mismatch" /\ page[t].out = "sent")
       /\ page' = [page EXCEPT ![t].out = "none"]
       /\ UNCHANGED <<store, ref, inbox, lockq, told>>

\* The refresh that executeLogout awaited has settled.
LogoutResumes(t) ==
    /\ \/ /\ page[t].out = "authenticated"
          /\ net' = net \cup {Request(t, "logout")}
          /\ page' = [page EXCEPT ![t].out = "resent"]
          /\ UNCHANGED <<store, ref, inbox, lockq, told>>
       \/ page[t].out = "anonymous" /\ SignOut(t) /\ UNCHANGED net
       \/ /\ page[t].out \in {"out_of_sync", "transient"}
          /\ page' = [page EXCEPT ![t].out = "none"]
          /\ UNCHANGED <<store, ref, inbox, lockq, net, told>>
    /\ UNCHANGED <<browser, server, budgets, lost>>

\* A request sent with acceptAuthRotation: the password, a passkey, 2FA.
ChangeSecurity(t) ==
    /\ ops < MaxOps /\ ops' = ops + 1
    /\ Mounted(t) /\ ~ page[t].change /\ Accepted(t)
    /\ row[store[t].sid].ver = 0
    /\ net' = net \cup {Request(t, "change")}
    /\ page' = [page EXCEPT ![t].change = TRUE]
    /\ UNCHANGED <<store, ref, inbox, lockq, browser, server, faults, history>>

\* Slip: the rotation is applied to whichever session is shown.
Slip_ShowsSession(t, sid) == store[t].user # NoSid

\* The checks of applyAuthRotation: the session of the answer is still shown.
ShowsSession(t, sid) == store[t].user # NoSid /\ store[t].sid = sid

\* applyAuthRotation.
ChangeAnswered(t, status, sid, ver) ==
    /\ page' = [page EXCEPT ![t].change = FALSE]
    /\ IF status = "ok" /\ ShowsSession(t, sid)
       THEN /\ store' = [store EXCEPT ![t] = Bundle(sid, store[t].user, ver)]
            /\ ref' = Supersede(t)
       ELSE UNCHANGED <<store, ref>>
    /\ UNCHANGED <<inbox, lockq, told>>

\* The language card and the sidebar card of the profile send the change with
\* the user of their last render in hand.
SaveSettings(t) ==
    /\ ops < MaxOps /\ ops' = ops + 1
    /\ Mounted(t) /\ page[t].call = "none" /\ HasSession(t)
    /\ net' = net \cup {Request(t, "save")}
    /\ page' = [page EXCEPT ![t].call = "sent", ![t].save = store[t].user]
    /\ UNCHANGED <<store, ref, inbox, lockq, browser, server, faults, history>>

\* The card writes that user back with setUser, whichever session the tab has
\* by then; a 401 goes through the interceptor first, once.
SaveAnswered(t, status) ==
    \/ /\ status = "ok"
       /\ store' = [store EXCEPT ![t].user = IF page[t].save # NoSid THEN page[t].save ELSE @]
       /\ page' = [page EXCEPT ![t].call = "none", ![t].save = NoSid]
       /\ UNCHANGED <<ref, inbox, lockq, told>>
    \/ /\ status = "unauthorized" /\ page[t].call = "sent"
       /\ page' = [page EXCEPT ![t].call = "refreshing"]
       /\ StartRefresh(t)
       /\ UNCHANGED <<store, inbox, told>>
    \/ /\ status = "unauthorized" /\ page[t].call = "resent"
       /\ page' = [page EXCEPT ![t].call = "refused"]
       /\ UNCHANGED <<store, ref, inbox, lockq, told>>
    \/ /\ status \notin {"ok", "unauthorized"}
       /\ page' = [page EXCEPT ![t].call = "none", ![t].save = NoSid]
       /\ UNCHANGED <<store, ref, inbox, lockq, told>>

-----------------------------------------------------------------------------
(* The events of other tabs.                                               *)

\* subscribeAuthSessionEvents' listener in the root component.
HandleEvent(t) ==
    /\ inbox[t] # <<>>
    /\ LET ev == Head(inbox[t]) IN
       \/ /\ ev.kind = "authenticated" /\ ev.sid # store[t].sid
          /\ Unload(t)
          /\ UNCHANGED told
       \/ /\ ev.kind = "signed_out" /\ ev.sid = store[t].sid
          /\ store' = [store EXCEPT ![t] = SignedOut("complete")]
          /\ ref' = Supersede(t)
          /\ inbox' = [inbox EXCEPT ![t] = Tail(@)]
          /\ Tell(t, ev.sid)
          /\ UNCHANGED <<page, lockq, net, lost>>
       \/ /\ (ev.kind = "authenticated") <=> (ev.sid = store[t].sid)
          /\ inbox' = [inbox EXCEPT ![t] = Tail(@)]
          /\ UNCHANGED <<store, ref, page, lockq, net, told, lost>>
    /\ UNCHANGED <<browser, server, budgets>>

\* A tab that was frozen ignores an event a minute old.
IgnoreStaleEvent(t) ==
    /\ inbox[t] # <<>> /\ faults < MaxFaults
    /\ inbox' = [inbox EXCEPT ![t] = Tail(@)]
    /\ faults' = faults + 1
    /\ UNCHANGED <<ops, store, ref, page, lockq, browser, net, server, history>>

-----------------------------------------------------------------------------
(* The server.                                                             *)

Answer(m, status, sid) ==
    [m EXCEPT !.status = status, !.sid = sid, !.ver = IF sid = NoSid THEN 0 ELSE row[sid].ver,
              !.exp = NoSid, !.bearer = NoSid, !.cookie = NoCookie]
\* WriteRefreshCookie and ClearRefreshCookie on an answer.
WithCookie(m, token) == [m EXCEPT !.writes = TRUE, !.set = token]

Newest(sid) == [sid |-> sid, age |-> 0]
Older(token, sid) ==
    IF token.sid = sid /\ token.age < 2 THEN [token EXCEPT !.age = @ + 1] ELSE token

\* The refresh secret of sid is replaced: every token of it in the browser
\* or in flight is one generation older.
AgedNet(msgs, sid) ==
    {[m EXCEPT !.cookie = Older(@, sid), !.set = Older(@, sid)] : m \in msgs}

\* RefreshAuth and RefreshLoginSession.  The previous token still yields the
\* newest one inside the replay window and revokes the session after it; the
\* window may end at any time, so both are possible.
ServeRefresh(m) ==
    LET s == m.cookie.sid
        rest == net \ {m}
        Reject == net' = rest \cup {WithCookie(Answer(m, "unauthorized", NoSid), NoCookie)}
    IN
    /\ m.kind = "refresh" /\ m.status = "request"
    /\ \/ /\ s = NoSid
          /\ Reject
          /\ UNCHANGED <<cookie, row>>
       \/ /\ s # NoSid /\ m.exp \notin {NoSid, s}
          /\ net' = rest \cup {Answer(m, "mismatch", NoSid)}
          /\ UNCHANGED <<cookie, row>>
       \/ /\ s # NoSid /\ m.exp \in {NoSid, s}
          /\ \/ /\ row[s].status = "active" /\ m.cookie.age = 0
                /\ cookie' = Older(cookie, s)
                /\ net' = AgedNet(rest, s) \cup {WithCookie(Answer(m, "ok", s), Newest(s))}
                /\ UNCHANGED row
             \/ /\ row[s].status = "active" /\ m.cookie.age = 1
                /\ net' = rest \cup {WithCookie(Answer(m, "ok", s), Newest(s))}
                /\ UNCHANGED <<cookie, row>>
             \/ /\ row[s].status = "active" /\ m.cookie.age = 1
                /\ row' = [row EXCEPT ![s].status = "revoked", ![s].reuse = TRUE]
                /\ Reject
                /\ UNCHANGED cookie
             \/ /\ row[s].status # "active" \/ m.cookie.age = 2
                /\ Reject
                /\ UNCHANGED <<cookie, row>>
    /\ UNCHANGED <<client, hint, made, budgets, history>>

\* createLoginSession and the cookie of every login handler.
ServeLogin(m) ==
    /\ m.kind = "login" /\ m.status = "request" /\ made < MaxSids
    /\ LET s == made + 1 IN
       /\ made' = s
       /\ row' = [row EXCEPT ![s] = NewRow]
       /\ net' = (net \ {m}) \cup
                   {WithCookie([Answer(m, "ok", NoSid) EXCEPT !.sid = s], Newest(s))}
    /\ UNCHANGED <<client, browser, budgets, history>>

\* AuthLogout: by the access token when it parses, else by the cookie.
ServeLogout(m) ==
    LET c == m.cookie
        Targets == IF m.bearer # NoSid THEN {m.bearer}
                   ELSE CASE c.age = 0 -> {c.sid}
                          [] c.age = 1 -> {c.sid, NoSid}
                          [] c.age = 2 -> {NoSid}
        Clears == m.bearer = NoSid \/ c.sid = m.bearer
        done == Answer(m, "ok", NoSid)
    IN
    /\ m.kind = "logout" /\ m.status = "request"
    /\ IF m.exp # NoSid /\ c.sid \notin {NoSid, m.exp}
       THEN /\ net' = (net \ {m}) \cup {Answer(m, "mismatch", NoSid)}
            /\ UNCHANGED row
       ELSE /\ \E target \in Targets :
                 row' = [s \in Sids |->
                         IF s = target /\ row[s].status = "active"
                         THEN [row[s] EXCEPT !.status = "revoked"] ELSE row[s]]
            /\ net' = (net \ {m}) \cup {IF Clears THEN WithCookie(done, NoCookie) ELSE done}
    /\ UNCHANGED <<client, browser, made, budgets, history>>

\* A security change: AdvanceCurrentSessionSecurity keeps the session at its
\* next version and ends the user's other sessions, whichever those are.
ServeChange(m) ==
    /\ m.kind = "change" /\ m.status = "request"
    /\ IF /\ row[m.bearer].status = "active" /\ row[m.bearer].ver = 0 /\ m.ver = 0
       THEN /\ \E others \in SUBSET (Sids \ {m.bearer}) :
                 row' = [s \in Sids |->
                         CASE s = m.bearer -> [row[s] EXCEPT !.ver = 1]
                           [] s \in others /\ row[s].status = "active" ->
                                [row[s] EXCEPT !.status = "revoked"]
                           [] OTHER -> row[s]]
            /\ net' = (net \ {m}) \cup {[Answer(m, "ok", m.bearer) EXCEPT !.ver = 1]}
       ELSE /\ net' = (net \ {m}) \cup {Answer(m, "unauthorized", NoSid)}
            /\ UNCHANGED row
    /\ UNCHANGED <<client, browser, made, budgets, history>>

\* PUT /api/user/self behind the access-token check.
ServeSave(m) ==
    /\ m.kind = "save" /\ m.status = "request"
    /\ LET good == /\ m.bearer # NoSid
                   /\ row[m.bearer].status = "active" /\ row[m.bearer].ver = m.ver
       IN  net' = (net \ {m}) \cup {Answer(m, IF good THEN "ok" ELSE "unauthorized", NoSid)}
    /\ UNCHANGED <<client, browser, server, budgets, history>>

\* An answer of another kind: a race, what a proxy or a guard answers in the
\* place of the handler, or the refusal RefreshLoginSession makes of a failed
\* lookup, which clears the cookie of a session that goes on.
ServeError(m) ==
    /\ m.kind = "refresh" /\ m.status = "request" /\ faults < MaxFaults
    /\ \E answer \in {Answer(m, "race", NoSid), Answer(m, "other", NoSid),
                      WithCookie(Answer(m, "unauthorized", NoSid), NoCookie)} :
         net' = (net \ {m}) \cup {answer}
    /\ faults' = faults + 1
    /\ UNCHANGED <<ops, client, browser, server, history>>

\* The session is revoked from another device, or by an administrator.
RevokeElsewhere(s) ==
    /\ row[s].status = "active" /\ ops < MaxOps
    /\ row' = [row EXCEPT ![s].status = "revoked"]
    /\ ops' = ops + 1
    /\ UNCHANGED <<faults, client, browser, net, made, history>>

-----------------------------------------------------------------------------
(* Answers arrive.                                                         *)

Handle(m, status, msgs) ==
    \/ m.kind = "refresh" /\ RefreshAnswered(m.tab, status, m.sid, m.ver, msgs)
    \/ m.kind = "login" /\ LoginAnswered(m.tab, status, m.sid) /\ net' = msgs
    \/ m.kind = "logout" /\ LogoutAnswered(m.tab, status) /\ net' = msgs
    \/ m.kind = "change" /\ ChangeAnswered(m.tab, status, m.sid, m.ver) /\ net' = msgs
    \/ m.kind = "save" /\ SaveAnswered(m.tab, status) /\ net' = msgs

TakeCookie(m) ==
    /\ cookie' = IF m.writes THEN m.set ELSE cookie
    /\ hint' = IF m.writes THEN m.set # NoCookie ELSE hint

\* The browser stores the cookies, then the page's handler runs.
Receive(m) ==
    /\ m.status # "request" /\ m.live
    /\ TakeCookie(m)
    /\ Handle(m, m.status, net \ {m})
    /\ UNCHANGED <<server, budgets, lost>>

\* A request or an answer is lost, or a 5xx or a 429 comes in its place.
Lose(m) ==
    /\ m.live /\ faults < MaxFaults
    /\ faults' = faults + 1
    /\ Handle(m, "error", net \ {m})
    /\ lost' = (lost \/ m.kind = "refresh")
    /\ UNCHANGED <<ops, browser, server>>

\* The answer to a page that is gone: its cookies may still be stored.
ReceiveOrphan(m) ==
    /\ m.status # "request" /\ ~ m.live
    /\ net' = net \ {m}
    /\ \/ TakeCookie(m)
       \/ UNCHANGED browser
    /\ UNCHANGED <<client, server, budgets, history>>

TabStep(t) ==
    \/ RunRefresh(t) \/ RaceDelayEnds(t) \/ BootstrapAuthentication(t)
    \/ CallUnauthorized(t) \/ CallSettles(t) \/ LogoutResumes(t) \/ HandleEvent(t)

UserStep(t) ==
    \/ Navigate(t) \/ GetFreshAuthHeaders(t) \/ Reload(t) \/ TokenExpires(t)
    \/ AnonymousCall(t) \/ Login(t) \/ Logout(t) \/ ChangeSecurity(t) \/ SaveSettings(t)
    \/ IgnoreStaleEvent(t)

Serve(m) == ServeRefresh(m) \/ ServeLogin(m) \/ ServeLogout(m) \/ ServeChange(m) \/ ServeSave(m)

Next ==
    \/ \E t \in Tabs : TabStep(t) \/ UserStep(t)
    \/ \E m \in net : Serve(m) \/ ServeError(m) \/ Receive(m) \/ Lose(m) \/ ReceiveOrphan(m)
    \/ \E s \in Sids : RevokeElsewhere(s)

Spec == Init /\ [][Next]_vars

\* Timers, microtasks and event handlers run; every request is answered or
\* fails; a page whose token the server refuses is used again, so that it
\* finds out.  Nothing is assumed of the user's other steps.
Fairness ==
    \A t \in Tabs :
        /\ WF_vars(TabStep(t))
        /\ WF_vars(\E m \in net : m.tab = t /\ (Serve(m) \/ Receive(m)))

FairSpec == Spec /\ Fairness

-----------------------------------------------------------------------------
(* Properties.                                                             *)

TypeOK ==
    /\ store \in [Tabs -> Store]
    /\ ref \in [Tabs -> Refresh]
    /\ page \in [Tabs -> Page]
    /\ inbox \in [Tabs -> Seq(Event)]
    /\ lockq \in Seq(Tabs)
    /\ cookie \in Token /\ hint \in BOOLEAN
    /\ net \subseteq Message
    /\ row \in [Sids -> Row] /\ made \in 0 .. MaxSids
    /\ ops \in 0 .. MaxOps /\ faults \in 0 .. MaxFaults
    /\ told \in [Tabs -> SUBSET Sids] /\ lost \in BOOLEAN

\* A tab that has handled the end of a session the server revoked (its own
\* sign-out, another tab's event, a refused refresh) never holds that session and
\* its token again: no answer issued before the revocation restores them.
SignedOutStaysOut == \A t \in Tabs : store[t].sid \notin told[t]

\* A tab starts to show another account than its session's only when a card
\* writes back the user it captured under an earlier session: no rotation, late
\* refresh, login or event of another tab ever separates the two.
OnlySavesMixAccounts ==
    [][\A t \in Tabs :
         (store[t].user = store[t].sid /\ store'[t].user # store'[t].sid)
           => /\ page[t].save # NoSid /\ store'[t].user = page[t].save
              /\ store'[t].sid = store[t].sid]_vars

\* The server revokes a session for refresh-token reuse only after a refresh
\* answer was lost or its page was left: tabs that race for the same token
\* never cost the user the session.
ReuseNeedsLoss == (\E s \in Sids : row[s].reuse) => lost

\* Every refreshPromise settles, whatever the other tabs, the events and the
\* network do, so no caller and no queued tab waits for ever.
RefreshesEnd == \A t \in Tabs : ref[t].st # "none" ~> ref[t].st = "none"

\* A revoked session disappears from every tab that is still used.
RevokedLeaves ==
    \A t \in Tabs, s \in Sids :
        (row[s].status = "revoked" /\ store[t].sid = s) ~> store[t].sid # s
==============================================================================
