----------------------------- MODULE HTTP1Pool -----------------------------
(***************************************************************************)
(* HTTP1Transport (http1_transport.go): the keep-alive pool of HTTP/1.1    *)
(* connections.  A connection carries one exchange at a time: RoundTrip    *)
(* takes it out of idleConns, the response body keeps it, and the end of   *)
(* the body puts it back or closes it.  Meanwhile a watchdog goroutine     *)
(* waits for the request's context and, on cancellation, cuts the socket   *)
(* under the blocked read or write ("poison").                             *)
(*                                                                         *)
(* A step is one critical section of idleConnsMu, one closed check, or one *)
(* move of a watchdog.  http1Conn.mu is never contended by another request *)
(* and is left out.  Response framing, headers and TLS are data.           *)
(***************************************************************************)
EXTENDS Integers, Sequences, FiniteSets, SequencesExt

CONSTANTS
    Requests,     \* callers; each makes one call
    Conns,        \* identities of the connections a run may open
    Keys,         \* scheme://connectHost:port
    KeyOf,        \* the pool key each caller addresses
    Modes,        \* the ways each caller may call: "pooled" RoundTrip,
                  \* "stream" StreamRoundTrip, "handoff" RoundTripWithTLSConn
    Replayable,   \* requests with no body, or whose GetBody re-opens it
    NoConn,
    MaxIdle,      \* maxIdleConnsPerHost
    Presets,
    Proxies,
    Operations    \* which operations of the transport are called

ASSUME ConstantsAssumption ==
    /\ NoConn \notin Conns
    /\ KeyOf \in [Requests -> Keys]
    /\ Modes \in [Requests -> SUBSET {"pooled", "stream", "handoff"}]
    /\ Replayable \subseteq Requests
    /\ MaxIdle \in Nat \ {0}
    /\ Presets # {} /\ Proxies # {}
    /\ Operations \subseteq {"cleanup", "Refresh", "SetPreset", "SetProxy", "Close", "abandon"}

VARIABLES
    \* HTTP1Transport
    closed,
    idleConns,
    preset, proxy,
    refreshing,   \* a Refresh is between its closed check and idleConnsMu
    swept,        \* Close has emptied idleConns
    \* http1Conn
    cstate,       \* "none" not dialled, "open", "closed"
    poisoned,     \* the connections whose socket a watchdog has cut
    expired,      \* the idle connections not used for maxIdleTime
    builtWith,    \* the proxy and the preset a connection was dialled with
    closing,      \* pending "go conn.close()"
    \* calls
    mode,         \* the function each caller calls
    pc, rconn,
    sends,        \* history: the exchanges a request has begun
    rproxy,       \* t.proxy, as the dial read it
    fresh,        \* requests that dialled the connection they use
    keepAlive,    \* requests whose response allows reuse
    cancelled,    \* requests whose context has ended
    watch,        \* the watchdog: "off", "armed", "poisoning"
    outcome

transportVars == <<mode, closed, idleConns, preset, proxy, refreshing, swept>>
connVars      == <<cstate, poisoned, expired, builtWith, closing>>
callVars      == <<pc, rconn, sends, rproxy, fresh, keepAlive, cancelled, watch, outcome>>
vars == <<transportVars, connVars, callVars>>

-----------------------------------------------------------------------------
Builds == [proxy : Proxies, preset : Presets]

\* The type invariant; the idle list never outgrows maxIdleConnsPerHost.
TypeOK ==
    /\ closed \in BOOLEAN /\ refreshing \in BOOLEAN /\ swept \in BOOLEAN
    /\ \A k \in Keys : ToSet(idleConns[k]) \subseteq Conns /\ Len(idleConns[k]) <= MaxIdle
    /\ preset \in Presets /\ proxy \in Proxies
    /\ cstate \in [Conns -> {"none", "open", "closed"}]
    /\ poisoned \subseteq Conns /\ expired \subseteq Conns /\ closing \subseteq Conns
    /\ builtWith \in [Conns -> Builds]
    /\ mode \in [Requests -> {"pooled", "stream", "handoff"}]
    /\ pc \in [Requests -> {"init", "lookup", "dial", "dialling", "exchange", "failing",
                            "body", "ending", "aborting", "abandoned", "done"}]
    /\ rconn \in [Requests -> Conns \cup {NoConn}]
    /\ sends \in [Requests -> Nat]
    /\ rproxy \in [Requests -> Proxies]
    /\ fresh \subseteq Requests /\ keepAlive \subseteq Requests /\ cancelled \subseteq Requests
    /\ watch \in [Requests -> {"off", "armed", "poisoning"}]
    /\ outcome \in [Requests -> {"none", "response", "closed", "cancelled", "error"}]

Init ==
    /\ closed = FALSE /\ refreshing = FALSE /\ swept = FALSE
    /\ idleConns = [k \in Keys |-> <<>>]
    /\ preset \in Presets /\ proxy \in Proxies
    /\ cstate = [c \in Conns |-> "none"]
    /\ poisoned = {} /\ expired = {} /\ closing = {}
    /\ builtWith = [c \in Conns |-> [proxy |-> proxy, preset |-> preset]]
    /\ mode \in {m \in [Requests -> {"pooled", "stream", "handoff"}] :
                   \A r \in Requests : m[r] \in Modes[r]}
    /\ pc = [r \in Requests |-> "init"]
    /\ rconn = [r \in Requests |-> NoConn]
    /\ sends = [r \in Requests |-> 0]
    /\ rproxy = [r \in Requests |-> proxy]
    /\ fresh = {} /\ keepAlive = {} /\ cancelled = {}
    /\ watch = [r \in Requests |-> "off"]
    /\ outcome = [r \in Requests |-> "none"]

-----------------------------------------------------------------------------
(* Helpers.                                                                *)

Idle == UNION {ToSet(idleConns[k]) : k \in Keys}

Goto(r, label) == pc' = [pc EXCEPT ![r] = label]

Answer(r, what) == outcome' = [outcome EXCEPT ![r] = what]

\* http1Conn.close
CloseConn(c) == cstate' = [cstate EXCEPT ![c] = "closed"]

\* Mutant of StartExchange: no watchdog on a connection from the pool.
StartExchangeUnwatched(r, c) ==
    /\ rconn' = [rconn EXCEPT ![r] = c]
    /\ sends' = [sends EXCEPT ![r] = @ + 1]
    /\ watch' = IF cstate[c] = "none" THEN [watch EXCEPT ![r] = "armed"] ELSE watch
    /\ Goto(r, "exchange")

\* watchContext, then doRequest begins to write.
StartExchange(r, c) ==
    /\ rconn' = [rconn EXCEPT ![r] = c]
    /\ sends' = [sends EXCEPT ![r] = @ + 1]
    /\ watch' = [watch EXCEPT ![r] = "armed"]
    /\ Goto(r, "exchange")

\* close(stop): an armed watchdog leaves; one that is already poisoning goes
\* on, and the caller waits for it.
StopWatch(r) ==
    watch' = [watch EXCEPT ![r] = IF @ = "armed" THEN "off" ELSE @]

\* <-exited has returned.
WatchdogGone(r) == watch[r] = "off"

\* All idle connections are closed in the background and forgotten.
DropIdle ==
    /\ closing' = closing \cup Idle
    /\ idleConns' = [k \in Keys |-> <<>>]

-----------------------------------------------------------------------------
(* RoundTrip, StreamRoundTrip, RoundTripWithTLSConn up to the exchange.    *)

StartClosed(r) ==
    /\ pc[r] = "init" /\ mode[r] # "handoff" /\ closed
    /\ Goto(r, "done")
    /\ Answer(r, "closed")
    /\ UNCHANGED <<transportVars, connVars, rconn, sends, rproxy, fresh, keepAlive,
                   cancelled, watch>>

Start(r) ==
    /\ pc[r] = "init" /\ mode[r] # "handoff" /\ ~closed
    /\ Goto(r, IF mode[r] = "pooled" THEN "lookup" ELSE "dial")
    /\ UNCHANGED <<transportVars, connVars, rconn, sends, rproxy, fresh, keepAlive,
                   cancelled, watch, outcome>>

\* RoundTripWithTLSConn is given an open connection by the HTTP/2 transport; a
\* closed transport closes it at once.
HandoffClosed(r, c) ==
    /\ pc[r] = "init" /\ mode[r] = "handoff" /\ closed
    /\ cstate[c] = "none"
    /\ CloseConn(c)
    /\ Goto(r, "done")
    /\ Answer(r, "closed")
    /\ UNCHANGED <<transportVars, poisoned, expired, builtWith, closing, rconn, sends,
                   rproxy, fresh, keepAlive, cancelled, watch>>

Handoff(r, c) ==
    /\ pc[r] = "init" /\ mode[r] = "handoff" /\ ~closed
    /\ cstate[c] = "none"
    /\ cstate' = [cstate EXCEPT ![c] = "open"]
    /\ fresh' = fresh \cup {r}
    /\ StartExchange(r, c)
    /\ UNCHANGED <<transportVars, poisoned, expired, builtWith, closing, rproxy,
                   keepAlive, cancelled, outcome>>

\* getIdleConn: the most recently used connection, if there is one.
GetIdleMiss(r) ==
    /\ pc[r] = "lookup" /\ idleConns[KeyOf[r]] = <<>>
    /\ Goto(r, "dial")
    /\ UNCHANGED <<transportVars, connVars, rconn, sends, rproxy, fresh, keepAlive,
                   cancelled, watch, outcome>>

GetIdleExpired(r) ==
    LET k == KeyOf[r] IN
    /\ pc[r] = "lookup" /\ idleConns[k] # <<>> /\ Last(idleConns[k]) \in expired
    /\ idleConns' = [idleConns EXCEPT ![k] = Front(@)]
    /\ CloseConn(Last(idleConns[k]))
    /\ Goto(r, "dial")
    /\ UNCHANGED <<mode, closed, preset, proxy, refreshing, swept, poisoned, expired,
                   builtWith, closing, rconn, sends, rproxy, fresh, keepAlive,
                   cancelled, watch, outcome>>

GetIdleHit(r) ==
    LET k == KeyOf[r] IN
    /\ pc[r] = "lookup" /\ idleConns[k] # <<>> /\ Last(idleConns[k]) \notin expired
    /\ idleConns' = [idleConns EXCEPT ![k] = Front(@)]
    /\ StartExchange(r, Last(idleConns[k]))
    /\ UNCHANGED <<mode, closed, preset, proxy, refreshing, swept, connVars, rproxy,
                   fresh, keepAlive, cancelled, outcome>>

\* createConn reads t.proxy when it starts to dial and t.preset when it sets
\* up TLS, neither under a lock.
DialBegin(r) ==
    /\ pc[r] = "dial"
    /\ rproxy' = [rproxy EXCEPT ![r] = proxy]
    /\ Goto(r, "dialling")
    /\ UNCHANGED <<transportVars, connVars, rconn, sends, fresh, keepAlive, cancelled,
                   watch, outcome>>

Dialled(r, c) ==
    /\ pc[r] = "dialling" /\ cstate[c] = "none"
    /\ cstate' = [cstate EXCEPT ![c] = "open"]
    /\ builtWith' = [builtWith EXCEPT ![c] = [proxy |-> rproxy[r], preset |-> preset]]
    /\ fresh' = fresh \cup {r}
    /\ StartExchange(r, c)
    /\ UNCHANGED <<transportVars, poisoned, expired, closing, rproxy, keepAlive,
                   cancelled, outcome>>

DialFailed(r) ==
    /\ pc[r] = "dialling"
    /\ fresh' = fresh \cup {r}
    /\ Goto(r, "done")
    /\ Answer(r, IF r \in cancelled THEN "cancelled" ELSE "error")
    /\ UNCHANGED <<transportVars, connVars, rconn, sends, rproxy, keepAlive, cancelled,
                   watch>>

-----------------------------------------------------------------------------
(* The exchange and its retry.                                             *)

\* Response headers, and the context has not ended: the body takes over.
Respond(r, reusable) ==
    /\ pc[r] = "exchange" /\ rconn[r] \notin poisoned /\ r \notin cancelled
    /\ keepAlive' = IF reusable THEN keepAlive \cup {r} ELSE keepAlive
    /\ Goto(r, "body")
    /\ Answer(r, "response")
    /\ UNCHANGED <<transportVars, connVars, rconn, sends, rproxy, fresh, cancelled,
                   watch>>

\* A write or a read failed, or the context ended: stopWatch.
ExchangeFails(r) ==
    /\ pc[r] = "exchange"
    /\ StopWatch(r)
    /\ Goto(r, "failing")
    /\ UNCHANGED <<transportVars, connVars, rconn, sends, rproxy, fresh, keepAlive,
                   cancelled, outcome>>

\* Mutant of AfterFailure: the failure of a new connection is retried too.
AfterFailureAnyConn(r) ==
    IF r \in cancelled THEN "cancelled"
    ELSE IF r \notin Replayable THEN "error" ELSE "retry"

\* What becomes of a failed attempt: the caller's own cancellation is reported;
\* only a failure of a connection from the pool is retried, once, on a new one,
\* if the body can be re-opened.
AfterFailure(r) ==
    IF r \in cancelled THEN "cancelled"
    ELSE IF r \in fresh \/ r \notin Replayable THEN "error" ELSE "retry"

CloseFailed(r) ==
    /\ pc[r] = "failing" /\ WatchdogGone(r)
    /\ CloseConn(rconn[r])
    /\ IF AfterFailure(r) = "retry"
       THEN Goto(r, "dial") /\ UNCHANGED outcome
       ELSE Goto(r, "done") /\ Answer(r, AfterFailure(r))
    /\ UNCHANGED <<transportVars, poisoned, expired, builtWith, closing, rconn, sends,
                   rproxy, fresh, keepAlive, cancelled, watch>>

-----------------------------------------------------------------------------
(* The response body.                                                      *)

\* The body is read to its end, or closed and drained without an error.
EndBody(r) ==
    /\ pc[r] = "body"
    /\ StopWatch(r)
    /\ Goto(r, "ending")
    /\ UNCHANGED <<transportVars, connVars, rconn, sends, rproxy, fresh, keepAlive,
                   cancelled, outcome>>

\* Closing the body fails: the reader stands somewhere inside it.
BodyCloseFails(r) ==
    /\ pc[r] = "body"
    /\ StopWatch(r)
    /\ Goto(r, "aborting")
    /\ UNCHANGED <<transportVars, connVars, rconn, sends, rproxy, fresh, keepAlive,
                   cancelled, outcome>>

\* The caller neither reads the body to its end nor closes it.
Abandon(r) ==
    /\ "abandon" \in Operations
    /\ pc[r] = "body"
    /\ Goto(r, "abandoned")
    /\ UNCHANGED <<transportVars, connVars, rconn, sends, rproxy, fresh, keepAlive,
                   cancelled, watch, outcome>>

\* Mutant of Poolable: the poisoned flag is not looked at.
PoolablePoisoned(r) == mode[r] = "pooled" /\ r \in keepAlive /\ ~closed

\* handleClose and the closed check of putIdleConn.  streamBodyWrapper never
\* pools.
Poolable(r) ==
    /\ mode[r] = "pooled" /\ r \in keepAlive
    /\ rconn[r] \notin poisoned
    /\ ~closed

Full(k) == Len(idleConns[k]) >= MaxIdle

\* The oldest connection makes room in a full list.
PushedOut(k) == IF Full(k) THEN {Head(idleConns[k])} ELSE {}

\* Mutant of BodyDone: no sync.Once, so the end of the body and its Close both
\* come here.
BodyDoneWithoutOnce(r) == Goto(r, "done") \/ UNCHANGED pc

\* pooledBodyWrapper.once
BodyDone(r) == Goto(r, "done")

CloseAfterBody(r) ==
    /\ pc[r] = "aborting" \/ (pc[r] = "ending" /\ ~Poolable(r))
    /\ WatchdogGone(r)
    /\ CloseConn(rconn[r])
    /\ BodyDone(r)
    /\ UNCHANGED <<transportVars, poisoned, expired, builtWith, closing, rconn, sends,
                   rproxy, fresh, keepAlive, cancelled, watch, outcome>>

PutIdleConn(r) ==
    LET k == KeyOf[r] IN
    /\ pc[r] = "ending" /\ Poolable(r)
    /\ WatchdogGone(r)
    /\ idleConns' = [idleConns EXCEPT ![k] = Append(IF Full(k) THEN Tail(@) ELSE @, rconn[r])]
    /\ closing' = closing \cup PushedOut(k)
    /\ expired' = expired \ {rconn[r]}
    /\ BodyDone(r)
    /\ UNCHANGED <<mode, closed, preset, proxy, refreshing, swept, cstate, poisoned,
                   builtWith, rconn, sends, rproxy, fresh, keepAlive, cancelled, watch,
                   outcome>>

-----------------------------------------------------------------------------
(* Contexts and their watchdogs.                                           *)

\* The context ends: cancelled by the caller, or its deadline passes.
Cancel(r) ==
    /\ pc[r] # "init" /\ r \notin cancelled
    /\ cancelled' = cancelled \cup {r}
    /\ UNCHANGED <<transportVars, connVars, pc, rconn, sends, rproxy, fresh, keepAlive,
                   watch, outcome>>

\* The watchdog has seen <-done and not <-stop.
WatchdogFires(r) ==
    /\ watch[r] = "armed" /\ r \in cancelled
    /\ watch' = [watch EXCEPT ![r] = "poisoning"]
    /\ UNCHANGED <<transportVars, connVars, pc, rconn, sends, rproxy, fresh, keepAlive,
                   cancelled, outcome>>

Poison(r) ==
    /\ watch[r] = "poisoning"
    /\ poisoned' = poisoned \cup {rconn[r]}
    /\ watch' = [watch EXCEPT ![r] = "off"]
    /\ UNCHANGED <<transportVars, cstate, expired, builtWith, closing, pc, rconn, sends,
                   rproxy, fresh, keepAlive, cancelled, outcome>>

-----------------------------------------------------------------------------
(* Operations of the transport, background goroutines and time.            *)

\* pos[k] lists, in ascending order, the places of list k that have not expired.
Unexpired(pos) ==
    \A k \in Keys :
        /\ ToSet(pos[k]) = {i \in DOMAIN idleConns[k] : idleConns[k][i] \notin expired}
        /\ \A i, j \in DOMAIN pos[k] : i < j => pos[k][i] < pos[k][j]

\* The expired connections are closed and the others keep their order.
Cleanup ==
    /\ "cleanup" \in Operations /\ Idle \cap expired # {}
    /\ closing' = closing \cup (Idle \cap expired)
    /\ \E pos \in [Keys -> SeqOf(1..MaxIdle, MaxIdle)] :
         /\ Unexpired(pos)
         /\ idleConns' = [k \in Keys |-> [i \in DOMAIN pos[k] |-> idleConns[k][pos[k][i]]]]
    /\ UNCHANGED <<mode, closed, preset, proxy, refreshing, swept, cstate, poisoned,
                   expired, builtWith, callVars>>

RunClose(c) ==
    /\ c \in closing
    /\ CloseConn(c)
    /\ closing' = closing \ {c}
    /\ UNCHANGED <<transportVars, poisoned, expired, builtWith, callVars>>

\* Refresh checks closed, then drops the idle connections.
RefreshBegin ==
    /\ "Refresh" \in Operations /\ ~closed /\ ~refreshing
    /\ refreshing' = TRUE
    /\ UNCHANGED <<mode, closed, idleConns, preset, proxy, swept, connVars, callVars>>

RefreshEnd ==
    /\ refreshing
    /\ DropIdle
    /\ refreshing' = FALSE
    /\ UNCHANGED <<mode, closed, preset, proxy, swept, cstate, poisoned, expired,
                   builtWith, callVars>>

\* SetPreset: the field, then Refresh.
SetPreset(new) ==
    /\ "SetPreset" \in Operations
    /\ preset' = new
    /\ refreshing' = (refreshing \/ ~closed)
    /\ UNCHANGED <<mode, closed, idleConns, proxy, swept, connVars, callVars>>

SetProxy(new) ==
    /\ "SetProxy" \in Operations
    /\ DropIdle
    /\ proxy' = new
    /\ UNCHANGED <<mode, closed, preset, refreshing, swept, cstate, poisoned, expired,
                   builtWith, callVars>>

\* Close: the flag first, the idle connections in a critical section of their
\* own.  CloseGraceful of the whole transport uses it for HTTP/1.1 too.
CloseBegin ==
    /\ "Close" \in Operations /\ ~closed
    /\ closed' = TRUE
    /\ UNCHANGED <<mode, idleConns, preset, proxy, refreshing, swept, connVars,
                   callVars>>

CloseEnd ==
    /\ closed /\ ~swept
    /\ DropIdle
    /\ swept' = TRUE
    /\ UNCHANGED <<mode, closed, preset, proxy, refreshing, cstate, poisoned, expired,
                   builtWith, callVars>>

\* maxIdleTime passes without a use.
Expire(c) ==
    /\ "cleanup" \in Operations
    /\ c \in Idle \ expired
    /\ expired' = expired \cup {c}
    /\ UNCHANGED <<transportVars, cstate, poisoned, builtWith, closing, callVars>>

-----------------------------------------------------------------------------
Connect(r) ==
    \/ StartClosed(r) \/ Start(r)
    \/ \E c \in Conns : HandoffClosed(r, c) \/ Handoff(r, c) \/ Dialled(r, c)
    \/ GetIdleMiss(r) \/ GetIdleExpired(r) \/ GetIdleHit(r)
    \/ DialBegin(r) \/ DialFailed(r)

Exchange(r) ==
    \/ \E reusable \in BOOLEAN : Respond(r, reusable)
    \/ ExchangeFails(r) \/ CloseFailed(r)

Body(r) ==
    EndBody(r) \/ BodyCloseFails(r) \/ Abandon(r) \/ CloseAfterBody(r) \/ PutIdleConn(r)

Watchdog(r) == WatchdogFires(r) \/ Poison(r)

Operation ==
    \/ RefreshBegin \/ RefreshEnd \/ CloseBegin \/ CloseEnd
    \/ \E new \in Presets : SetPreset(new)
    \/ \E new \in Proxies : SetProxy(new)

Background ==
    \/ Cleanup
    \/ \E c \in Conns : RunClose(c) \/ Expire(c)

Next ==
    \/ \E r \in Requests : Connect(r) \/ Exchange(r) \/ Body(r) \/ Cancel(r) \/ Watchdog(r)
    \/ Operation
    \/ Background

Spec == Init /\ [][Next]_vars

(* Fairness.  Goroutines are scheduled, a dial is bounded by its timeout, an *)
(* operation that has begun finishes, and a socket that has been cut fails   *)
(* the read or the write blocked on it.  Nothing is assumed of the server:   *)
(* an answer may never come.  A body is in the end read, closed or dropped.  *)
Fairness ==
    /\ \A r \in Requests :
         /\ WF_vars(pc[r] \notin {"init", "dialling"} /\ Connect(r))
         /\ WF_vars(pc[r] = "dialling" /\ Connect(r))
         /\ WF_vars(rconn[r] \in poisoned /\ ExchangeFails(r))
         /\ WF_vars(CloseFailed(r))
         /\ WF_vars(Body(r))
         /\ WF_vars(Watchdog(r))
    /\ \A c \in Conns : WF_vars(RunClose(c))
    /\ WF_vars(RefreshEnd) /\ WF_vars(CloseEnd)

FairSpec == Spec /\ Fairness

-----------------------------------------------------------------------------
(* Properties.                                                             *)

\* The request holds its connection: exchanging, reading the body, or not yet
\* through with either.
Holds(r) == pc[r] \in {"exchange", "failing", "body", "ending", "aborting", "abandoned"}

\* One exchange at a time: a connection is held by one request, or idle once,
\* or neither.  getIdleConn takes it out of the pool and the sync.Once of the
\* body wrapper puts it back one time only.
ExclusiveUse ==
    /\ \A r1, r2 \in Requests :
         Holds(r1) /\ Holds(r2) /\ rconn[r1] = rconn[r2] => r1 = r2
    /\ \A r \in Requests : Holds(r) => rconn[r] \notin Idle
    /\ \A k \in Keys : IsInjective(idleConns[k])

\* A cut connection is never pooled, and no watchdog of a finished request is
\* left that could cut a pooled one: "the value has to be final by then, or a
\* poisoned connection races into the pool".
PooledClean ==
    \A c \in Idle :
        /\ cstate[c] = "open" /\ c \notin poisoned \cup closing
        /\ \A r \in Requests : rconn[r] = c => watch[r] = "off"

\* "HTTP/1.1 connections are only ever closed while idle, so an in-flight one
\* is untouched": Close, Refresh, SetProxy, the cleanup and other requests never
\* close a connection under a request; only its own cancellation cuts it.
InFlightSpared ==
    \A r \in Requests : Holds(r) =>
        /\ cstate[rconn[r]] = "open" /\ rconn[r] \notin closing
        /\ rconn[r] \in poisoned => r \in cancelled

\* Once Close has swept the pool nothing enters it again, although a body may
\* end, or a Refresh resume, at any moment during Close.
NothingPooledAfterClose == swept => Idle = {}

\* No connection is forgotten: an open one is idle, held, or about to be closed.
ConnTracked ==
    \A c \in Conns : cstate[c] = "open" =>
        c \in Idle \cup closing \cup {rconn[r] : r \in {q \in Requests : Holds(q)}}

\* However many stale connections the pool hands out and takes back meanwhile,
\* a request is sent twice at most, and once if its body cannot be re-opened;
\* and a request that was sent only on a connection from the pool does not end
\* with that connection's error if its body can be (RoundTrip 324-388).
RepeatsBounded ==
    \A r \in Requests :
        /\ sends[r] <= IF r \in Replayable THEN 2 ELSE 1
        /\ outcome[r] = "error" /\ r \in Replayable => r \in fresh

\* What the comment on SetProxy says: all existing connections are closed, so
\* none in the pool goes through an old proxy.
PooledProxyCurrent == \A c \in Idle : builtWith[c].proxy = proxy

\* "watchContext makes a cancelled context interrupt an in-flight exchange",
\* with a server that never answers.
CancelUnblocks ==
    \A r \in Requests :
        (pc[r] = "exchange" /\ r \in cancelled) ~> (pc[r] # "exchange")

\* doRequest arms the socket with responseTimeout: a silent server fails the
\* exchange in the end even if nobody cancels.
ResponseTimeout == \A r \in Requests : WF_vars(Exchange(r))

\* After Close every connection is closed in the end, the ones in use then
\* included, unless the caller abandons the body; the response timeout ends the
\* exchanges no server answers.
CloseReclaims ==
    ResponseTimeout =>
        \A c \in Conns :
            (closed /\ cstate[c] = "open")
                ~> (cstate[c] = "closed" \/ \E r \in Requests : pc[r] = "abandoned" /\ rconn[r] = c)

\* A silent server keeps nothing for ever: a cancelled exchange ends (watchContext
\* 152-186), and Close gets every connection back (putIdleConn 1567-1590).
ExchangesEnd == CancelUnblocks /\ CloseReclaims

\* A connection serves one request at a time, only that request's own
\* cancellation ends it, and an open one is never lost track of
\* (watchContext 152-186, handleClose 510-526,
\* putIdleConn 1567-1590).
OneUser == TypeOK /\ ExclusiveUse /\ InFlightSpared /\ ConnTracked

\* Refresh, SetPreset, SetProxy and Close against bodies that end: what is in the
\* pool can be used again, what is open is known, a request keeps its connection,
\* and nothing enters the pool once Close has swept it (putIdleConn
\* 1567-1590, SetProxy 1691-1707).
PoolReusable == PooledClean /\ NothingPooledAfterClose /\ ConnTracked /\ InFlightSpared
=============================================================================
