----------------------------- MODULE LocalProxy -----------------------------
(***************************************************************************)
(* local_proxy.go: the local HTTP proxy.  One goroutine accepts, one per   *)
(* connection handles a single request, Stop may be called by several      *)
(* goroutines at once and waits for the handlers for a bounded time.       *)
(* A request is a record                                                   *)
(*   connect:  a CONNECT, otherwise a request to forward                   *)
(*   https:    the target is https, or was upgraded by X-HTTPCloak-Scheme  *)
(*   session:  the id in X-HTTPCloak-Session, or NoSession                 *)
(*   override: the proxy of Proxy-Authorization or X-Upstream-Proxy        *)
(* and a proxy URL is abstracted to its kind: none, socks5, http or other, *)
(* the last for a URL whose scheme the code does not recognise.            *)
(***************************************************************************)
EXTENDS Naturals, FiniteSets

CONSTANTS
    Clients,          \* connections a client makes
    Stoppers,         \* goroutines that call Stop
    SessionIds,       \* ids of the registry
    HostSessions,     \* sessions the embedding program registers
    NoSession,
    ProxyRequests,    \* the requests clients send
    Upstream,         \* the configured tcpProxy: none, socks5 or http
    MaxConnections

ASSUME LocalProxyConstants ==
    /\ IsFiniteSet(Clients) /\ MaxConnections \in Nat /\ NoSession \notin SessionIds
    /\ Upstream \in {"none", "socks5", "http"}

VARIABLES
    running,          \* p.running
    shuttingDown,     \* p.shuttingDown, set with p.cancel()
    listener,         \* the listener is open
    acceptLoop,       \* the accept loop has not returned
    activeConns,
    wg,
    client,           \* per connection: pc, request
    proxySession,     \* p.session is open
    sessionRegistry,  \* the session registered under an id, or NoSession
    sessionIdentifier, \* the identifier that prefixes a session's ticket keys
    stopper,          \* per Stop call: pc
    forced            \* history: a Stop gave up waiting

proxyVars == <<running, shuttingDown, listener, acceptLoop, activeConns, wg, client,
               proxySession, sessionRegistry, sessionIdentifier, stopper, forced>>

stopState == <<running, shuttingDown, listener, proxySession, stopper, forced>>

registryState == <<sessionRegistry, sessionIdentifier>>

NoRequest == [connect |-> FALSE, https |-> FALSE, session |-> NoSession, override |-> "none"]

\* StartLocalProxy: the session exists, then the listener, then the accept loop.
ProxyInit ==
    /\ running = TRUE /\ shuttingDown = FALSE /\ listener = TRUE /\ acceptLoop = TRUE
    /\ activeConns = 0 /\ wg = 1
    /\ client = [c \in Clients |-> [pc |-> "new", req |-> NoRequest]]
    /\ proxySession = TRUE /\ sessionRegistry = [i \in SessionIds |-> NoSession]
    /\ sessionIdentifier = [s \in HostSessions |-> NoSession]
    /\ stopper = [s \in Stoppers |-> "idle"] /\ forced = FALSE

\* The type invariant.
ProxyTypeOK ==
    /\ running \in BOOLEAN /\ shuttingDown \in BOOLEAN /\ listener \in BOOLEAN
    /\ acceptLoop \in BOOLEAN /\ activeConns \in 0..Cardinality(Clients) /\ wg \in Nat
    /\ client \in [Clients -> [pc : {"new", "accepted", "reading", "handle", "serving", "closed",
                                     "counted", "gone"},
                               req : ProxyRequests \cup {NoRequest}]]
    /\ proxySession \in BOOLEAN
    /\ sessionRegistry \in [SessionIds -> HostSessions \cup {NoSession}]
    /\ sessionIdentifier \in [HostSessions -> SessionIds \cup {NoSession}]
    /\ stopper \in [Stoppers -> {"idle", "cancelled", "waiting", "waited", "done"}]
    /\ forced \in BOOLEAN

-----------------------------------------------------------------------------
(* The accept loop.                                                        *)

\* Mutant of CountConn: the handler counts itself into the wait group later.
CountConnLate == wg

\* wg.Add before the handler is started.
CountConn == wg + 1

\* listener.Accept returns a connection; the loop has one in hand at a time.
Accept(c) ==
    /\ acceptLoop /\ listener /\ client[c].pc = "new"
    /\ \A d \in Clients : client[d].pc # "accepted"
    /\ client' = [client EXCEPT ![c].pc = "accepted"]
    /\ UNCHANGED <<acceptLoop, activeConns, wg, registryState, stopState>>

\* The limit and the counts, though the listener may have been closed since.
StartHandler(c) ==
    /\ client[c].pc = "accepted"
    /\ IF activeConns >= MaxConnections
       THEN client' = [client EXCEPT ![c].pc = "gone"] /\ UNCHANGED <<activeConns, wg>>
       ELSE /\ client' = [client EXCEPT ![c].pc = "reading"]
            /\ activeConns' = activeConns + 1 /\ wg' = CountConn
    /\ UNCHANGED <<acceptLoop, registryState, stopState>>

\* Accept fails on a closed listener; the loop ends when shuttingDown is seen.
AcceptLoopEnds ==
    /\ acceptLoop /\ ~listener /\ shuttingDown
    /\ \A c \in Clients : client[c].pc # "accepted"
    /\ acceptLoop' = FALSE /\ wg' = wg - 1
    /\ UNCHANGED <<activeConns, client, registryState, stopState>>

-----------------------------------------------------------------------------
(* handleConnection.                                                       *)

\* ReadRequest; a bad request or the read deadline is answered 400.
ReadRequest(c, r) ==
    /\ client[c].pc = "reading"
    /\ client' = [client EXCEPT ![c].pc = "handle", ![c].req = r]
    /\ UNCHANGED <<acceptLoop, activeConns, wg, registryState, stopState>>

\* dialTarget: the override takes precedence over the configured proxy, and what
\* is not a SOCKS5 or HTTP proxy is dialled directly.
TargetRoute(r) ==
    LET proxyURL == IF r.override # "none" THEN r.override ELSE Upstream
    IN  IF proxyURL \in {"socks5", "http"} THEN proxyURL ELSE "direct"

\* handleHTTPDirect: the shared client has no proxy; an override gets a client of its own.
DirectRoute(r) == IF r.override = "none" THEN "direct" ELSE "http"

\* handleHTTPWithSession: the registered session, or the proxy's own.
SessionRoute(r) == IF r.session = NoSession THEN "default" ELSE "registered"

Route(r) ==
    IF r.connect THEN TargetRoute(r) ELSE IF r.https THEN SessionRoute(r) ELSE DirectRoute(r)

\* p.ctx ends a dial and a forwarded request with Stop, but not the CONNECT
\* exchange with an HTTP proxy that has been dialled, which has no deadline.
OutlivesStop(r) == r.connect /\ Route(r) = "http"

\* The target is reached: a tunnel, a stream or a forwarded response begins.
\* A closed session refuses the request.
Serve(c) ==
    LET r == client[c].req
    IN  /\ client[c].pc = "handle" /\ (shuttingDown => OutlivesStop(r))
        /\ Route(r) = "registered" => sessionRegistry[r.session] # NoSession
        /\ Route(r) = "default" => proxySession
        /\ client' = [client EXCEPT ![c].pc = "serving"]
        /\ UNCHANGED <<acceptLoop, activeConns, wg, registryState, stopState>>

\* 400, 403, 502 or the end of the answer: the handler returns and its
\* connection is closed.  A tunnel ends when both its ends do, at no set time.
CloseClient(c) ==
    /\ client[c].pc \in {"reading", "handle", "serving"}
    /\ client' = [client EXCEPT ![c].pc = "closed"]
    /\ UNCHANGED <<acceptLoop, activeConns, wg, registryState, stopState>>

UncountConn(c) ==
    /\ client[c].pc = "closed"
    /\ client' = [client EXCEPT ![c].pc = "counted"] /\ activeConns' = activeConns - 1
    /\ UNCHANGED <<acceptLoop, wg, registryState, stopState>>

HandlerDone(c) ==
    /\ client[c].pc = "counted"
    /\ client' = [client EXCEPT ![c].pc = "gone"] /\ wg' = wg - 1
    /\ UNCHANGED <<acceptLoop, activeConns, registryState, stopState>>

-----------------------------------------------------------------------------
(* The registry.                                                           *)

\* Refused when the id is taken; the session's ticket keys are moved under the id.
RegisterSession(i, s) ==
    /\ sessionRegistry[i] = NoSession
    /\ sessionIdentifier' = [sessionIdentifier EXCEPT ![s] = i]
    /\ sessionRegistry' = [sessionRegistry EXCEPT ![i] = s]
    /\ UNCHANGED <<acceptLoop, activeConns, wg, client, stopState>>

\* The session is not closed: a request being served on it goes on.
UnregisterSession(i) ==
    /\ sessionRegistry[i] # NoSession
    /\ sessionIdentifier' = [sessionIdentifier EXCEPT ![sessionRegistry[i]] = NoSession]
    /\ sessionRegistry' = [sessionRegistry EXCEPT ![i] = NoSession]
    /\ UNCHANGED <<acceptLoop, activeConns, wg, client, stopState>>

-----------------------------------------------------------------------------
(* Stop.                                                                   *)

\* Not running: nothing to do.
StopCancel(s) ==
    /\ stopper[s] = "idle"
    /\ stopper' = [stopper EXCEPT ![s] = IF running THEN "cancelled" ELSE "done"]
    /\ shuttingDown' = (shuttingDown \/ running)
    /\ UNCHANGED <<running, listener, proxySession, forced, acceptLoop, activeConns, wg, client,
                   registryState>>

StopListener(s) ==
    /\ stopper[s] = "cancelled"
    /\ listener' = FALSE /\ stopper' = [stopper EXCEPT ![s] = "waiting"]
    /\ UNCHANGED <<running, shuttingDown, proxySession, forced, acceptLoop, activeConns, wg,
                   client, registryState>>

\* Mutant of StopTimeout: the wait for the handlers has no bound.
StopTimeoutNever(s) == FALSE

\* Ten seconds have passed.
StopTimeout(s) == wg > 0

\* wg.Wait has returned, or the timeout has passed.
StopWait(s) ==
    /\ stopper[s] = "waiting" /\ (wg = 0 \/ StopTimeout(s))
    /\ stopper' = [stopper EXCEPT ![s] = "waited"] /\ forced' = (forced \/ wg > 0)
    /\ UNCHANGED <<running, shuttingDown, listener, proxySession, acceptLoop, activeConns, wg,
                   client, registryState>>

\* The session and the idle connections are closed, then running is cleared.
StopClose(s) ==
    /\ stopper[s] = "waited"
    /\ proxySession' = FALSE /\ running' = FALSE
    /\ stopper' = [stopper EXCEPT ![s] = "done"]
    /\ UNCHANGED <<shuttingDown, listener, forced, acceptLoop, activeConns, wg, client,
                   registryState>>

Stop(s) == StopCancel(s) \/ StopListener(s) \/ StopWait(s) \/ StopClose(s)

Handler(c) ==
    \/ \E r \in ProxyRequests : ReadRequest(c, r)
    \/ Serve(c) \/ CloseClient(c) \/ UncountConn(c) \/ HandlerDone(c)

ProxyNext ==
    \/ \E c \in Clients : Accept(c) \/ StartHandler(c) \/ Handler(c)
    \/ AcceptLoopEnds
    \/ \E i \in SessionIds : UnregisterSession(i) \/ \E s \in HostSessions : RegisterSession(i, s)
    \/ \E s \in Stoppers : Stop(s)

\* A Stop that was called is scheduled and its timer fires; a client owes nothing.
ProxyFairness ==
    \A s \in Stoppers : WF_proxyVars(StopListener(s) \/ StopWait(s) \/ StopClose(s))

ProxySpec == ProxyInit /\ [][ProxyNext]_proxyVars /\ ProxyFairness

-----------------------------------------------------------------------------
(* Properties.                                                             *)

\* The proxy's session is closed only when no handler runs on it and none can
\* start, unless a Stop gave up waiting; and never more than maxConnections
\* connections are handled (local_proxy.go:296-331, 430-456).
DrainedStop ==
    /\ ~proxySession => forced \/ (~acceptLoop /\ \A c \in Clients : client[c].pc \in {"new", "gone"})
    /\ Cardinality({c \in Clients : client[c].pc \in {"reading", "handle", "serving"}})
          <= MaxConnections

\* Stop returns, though a tunnel never ends ("waits up to 10s for in-flight
\* requests", docs/docs/recipes/local-proxy-server.md:374).
StopEnds == \A s \in Stoppers : stopper[s] = "cancelled" ~> stopper[s] = "done"

\* Stop drains the handlers before it closes their session, and comes to an end
\* though one of them never does (local_proxy.go:296-331).
StopSound == []DrainedStop /\ StopEnds
=============================================================================
