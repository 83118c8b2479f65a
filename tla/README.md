# httpcloak: a TLA+ model of the client

httpcloak is an HTTP client library in Go that imitates browsers. Its hard part
is not the fingerprints (data) but what happens around a request: connections
shared, pooled, evicted and closed by several goroutines, dials that are raced
and deduplicated, retries, protocol fallbacks and redirects, settings that
change while requests run, and handles that a host language uses from several
threads. This directory models that part, checks it with TLC on small instances,
and proves the safety of every component, the refinement of an abstract pool
included, with TLAPS for every instance.
Line numbers refer to `src/`.

## 1. The system

| Component | State | Operations | Hard behaviours |
|---|---|---|---|
| **HTTP/2 pool** `transport/http2_transport.go` | `conns` (one per key), `retired`, `closed`, per connection `inFlight`, `closeRequested`, ages | `RoundTrip`, `Connect`, singleflight dial, `retire`, `cleanup`, `Refresh`, `Close`, `CloseGraceful` | eviction against requests that have not yet marked the connection; deferred closes; dials that end after `Close`; a downgrade shared by waiters |
| **TCP host pools** `pool/pool.go` | manager: `pools`, preset, proxy; pool: connections; connection: `inFlight`, `closeRequested` | `GetPool`, `GetConn`, `CloseIdle`, `cleanup`, `SetPreset`, `SetProxy`, `CloseAllPools`, `Close` | three nested owners each with its own lock |
| **QUIC host pools** `pool/quic_pool.go`, `client.SetUDPProxy` | the same for QUIC, and the manager the client replaces as a whole | the same, and the replacement | a request that crosses two managers |
| **HTTP/1.1 transport** `transport/http1_transport.go` | `idleConns` per key, `closed`, preset, proxy; per connection `poisoned` | `RoundTrip`, `StreamRoundTrip`, `RoundTripWithTLSConn`, watchdog, body end, `cleanup`, `Refresh`, `SetPreset`, `SetProxy`, `Close` | exclusive use; a watchdog that cuts the socket as the exchange ends; stale pooled connections |
| **HTTP/3 transport** `transport/http3_transport.go` | quic-go's connection per origin, sockets, relayed connections, tickets, ECH configs | `RoundTrip`, dials, `Connect`, `Refresh`, `Close` | dials quic-go does not wait for; refused early data; stale ECH keys |
| **Protocol selection** `transport/transport.go`, `stream.go` | settings, what was learned per host | `Do`, `DoStream`, `doAuto`, `doStreamAuto`, probe race, `SetProtocol`, `SetDisableHTTP3` | re-sending what was sent; a proxy bypassed on one of many paths; a downgraded connection nobody owns |
| **Transport swap** `transport/transport.go` | the three transports and the fields that describe them | `SetProxy`, `SetTCPProxy`, `SetUDPProxy`, `SetPreset`, `Close` | transports built outside the lock and replaced under requests |
| **Client request path** `client/*.go` | H3/H2 failure caches | `Do`, `DoStream`, redirects, digest, retries | a body read by an attempt and needed by the next |
| **Session** `session/session.go`, `fork.go` | jar, validators, hints, referer, transport | requests, streams, `Fork`, `Refresh`, `Close` | headers that outlive their hop; sharing between forks |
| **Cookie jar** `session/cookie_jar.go` | cookies by domain and path | `SetCookies`, `Get`, `Export`, `Import` | matching rules, across a save and load |
| **Session manager** `session/manager.go` | sessions by id | `CreateSession`, `GetSession`, `CloseSession`, sweep, `Shutdown` | the sweep against a session in use |
| **TLS session cache** `transport/tls_cache.go` | LRU of tickets, optional shared backend | `Get`, `Put`, `Import`, `Export`, `Clear` | two structures kept in step; writes in the background |
| **DNS and ECH cache** `dns/cache.go` | entries with TTL, shared lookups | `Resolve`, `FetchECHConfigs`, `Invalidate`, `Cleanup`, `SetNetwork` | a shared lookup whose starter gives up |
| **Dialling** `transport/tcpip.go`, `proxy/socks5_tcp.go` | sockets of one `createConn` | staggered race, SOCKS5 or CONNECT, retry | a dial that connects when nobody waits |
| **Speculative proxy connection** `transport/speculative_conn.go` | unread CONNECT answer, blocklist | `Read`, `Write`, fallback dial | reads cut anywhere |
| **MASQUE tunnel** `proxy/masque.go` | outer connection, socket, datagram queue, target | `Establish`, `Reset`, `Close`, datagrams | one tunnel, several dialers |
| **Local proxy** `local_proxy.go` | listener, handlers, session registry | `Stop`, handlers, tunnels | `Stop` against handlers that do not end |
| **C library** `bindings/clib` | handle tables, callbacks, uploads, backend requests | sync and async calls, streams, uploads, callbacks | two threads on one handle; late or missing answers of the host |
| **Public API, header shaping, fingerprints, bindings** | none that changes | wrappers, strings, data | none of ours |

How they interact: `Session` owns a `Transport`; the `Transport` owns an
HTTP/1.1, an HTTP/2 and an HTTP/3 transport and decides per request which one
gets it; HTTP/2 hands a connection that ALPN downgraded upwards in an
`ALPNMismatchError`, and the `Transport` gives it to the HTTP/1.1 transport. All
three dial through `tcpip.go`, the proxies and the DNS cache and share the ticket
cache. `Client` is a second front end with pools of its own (`pool/`). The local
proxy and the C library are built on sessions. They share state through mutexes
held for short critical sections, never across I/O; so nearly every interesting
fault is a step of somebody else between two critical sections.

What makes each component correct is stated as the properties of section 4; the
list of hazards, each at its line, is in `PROJECT.json`.

## 2. Modules

| Module | Models | Checked through |
|---|---|---|
| `HTTP2Pool`, `HTTP2PoolProofs` | `transport/http2_transport.go` | `MCHTTP2Pool` |
| `HTTP1Pool`, `HTTP1PoolProofs` | `transport/http1_transport.go` | `MCHTTP1Pool` |
| `HostPool`, `HostPoolProofs` | `pool/pool.go`, the retry of `client.doHTTP2` | `MCHostPool`, `MCServices` |
| `QUICPool`, `QUICPoolProofs` | `pool/quic_pool.go`, `client.doHTTP3`, `SetUDPProxy` | `MCState` |
| `ConnLease` | the abstract pool: what a lent connection is promised | refined by `HostPool` and `QUICPool` |
| `ProtocolSelect`, `ProtocolSelectProofs` | `transport.go`, `stream.go`, `errors.go` | `MCProtocolSelect` |
| `TransportSwap` | the setters of `transport.go` and `session.go` | `MCState` |
| `HTTP3Transport` | `transport/http3_transport.go` | `MCState` |
| `ClientRequest` | `client/client.go`, `auth.go`, `stream.go` | `MCState` |
| `Session` | `session/session.go`, `fork.go` | `MCState` |
| `CookieJar` | `session/cookie_jar.go` | `MCState` |
| `SessionManager` | `session/manager.go` | `MCState` |
| `TLSCache` | `transport/tls_cache.go` | `MCState` |
| `SpeculativeConn` | `transport/speculative_conn.go` and its dials | `MCState` |
| `MasqueTunnel` | `proxy/masque.go` | `MCState` |
| `UploadStream` | uploads of `bindings/clib` | `MCState` |
| `CLib`, `CacheBackend` | handle tables and cache callbacks of `bindings/clib` | `MCServices` |
| `DNSCache` | `dns/cache.go` | `MCServices` |
| `DialRace` | `transport/tcpip.go`, `proxy/socks5_tcp.go`, `createConn` and its CONNECT | `MCServices` |
| `LocalProxy` | `local_proxy.go` | `MCServices` |
| `TransportProofs` | theorems about `TransportSwap`, `MasqueTunnel`, `HTTP3Transport` | |
| `StateProofs` | theorems about `ClientRequest`, `Session`, `CookieJar`, `SessionManager`, `UploadStream`, `TLSCache`, `SpeculativeConn`, and the sum `MCState` | |
| `ServiceProofs` | theorems about `CLib`, `DNSCache`, `CacheBackend`, `LocalProxy`, `DialRace`, and the sum `MCServices` | |

Conventions used in all of them:

* **A step is one critical section**, or the reading of a channel, or the end of
  an I/O call. What the code does under a lock is one action; wherever it holds
  no lock another process may step. `go f()` puts a pending call in a set
  (`retiring`, `closing`, `writers`, `drains`, ...), and its execution is an action.
* **Time is abstracted to facts**: a connection is too old, idle for too long, or
  without progress past the abandoned-body bound; a ticket or an entry has
  expired; a timer has fired. A fact may become true at any moment, and the
  code's refreshes make it false again.
* **I/O is its result**: a dial connects, fails, or is downgraded; an exchange
  answers, fails in each way the code tells apart, or stays silent. Bytes are
  left out, except in `SpeculativeConn`, whose subject is where a stream is cut
  (as sequences of units), and `UploadStream` (as a count of chunks).
* **History variables and fields** (`late`, `failedOn`, `rejectedBy`, `sends`,
  `sentOn`, `via`, `since`, `direct`, `overlapped`, `mixed`, `setBy`, `owed`,
  `home`, `told`, `refused`, `granted`, ...) are read by properties only.
* A definition introduced as a mutant is a wrong version of the one that follows.
  It is in no specification and is used to see that a property can fail.

**HTTP2Pool.** Callers run `RoundTrip` (peek at the pool, join or lead a dial,
acquire, send, body, release, at most `MaxHTTP2Retries` retries) or `Connect`
(dial without the singleflight, then store). `dial[k]` is the singleflight call
of a key: its leader, its phase, the connection it is about to publish and its
result. Publication under `connsMu` ends the function of the call, not the call:
until the result is delivered and the key deleted (phase "deliver") other
requests can use, fail on and remove the connection, and join the call.
`retire` is two critical sections (`RunRetire`, `AppendRetired`) as in the code.
`StableALPN` says whether two dials of a key may negotiate different protocols.

**HostPool, QUICPool, ConnLease.** A caller asks the manager for the pool, the
pool for a connection, and marks the connection, in three critical sections. The
slice of connections is a set: its order decides only which usable connection is
returned, and that choice is left free. `QUICPool` adds the client: `SetUDPProxy`
and `Close` replace the manager while `doHTTP3` holds it, and the read of the
field that may find it nil leads to a state `panic`, after which that caller
does nothing. `ConnLease` says the same thing without locks, goroutines and
lists: a connection is open, condemned, retired or closed, is lent to a number of
bodies, and is condemned while lent only by order or when abandoned. Both
pools are shown to implement it under a refinement mapping that reads the stage
off the connection's fields and the goroutines on their way to close it.

**HTTP1Pool.** `idleConns[k]` is a sequence, because its order is behaviour: the
most recent connection is taken, the oldest makes room. The watchdog is a
process per exchange (off, armed, poisoning); the end of an exchange waits for
it, as `stopWatch` does. A call chooses its `mode` among those its caller has:
a pooled round trip, a stream, or one on a connection handed over after ALPN.
`sends` counts the exchanges begun for it.

**ProtocolSelect.** A request is dispatched by `Do` or `DoStream` with a snapshot
of the settings, takes further snapshots in `doAuto` and in the race, makes
attempts, and falls back. `role` is the code path it came by, which decides
which fallbacks exist and whether the outcome is learned. The race has two probe
processes, the winner's channel, the channel of late downgrades and the drain.
Proxy kinds: none; HTTP (TCP only); QUIC-capable (SOCKS5, MASQUE); UDP only; and
the last two when their HTTP/3 transport could not be built, so that
`h3ProxyError` is set beside an HTTP/3 transport that dials directly. What is
dialled past the proxy is recorded (`direct`) from the snapshot the dial is made
with, and compared with the proxy of the dispatch (`via`) and those published
since (`since`).

**TransportSwap.** The other half of the same file: each setter derives the
routing of the proxy, builds a numbered set of transports outside the lock,
publishes it with the fields that describe it, re-applies certificate settings
and closes the old set. Requests take a snapshot and go on with it. `Session.mu`
serialises the proxy setters. No method of `Session` calls `SetPreset`, so its
callers hold no lock and run beside each other and beside the proxy setter: the
read of the other's field (954, 1052), the construction and the publication are
steps of their own.

**HTTP3Transport.** quic-go's `http3.Transport` is external and modelled by how
the code uses it: one dial per origin that requests wait for, closed without
waiting for all dials. Sockets, tickets (with the server's key generation, so
that a restart makes one stale) and the table of relayed connections are state.
A session-cache backend is nondeterministic: where the local cache has no ticket,
a dial may be given any ticket up to the server's current key, which covers a
delete that lags or fails and a copy another process wrote.

**ClientRequest, Session.** The request loops of the two front ends. A request
carries its headers as pairs of a kind and the URL they were made for, and its
body as a reader that is fresh or spent, so that a header or a body used on the
wrong hop can be told. `Session` has forks that share the jar, and the session's
operations between any two steps of a chain; `ClientRequest` has the plan of
protocols, fallbacks, statuses to retry, challenges and the failure caches.

**CookieJar.** Hosts are label sequences from the top-level domain down and
paths are segment sequences, so domain and path matching are prefix tests, next
to the special cases the code has. Save and load are one step (`Export`, `Import`).

**TLSCache, DNSCache, SessionManager.** Methods are single critical sections;
what runs afterwards in a goroutine (backend writes, the shared lookup) is a
process of its own. The DNS lookup is detached from its starter, as in the code.

**DialRace, SpeculativeConn, MasqueTunnel.** One `createConn` with its retries
and, behind a proxy, the SOCKS5 or CONNECT exchange on the winner;
the wrapper that strips the proxy's answer from the TLS bytes, read for read; one
`MASQUEConn` shared by dialers of two targets.

**CLib, CacheBackend, UploadStream, LocalProxy.** Host threads, goroutines of
calls, `Stop` callers and client connections are the processes; the tables of
`httpcloak.go` and the registry of `local_proxy.go` are the state. An accepted
connection is counted and given a handler in a step after `Accept` has returned,
which may be after `Stop` has closed the listener; a tunnel through an upstream
HTTP proxy may begin after `Stop` has cancelled, since that CONNECT exchange has
neither context nor deadline (local_proxy.go:866-885).

**MCState, MCServices.** The components that share no state are checked in two
sums: a behaviour picks one component (`part`) and leaves the others in their
initial states, so the number of states is the sum, not the product.

## 3. Runs

Every bound is a constant of a `.cfg`. Two callers are the smallest number for
which one can disturb the other; a third caller or connection is there where it
makes a difference (a probe next to two requests, a push-out from a full idle
list, a retry after the others took connections). One key or host is used where
keys share nothing but settings and sweeps that treat all alike. Symmetry is used
for requests and connections in the safety runs of the pools only.

| Run | Instance | What it shows |
|---|---|---|
| `pool_evict` | 2 requests, 1 probe, 2 connections, 1 retry, ageing | counts, eviction, deferred closes and retries are right in every interleaving |
| `pool_shutdown` | the same without retries and ageing, `Close`, `CloseGraceful`, `Refresh`, unstable ALPN | nothing is stored in a closed transport; a downgraded connection has one owner; the pool holds only servable connections; a close deferred while `Close` runs is not lost |
| `pool_live` | 2 requests, 2 connections, stalls, fairness | every request is answered; every connection is closed in the end |
| `hostpool` | 2 requests, 2 connections, 2 pool objects, cap 1, 2 presets, ageing, cleanup and all manager operations | the bookkeeping is right, the pool implements `ConnLease`, and the manager's pools carry the current preset and hand out live connections |
| `http1_pool` | 2 callers, 3 connections, one caller with round trips that can be repeated, the other with ones that cannot or a handoff; idle list of 1, `cleanup`, `Refresh`, `SetPreset`, `SetProxy`, `Close`, abandoned bodies, silent servers, fairness | a connection has one user, none is lost, what is pooled can be reused, repetitions are bounded; a cancelled exchange ends; `Close` gets everything back |
| `protocol_select` | a buffered POST and a GET stream, all proxy kinds, one change of a setting at any point | re-sends are guarded, the proxy is used, races end, downgraded connections are not lost, up to the cases the properties name |
| `state` | the safety of eleven components, one at a time (about 1.4 million states) | below |
| `services` | the liveness of six components, one at a time (about 520,000 states) | below |
| `http1_proxy` | violated, see section 6 | a connection dialled through the old proxy is pooled after `SetProxy` |
| `protocol_resend` | violated, see section 6 | a POST is sent again over HTTP/1.1 behind an HTTP proxy |
| `protocol_direct` | violated, see section 6 | a request that `SetProxy` overtakes dials the target itself though a proxy is configured throughout |
| `protocol_stream` | violated, see section 6 | a stream uses the direct HTTP/3 transport that `h3ProxyError` is there to block |

Instances within `state`:

* *Session*: one request chain of at most 2 redirects and 1 retry over three URLs
  (https and http of one host, another host), four kinds of call, answers with
  and without cookies, hints and validators, a fork, and one session operation at
  any point. One operation suffices because a chain takes the lock once per hop.
* *Cookie jar*: three hosts (a domain, one within it, a foreign one), two domains,
  two paths, one name, two cookies, expiry, save and load.
* *Session manager*: 3 ids, at most 2 sessions, 2 workers, so the limit is met.
* *Ticket cache*: one cache of size 1 with 3 keys and 3 tickets, so that both kinds
  of eviction happen (`Put` makes room before it inserts, a promotion after), a
  backend that may fail, one `Clear`, reload or change of identifier. One
  identifier is enough: another one only means other contents of the backend,
  and failing writes already leave those arbitrary.
* *Upload*: 2 threads, 2 chunks. *Speculative*: 2 dialers that share the
  blocklist, an answer of 2 units, 3 server units, every cut.
* *QUIC pools*: 2 requests, 1 connection, 2 managers, 2 pool objects, 1 shutdown.
* *HTTP/3*: 1 request, 3 connections, one `Connect`, `Refresh` or `Close`, direct
  or relayed; two key rotations of the server. One is enough to refuse the early data of
  all three attempts when the backend gives a dropped ticket back; the second lets
  tickets of two generations meet.
* *MASQUE*: 2 dialers with different targets, 3 sockets, 2 proxy addresses, a
  queue of 1, one `Reset` and a `Close`.
* *Client*: 2 https origins and a plain one, four kinds of call, 1 retry, 2 hops,
  1 challenge. *Swap*: 1 request, a proxy setter and one caller of `SetPreset`
  beside each other, 2 presets, 2 operations. The proxies set are MASQUE ones, as
  unified, TCP and UDP proxy: each of the three then has a routing of its own, and
  the UDP one makes TCP refuse.

Instances within `services`: host pools with 2 requests and 1 connection that may
stall; 2 resolvers, 2 names, 2 expiries or invalidations; 1 asynchronous call, 1
thread with 1 synchronous call, 2 handles; 2 users of the cache backend and 2
requests; 2 clients, 2 `Stop`s, a limit of 1 connection; 3 addresses and 2
attempts for the dial race, so that a winner, a late success and a retry meet.

In `protocol_select` one change suffices: every property speaks of what a request
does between two of its own snapshots; several changes during one request are
not covered. `Presets` omits `"h2"`, which differs from `"h3"` with `disableH3`
set in nothing the properties mention; `Init` starts with `disableH3` either way.
No run uses the mode "stream" of `HTTP1Pool`: it dials like a round trip
that finds no idle connection, and from then on is treated like a handoff (its
connection is never pooled); `http1_pool` has both.

Deadlock is checked where the system never stops (`pool_evict`, `pool_live` and
the host pools, whose cleanup loops always run). Elsewhere it is switched off:
calls end, transports are closed, bounded operations are used up, or the process
has panicked, and a finished system is no fault.

**Fairness.** `pool_live`, `http1_pool` and `services` only. A caller inside the
library runs on, because dials and exchanges are bounded by timeouts or the
context; a body is in the end read, closed or abandoned; goroutines are
scheduled; tickers tick and timers fire. `HostPool`'s cleanup needs strong
fairness: it waits for a mutex that callers keep taking, and Go's `sync.Mutex`
does not starve a waiter. `HTTP1Pool` assumes nothing of the server for
`CancelUnblocks`; `CloseReclaims` carries its own assumption `ResponseTimeout`,
the socket deadline of `doRequest` (http1_transport.go:1104-1109). `DNSCache` has
the bound on a lookup (`resolveLookupTimeout`), `CLib` that `Do` ends,
`CacheBackend` and `LocalProxy` only their own timers: the host may never answer
and a tunnel may never end. `DialRace` has the dialer's timeout and the deadline
of every wait. That a request, a call or an operation starts is never assumed.

## 4. Properties

A property is a conjunction where its parts are one claim; the parts are
definitions of their own in the module.

*HTTP2Pool.* `InFlightExact`: `inFlight` is the number of unfinished exchanges and
bodies. `PooledServable`: `isConnUsable` does not look at `conn.closed`, so a
connection must have left the pool before anything decides to close it.
`DeferredCloseTracked`: a deferred close is carried out or is where the cleanup
will find it. `OpenConnTracked`: no socket leaks (for `StableALPN`, see section
6). `OnlyLateArrivalsYanked`: an eviction closes a connection under a request only
if the request marked it after the decision. `RetryAvoidsFailed`: a retry is not
sent on the connection it was caused by, wherever it gets one from; the exception
is a retry that joins a call whose function had already returned that connection
(the window in section 6), which the model forgets at the join
(`ReturnedFailed`). `ShutdownSound`: nothing is published after `Close`, a downgraded
connection has one owner, `PooledServable`, and `DeferredCloseTracked`, here with
`Close` between an eviction and its deferred close.
`RequestAnswered`, `EveryConnReclaimed`: liveness.

*HostPool, QUICPool.* `HostKeepsLease`, `QUICKeepsLease`: the refinement of
`ConnLease`. `HostPoolSound`: exact counts, no connection lost track of or handed
out on its way out, a retry gets another connection. `SwitchSound`: pools of the
manager carry the current preset and hand out live connections.
`MappedConnReclaimed`: liveness.

*HTTP1Pool.* `OneUser`: a connection is held by one request or idle once, only the
request's own cancellation cuts it, and none is lost. `RepeatsBounded`: however
many stale connections the pool holds, a request is sent at most twice, once if its
body cannot be re-opened, and one that can be repeated does not end with the error
of a pooled connection. `PoolReusable`: no
pooled connection is cut or has a watchdog that may still cut it, and nothing is
pooled once `Close` has swept. `ExchangesEnd`: a cancelled exchange ends although
the server is silent, and `Close` gets every connection back.

*ProtocolSelect.* `ResendGuarded`: a request that must not be repeated reaches the
server over one protocol (the exception is the finding of section 6).
`SelectionSound`: a configured proxy is bypassed in two ways only
(`ProxyHonoured`), and a transient failure pins no host to HTTP/1.1. The two ways are
the findings of section 6: `SetProxy` published, while the request ran, a
configuration that does not carry the wire it uses; or it is a stream over HTTP/3
whose transport could not be built for the proxy. A change to a configuration that
does carry it is no excuse. `NeverDirectBehindProxy` is the claim without the two.
`RaceSettles`: a race whose probes have returned can end without its budget, the
connection of a downgrade is used, closed or owned, and a nil transport is probed
only after a concurrent change. Two callers are handed the connection of a
downgrade, open, inside the error (`LeftInError`): one that forces HTTP/2, and
`DoStream` behind an HTTP proxy in any mode (stream.go:214).

*TransportSwap.* `SwapSound`: every snapshot describes transports built for the
proxy, preset and certificate checks it names, with the error that blocks an
HTTP/3 transport that would dial past the proxy; a replaced set is closed,
whichever setter replaced it. Only the field that another setter published between
this setter's read of it and its own publication (`mixed`) may differ.

*HTTP3Transport.* `TransportSound`: every socket has an owner that will close it,
no direct connection outlives `Close`, and a request is given up because the
server refused its early data three times only if a ticket came back between its
attempts, from the server or from the backend (issue #127).

*ClientRequest, Session.* `SentAsMeant`: through retries, fallbacks, a challenge and
redirects no exchange is given a used-up body, the request's own credentials stay
on its origin, and a vetoed hop ends the call. `ChainSound`: `Authorization` and
`Referer` stay in their origin, the caller's `Cookie` on the first hop, a jar
cookie on its host, nothing is told from https to http; a body is whole.

*CookieJar.* `JarSound`: a cookie is sent only where its server could have set it,
and a loaded session sends what the saved one did of the cookies with a domain.
*SessionManager.* `NoSessionLeaked`: a session that left the registry is closed,
and the limit holds.
*TLSCache.* `OrderMatchesCache`: the order and the table hold the same keys, once.
*SpeculativeConn.* `TunnelStreamIntact`: TLS reads the server's bytes, all and in
order, however the stream is cut.
*MasqueTunnel.* `TunnelOwned`: no socket without an owner, and a dialer is let
through only on a tunnel for its target.
*UploadStream.* `CompleteMeansFinished`: the server sees a complete body only if
`upload_finish` completed it.
*CLib.* `TablesSettled`: one callback or none, no entry left behind, no stream that
nobody can close, no error of a freed session; `CallAnswered`.
*CacheBackend.* `BackendWaitEnds`. *DNSCache.* `SharedLookup`: a lookup ends for each
of its callers, and one's cancellation is never another's answer.
*DialRace.* `DialSettles`: `createConn` ends, and in the end the only open socket is
the one its caller was given. *LocalProxy.* `StopSound`: `Stop` drains the handlers
before it closes their session, and returns though one never ends.

Each module has one type invariant, which also carries the bounds the code
enforces (retries, the length of the idle list, the limit of connections, counts
that never go negative); the two sums check them together (`StateTypeOK`,
`ServicesTypeOK`).

## 5. Proofs

TLAPS proves the theorems below, each for every value of the constants that
satisfies the assumptions of its module: any number of callers, connections, keys,
URLs, retries, operations. `Spec` stands for the specification of the component.

| Module | Theorem | States `Spec => []...` |
|---|---|---|
| `HTTP2PoolProofs` | `TypeCorrect` | `TypeOK` |
| | `PoolServableAlways` | `PooledServable`, and that nothing is published after `Close` |
| | `DeferredCloseNeverLost` | `DeferredCloseTracked` |
| | `InFlightCorrect` | `InFlightExact` |
| | `EvictionSafe` | `OnlyLateArrivalsYanked` |
| | `RetrySafe` | `RetryAvoidsFailed` |
| | `ShutdownSafe` | `ShutdownSound` |
| | `NoSocketLeaks` | `OpenConnTracked`, if `StableALPN` |
| `HostPoolProofs` | `HostPoolSafe`, `SwitchSafe` | `HostPoolSound`, `SwitchSound` |
| | `HostPoolImplementsLease` | `Spec => HostKeepsLease` (refinement) |
| `QUICPoolProofs` | `QUICPoolImplementsLease` | `QUICSpec => QUICKeepsLease` (refinement) |
| `HTTP1PoolProofs` | `OneUserSafe`, `PoolReusableSafe`, `RepeatsSafe` | `OneUser`, `PoolReusable`, `RepeatsBounded` |
| `ProtocolSelectProofs` | `ResendSafe`, `SelectionSafe` | `ResendGuarded`, `SelectionSound` |
| | `RaceSafe`, `NilProbeSafe` | `RaceSettles`, with its one use of `ENABLED` replaced by `RaceHasCase` |
| `TransportProofs` | `SwapSafe`, `TunnelSafe`, `TransportSafe` | `SwapSound`, `TunnelOwned`, `TransportSound`, each with its types |
| `StateProofs` | `ClientSafe`, `ChainSafe`, `JarSafe` | `SentAsMeant`, `ChainSound`, `JarSound`, each with its types |
| | `SessionsSafe`, `UploadSafe` | `NoSessionLeaked`, `CompleteMeansFinished`, each with its types |
| | `TicketOrderTheorem` | `OrderMatchesCache`, `TLSTypeOK` |
| | `TunnelStreamTheorem` | `TunnelStreamIntact`, `SpeculativeTypeOK` |
| | `StateSafe` | of `StateSpec`: `StateTypeOK`, every other invariant of the `state` run, and `QUICKeepsLease` |
| `ServiceProofs` | `TablesSafe` | `TablesSettled` |
| | `LookupSafe` | `DNSTypeOK`, `WaitersJoined`, and the action property `CancelIsOwn` (of `SharedLookup`) |
| | `BackendSafe` | `BackendTypeOK`, `OwnAnswer`, `TablesHoldAsked` (what `BackendWaitEnds` waits for) |
| | `DrainSafe` | `ProxyTypeOK`, `DrainedStop` (of `StopSound`) |
| | `DialSafe` | `RaceTypeOK`, `SocketsOwned`, and that no socket but the returned one is open after the end (of `DialSettles`) |
| | `ServicesSafe` | of `ServicesSpec`: `ServicesTypeOK`, `HostPoolSound`, and the safety of the five services |

**Assumptions.** They are the named `ASSUME`s of the component modules, and TLC
evaluates them in the runs. Most only give constants their types and keep the "no
connection" and "no request" values apart from real ones. The others: finitely
many requests in the counting pools and clients of the local proxy (a count is a
cardinality); idle lists of length at least 1; at least one origin, preset, proxy
value and session identifier; what a call of
`ClientRequest` asks for is a record of `CallSettings`, what one of `Session` asks
for has a known kind of method and body. One theorem has a hypothesis of its own:
`NoSocketLeaks` needs `StableALPN`, and section 6 says what happens without it.

**How the proofs go.** None of the properties is inductive as it stands. Each
component has an invariant that is, a lemma per part with a step per action, and
lemmas on what the shared helpers (release, eviction, sweeps) do.

* *HTTP2Pool.* `IInv` has eight layers. `TypeInv` adds to the types who holds a
  connection at which label. `PoolInv` says that a connection is in one place at a
  time: pooled under one key, or in the hands of one dial or one probe, or evicted
  once; evicting it by one key must not leave it pooled under another or about to be
  published. `InFlightExact` makes a count of zero mean that nobody uses the
  connection. `LateInv`: only `Acquire` can add a user to a connection whose
  eviction is pending, and it puts the user in `late`. `RetryInv`: the connection
  that caused a retry is nowhere from which it could be handed out, the result of
  a call the request waits for included. `AlpnInv`:
  a downgraded connection has one request as its owner, or a close that is pending. `YoungInv`:
  what is stored while a key is being dialled has not expired (the model lets no
  connection expire within one dial, `TooYoung`), so that a dial does not replace
  it unseen. `TrackInv`: an open
  connection has a place from which somebody will close it.
* *HostPool.* The same idea over three nested owners: a connection is in one pool,
  or what one `createConn` returned, or on its way out; and one that is on its way
  out while a pool still lists it is old or retired (`LeavesUnusable`), which is
  why `GetConn` does not hand it out.
* *Refinement of ConnLease.* The mapping reads the stage of a connection off its
  fields and the closes that are pending. For one connection, every action
  has one of few effects (left alone, created, lent, given back, retired, its
  close started, closed); each effect is shown to be a step of `ConnLease` or a
  stutter, so that the cases are effects and not actions. That nothing lent is
  condemned needs the exact counts, that nothing is lent before it exists needs the
  "not created yet, so nowhere" part (`Untouched`, `Known`).
* *HTTP1Pool, QUICPool.* The lists are sequences. The first half of each proof says
  what take, append, push-out and filter do to the set of members and that no
  connection is in the lists twice; the second half speaks of that set only. A
  filter is given in the model by the ascending positions it keeps, which needs no
  induction, where `SelectSeq` would. For HTTP/1.1 the heart is `HeldAlone` with
  `WatchInv`: a watchdog ends before the exchange it watches, so what goes back to
  the pool can no longer be cut. For `RepeatsBounded` the count of exchanges is tied
  to the label and to whether the connection at hand was dialled for the request.
* *ProtocolSelect.* `IInv` says what each stage still knows of those before it: the
  proxy the request was dispatched with and the protocols it leaves (`RouteInv`,
  `ViaInv`), that nothing that must not be repeated was sent while another attempt
  can follow (`SentInv`), that every value on its way to the learned protocols
  has a reason (`PinInv`), what probes leave for the select and the drain
  (`RaceInv`). `ResendGuarded` alone forgets the path a request came by.
* *C library.* How far a call of the C library has come can be told from the
  tables (`CallInv`): its callback is there until taken or refused, its cancel
  function until answered, and a stream left behind is known to the host.
* *Requests, sessions, jar.* The properties speak of the wire; headers, credentials and the
  reader must be right at every stage, since a hop inherits them (`Fits`,
  `BodyReady`, `Meant`). For the jar, `Scoped` ties the key a cookie is kept
  under to the host that set it, and shows that `HostOnly` can be rebuilt from the
  domain, which is what makes a save and load harmless.
* *TransportProofs.* Swap: the sets that are not closed are the current one and one
  in the hands of each setter, no two the same, and a set's description is fixed at
  its birth; what a setter publishes differs from it only in the field another
  published meanwhile. Tunnel: an
  `Establish` is alone and its socket was given to nobody, so that binding it
  changes no tunnel a dialer was let through to. HTTP/3: `SocketTables` follows a
  socket through dial, handshake, table and sweep; `Pooled` and `OnOwnConn` tie a
  call to the one connection of its origin; `Recovers` says that after a call has
  removed the ticket, and while none has come back, at most one connection that
  offered it is left.
* *TLSCache.* The access order is a sequence without repetition that has the keys
  of the map. One lemma for each of remove, append, drop and move to the end says
  what it does to members and repetitions. The eviction loop is given in the model by
  the least number of rounds after which it stops, so that no induction is needed:
  the keys it drops are the front of the order, and the ones it deletes.
* *SpeculativeConn.* `DialInv` says that nothing is lost between wire and reader:
  before the answer is parsed, what was kept and what is still on the wire are
  together the proxy's whole answer; after it, what was read, what is buffered and
  what is on the wire are together the server's stream. A read may cut these
  anywhere; the lemmas say that a piece moved from the front of one sequence to the
  end of another leaves their concatenation alone.
* *Services.* A caller of the DNS cache waits only in a flight that exists. Request
  numbers of the cache backend are not shared, a channel holds nothing but the answer
  to its own number, and the tables are exactly the numbers asked. The counters of
  the local proxy are cardinalities, so that a wait group at zero means nobody is
  handled and nobody accepts. In a dial race, `NotStarted` and `RaceShape`
  fix which candidates can still exist at each stage; `SocketsOwned` counts the
  outstanding ones, which is what the drain must wait for.
* *The sums.* A step of `MCState` is a step of one component and leaves the variables
  of the others alone (`EachComponentRuns`), so a behaviour of the sum is one of each
  component, and the components' theorems, refinement included, carry over. `MCServices`
  takes the conjunction of the invariants, each kept by the same argument.

The proof about HTTP/3 tickets changed the model. With one key rotation a request was never
refused three times, and the property said "never". The attempt to prove that
failed: with enough rotations and another connection's ticket arriving each time,
all three attempts offer a ticket the server has just dropped. TLC confirms it with
three rotations; with a backend that gives the dropped ticket back one suffices. The
property says what holds, that giving up requires a ticket cached between the
attempts (`late`).

**Only model-checked.** Liveness under fairness (`RequestAnswered`,
`EveryConnReclaimed`, `MappedConnReclaimed`, `ExchangesEnd`, `CallAnswered`, and the
"ends" half of `SharedLookup`, `BackendWaitEnds`, `StopSound` and `DialSettles`) and
the `ENABLED` of `RaceNeverStuck`, a part of `RaceSettles`, are out of the prover's
reach. In place of the latter `RaceSafe` proves `RaceHasCase`: the
select of a probe race always has a case that can come. Every other invariant and
action property that a run checks is stated by a theorem.

## 6. Findings and known limits of the code

Four runs show a disagreement between the code and what the repository says of it:

* **`http1_proxy`.** The HTTP/1.1 `SetProxy` is documented to close all existing
  connections; one that carries a request goes back to the pool when its body
  ends and is reused through the old proxy (http1_transport.go:1691-1707).
* **`protocol_resend`.** The changelog says that a POST is no longer sent a second
  time over HTTP/1.1 in auto mode; behind an HTTP proxy `Do` does not go
  through `doAuto`, and its own fallback has no such guard
  (transport.go:1511-1520, 1541-1550).
* **`protocol_direct`.** The snapshot is said to give the whole dispatch a stable
  view of the proxy and its transports (transport.go:1377-1380), and an H1/H2
  dispatch to refuse rather than dial directly where the proxy carries no TCP
  (1452-1454). `doHTTP1`, `doHTTP2` and `doHTTP3` take a snapshot of their own: after
  a `SetProxy` from an HTTP to a UDP-only MASQUE proxy in between, the request
  dials the target itself.
* **`protocol_stream`.** `h3ProxyError` is said to prevent the direct HTTP/3
  transport from being used when a proxy is expected (transport.go:856-860);
  `DoStream` does not read it (stream.go:190-214).

Behaviours that are in the models, or were met while writing them, and that the
properties above deliberately do not exclude:

* HTTP/2: `Close` and the end of the `CloseGraceful` loop can miss a connection
  between the two critical sections of `retire` (http2_transport.go:178-181,
  1394-1397). A dial's result can be joined until its key is deleted, after the
  connection was published (558-572): a request that failed on it and removed it in
  that window, retries and joins is handed it again. A waiter of an
  ALPN-downgraded dial dials for itself; if that
  dial negotiates h2 the connection is in no pool (599-604), hence
  `OpenConnTracked` is checked with stable ALPN.
* Host pools: concurrent `GetConn`s exceed the cap (pool.go:555, 569); `cleanup`
  drops an empty pool whose `GetConn` is dialling (1593), and `Close` misses it
  too; a pool created between the two halves of `SetProxy` keeps the old
  proxy (1635-1637). Winners of `dialHappyEyeballs` that come second stay in the
  buffered channel, open (804).
* QUIC pools: `doHTTP3` snapshots the manager "for the whole request" but reads
  `c.quicManager` again for its retry (client.go:1525, comment 1466-1468): nil
  while `SetUDPProxy` is between its two assignments. The rebuilt manager has
  lost connect-to and ECH settings; the cap never binds, so the path to
  `ErrNoConnections` (quic_pool.go:458-461) is left out of the model; a connection
  created into an orphaned pool is never closed.
* HTTP/1.1: a connection busy during `SetPreset` keeps the old fingerprint; a
  request retried after a stale connection re-sends its body when it has
  `GetBody`, a POST included (343-369); an abandoned body has no time bound.
* HTTP/3: all three attempts can be refused if fresh tickets keep arriving and the
  server keeps changing its keys (1692-1702), or if a backend gives the dropped
  ticket back: its delete runs in a goroutine and may fail, although it is there "so
  a later Get does not fetch back a ticket that was dropped on purpose"
  (tls_cache.go:369-387); the second attempt after an ECH rejection keeps the ticket
  read when the dial began; the `closeOrigin` of one request ends
  the fresh connection of another;
  an ECH fetch under way may cache again a config that was invalidated; a relayed
  dial that ends after `Close` is not swept.
* Protocol selection: with settings changing during a request, a nil HTTP/3
  transport may be probed (transport.go:1763 after 1631), HTTP/3 may be
  learned again after it was purged (910-916), and a decision made with one
  snapshot is carried out with the next. A caller that forces HTTP/2, and
  `DoStream` behind an HTTP proxy (stream.go:214), get an error that holds a live
  connection ("caller should close if not reusing", errors.go:54); no caller in the
  repository closes it. `roundTripHTTP3` repeats an in-memory body
  after a stall (2525-2546).
* Transport swap: `SetProxy` reads the preset (954) and `SetPreset` the proxy (1052,
  "so the rebuilt transports keep routing through it") before they build, outside a
  common lock. Users of package `transport` that call both together can publish
  transports built for the old preset, or the old proxy, beside a field that names
  the new one.
  `SetProxy` on a closed session builds transports nobody closes (session.go:1484).
  HTTP/3 is rebuilt without connect-to, ECH and local address; `SetTCPProxy` after
  `SetProxy` drops the unified proxy for HTTP/3.
* Client: the client-level authenticator is applied on every hop, and the jar's
  `Cookie` header, copied into the request, travels to other hosts; a challenge on the
  last attempt is an error without a cause; digest is bounded only by the timeout.
* Session: redirect hops carry validators and hints the session injected
  (session.go:940); `CloseGraceful` ends a chain at its next hop; a PUT that
  becomes a GET keeps its `Content-Type`; `Fork` never copies
  `conditionalCacheEnabled` (fork.go:148-172; docs/docs/connection-lifecycle/fork.md:20).
* Cookie jar: `Max-Age` is not looked at by `Get`
  (docs/docs/cookies-and-state/domain-and-path-matching.md:169); a cookie without
  a domain is not sent after a load, hence `LoadSendsSame` speaks of the others.
* Session manager: the sweep reaps a session whose long request still runs
  (manager.go:139; docs/docs/connection-lifecycle/session-manager.md:44); a second
  `Shutdown` panics; sessions created after it are never swept.
* Ticket cache: it holds one more than its limit; backend writes are unordered
  (tls_cache.go:374) and use the identifier of the moment they run. `Import` merges
  into what the cache holds and appends keys unchecked (548-552); it is called on new
  sessions only, and the model loads into an empty cache.
* DNS: an answer is stamped with the family in force when it is stored, not when
  it was asked for (cache.go:129-133).
* Speculative connection: a refused CONNECT blocklists the proxy for the process;
  a proxy that answers 200 and discards the ClientHello gets no fallback.
* MASQUE: after `Reset` and an `Establish` for another target, a dialer that was let
  through before dials over the new tunnel (comment masque.go:135-138); queued
  datagrams survive `Reset`; a tunnel whose outer connection died counts as
  established until it is refreshed.
* Local proxy: a CONNECT exchange with an upstream HTTP proxy outlives `Stop`
  (local_proxy.go:866-885); plain HTTP bypasses the upstream
  (docs/docs/recipes/local-proxy-server.md:151); an override of unknown scheme is
  dialled directly; bytes that came with the CONNECT are lost.
* C library: `last_error` is stale after `get_fast` (httpcloak.go:906);
  `unregister_callback` drops the cancel function; `upload_write` may block while it
  holds `upload.mu`; `upload_cancel` drops a result without closing its body. The
  model lets a call panic in its request; that building the stream's metadata, after
  the stream was stored (3896-3910), and the unguarded goroutine for invalid JSON
  (3804) do not panic is taken for granted.

## 7. Not modelled, and the plan

Left out for good: header and body bytes, header order and case, TLS and QUIC
handshakes, fingerprints (data), wire formats of the proxy protocols, marshalling
of options and responses, logging, the wrappers of the public API and of the
language bindings, `warmup.go` (a fixed list of ordinary requests), and the
SOCKS5 UDP association, which nothing constructs outside its test.

Left out of modelled components: hooks other than `OnRedirect`, body decoding,
setters that run before a transport is shared, `SetTTL` and address ordering of
the DNS cache, `SetMaxSessions` and `SetSessionTimeout`; in `DialRace` the second
dials within one attempt, that of the speculative fallback (http1_transport.go:795-831,
http2_transport.go:932-1000) and HTTP/2's race without ECH
(http2_transport.go:708-715), which close their sockets as the first does. The
session identifiers of `LocalProxy` decide only which requests are refused.

Done: the models of section 2 and the proofs of section 5. What the prover cannot
reach (liveness, `ENABLED`) stays with TLC.

Open in the model: a composition of `ProtocolSelect` with `TransportSwap` in which
a request makes attempts on a set that is being closed, and *at-most-once delivery
unless repeatable* as an abstract specification that `ProtocolSelect` and
`ClientRequest` both implement.
