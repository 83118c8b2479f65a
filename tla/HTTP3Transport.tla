--------------------------- MODULE HTTP3Transport ---------------------------
(***************************************************************************)
(* transport/http3_transport.go: requests over http3.Transport, the direct *)
(* dial on a UDP socket per connection, the dial through a SOCKS5 UDP      *)
(* relay, the retry after a rejected 0-RTT attempt, the degradation of a   *)
(* stale ECH configuration, Connect, Close and Refresh.  http3.Transport   *)
(* is quic-go's: one connection or dial per origin, requests wait for the  *)
(* dial, and closing it cancels the dials without waiting for all of them. *)
(* The dial over MASQUE is in MasqueTunnel.  A SessionCacheBackend behind  *)
(* the ticket cache is external: other processes write to it, and the      *)
(* writes of this one are goroutines that may lag or fail, so what it      *)
(* holds is any choice among the tickets that the server has issued.       *)
(***************************************************************************)
EXTENDS Naturals, FiniteSets

CONSTANTS
    H3Requests,      \* concurrent callers of RoundTrip
    Origins,
    H3Routes,        \* "direct" and "socks", one of which a transport is built for
    MaxH3Conns,      \* bound on the connections dialled
    MaxRotations,    \* bound on the times a server changes its ticket and ECH keys
    MaxAdmin         \* bound on calls of Refresh, Connect and Close together

ASSUME H3Constants ==
    /\ Origins # {} /\ H3Routes # {} /\ H3Routes \subseteq {"direct", "socks"}
    /\ {MaxH3Conns, MaxRotations, MaxAdmin} \subseteq Nat

NoTicket == MaxRotations + 1
H3Conns == 1..MaxH3Conns
Transports == 1..(MaxAdmin + 1)

VARIABLES
    route,           \* how this transport reaches its servers
    transport,       \* the current http3.Transport, by number
    transportOpen,
    h3Closed,        \* set by the final closeDirectConns
    closer,          \* how far Close has come
    refresher,       \* how far Refresh has come; it holds t.mu throughout
    tunnelUp,        \* the udpbara tunnel is connected
    dialled,         \* connections dialled so far
    h3conn,          \* per connection
    sockets,         \* t.sockets
    proxyConns,      \* t.proxyConns
    byOrigin,        \* the connections in t.byOrigin
    ticket,          \* per origin: the key generation of the cached TLS ticket
    serverKey,       \* per origin: the server's key generation
    echConfig,       \* per origin: the cached ECH configuration
    incompatible,    \* origins marked by dns.MarkECHIncompatible
    h3call,          \* per caller of RoundTrip
    adminCalls       \* calls of Refresh, Connect and Close so far

h3Admin == <<route, transport, transportOpen, h3Closed, closer, refresher>>
h3Tables == <<sockets, proxyConns, byOrigin>>
h3Peer == <<ticket, serverKey, echConfig, incompatible>>
h3Vars == <<h3Admin, tunnelUp, dialled, h3conn, h3Tables, h3Peer, h3call, adminCalls>>

FreeConn == [stage |-> "free", origin |-> CHOOSE o \in Origins : TRUE, of |-> 1, ech |-> "none",
             offered |-> NoTicket, early |-> "none", key |-> 0, alive |-> FALSE,
             socket |-> FALSE, issued |-> FALSE, probe |-> FALSE]
GoneConn == [FreeConn EXCEPT !.stage = "gone"]
\* `late` is history: since the call removed the ticket of its origin, one was cached
\* or fetched back from the backend.
NoCall == [pc |-> "idle", origin |-> CHOOSE o \in Origins : TRUE, of |-> 1, conn |-> 0,
           rejections |-> 0, late |-> FALSE]

\* NewHTTP3Transport... for a direct or a SOCKS5 route; the tunnel is not connected yet.
H3Init ==
    /\ route \in H3Routes
    /\ transport = 1 /\ transportOpen = [g \in Transports |-> g = 1]
    /\ h3Closed = FALSE /\ closer = "no" /\ refresher = "no" /\ tunnelUp = FALSE
    /\ dialled = 0 /\ h3conn = [c \in H3Conns |-> FreeConn]
    /\ sockets = {} /\ proxyConns = {} /\ byOrigin = {}
    /\ ticket \in [Origins -> {0, NoTicket}] /\ serverKey = [o \in Origins |-> 0]
    /\ echConfig = [o \in Origins |-> "none"] /\ incompatible = {}
    /\ h3call = [r \in H3Requests |-> NoCall] /\ adminCalls = 0

\* The type invariant.
H3TypeOK ==
    /\ route \in H3Routes /\ transport \in Transports
    /\ transportOpen \in [Transports -> BOOLEAN] /\ h3Closed \in BOOLEAN
    /\ closer \in {"no", "transport", "sockets", "done"}
    /\ refresher \in {"no", "sockets", "rebuild"} /\ tunnelUp \in BOOLEAN
    /\ dialled \in 0..MaxH3Conns /\ adminCalls \in 0..MaxAdmin
    /\ \A c \in H3Conns :
          /\ h3conn[c].stage \in {"free", "dialling", "dialled", "registered", "ready", "gone"}
          /\ h3conn[c].early \in {"none", "accepted", "rejected"}
          /\ h3conn[c].ech \in {"none", "good", "stale"}
    /\ sockets \cup proxyConns \cup byOrigin \subseteq H3Conns
    /\ ticket \in [Origins -> 0..NoTicket] /\ serverKey \in [Origins -> 0..MaxRotations]
    /\ echConfig \in [Origins -> {"none", "good", "stale"}] /\ incompatible \subseteq Origins
    /\ \A r \in H3Requests :
          h3call[r].pc \in {"idle", "send", "dial", "stream", "rejected", "drop", "done", "failed",
                            "failed0RTT"}

muFree == refresher = "no"
CountAdmin == adminCalls < MaxAdmin /\ adminCalls' = adminCalls + 1

\* A connection that has ended gets no ticket any more.
EndedConn(conn) == [conn EXCEPT !.alive = FALSE, !.issued = FALSE, !.key = 0]
Ended(conns) == [c \in H3Conns |-> IF c \in conns THEN EndedConn(h3conn[c]) ELSE h3conn[c]]
Torn(conns) ==
    [c \in H3Conns |-> IF c \in conns THEN [EndedConn(h3conn[c]) EXCEPT !.socket = FALSE]
                       ELSE h3conn[c]]

\* getECHConfig: none for an incompatible host or, unless it is cached, over a
\* proxy; else the cached configuration or what DNS answers now.
EchFor(o) ==
    CASE o \in incompatible                          -> "none"
      [] o \notin incompatible /\ echConfig[o] # "none" -> echConfig[o]
      [] o \notin incompatible /\ echConfig[o] = "none" -> IF route = "socks" THEN "none" ELSE "good"

\* The call has been rejected and has removed the ticket of its origin.
RemovedTicket(r) == h3call[r].rejections > 0 \/ h3call[r].pc = "drop"

\* The calls once a ticket of the origin is cached.
CallsLate(o) ==
    [r \in H3Requests |-> IF RemovedTicket(r) /\ h3call[r].origin = o
                          THEN [h3call[r] EXCEPT !.late = TRUE] ELSE h3call[r]]

\* sessionCache.Get: the local ticket; without one, nothing, or what a backend, where
\* one is configured and answers, still or again holds.
Lookups(o) == IF ticket[o] # NoTicket THEN {ticket[o]} ELSE {NoTicket} \cup (0..serverKey[o])

\* A ticket fetched from the backend is promoted to the local cache.
CallsAfterLookup(o, got) == IF got = ticket[o] THEN h3call ELSE CallsLate(o)

\* The direct probe of Connect has a TLS configuration without the session cache.
Offers(isProbe, got) == IF isProbe /\ route = "direct" THEN NoTicket ELSE got

\* A dial for the transport `g`: the ticket and the ECH configuration it will offer
\* are read now, and both are cached.
StartDial(o, g, isProbe, got) ==
    /\ dialled < MaxH3Conns /\ got \in Lookups(o)
    /\ dialled' = dialled + 1
    /\ h3conn' = [h3conn EXCEPT ![dialled + 1] =
          [FreeConn EXCEPT !.stage = "dialling", !.origin = o, !.of = g, !.ech = EchFor(o),
                           !.offered = Offers(isProbe, got), !.probe = isProbe]]
    /\ ticket' = [ticket EXCEPT ![o] = got]
    /\ echConfig' = [echConfig EXCEPT ![o] = IF o \in incompatible THEN @ ELSE EchFor(o)]
    /\ UNCHANGED <<serverKey, incompatible>>

\* RoundTrip: count the request and take the transport under t.mu.
RoundTrip(r, o) ==
    /\ h3call[r].pc = "idle" /\ muFree
    /\ h3call' = [h3call EXCEPT ![r] = [NoCall EXCEPT !.pc = "send", !.origin = o, !.of = transport]]
    /\ UNCHANGED <<h3Admin, tunnelUp, dialled, h3conn, h3Tables, h3Peer, adminCalls>>

\* The connection or dial http3.Transport `g` has for an origin.
PooledFor(g, o) ==
    {c \in H3Conns : /\ h3conn[c].of = g /\ h3conn[c].origin = o /\ ~h3conn[c].probe
                     /\ \/ h3conn[c].stage \in {"dialling", "dialled", "registered"}
                        \/ h3conn[c].stage = "ready" /\ h3conn[c].alive}

\* transport.RoundTrip: refused by a closed transport; else on the pooled
\* connection, behind the dial in progress, or behind a new one.
Send(r) ==
    LET call == h3call[r]  have == PooledFor(call.of, call.origin)
    IN /\ call.pc = "send"
       /\ \/ /\ ~transportOpen[call.of]
             /\ h3call' = [h3call EXCEPT ![r].pc = "failed"]
             /\ UNCHANGED <<dialled, h3conn, h3Peer>>
          \/ /\ transportOpen[call.of] /\ have # {}
             /\ \E c \in have :
                   h3call' = [h3call EXCEPT ![r].conn = c,
                                ![r].pc = IF h3conn[c].stage = "ready" THEN "stream" ELSE "dial"]
             /\ UNCHANGED <<dialled, h3conn, h3Peer>>
          \/ /\ transportOpen[call.of] /\ have = {}
             /\ \E got \in Lookups(call.origin) :
                   /\ StartDial(call.origin, call.of, FALSE, got)
                   /\ h3call' = [CallsAfterLookup(call.origin, got) EXCEPT
                                    ![r].conn = dialled + 1, ![r].pc = "dial"]
       /\ UNCHANGED <<h3Admin, tunnelUp, h3Tables, adminCalls>>

\* What the callers waiting for the dial `c` see once it has returned.
Woken(c, pc) ==
    [r \in H3Requests |-> IF h3call[r].pc = "dial" /\ h3call[r].conn = c
                          THEN IF pc = "failed" THEN [NoCall EXCEPT !.pc = pc] ELSE [h3call[r] EXCEPT !.pc = pc]
                          ELSE h3call[r]]

\* ensureUDPTunnel under udpbaraMu, then the relay socket, tracked before the handshake.
DialRelay(c) ==
    /\ route = "socks" /\ h3conn[c].stage = "dialling" /\ ~h3conn[c].socket /\ c \notin proxyConns
    /\ tunnelUp' = TRUE
    /\ h3conn' = [h3conn EXCEPT ![c].socket = TRUE]
    /\ proxyConns' = proxyConns \cup {c}
    /\ UNCHANGED <<h3Admin, dialled, sockets, byOrigin, h3Peer, h3call, adminCalls>>

\* DialEarly succeeds: 0-RTT is taken or rejected by the ticket it offered.
DialEarly(c) ==
    LET conn == h3conn[c]  key == serverKey[conn.origin]
    IN /\ conn.stage = "dialling" /\ conn.ech # "stale"
       /\ route = "socks" => conn.socket
       /\ h3conn' = [h3conn EXCEPT ![c] =
             [conn EXCEPT !.stage = IF route = "socks" THEN "registered" ELSE "dialled",
                          !.alive = TRUE, !.socket = TRUE, !.key = key,
                          !.offered = NoTicket, !.ech = "none",
                          !.early = CASE conn.offered = NoTicket -> "none"
                                      [] conn.offered = key      -> "accepted"
                                      [] OTHER                   -> "rejected"]]
       /\ UNCHANGED <<h3Admin, tunnelUp, dialled, h3Tables, h3Peer, h3call, adminCalls>>

\* raceQUICDialWithECH, Connect: a stale configuration fails the bounded attempt;
\* the host is marked and dialled again without ECH.  Connect also drops the config.
EchRejected(c) ==
    LET conn == h3conn[c]
    IN /\ conn.stage = "dialling" /\ conn.ech = "stale"
       /\ incompatible' = incompatible \cup {conn.origin}
       /\ echConfig' = [echConfig EXCEPT ![conn.origin] = IF conn.probe THEN "none" ELSE @]
       /\ h3conn' = [h3conn EXCEPT ![c].ech = "none"]
       /\ UNCHANGED <<h3Admin, tunnelUp, dialled, h3Tables, ticket, serverKey, h3call, adminCalls>>

\* The dial fails or is cancelled; its socket is closed.  A handshake error makes
\* the callers drop the ECH configuration.
DialFails(c) ==
    /\ h3conn[c].stage = "dialling"
    /\ h3conn' = [h3conn EXCEPT ![c] = GoneConn]
    /\ proxyConns' = proxyConns \ {c}
    /\ h3call' = Woken(c, "failed")
    /\ \E dropped \in BOOLEAN :
          echConfig' = [echConfig EXCEPT ![h3conn[c].origin] = IF dropped THEN "none" ELSE @]
    /\ UNCHANGED <<h3Admin, tunnelUp, dialled, sockets, byOrigin, ticket, serverKey, incompatible, adminCalls>>

\* Mutant of RefusedDial: a dial that returns after Close is kept.
RefusedDialNever == FALSE

\* A dial that returns once Close has swept the sockets is refused.
RefusedDial == h3Closed

\* The end of dialDirect, under liveMu.
Register(c) ==
    /\ h3conn[c].stage = "dialled" /\ ~h3conn[c].probe
    /\ IF RefusedDial
       THEN /\ h3conn' = [h3conn EXCEPT ![c] = GoneConn]
            /\ h3call' = Woken(c, "failed") /\ UNCHANGED sockets
       ELSE /\ h3conn' = [h3conn EXCEPT ![c].stage = "registered"]
            /\ sockets' = sockets \cup {c} /\ UNCHANGED h3call
    /\ UNCHANGED <<h3Admin, tunnelUp, dialled, proxyConns, byOrigin, h3Peer, adminCalls>>

\* recordHandshakeState and trackOrigin, then the pool: a transport closed by then
\* may drop the connection without closing it.  A probe closes its connection; the
\* direct one, dialled with quic.DialAddr, is in no table.
Track(c) ==
    /\ h3conn[c].stage = (IF h3conn[c].probe /\ route = "direct" THEN "dialled" ELSE "registered")
    /\ muFree
    /\ LET kept == transportOpen[h3conn[c].of] /\ ~h3conn[c].probe
       IN /\ \E closed \in (IF h3conn[c].probe THEN {TRUE} ELSE IF kept THEN {FALSE} ELSE BOOLEAN) :
                h3conn' = [h3conn EXCEPT ![c].stage = "ready",
                                         ![c].alive = h3conn[c].alive /\ ~closed]
          /\ h3call' = Woken(c, IF kept THEN "stream" ELSE "failed")
    /\ byOrigin' = IF h3conn[c].probe THEN byOrigin ELSE byOrigin \cup {c}
    /\ UNCHANGED <<h3Admin, tunnelUp, dialled, sockets, proxyConns, h3Peer, adminCalls>>

\* The request is answered, fails with its connection, or fails because the server
\* has rejected the early data it was sent in.
Answer(r) ==
    LET conn == h3conn[h3call[r].conn]
    IN /\ h3call[r].pc = "stream"
       /\ h3call' = [h3call EXCEPT ![r] =
             CASE ~conn.alive -> [NoCall EXCEPT !.pc = "failed"]
               [] conn.alive /\ conn.early = "rejected" -> [@ EXCEPT !.pc = "rejected"]
               [] conn.alive /\ conn.early # "rejected" -> [NoCall EXCEPT !.pc = "done"]]
       /\ UNCHANGED <<h3Admin, tunnelUp, dialled, h3conn, h3Tables, h3Peer, adminCalls>>

\* sessionCache.Put(host, nil) after a rejection: the local ticket goes at once, the
\* backend's when the goroutine that deletes it has run, if it succeeds.
TicketAfterRejection(o) == NoTicket

DropTicket(r) ==
    /\ h3call[r].pc = "rejected"
    /\ ticket' = [ticket EXCEPT ![h3call[r].origin] = TicketAfterRejection(h3call[r].origin)]
    /\ h3call' = [h3call EXCEPT ![r].pc = "drop"]
    /\ UNCHANGED <<h3Admin, tunnelUp, dialled, h3conn, h3Tables, serverKey, echConfig, incompatible, adminCalls>>

\* closeOrigin, then the next of the three attempts.
CloseOrigin(r) ==
    LET call == h3call[r]
        conns == {c \in byOrigin : h3conn[c].origin = call.origin}
    IN /\ call.pc = "drop"
       /\ byOrigin' = byOrigin \ conns
       /\ h3conn' = Ended(conns)
       /\ h3call' = [h3call EXCEPT ![r].rejections = @ + 1,
                                   ![r].pc = IF call.rejections = 2 THEN "failed0RTT" ELSE "send"]
       /\ UNCHANGED <<h3Admin, tunnelUp, dialled, sockets, proxyConns, h3Peer, adminCalls>>

\* Connect: dial and close again, through the proxy when there is one.
Connect(o) ==
    /\ CountAdmin
    /\ \E got \in Lookups(o) : StartDial(o, transport, TRUE, got) /\ h3call' = CallsAfterLookup(o, got)
    /\ UNCHANGED <<h3Admin, tunnelUp, h3Tables>>

\* The server's ticket for a connection arrives and is cached.
TicketArrives(c) ==
    /\ h3conn[c].alive /\ ~h3conn[c].issued /\ ~(h3conn[c].probe /\ route = "direct")
    /\ h3conn' = [h3conn EXCEPT ![c].issued = TRUE, ![c].key = 0]
    /\ ticket' = [ticket EXCEPT ![h3conn[c].origin] = h3conn[c].key]
    /\ h3call' = CallsLate(h3conn[c].origin)
    /\ UNCHANGED <<h3Admin, tunnelUp, dialled, h3Tables, serverKey, echConfig, incompatible, adminCalls>>

\* The server changes its keys: older tickets and ECH configurations are refused.
RotateKeys(o) ==
    /\ serverKey[o] < MaxRotations
    /\ serverKey' = [serverKey EXCEPT ![o] = @ + 1]
    /\ echConfig' = [echConfig EXCEPT ![o] = IF @ = "good" THEN "stale" ELSE @]
    /\ h3conn' = [c \in H3Conns |-> IF h3conn[c].origin = o /\ h3conn[c].stage = "dialling" /\ h3conn[c].ech = "good"
                                    THEN [h3conn[c] EXCEPT !.ech = "stale"] ELSE h3conn[c]]
    /\ UNCHANGED <<h3Admin, tunnelUp, dialled, h3Tables, ticket, incompatible, h3call, adminCalls>>

\* The peer or the idle timeout ends a connection.
ConnEnds(c) ==
    /\ h3conn[c].alive
    /\ h3conn' = Ended({c})
    /\ UNCHANGED <<h3Admin, tunnelUp, dialled, h3Tables, h3Peer, h3call, adminCalls>>

\* The AfterFuncs of dialDirect and trackOrigin, the goroutine of dialQUICWithProxy.
ReapConn(c) ==
    /\ h3conn[c].stage = "ready" /\ ~h3conn[c].alive
    /\ h3conn' = [h3conn EXCEPT ![c] = GoneConn]
    /\ sockets' = sockets \ {c} /\ proxyConns' = proxyConns \ {c} /\ byOrigin' = byOrigin \ {c}
    /\ UNCHANGED <<h3Admin, tunnelUp, dialled, h3Peer, h3call, adminCalls>>

\* http3.Transport.Close within closeWithTimeout: the pooled connections end.
CloseTransport(g) ==
    /\ transportOpen' = [transportOpen EXCEPT ![g] = FALSE]
    /\ h3conn' = Ended({c \in H3Conns : h3conn[c].of = g /\ h3conn[c].stage = "ready" /\ ~h3conn[c].probe})

CloseBegin ==
    /\ closer = "no" /\ muFree /\ CountAdmin
    /\ CloseTransport(transport) /\ closer' = "transport"
    /\ UNCHANGED <<route, transport, h3Closed, refresher, tunnelUp, dialled, h3Tables, h3Peer, h3call>>

\* closeDirectConns(true).
CloseSockets ==
    /\ closer = "transport"
    /\ h3Closed' = TRUE /\ sockets' = {} /\ h3conn' = Torn(sockets) /\ closer' = "sockets"
    /\ UNCHANGED <<route, transport, transportOpen, refresher, tunnelUp, dialled, proxyConns, byOrigin,
                   h3Peer, h3call, adminCalls>>

\* The tunnel, if one was connected, and what runs through it.
CloseTunnel ==
    /\ closer = "sockets"
    /\ closer' = "done"
    /\ IF tunnelUp THEN proxyConns' = {} /\ h3conn' = Torn(proxyConns)
                   ELSE UNCHANGED <<proxyConns, h3conn>>
    /\ UNCHANGED <<route, transport, transportOpen, h3Closed, refresher, tunnelUp, dialled, sockets,
                   byOrigin, h3Peer, h3call, adminCalls>>

\* Refresh takes t.mu and closes the transport.
RefreshBegin ==
    /\ refresher = "no" /\ CountAdmin
    /\ CloseTransport(transport) /\ refresher' = "sockets"
    /\ UNCHANGED <<route, transport, h3Closed, closer, tunnelUp, dialled, h3Tables, h3Peer, h3call>>

\* closeDirectConns(false) and, with a proxy, closeAllProxyConns.
RefreshSockets ==
    /\ refresher = "sockets" /\ refresher' = "rebuild"
    /\ sockets' = {} /\ proxyConns' = {} /\ h3conn' = Torn(sockets \cup proxyConns)
    /\ UNCHANGED <<route, transport, transportOpen, h3Closed, closer, tunnelUp, dialled, byOrigin,
                   h3Peer, h3call, adminCalls>>

\* The transport is built anew and t.mu released.
RefreshEnd ==
    /\ refresher = "rebuild" /\ refresher' = "no"
    /\ transport' = transport + 1
    /\ transportOpen' = [transportOpen EXCEPT ![transport + 1] = TRUE]
    /\ UNCHANGED <<route, h3Closed, closer, tunnelUp, dialled, h3conn, h3Tables, h3Peer, h3call, adminCalls>>

H3Next ==
    \/ \E r \in H3Requests : \/ \E o \in Origins : RoundTrip(r, o)
                             \/ Send(r) \/ Answer(r) \/ DropTicket(r) \/ CloseOrigin(r)
    \/ \E c \in H3Conns : \/ DialRelay(c) \/ DialEarly(c) \/ EchRejected(c) \/ DialFails(c)
                          \/ Register(c) \/ Track(c) \/ TicketArrives(c) \/ ConnEnds(c) \/ ReapConn(c)
    \/ \E o \in Origins : Connect(o) \/ RotateKeys(o)
    \/ CloseBegin \/ CloseSockets \/ CloseTunnel
    \/ RefreshBegin \/ RefreshSockets \/ RefreshEnd

H3Spec == H3Init /\ [][H3Next]_h3Vars

-----------------------------------------------------------------------------
(* Properties.                                                             *)

\* Every open UDP socket has an owner that will close it: its dial, the table Close
\* and Refresh sweep, or the callback that runs when its connection ends; and once
\* Close has swept, no direct connection stays open past its dial
\* (http3_transport.go:1277-1385, 1780-1811).
SocketsOwned ==
    /\ \A c \in H3Conns : h3conn[c].socket =>
          \/ h3conn[c].stage \in {"dialling", "dialled"}
          \/ c \in sockets \cup proxyConns
          \/ h3conn[c].stage \in {"registered", "ready"} /\ ~h3conn[c].alive
    /\ h3Closed /\ route = "direct" => \A c \in H3Conns : h3conn[c].alive => h3conn[c].stage = "dialled"

\* A request is given up because three attempts were refused their early data only
\* when a ticket came back in the middle of them, sent by the server or fetched from
\* the backend that had not deleted it yet: the local ticket goes with the first
\* rejection, a dial that another caller began with it accounts for one more, and
\* what follows is a full handshake (http3_transport.go:1678-1702, issue #127;
\* tls_cache.go:246-316, 357-387).
EarlyDataRecovered == \A r \in H3Requests : h3call[r].pc = "failed0RTT" => h3call[r].late

\* No socket is lost, and no request gives up on the early data of the ticket it
\* removed while that stays removed, whatever dial, Refresh, Close and key change
\* run against each other (http3_transport.go:1277-1385, 1678-1702, 1780-1868).
TransportSound == SocketsOwned /\ EarlyDataRecovered
=============================================================================
