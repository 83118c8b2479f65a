--------------------------- MODULE ProtocolSelect ---------------------------
(***************************************************************************)
(* transport/transport.go, transport/stream.go: how a Transport picks the  *)
(* protocol of a request.  Do and DoStream take a snapshot of the settings *)
(* and dispatch; in auto mode doAuto and doStreamAuto reuse what was       *)
(* learned about the host, or race an HTTP/3 and an HTTP/2 connection      *)
(* probe and send the request on the winner, and fall back when an attempt *)
(* fails.  The HTTP/1.1, HTTP/2 and HTTP/3 transports below are seen by    *)
(* what an attempt can return; HTTP1Pool and HTTP2Pool model their insides.*)
(* The snapshot is taken again at every stage, so a SetProxy, SetProtocol  *)
(* or SetDisableHTTP3 between two stages is seen by the later one only.    *)
(***************************************************************************)
EXTENDS Naturals, FiniteSets

CONSTANTS
    Requests,     \* calls of Do and DoStream
    Hosts,
    HostOf,       \* the host of each request
    Streaming,    \* the requests made with DoStream
    Idempotent,   \* GET, HEAD, OPTIONS, TRACE, PUT, DELETE
    OneShot,      \* the requests whose body is a BodyReader
    Proxies,      \* the proxy configurations: subset of ProxyKinds
    Presets,      \* what the presets support: subset of PresetKinds
    Operations,   \* the settings that change while requests run
    MaxOps        \* bound on the number of such changes

\* "none"; "http"; "quic" a SOCKS5 or MASQUE proxy that carries TCP and UDP;
\* "udponly" a MASQUE proxy given for UDP alone; the last two are these when the
\* construction of their HTTP/3 transport failed.
ProxyKinds == {"none", "http", "quic", "udponly", "quicNoH3", "udponlyNoH3"}

\* What goes through the proxy: the HTTP/1.1 and HTTP/2 transports get the TCP
\* proxy of the routing, the HTTP/3 transport its UDP proxy.  One that is built
\* without dials the target itself, also when h3ProxyError says why.
Carries(kind) ==
    CASE kind \in {"none", "udponlyNoH3"} -> {}
      [] kind \in {"http", "quicNoH3"} -> {"tcp"}
      [] kind = "udponly" -> {"udp"}
      [] kind = "quic" -> {"tcp", "udp"}

Wire(version) == IF version = "h3" THEN "udp" ELSE "tcp"

\* "h3" has SupportHTTP3; "h2" has not; "h1" has DisableHTTP2 set as well.
PresetKinds == {"h3", "h2", "h1"}

Versions == {"h1", "h2", "h3"}

ASSUME ConstantsAssumption ==
    /\ HostOf \in [Requests -> Hosts]
    /\ Streaming \subseteq Requests
    /\ Idempotent \subseteq Requests /\ OneShot \subseteq Requests
    /\ Proxies \subseteq ProxyKinds /\ Presets \subseteq PresetKinds
    /\ MaxOps \in Nat

VARIABLES
    (* The Transport. *)
    proxy,            \* t.proxy with t.h1Transport, t.h2Transport and t.h3Transport built for it
    preset,
    protocol,         \* "auto", or the version the user forces
    disableH3,
    protocolSupport,  \* the version learned for each host, or "unknown"
    pending,          \* the second half of an operation that is still to run
    ops,              \* settings changed so far
    panicked,         \* a method was called on a nil HTTP/3 transport
    (* A request. *)
    pc,
    role,             \* "forced"; "proxied" the way of Do and DoStream behind a proxy without
                      \* HTTP/3; in auto mode "known" from the cache, "first" or "fallback"
    snapH3,           \* doAuto's snapshot has an HTTP/3 transport
    held,             \* the requests with a live connection that ALPN downgraded to http/1.1
    learned,          \* the version to record for the host
    (* A race of probes. *)
    h3Probe, h2Probe, \* "off" also once the race is over and the probe has returned
    winner,           \* winnerCh, while it is read
    late,             \* alpnErrCh: the requests whose probe left a connection there
    draining,         \* drainLateALPN's goroutines
    (* History. *)
    via,              \* the proxy configured when the request was dispatched
    sentOn,           \* the versions on which the request may have reached the server
    direct,           \* the wires on which the request dialled the target without a proxy
    since,            \* the proxies that SetProxy published while the request ran
    overlapped,       \* the requests in flight when a setting changed
    downgraded        \* the hosts whose ALPN chose http/1.1

settings == <<proxy, preset, protocol, disableH3, pending, ops>>
raceVars == <<h3Probe, h2Probe, winner, late, draining>>
history == <<via, sentOn, direct, since, overlapped, downgraded>>
vars == <<settings, protocolSupport, panicked, pc, role, snapH3, held, learned, raceVars,
          history>>

Init ==
    /\ proxy \in Proxies /\ preset \in Presets /\ protocol = "auto" /\ disableH3 \in BOOLEAN
    /\ protocolSupport = [h \in Hosts |-> "unknown"]
    /\ pending = "none" /\ ops = 0 /\ panicked = FALSE
    /\ pc = [r \in Requests |-> "init"] /\ role = [r \in Requests |-> "forced"]
    /\ snapH3 = {} /\ held = {}
    /\ learned = [r \in Requests |-> "unknown"]
    /\ h3Probe = [r \in Requests |-> "off"] /\ h2Probe = [r \in Requests |-> "off"]
    /\ winner = [r \in Requests |-> "none"] /\ late = {} /\ draining = {}
    /\ via = [r \in Requests |-> "none"] /\ sentOn = [r \in Requests |-> {}]
    /\ direct = [r \in Requests |-> {}] /\ since = [r \in Requests |-> {}]
    /\ overlapped = {} /\ downgraded = {}

\* The type invariant; a request always has a version to attempt next, or none
\* because it has ended.
TypeOK ==
    /\ proxy \in Proxies /\ preset \in Presets /\ protocol \in Versions \cup {"auto"}
    /\ disableH3 \in BOOLEAN /\ panicked \in BOOLEAN
    /\ protocolSupport \in [Hosts -> Versions \cup {"unknown"}]
    /\ pending \in {"none", "purge", "clear"} /\ ops \in 0..MaxOps
    /\ pc \in [Requests -> {"init", "auto", "lookup", "race", "racing", "h1", "h2", "h3",
                            "h3retry", "handoff", "learn", "done"}]
    /\ role \in [Requests -> {"forced", "proxied", "known", "first", "fallback"}]
    /\ snapH3 \subseteq Requests /\ held \subseteq Requests /\ late \subseteq Requests
    /\ draining \subseteq Requests
    /\ learned \in [Requests -> Versions \cup {"unknown"}]
    /\ h3Probe \in [Requests -> {"off", "running", "connected", "failed"}]
    /\ h2Probe \in [Requests -> {"off", "running", "connected", "failed", "downgraded"}]
    /\ winner \in [Requests -> {"none", "h2", "h3"}]
    /\ via \in [Requests -> ProxyKinds] /\ sentOn \in [Requests -> SUBSET Versions]
    /\ direct \in [Requests -> SUBSET {"tcp", "udp"}]
    /\ since \in [Requests -> SUBSET Proxies]
    /\ overlapped \subseteq Requests /\ downgraded \subseteq Hosts

-----------------------------------------------------------------------------
(* The snapshot.                                                           *)

\* t.tcpProxyError: the configured proxy cannot carry TCP.
TcpBlocked == proxy \in {"udponly", "udponlyNoH3"}

\* t.h3ProxyError: the HTTP/3 transport at hand does not go through the proxy.
H3ProxyError == proxy \in {"http", "quicNoH3", "udponlyNoH3"}

\* snap.h3 is not nil.
H3Available == ~(disableH3 /\ protocol # "h3")

\* The transports of the snapshot dial what their proxy does not carry directly.
Dials(r, versions) ==
    direct' = [direct EXCEPT ![r] = @ \cup ({Wire(v) : v \in versions} \ Carries(proxy))]

Goto(r, step) == pc' = [pc EXCEPT ![r] = step]
Running(r) == pc[r] \notin {"init", "done"}

-----------------------------------------------------------------------------
(* Do and DoStream.                                                        *)

\* Where Do goes in auto mode: HTTP/2 and then HTTP/1.1 where the proxy has no
\* HTTP/3, HTTP/3 alone where it has no TCP, doAuto elsewhere.
AutoRoute ==
    CASE H3ProxyError -> IF TcpBlocked THEN "refused" ELSE "h2"
      [] ~H3ProxyError -> IF TcpBlocked THEN "h3" ELSE "auto"

\* Mutant of PlainRoute: the guard for UDP-only proxies covers https only.
PlainRouteUnchecked == "h1"

\* An http:// URL: HTTP/1.1 or, "refused", an error with nothing dialled.
PlainRoute == IF TcpBlocked THEN "refused" ELSE "h1"

\* Do's choice for an https:// URL.
DoRoute ==
    CASE protocol = "auto" -> AutoRoute
      [] protocol = "h3" -> IF H3ProxyError THEN "refused" ELSE "h3"
      [] protocol \in {"h1", "h2"} -> IF TcpBlocked THEN "refused" ELSE protocol

\* DoStream's: behind a proxy the protocol setting is not looked at, nor is
\* h3ProxyError.
StreamRoute ==
    CASE proxy = "none" -> protocol
      [] proxy = "http" -> "h2"
      [] proxy \in {"quic", "quicNoH3"} -> "auto"
      [] TcpBlocked -> "h3"

\* The proxy decides for HTTP/2: Do has a fallback chain of its own there, and
\* DoStream has none.
ProxyChose(r) ==
    IF r \in Streaming THEN proxy = "http" ELSE protocol = "auto" /\ AutoRoute = "h2"

Dispatch(r, scheme) ==
    LET route == CASE scheme = "http" -> PlainRoute
                   [] scheme = "https" -> IF r \in Streaming THEN StreamRoute ELSE DoRoute
    IN
    /\ pc[r] = "init"
    /\ Goto(r, IF route = "refused" THEN "done" ELSE route)
    /\ role' = [role EXCEPT ![r] =
                  IF scheme = "https" /\ ProxyChose(r) THEN "proxied" ELSE "forced"]
    /\ via' = [via EXCEPT ![r] = proxy]
    /\ UNCHANGED <<settings, protocolSupport, panicked, snapH3, held, learned, raceVars,
                   sentOn, direct, since, overlapped, downgraded>>

-----------------------------------------------------------------------------
(* doAuto and doStreamAuto.                                                *)

AutoSnapshot(r) ==
    /\ pc[r] = "auto"
    /\ snapH3' = IF preset = "h3" /\ H3Available THEN snapH3 \cup {r} ELSE snapH3
    /\ Goto(r, "lookup")
    /\ UNCHANGED <<settings, protocolSupport, panicked, role, held, learned, raceVars,
                   history>>

\* Nothing is known of the host: HTTP/1.1 for a preset without HTTP/2 (Do only),
\* the race when HTTP/3 is at hand, else HTTP/2.
FirstAttempt(r) ==
    IF preset = "h1" /\ r \notin Streaming THEN "h1" ELSE IF r \in snapH3 THEN "race" ELSE "h2"

\* What was learned about the host, if anything.
NextAttempt(r) ==
    IF protocolSupport[HostOf[r]] # "unknown" THEN protocolSupport[HostOf[r]] ELSE FirstAttempt(r)

AutoLookup(r) ==
    /\ pc[r] = "lookup"
    /\ Goto(r, NextAttempt(r))
    /\ snapH3' = snapH3 \ {r}
    /\ role' = [role EXCEPT ![r] = IF protocolSupport[HostOf[r]] # "unknown" THEN "known" ELSE "first"]
    /\ UNCHANGED <<settings, protocolSupport, panicked, held, learned, raceVars,
                   history>>

-----------------------------------------------------------------------------
(* An attempt ends: the answer, the downgrade or the fallback.             *)

\* The version is recorded when the host was not known, except that of Do's
\* fallback to a fresh HTTP/1.1 connection.
Learns(r, version) == IF role[r] = "first" THEN version ELSE "unknown"

Answer(r, version) ==
    /\ learned' = [learned EXCEPT ![r] = Learns(r, version)]
    /\ Goto(r, IF Learns(r, version) = "unknown" THEN "done" ELSE "learn")

\* Mutant of CanResend: any failure may be followed by another attempt.
CanResendAlways(r, sent) == TRUE

\* canResendOnAnotherProtocol
CanResend(r, sent) == ~sent \/ (r \notin OneShot /\ r \in Idempotent)

\* What may follow a failed attempt on version: Do tries HTTP/1.1, behind a
\* proxy without HTTP/3 whatever happened, else if CanResend; DoStream moves from HTTP/3
\* to HTTP/2 if CanResend.  Do returns the error of a host known as HTTP/3.
FallsBack(r, version, sent) ==
    \/ r \notin Streaming /\ role[r] = "proxied"
    \/ /\ CanResend(r, sent)
       /\ IF r \in Streaming THEN version = "h3" /\ role[r] # "forced"
          ELSE role[r] = "first" \/ (role[r] = "known" /\ version = "h2")

\* Do's HTTP/1.1 fallback is "Deliberately not cached".
Fallback(r, version, sent) ==
    /\ Goto(r, IF ~FallsBack(r, version, sent) THEN "done"
               ELSE IF r \in Streaming THEN "h2" ELSE "h1")
    /\ role' = IF r \in Streaming THEN role ELSE [role EXCEPT ![r] = "fallback"]

\* doHTTP2 was called for its answer alone: where the caller forces HTTP/2, and
\* by DoStream behind an HTTP proxy.
LeftInError(r) == role[r] = "forced" \/ (r \in Streaming /\ role[r] = "proxied")

\* An ALPNMismatchError comes with a live TLS connection: Do serves HTTP/1.1 on
\* it, doStreamAuto closes it and dials again, or it stays inside the error.
Downgrade(r) ==
    /\ Goto(r, IF LeftInError(r) THEN "done" ELSE IF r \in Streaming THEN "h1" ELSE "handoff")
    /\ held' = IF r \in Streaming /\ ~LeftInError(r) THEN held ELSE held \cup {r}

-----------------------------------------------------------------------------
(* doHTTP1, doHTTP2, doHTTP3 and their streaming forms.  An attempt that    *)
(* fails has or has not sent the request; a body that cannot be read or     *)
(* decoded fails it after it was sent.                                      *)

Sent(r, version, sent) ==
    sentOn' = IF sent THEN [sentOn EXCEPT ![r] = @ \cup {version}] ELSE sentOn

AttemptAnswers(r, version) ==
    /\ pc[r] = version
    /\ version = "h3" => H3Available
    /\ Dials(r, {version}) /\ Sent(r, version, TRUE)
    /\ Answer(r, version)
    /\ UNCHANGED <<via, settings, protocolSupport, panicked, role, snapH3, held, raceVars,
                   since, overlapped, downgraded>>

\* HTTP/1.1 is the last resort: its error is the answer.
H1Fails(r, sent) ==
    /\ pc[r] = "h1"
    /\ Dials(r, {"h1"}) /\ Sent(r, "h1", sent)
    /\ Goto(r, "done")
    /\ UNCHANGED <<via, settings, protocolSupport, panicked, role, snapH3, held, learned,
                   raceVars, since, overlapped, downgraded>>

AttemptFails(r, version, sent) ==
    /\ pc[r] = version /\ version \in {"h2", "h3"}
    /\ version = "h3" => H3Available
    /\ Dials(r, {version}) /\ Sent(r, version, sent)
    /\ Fallback(r, version, sent)
    /\ UNCHANGED <<via, settings, protocolSupport, panicked, snapH3, held, learned, raceVars,
                   since, overlapped, downgraded>>

H2Downgraded(r) ==
    /\ pc[r] = "h2"
    /\ Dials(r, {"h2"})
    /\ downgraded' = downgraded \cup {HostOf[r]}
    /\ Downgrade(r)
    /\ UNCHANGED <<via, settings, protocolSupport, panicked, role, snapH3, learned, raceVars,
                   sentOn, since, overlapped>>

\* errHTTP3Disabled: the snapshot of doHTTP3 has no HTTP/3 transport any more.
H3Disabled(r) ==
    /\ pc[r] = "h3" /\ ~H3Available
    /\ Fallback(r, "h3", FALSE)
    /\ UNCHANGED <<settings, protocolSupport, panicked, snapH3, held, learned, raceVars,
                   history>>

\* roundTripHTTP3: no headers within h3StallWindow, or a timeout; the request
\* is sent a second time if its body is in memory.
H3Stalls(r, sent) ==
    /\ pc[r] = "h3" /\ H3Available
    /\ r \notin Streaming \cup OneShot
    /\ Dials(r, {"h3"}) /\ Sent(r, "h3", sent)
    /\ Goto(r, "h3retry")
    /\ UNCHANGED <<via, settings, protocolSupport, panicked, role, snapH3, held, learned,
                   raceVars, since, overlapped, downgraded>>

H3RetryAnswers(r) ==
    /\ pc[r] = "h3retry"
    /\ Sent(r, "h3", TRUE)
    /\ Answer(r, "h3")
    /\ UNCHANGED <<via, settings, protocolSupport, panicked, role, snapH3, held, raceVars,
                   direct, since, overlapped, downgraded>>

\* Both attempts report to the same trace: one connection is enough to make the
\* request count as sent.
H3RetryFails(r, sent) ==
    /\ pc[r] = "h3retry"
    /\ Sent(r, "h3", sent)
    /\ Fallback(r, "h3", sent \/ "h3" \in sentOn[r])
    /\ UNCHANGED <<via, settings, protocolSupport, panicked, snapH3, held, learned, raceVars,
                   direct, since, overlapped, downgraded>>

\* doHTTP1WithTLSConn: RoundTripWithTLSConn owns the connection from here on,
\* and an error is not followed by another attempt.
HandoffAnswers(r) ==
    /\ pc[r] = "handoff"
    /\ held' = held \ {r}
    /\ Sent(r, "h1", TRUE)
    /\ Answer(r, "h1")
    /\ UNCHANGED <<via, settings, protocolSupport, panicked, role, snapH3, raceVars, direct,
                   since, overlapped, downgraded>>

HandoffFails(r, sent) ==
    /\ pc[r] = "handoff"
    /\ held' = held \ {r}
    /\ Sent(r, "h1", sent)
    /\ Goto(r, "done")
    /\ UNCHANGED <<via, settings, protocolSupport, panicked, role, snapH3, learned, raceVars,
                   direct, since, overlapped, downgraded>>

\* The host's version is recorded, in its own critical section.
Learn(r) ==
    /\ pc[r] = "learn"
    /\ protocolSupport' = [protocolSupport EXCEPT ![HostOf[r]] = learned[r]]
    /\ learned' = [learned EXCEPT ![r] = "unknown"]
    /\ Goto(r, "done")
    /\ UNCHANGED <<settings, panicked, role, snapH3, held, raceVars, history>>

-----------------------------------------------------------------------------
(* raceConnectProtocol and raceTwoProbes.                                  *)

\* The probes run on a third snapshot; Connect on a nil HTTP/3 transport
\* panics in a goroutine and takes the process down.
RaceStart(r) ==
    /\ pc[r] = "race"
    /\ IF H3Available
       THEN /\ Dials(r, {"h2", "h3"})
            /\ h3Probe' = [h3Probe EXCEPT ![r] = "running"]
            /\ h2Probe' = [h2Probe EXCEPT ![r] = "running"]
            /\ Goto(r, "racing")
            /\ UNCHANGED panicked
       ELSE panicked' = TRUE /\ UNCHANGED <<direct, h3Probe, h2Probe, pc>>
    /\ UNCHANGED <<via, settings, protocolSupport, role, snapH3, held, learned, winner, late,
                   draining, sentOn, since, overlapped, downgraded>>

ProbeOnly == UNCHANGED <<via, settings, protocolSupport, panicked, pc, role, snapH3, held,
                         learned, draining, sentOn, direct, since, overlapped>>

\* What a probe returns is heard while the race is on.
Heard(r, result) == IF pc[r] = "racing" THEN result ELSE "off"

\* winnerCh holds one value: the second probe to connect is not heard.
Win(r, version) ==
    winner' = [winner EXCEPT ![r] = IF pc[r] = "racing" /\ @ = "none" THEN version ELSE @]

H3ProbeConnects(r) ==
    /\ h3Probe[r] = "running"
    /\ h3Probe' = [h3Probe EXCEPT ![r] = Heard(r, "connected")]
    /\ Win(r, "h3")
    /\ UNCHANGED <<h2Probe, late, downgraded>> /\ ProbeOnly

H3ProbeFails(r) ==
    /\ h3Probe[r] = "running"
    /\ h3Probe' = [h3Probe EXCEPT ![r] = Heard(r, "failed")]
    /\ UNCHANGED <<h2Probe, winner, late, downgraded>> /\ ProbeOnly

H2ProbeConnects(r) ==
    /\ h2Probe[r] = "running"
    /\ h2Probe' = [h2Probe EXCEPT ![r] = Heard(r, "connected")]
    /\ Win(r, "h2")
    /\ UNCHANGED <<h3Probe, late, downgraded>> /\ ProbeOnly

H2ProbeFails(r) ==
    /\ h2Probe[r] = "running"
    /\ h2Probe' = [h2Probe EXCEPT ![r] = Heard(r, "failed")]
    /\ UNCHANGED <<h3Probe, winner, late, downgraded>> /\ ProbeOnly

\* The connection goes into alpnErrCh whether or not anyone still listens.
H2ProbeDowngraded(r) ==
    /\ h2Probe[r] = "running"
    /\ h2Probe' = [h2Probe EXCEPT ![r] = Heard(r, "downgraded")]
    /\ late' = late \cup {r}
    /\ downgraded' = downgraded \cup {HostOf[r]}
    /\ UNCHANGED <<h3Probe, winner>> /\ ProbeOnly

Probe(r) ==
    \/ H3ProbeConnects(r) \/ H3ProbeFails(r)
    \/ H2ProbeConnects(r) \/ H2ProbeFails(r) \/ H2ProbeDowngraded(r)

\* Mutant of DrainLater: a late downgrade is left in the channel.
DrainLaterNever(r) == draining' = draining

\* drainLateALPN
DrainLater(r) == draining' = draining \cup {r}

\* The race is over and cancelled; a probe that is still running goes on until
\* it notices.
EndRace(r) ==
    /\ h3Probe' = [h3Probe EXCEPT ![r] = IF @ = "running" THEN @ ELSE "off"]
    /\ h2Probe' = [h2Probe EXCEPT ![r] = IF @ = "running" THEN @ ELSE "off"]
    /\ winner' = [winner EXCEPT ![r] = "none"]
    /\ UNCHANGED <<settings, protocolSupport, panicked, snapH3, learned, history>>

\* The select of raceTwoProbes takes any case that is ready.
RaceWon(r) ==
    /\ pc[r] = "racing" /\ winner[r] # "none"
    /\ Goto(r, winner[r])
    /\ EndRace(r) /\ DrainLater(r)
    /\ UNCHANGED <<role, held, late>>

RaceDowngraded(r) ==
    /\ pc[r] = "racing" /\ r \in late
    /\ late' = late \ {r}
    /\ Downgrade(r)
    /\ EndRace(r)
    /\ UNCHANGED <<role, draining>>

\* bothFailedCh is closed.
BothFailed(r) == h3Probe[r] = "failed" /\ h2Probe[r] = "failed"

RaceDefaults(r) ==
    /\ pc[r] = "racing" /\ r \notin late
    /\ Goto(r, "h2")
    /\ EndRace(r) /\ DrainLater(r)
    /\ UNCHANGED <<role, held, late>>

RaceBothFailed(r) == BothFailed(r) /\ RaceDefaults(r)

\* The budget of 6 seconds has passed.
RaceBudget(r) == ~BothFailed(r) /\ RaceDefaults(r)

\* The context of the call is done.  Nothing was sent, so Do goes on to HTTP/1.1;
\* DoStream returns the error.
RaceCancelled(r) ==
    /\ pc[r] = "racing"
    /\ Fallback(r, "h2", FALSE)
    /\ EndRace(r) /\ DrainLater(r)
    /\ UNCHANGED <<held, late>>

\* The probe has returned: its connection, if it was downgraded, is closed.
Drain(r) ==
    /\ r \in draining /\ h2Probe[r] # "running"
    /\ late' = late \ {r}
    /\ draining' = draining \ {r}
    /\ UNCHANGED <<settings, protocolSupport, panicked, pc, role, snapH3, held, learned,
                   h3Probe, h2Probe, winner, history>>

-----------------------------------------------------------------------------
(* The settings.                                                           *)

Change(op) ==
    /\ op \in Operations /\ ops < MaxOps /\ ops' = ops + 1
    /\ overlapped' = overlapped \cup {r \in Requests : Running(r)}
    /\ UNCHANGED <<via, preset, panicked, pc, role, snapH3, held, learned, raceVars, sentOn,
                   direct, downgraded>>

\* SetProxy publishes the new transports; what was learned stays.
SetProxy(new) ==
    /\ Change("SetProxy") /\ proxy' = new
    /\ since' = [r \in Requests |-> IF Running(r) THEN since[r] \cup {new} ELSE since[r]]
    /\ UNCHANGED <<protocol, disableH3, pending, protocolSupport>>

\* RefreshWithProtocol: SetProtocol, then ClearProtocolCache.
RefreshWithProtocol(new) ==
    /\ Change("RefreshWithProtocol") /\ pending = "none"
    /\ protocol' = new /\ pending' = "clear"
    /\ UNCHANGED <<proxy, disableH3, protocolSupport, since>>

EnableHTTP3 ==
    /\ Change("SetDisableHTTP3") /\ disableH3
    /\ disableH3' = FALSE
    /\ UNCHANGED <<proxy, protocol, pending, protocolSupport, since>>

\* SetDisableHTTP3: the flag, then the hosts learned as HTTP/3 are forgotten.
DisableHTTP3 ==
    /\ Change("SetDisableHTTP3") /\ pending = "none"
    /\ disableH3' = TRUE /\ pending' = "purge"
    /\ UNCHANGED <<proxy, protocol, protocolSupport, since>>

FinishOperation ==
    /\ pending # "none"
    /\ protocolSupport' =
         [h \in Hosts |-> IF pending = "clear" \/ protocolSupport[h] = "h3" THEN "unknown"
                          ELSE protocolSupport[h]]
    /\ pending' = "none"
    /\ UNCHANGED <<proxy, preset, protocol, disableH3, ops, panicked, pc, role, snapH3,
                   held, learned, raceVars, history>>

Setting ==
    \/ \E new \in Proxies : SetProxy(new)
    \/ \E new \in Versions \cup {"auto"} : RefreshWithProtocol(new)
    \/ EnableHTTP3 \/ DisableHTTP3 \/ FinishOperation

-----------------------------------------------------------------------------
Attempt(r) ==
    \/ \E v \in Versions : AttemptAnswers(r, v)
    \/ \E sent \in BOOLEAN :
         \/ H1Fails(r, sent) \/ H3Stalls(r, sent) \/ H3RetryFails(r, sent)
         \/ HandoffFails(r, sent)
         \/ \E v \in {"h2", "h3"} : AttemptFails(r, v, sent)
    \/ H2Downgraded(r) \/ H3Disabled(r) \/ H3RetryAnswers(r) \/ HandoffAnswers(r)

RaceResolves(r) == RaceWon(r) \/ RaceDowngraded(r) \/ RaceBothFailed(r)

Caller(r) ==
    \/ \E scheme \in {"http", "https"} : Dispatch(r, scheme)
    \/ AutoSnapshot(r) \/ AutoLookup(r) \/ RaceStart(r)
    \/ RaceResolves(r) \/ RaceBudget(r) \/ RaceCancelled(r)
    \/ Attempt(r) \/ Learn(r)

Next ==
    /\ ~panicked
    /\ \/ \E r \in Requests : Caller(r) \/ Probe(r) \/ Drain(r)
       \/ Setting

Spec == Init /\ [][Next]_vars

-----------------------------------------------------------------------------
(* Properties.                                                             *)

\* A request that must not be repeated reaches the server over one protocol
\* only: every fallback after it may have been sent is guarded by
\* canResendOnAnotherProtocol, except Do's behind a proxy without HTTP/3.
ResendGuarded ==
    \A r \in Requests :
        Cardinality(sentOn[r]) > 1 =>
            \/ r \in Idempotent \ OneShot
            \/ r \notin Streaming /\ via[r] \in {"http", "quicNoH3"}

\* What the changelog says of auto mode: "The HTTP/1.1 attempt now runs only
\* when nothing of the request was sent ... or when the request is idempotent".
SentOnOneProtocol ==
    \A r \in Requests : Cardinality(sentOn[r]) > 1 => r \in Idempotent \ OneShot

\* Behind a proxy a request, and every probe of its race, dials the target
\* itself only in two ways.  SetProxy published, while the request ran, a
\* configuration that does not carry the wire: the dispatch was decided on the
\* first snapshot, and the stage took its transports from a later one.  Or it is
\* a stream over HTTP/3 whose transport could not be built for the proxy:
\* DoStream does not look at h3ProxyError.
ProxyHonoured ==
    \A r \in Requests : \A w \in direct[r] :
        \/ via[r] = "none"
        \/ \E kind \in since[r] : w \notin Carries(kind)
        \/ w = "udp" /\ r \in Streaming /\ via[r] \in {"quicNoH3", "udponlyNoH3"}

\* What the comments say: a snapshot gives "the whole dispatch a stable view (e.g.
\* the proxy and its matching sub-transports)", a proxy that cannot carry a
\* protocol makes the request "refuse rather than dial the target directly", and
\* h3ProxyError "will prevent" the direct HTTP/3 transport "from being used when
\* proxy is expected": as long as a proxy is configured, none is bypassed.
NeverDirectBehindProxy ==
    \A r \in Requests : direct[r] # {} => "none" \in {via[r]} \cup since[r]

\* "Every other HTTP/1.1 entry in protocolSupport comes from an ALPN downgrade
\* or from a preset that disables H2": a transient failure pins no host.
PinnedH1Justified ==
    \A h \in Hosts : protocolSupport[h] = "h1" => h \in downgraded \/ preset = "h1"

\* A nil HTTP/3 transport is probed only if a setting changed between doAuto's
\* snapshot and the snapshot of the race.
NilProbeNeedsSwitch == panicked => \E r \in overlapped : pc[r] = "race"

\* A request that has ended holds no downgraded connection: it was used or
\* closed.  Two callers get it, open, inside an ALPNMismatchError that nothing in
\* the transport closes: one that forces HTTP/2, and DoStream behind an HTTP
\* proxy, whatever the protocol setting.
DowngradedConnSettled ==
    \A r \in held : pc[r] = "handoff" \/ (pc[r] = "done" /\ LeftInError(r))

\* "a race nobody can win ends now instead of at the budget": once both probes
\* have returned the select has a case to take besides the budget.
RaceNeverStuck ==
    \A r \in Requests :
        pc[r] = "racing" /\ "running" \notin {h3Probe[r], h2Probe[r]} => ENABLED RaceResolves(r)

\* A downgrade that comes after the race is over does not leak its connection:
\* as long as it lies in the channel, the race or drainLateALPN will take it.
LateDowngradeOwned == \A r \in late : pc[r] = "racing" \/ r \in draining

\* The types; a proxy that is configured throughout a request is bypassed only
\* when SetProxy swaps it under the request for one that does not carry the wire,
\* or when a stream takes the HTTP/3 transport that could not be built for it;
\* and no host is pinned to HTTP/1.1 by a transient failure
\* (transport.go:953-1040, 1425-1760, stream.go:170-232).
SelectionSound == TypeOK /\ ProxyHonoured /\ PinnedH1Justified

\* The race of the probes comes to a decision, and the connection of a late or
\* early downgrade is used, closed, drained or, where HTTP/2 was asked for its
\* answer alone, handed to the caller in the error; a nil HTTP/3 transport is
\* probed only after a change of settings (transport.go:1760-1930).
RaceSettles ==
    RaceNeverStuck /\ DowngradedConnSettled /\ LateDowngradeOwned /\ NilProbeNeedsSwitch
=============================================================================
