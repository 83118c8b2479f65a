------------------------------ MODULE DialRace ------------------------------
(***************************************************************************)
(* One createConn of the HTTP/1.1, HTTP/2 and HTTP/3 transports, up to the *)
(* connection it hands back: retryDial around either the staggered race of *)
(* transport/tcpip.go over the addresses of the target or, with a proxy,   *)
(* the walk over the proxy's addresses and the conversation with it, the   *)
(* SOCKS5 one of proxy/socks5_tcp.go or an HTTP CONNECT; then the TLS      *)
(* handshake.  Dials run in goroutines of their own and may connect after  *)
(* the race is decided.                                                    *)
(***************************************************************************)
EXTENDS Naturals, FiniteSets

CONSTANTS
    Addresses,      \* how many addresses the name resolves to
    ProxyAttempts   \* proxyDialAttempts

ASSUME DialConstants == Addresses \in Nat \ {0} /\ ProxyAttempts \in Nat \ {0}

VARIABLES
    stage,          \* where createConn stands
    proxied,        \* the transport has a proxy
    attempt,        \* retryDial's attempt
    launched,       \* addresses dialled in this attempt
    timerSet,       \* the attempt-delay timer runs
    candidate,      \* per attempt and address: the dial and its socket
    drains,         \* results the drain goroutine still waits for
    parentDone,     \* the caller's context has ended
    returned        \* the socket handed to the caller, as a set

raceVars == <<stage, proxied, attempt, launched, timerSet, candidate, drains, parentDone, returned>>

Sockets == (1..ProxyAttempts) \X (1..Addresses)
Stages == {"idle", "racing", "address", "proxy", "password", "connect", "tls", "backoff", "over"}
\* "up" and "down" are results in the channel, "held" a socket in createConn's hand.
DialStates == {"none", "dialling", "up", "down", "held", "closed"}

Attempts == IF proxied THEN ProxyAttempts ELSE 1
Current == <<attempt, launched>>
Pending == {k \in Sockets : k[1] = attempt /\ candidate[k] \in {"dialling", "up", "down"}}
OpenSockets == {k \in Sockets : candidate[k] \in {"up", "held"}}

RaceInit ==
    /\ stage = "idle" /\ proxied = FALSE /\ attempt = 1 /\ launched = 0
    /\ timerSet = FALSE /\ drains = 0 /\ parentDone = FALSE /\ returned = {}
    /\ candidate = [k \in Sockets |-> "none"]

\* The type invariant.
RaceTypeOK ==
    /\ stage \in Stages /\ proxied \in BOOLEAN /\ timerSet \in BOOLEAN /\ parentDone \in BOOLEAN
    /\ attempt \in 1..ProxyAttempts /\ launched \in 0..Addresses /\ drains \in 0..Addresses
    /\ candidate \in [Sockets -> DialStates] /\ returned \subseteq Sockets

\* The first dial of an attempt; retryDial gives up at once when the caller has.
StartAttempt(n, p) ==
    IF parentDone
    THEN /\ stage' = "over" /\ UNCHANGED <<attempt, launched, timerSet, candidate>>
    ELSE /\ stage' = IF p THEN "address" ELSE "racing"
         /\ attempt' = n /\ launched' = 1 /\ timerSet' = ~p
         /\ candidate' = [candidate EXCEPT ![<<n, 1>>] = "dialling"]

CreateTCPConn(p) ==
    /\ stage = "idle"
    /\ proxied' = p
    /\ StartAttempt(1, p)
    /\ UNCHANGED <<drains, parentDone, returned>>

\* A dial goroutine ends; its result goes into the buffered channel.
DialReturns(k) ==
    /\ candidate[k] = "dialling"
    /\ \E ending \in {"up", "down"} : candidate' = [candidate EXCEPT ![k] = ending]
    /\ UNCHANGED <<stage, proxied, attempt, launched, timerSet, drains, parentDone, returned>>

\* An ALPN downgrade carries a live connection and is not retried.
Retried(ending) == ending # "alpn"

\* An attempt has returned an error: retryDial pauses before the next or gives up.
AttemptEnds(ending) ==
    stage' = IF Retried(ending) /\ attempt < Attempts THEN "backoff" ELSE "over"

\* launchNext: the next address, in `states` the dials as they are by then.
LaunchNext(states) ==
    /\ launched' = launched + 1
    /\ candidate' = [states EXCEPT ![<<attempt, launched + 1>>] = "dialling"]

TimerFires ==
    /\ stage = "racing" /\ timerSet
    /\ IF launched < Addresses
       THEN LaunchNext(candidate) /\ timerSet' = (launched + 1 < Addresses)
       ELSE timerSet' = FALSE /\ UNCHANGED <<launched, candidate>>
    /\ UNCHANGED <<stage, proxied, attempt, drains, parentDone, returned>>

\* The race loop reads a connection: it wins and the others are left to the drain.
TakeWinner(k) ==
    /\ stage = "racing" /\ k[1] = attempt /\ candidate[k] = "up"
    /\ candidate' = [candidate EXCEPT ![k] = "held"]
    /\ drains' = Cardinality(Pending) - 1
    /\ stage' = "tls" /\ timerSet' = FALSE
    /\ UNCHANGED <<proxied, attempt, launched, parentDone, returned>>

\* The race loop reads an error: the next address at once, or the end of the race.
TakeError(k) ==
    /\ stage = "racing" /\ k[1] = attempt /\ candidate[k] = "down"
    /\ LET read == [candidate EXCEPT ![k] = "closed"]
       IN \/ /\ launched < Addresses
             /\ LaunchNext(read)
             /\ timerSet' = (timerSet \/ launched + 1 < Addresses)
             /\ UNCHANGED stage
          \/ /\ launched = Addresses
             /\ candidate' = read
             /\ IF Pending = {k} THEN AttemptEnds("error") ELSE UNCHANGED stage
             /\ UNCHANGED <<launched, timerSet>>
    /\ UNCHANGED <<proxied, attempt, drains, parentDone, returned>>

\* Mutant of LeftToDrain: the parent's cancellation returns without a drain.
LeftToDrainNone == 0

\* What a cancelled race leaves to its drain goroutine.
LeftToDrain == Cardinality(Pending)

\* The context of the attempt ends, with the caller's or at its own timeout.
RaceCancelled ==
    /\ stage = "racing"
    /\ drains' = LeftToDrain
    /\ AttemptEnds("error") /\ timerSet' = FALSE
    /\ UNCHANGED <<proxied, attempt, launched, candidate, parentDone, returned>>

\* The drain goroutine reads a late result and closes a connection in it.
DrainOne(k) ==
    /\ stage # "racing" /\ drains > 0
    /\ k[1] = attempt /\ candidate[k] \in {"up", "down"}
    /\ candidate' = [candidate EXCEPT ![k] = "closed"]
    /\ drains' = drains - 1
    /\ UNCHANGED <<stage, proxied, attempt, launched, timerSet, parentDone, returned>>

\* dialProxyAddrs, dialTCPFirstReachable: one address after the other, IPv4 first.
ProxyAddress ==
    /\ stage = "address" /\ candidate[Current] \in {"up", "down"}
    /\ IF candidate[Current] = "up"
       THEN /\ candidate' = [candidate EXCEPT ![Current] = "held"]
            /\ stage' = "proxy" /\ UNCHANGED launched
       ELSE IF launched < Addresses
            THEN LaunchNext([candidate EXCEPT ![Current] = "closed"]) /\ UNCHANGED stage
            ELSE /\ candidate' = [candidate EXCEPT ![Current] = "closed"]
                 /\ AttemptEnds("error") /\ UNCHANGED launched
    /\ UNCHANGED <<proxied, attempt, timerSet, drains, parentDone, returned>>

\* An exchange with the proxy, under the handshake deadline or that of the dial:
\* a failure closes the connection, whichever exchange it is.
ProxyStep(from, to) ==
    /\ stage = from
    /\ \/ stage' = to /\ UNCHANGED candidate
       \/ /\ candidate' = [k \in Sockets |->
                             IF candidate[k] = "held" THEN "closed" ELSE candidate[k]]
          /\ AttemptEnds("error")
    /\ UNCHANGED <<proxied, attempt, launched, timerSet, drains, parentDone, returned>>

\* The proxy picks no authentication, the password method or one it was not offered.
SocksGreeting == \E method \in {"password", "connect"} : ProxyStep("proxy", method)

SocksPasswordAuth == ProxyStep("password", "connect")

SocksConnect == ProxyStep("connect", "tls")

\* An HTTP proxy: CONNECT and its answer, 200 or not.  The speculative connection
\* leaves the exchange to the TLS handshake's first write and read.
HTTPConnect == ProxyStep("proxy", "tls")

\* The TLS handshake on the connection: it is handed back, as the connection or
\* inside the ALPN error, or closed.
TLSHandshake(ending) ==
    /\ stage = "tls"
    /\ IF ending = "error"
       THEN /\ candidate' = [k \in Sockets |->
                               IF candidate[k] = "held" THEN "closed" ELSE candidate[k]]
            /\ UNCHANGED returned
       ELSE /\ returned' = IF ending = "ok" \/ ~Retried(ending) \/ attempt = Attempts
                           THEN {k \in Sockets : candidate[k] = "held"} ELSE {}
            /\ UNCHANGED candidate
    /\ IF ending = "ok" THEN stage' = "over" ELSE AttemptEnds(ending)
    /\ UNCHANGED <<proxied, attempt, launched, timerSet, drains, parentDone>>

\* proxyDialBackoff, cut short by the caller's context.
Backoff ==
    /\ stage = "backoff"
    /\ StartAttempt(attempt + 1, proxied)
    /\ UNCHANGED <<proxied, drains, parentDone, returned>>

CallerLeaves ==
    /\ stage # "idle" /\ ~parentDone
    /\ parentDone' = TRUE
    /\ UNCHANGED <<stage, proxied, attempt, launched, timerSet, candidate, drains, returned>>

\* The steps createConn itself takes.
CreateConnStep ==
    \/ TimerFires \/ RaceCancelled \/ ProxyAddress \/ Backoff
    \/ \E k \in Sockets : TakeWinner(k) \/ TakeError(k)
    \/ SocksGreeting \/ SocksPasswordAuth \/ SocksConnect \/ HTTPConnect
    \/ \E ending \in {"ok", "error", "alpn"} : TLSHandshake(ending)

RaceNext ==
    \/ \E p \in BOOLEAN : CreateTCPConn(p)
    \/ \E k \in Sockets : DialReturns(k) \/ DrainOne(k)
    \/ CreateConnStep
    \/ CallerLeaves

\* Dials end at the dialer's timeout, the goroutines are scheduled and every wait
\* of createConn has a deadline.
RaceFairness ==
    /\ WF_raceVars(CreateConnStep)
    /\ \A k \in Sockets : WF_raceVars(DialReturns(k)) /\ WF_raceVars(DrainOne(k))

RaceSpec == RaceInit /\ [][RaceNext]_raceVars /\ RaceFairness

-----------------------------------------------------------------------------
(* Properties.                                                             *)

\* Every createConn ends, and in the end the only socket it leaves open is the
\* one its caller was given: a dial that connects after the race is won or
\* cancelled, a proxy that stops half way through its handshake and a retry all
\* close theirs (tcpip.go:93-242, socks5_tcp.go:75-131).
DialSettles == (stage # "idle") ~> [](stage = "over" /\ OpenSockets \subseteq returned)
=============================================================================
