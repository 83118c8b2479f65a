---------------------------- MODULE MasqueTunnel ----------------------------
(***************************************************************************)
(* The CONNECT-UDP tunnel of proxy/masque.go, shared by all HTTP/3 dials   *)
(* of a transport behind a MASQUE proxy (dialQUICWithMASQUE of             *)
(* transport/http3_transport.go).  Establish holds c.mu from its first     *)
(* test to its return; Reset (transport Refresh) and Close take the same   *)
(* mutex, WriteTo and ReadFrom only for the tests at their start.          *)
(***************************************************************************)
EXTENDS Naturals, FiniteSets, Sequences

CONSTANTS
    TunnelDialers,      \* inner QUIC dials
    TunnelTargets,      \* host:port of an inner dial
    ProxyAddrs,         \* how many addresses the proxy's name has
    MaxTunnelSockets,   \* bound on UDP sockets opened in a behaviour
    DatagramCap,        \* cap of datagramCh
    MaxResets           \* bound on calls of Reset

ASSUME TunnelConstants ==
    /\ ProxyAddrs \in Nat \ {0} /\ MaxTunnelSockets \in Nat /\ DatagramCap \in Nat
    /\ MaxResets \in Nat

VARIABLES
    tunnel,         \* the fields of the MASQUEConn
    tunnelSocket,   \* per socket: its state and the target of its CONNECT-UDP
    receiver,       \* sockets a receiver goroutine reads from
    datagramCh,     \* queued datagrams, each named by the socket it came through
    tunnelDial,     \* per dialer: where it stands
    resets

tunnelVars == <<tunnel, tunnelSocket, receiver, datagramCh, tunnelDial, resets>>

\* Socket 0 is none.
TunnelSockets == 1..MaxTunnelSockets
DialStages == {"idle", "proxy", "settings", "offered", "connectUDP", "resolve", "inner", "write", "read", "select", "failed"}

TunnelInit ==
    /\ tunnel = [established |-> FALSE, closed |-> FALSE, target |-> "", udpConn |-> 0,
                 ctx |-> 0, locked |-> FALSE]
    /\ tunnelSocket = [s \in TunnelSockets |-> [state |-> "none", bound |-> ""]]
    /\ receiver = {} /\ datagramCh = <<>> /\ resets = 0
    /\ tunnelDial = [d \in TunnelDialers |->
           [at |-> "idle", target |-> "", tried |-> 0, sock |-> 0, granted |-> 0]]

\* The type invariant.
TunnelTypeOK ==
    /\ tunnel \in [established : BOOLEAN, closed : BOOLEAN, target : TunnelTargets \cup {""},
                   udpConn : 0..MaxTunnelSockets, ctx : 0..MaxTunnelSockets, locked : BOOLEAN]
    /\ tunnelSocket \in [TunnelSockets ->
           [state : {"none", "open", "ended", "closed"}, bound : TunnelTargets \cup {""}]]
    /\ receiver \subseteq TunnelSockets /\ resets \in 0..MaxResets
    /\ datagramCh \in Seq(TunnelSockets) /\ Len(datagramCh) <= DatagramCap
    /\ tunnelDial \in [TunnelDialers ->
           [at : DialStages, target : TunnelTargets \cup {""}, tried : 0..ProxyAddrs,
            sock : 0..MaxTunnelSockets, granted : 0..MaxTunnelSockets]]

-----------------------------------------------------------------------------
(* Establish.                                                               *)

At(d, stage) == tunnelDial' = [tunnelDial EXCEPT ![d].at = stage]

CloseSocket(s) == tunnelSocket' = [tunnelSocket EXCEPT ![s].state = "closed"]

\* Mutant of BoundElsewhere: an established tunnel is reused whatever its target.
BoundElsewhereNever(t) == FALSE

\* The tunnel's target is part of its CONNECT-UDP path and cannot change.
BoundElsewhere(t) == tunnel.target # t

\* An established tunnel for the same target is shared, for another one refused.
Establish(d, t) ==
    /\ tunnelDial[d].at = "idle" /\ ~tunnel.locked
    /\ \/ /\ tunnel.established
          /\ tunnelDial' = [tunnelDial EXCEPT ![d].target = t,
                 ![d].at = IF BoundElsewhere(t) THEN "failed" ELSE "resolve",
                 ![d].granted = IF BoundElsewhere(t) THEN 0 ELSE tunnel.udpConn]
          /\ UNCHANGED tunnel
       \/ /\ ~tunnel.established /\ tunnel.closed
          /\ At(d, "failed")
          /\ UNCHANGED tunnel
       \/ /\ ~tunnel.established /\ ~tunnel.closed
          /\ tunnel' = [tunnel EXCEPT !.target = t, !.locked = TRUE]
          /\ tunnelDial' = [tunnelDial EXCEPT ![d].target = t, ![d].at = "proxy", ![d].tried = 0]
    /\ UNCHANGED <<tunnelSocket, receiver, datagramCh, resets>>

\* The next address of the proxy, on a socket of its own; a failed dial closes it.
DialAddress(d, s) ==
    /\ tunnelDial[d].at = "proxy" /\ tunnelDial[d].tried < ProxyAddrs
    /\ tunnelSocket[s].state = "none" /\ \A o \in TunnelSockets : o < s => tunnelSocket[o].state # "none"
    /\ \/ /\ CloseSocket(s)
          /\ tunnelDial' = [tunnelDial EXCEPT ![d].tried = @ + 1]
       \/ /\ tunnelSocket' = [tunnelSocket EXCEPT ![s].state = "open"]
          /\ tunnelDial' = [tunnelDial EXCEPT ![d].at = "settings", ![d].sock = s]
    /\ UNCHANGED <<tunnel, receiver, datagramCh, resets>>

\* The deferred cleanup of an Establish that returns an error.
EstablishFails(d) ==
    /\ \/ tunnelDial[d].at = "proxy"        \* name not resolved, or no address left
       \/ tunnelDial[d].at = "settings"     \* ctx done, connection ended, settings lack a feature
       \/ tunnelDial[d].at = "offered"      \* no request stream
       \/ tunnelDial[d].at = "connectUDP"   \* stream or status error, or ctx done
    /\ tunnelDial' = [tunnelDial EXCEPT ![d].at = "failed", ![d].sock = 0]
    /\ tunnelSocket' = [s \in TunnelSockets |->
           IF s = tunnelDial[d].sock THEN [tunnelSocket[s] EXCEPT !.state = "closed"] ELSE tunnelSocket[s]]
    /\ tunnel' = [tunnel EXCEPT !.locked = FALSE]
    /\ UNCHANGED <<receiver, datagramCh, resets>>

\* The proxy's SETTINGS offer extended CONNECT and datagrams.
ReceivedSettings(d) ==
    /\ tunnelDial[d].at = "settings" /\ At(d, "offered")
    /\ UNCHANGED <<tunnel, tunnelSocket, receiver, datagramCh, resets>>

\* sendConnectUDP names the target in the path of the request.
SendConnectUDP(d) ==
    /\ tunnelDial[d].at = "offered"
    /\ tunnelSocket' = [tunnelSocket EXCEPT ![tunnelDial[d].sock].bound = tunnel.target]
    /\ At(d, "connectUDP")
    /\ UNCHANGED <<tunnel, receiver, datagramCh, resets>>

\* A 2xx answer: the receiver starts on its own context and the tunnel owns the socket.
Established(d) ==
    /\ tunnelDial[d].at = "connectUDP"
    /\ LET s == tunnelDial[d].sock
       IN  /\ tunnel' = [tunnel EXCEPT !.established = TRUE, !.udpConn = s, !.ctx = s, !.locked = FALSE]
           /\ receiver' = receiver \cup {s}
           /\ tunnelDial' = [tunnelDial EXCEPT ![d].at = "resolve", ![d].sock = 0, ![d].granted = s]
    /\ UNCHANGED <<tunnelSocket, datagramCh, resets>>

-----------------------------------------------------------------------------
(* The inner connection.                                                    *)

\* ResolveOne fails, or SetResolvedTarget and quic.DialEarly over the tunnel.
DialInner(d) ==
    /\ tunnelDial[d].at = "resolve"
    /\ \E next \in {"inner", "failed"} : At(d, next)
    /\ UNCHANGED <<tunnel, tunnelSocket, receiver, datagramCh, resets>>

\* WriteTo and ReadFrom of the inner connection test the tunnel and take the
\* stream they go on with.
UseTunnel(d, op) ==
    /\ tunnelDial[d].at = "inner" /\ ~tunnel.locked
    /\ tunnelDial' = [tunnelDial EXCEPT
           ![d].at = IF tunnel.closed \/ ~tunnel.established THEN "failed" ELSE op,
           ![d].sock = IF tunnel.closed \/ op = "read" THEN 0 ELSE tunnel.udpConn]
    /\ UNCHANGED <<tunnel, tunnelSocket, receiver, datagramCh, resets>>

\* SendDatagram on the stream taken, which may be gone by now.
WriteTo(d) ==
    /\ tunnelDial[d].at = "write"
    /\ tunnelDial' = [tunnelDial EXCEPT ![d].sock = 0,
           ![d].at = IF tunnelSocket[tunnelDial[d].sock].state = "open" THEN "inner" ELSE "failed"]
    /\ UNCHANGED <<tunnel, tunnelSocket, receiver, datagramCh, resets>>

\* The select of ReadFrom evaluates c.ctx without the mutex.
SelectRead(d) ==
    /\ tunnelDial[d].at = "read"
    /\ tunnelDial' = [tunnelDial EXCEPT ![d].at = "select", ![d].sock = tunnel.ctx]
    /\ UNCHANGED <<tunnel, tunnelSocket, receiver, datagramCh, resets>>

\* A queued datagram, the cancelled context of the tunnel, or the read deadline.
ReadFrom(d) ==
    /\ tunnelDial[d].at = "select"
    /\ \/ /\ datagramCh # <<>>
          /\ datagramCh' = Tail(datagramCh)
          /\ tunnelDial' = [tunnelDial EXCEPT ![d].at = "inner", ![d].sock = 0]
       \/ /\ tunnelSocket[tunnelDial[d].sock].state = "closed"
          /\ tunnelDial' = [tunnelDial EXCEPT ![d].at = "failed", ![d].sock = 0]
          /\ UNCHANGED datagramCh
       \/ /\ tunnelDial' = [tunnelDial EXCEPT ![d].at = "inner", ![d].sock = 0]
          /\ UNCHANGED datagramCh
    /\ UNCHANGED <<tunnel, tunnelSocket, receiver, resets>>

\* receiveDatagrams: a datagram is queued, or dropped when the channel is full.
ReceiveDatagram(s) ==
    /\ s \in receiver /\ tunnelSocket[s].state = "open"
    /\ datagramCh' = IF Len(datagramCh) < DatagramCap THEN Append(datagramCh, s) ELSE datagramCh
    /\ UNCHANGED <<tunnel, tunnelSocket, receiver, tunnelDial, resets>>

ReceiverExits(s) ==
    /\ s \in receiver /\ tunnelSocket[s].state # "open"
    /\ receiver' = receiver \ {s}
    /\ UNCHANGED <<tunnel, tunnelSocket, datagramCh, tunnelDial, resets>>

\* The proxy ends the outer connection: the socket stays open until closed here.
ProxyEnds(s) ==
    /\ tunnelSocket[s].state = "open"
    /\ tunnelSocket' = [tunnelSocket EXCEPT ![s].state = "ended"]
    /\ UNCHANGED <<tunnel, receiver, datagramCh, tunnelDial, resets>>

-----------------------------------------------------------------------------
(* Close and Reset.                                                         *)

\* cancel, and the stream, connection, quic.Transport and socket of the tunnel.
TearDown == [s \in TunnelSockets |->
    IF s = tunnel.udpConn THEN [tunnelSocket[s] EXCEPT !.state = "closed"] ELSE tunnelSocket[s]]

Reset ==
    /\ ~tunnel.locked /\ resets < MaxResets
    /\ resets' = resets + 1
    /\ IF tunnel.closed
       THEN UNCHANGED <<tunnel, tunnelSocket>>
       ELSE /\ tunnelSocket' = TearDown
            /\ tunnel' = [tunnel EXCEPT !.udpConn = 0, !.established = FALSE]
    /\ UNCHANGED <<receiver, datagramCh, tunnelDial>>

\* established stays set: a later Establish for the same target returns nil.
CloseTunnelConn ==
    /\ ~tunnel.locked /\ ~tunnel.closed
    /\ tunnelSocket' = TearDown
    /\ tunnel' = [tunnel EXCEPT !.closed = TRUE, !.udpConn = 0]
    /\ UNCHANGED <<receiver, datagramCh, tunnelDial, resets>>

TunnelNext ==
    \/ \E d \in TunnelDialers :
           \/ \E t \in TunnelTargets : Establish(d, t)
           \/ \E s \in TunnelSockets : DialAddress(d, s)
           \/ EstablishFails(d) \/ ReceivedSettings(d) \/ SendConnectUDP(d) \/ Established(d)
           \/ DialInner(d) \/ WriteTo(d) \/ SelectRead(d) \/ ReadFrom(d)
           \/ \E op \in {"write", "read"} : UseTunnel(d, op)
    \/ \E s \in TunnelSockets : ReceiveDatagram(s) \/ ReceiverExits(s) \/ ProxyEnds(s)
    \/ Reset \/ CloseTunnelConn

TunnelSpec == TunnelInit /\ [][TunnelNext]_tunnelVars

-----------------------------------------------------------------------------
(* Properties.                                                              *)

\* quic-go closes neither the socket nor its read goroutine ("otherwise the
\* socket + its read goroutine leak on every Close/Reset", masque.go:42-50): a
\* socket that is not closed belongs to the tunnel or to the Establish that
\* runs, and a dialer that Establish let through holds a tunnel whose
\* CONNECT-UDP named its own target (masque.go:134-143).
TunnelOwned ==
    /\ \A s \in TunnelSockets : tunnelSocket[s].state \in {"open", "ended"} =>
           s = tunnel.udpConn \/ \E d \in TunnelDialers :
               tunnelDial[d].sock = s /\ tunnelDial[d].at \in {"settings", "offered", "connectUDP"}
    /\ \A d \in TunnelDialers : tunnelDial[d].granted # 0 =>
           tunnelSocket[tunnelDial[d].granted].bound = tunnelDial[d].target
=============================================================================
