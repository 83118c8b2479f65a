------------------------------ MODULE QUICPool ------------------------------
(***************************************************************************)
(* pool/quic_pool.go: the direct HTTP/3 connections of a client to one     *)
(* host, and the client's requests and proxy switches that use them        *)
(* (client.go doHTTP3, SetUDPProxy, Close).  A manager keeps one pool for  *)
(* the host; the pool's lookups run under its lock and close connections   *)
(* on goroutines of their own.  The client replaces its whole manager when *)
(* its proxy changes.                                                      *)
(***************************************************************************)
EXTENDS Naturals, Sequences, SequencesExt, FiniteSets

CONSTANTS
    QUICConns,     \* connections that can be created
    NoQUICConn,
    QUICRequests,  \* requests of the client
    MaxManagers,   \* bound: managers the client creates
    MaxPools,      \* bound: host pools the managers create
    MaxShutdowns   \* bound: SetPreset, CloseConnections, SetUDPProxy and Close calls

ASSUME QUICConstants ==
    /\ NoQUICConn \notin QUICConns /\ IsFiniteSet(QUICRequests)
    /\ MaxManagers \in Nat \ {0} /\ MaxPools \in Nat \ {0} /\ MaxShutdowns \in Nat

VARIABLES
    manager,       \* c.quicManager: a manager's number, 0 for nil
    swapping,      \* SetUDPProxy holds h3Mu
    managers,      \* managers created so far: closed, and the pool in m.pools (0: none)
    hostPools,     \* p.connections of every pool created so far
    quicConn,      \* the fields of every connection
    closing,       \* connections with a `go conn.Close()` that has not run
    retiring,      \* connections with a `go conn.requestClose()` that has not run
    poolClosing,   \* pools with a `go p.Close()` that has not run
    h3Request,     \* where each request is
    orderedClosed, \* history: connections a shutdown ordered closed
    shutdowns

quicVars == <<manager, swapping, managers, hostPools, quicConn, closing, retiring,
              poolClosing, h3Request, orderedClosed, shutdowns>>

NewConn == [stage |-> "none", inFlight |-> 0, closeRequested |-> FALSE,
            stale |-> "no", stalled |-> FALSE]
IdleRequest == [pc |-> "idle", manager |-> 0, pool |-> 0, conn |-> NoQUICConn, retried |-> FALSE]

QUICInit ==
    /\ manager = 1 /\ swapping = FALSE
    /\ managers = <<[closed |-> FALSE, pool |-> 0]>> /\ hostPools = <<>>
    /\ quicConn = [c \in QUICConns |-> NewConn]
    /\ closing = {} /\ retiring = {} /\ poolClosing = {}
    /\ h3Request = [r \in QUICRequests |-> IdleRequest]
    /\ orderedClosed = {} /\ shutdowns = 0

\* The type invariant.
QUICTypeOK ==
    /\ manager \in 0..Len(managers) /\ swapping \in BOOLEAN
    /\ \A m \in DOMAIN managers :
          managers[m].closed \in BOOLEAN /\ managers[m].pool \in 0..Len(hostPools)
    /\ \A p \in DOMAIN hostPools : ToSet(hostPools[p]) \subseteq QUICConns
    /\ quicConn \in [QUICConns -> [stage : {"none", "open", "closed"},
                                   inFlight : 0..Cardinality(QUICRequests),
                                   closeRequested : BOOLEAN,
                                   stale : {"no", "idle", "age"}, stalled : BOOLEAN]]
    /\ closing \subseteq QUICConns /\ retiring \subseteq QUICConns
    /\ poolClosing \subseteq 1..MaxPools /\ orderedClosed \subseteq QUICConns
    /\ \A r \in QUICRequests :
          /\ h3Request[r].pc \in {"idle", "pool", "look", "create", "have", "flight", "body",
                                  "again", "panic"}
          /\ h3Request[r].manager \in 0..MaxManagers /\ h3Request[r].pool \in 0..MaxPools
          /\ h3Request[r].conn \in QUICConns \cup {NoQUICConn} /\ h3Request[r].retried \in BOOLEAN

poolState == <<managers, hostPools>>
background == <<closing, retiring, poolClosing, orderedClosed, shutdowns>>
clientState == <<manager, swapping>>

MoveRequest(r, record) == h3Request' = [h3Request EXCEPT ![r] = record]
Finish(r) == MoveRequest(r, IdleRequest)

-----------------------------------------------------------------------------
(* Connections.                                                            *)

\* isConnUsable: may be handed out for a new request.
QUICUsable(c) ==
    /\ quicConn[c].stage # "closed" /\ ~quicConn[c].closeRequested
    /\ quicConn[c].stale # "age"
    /\ quicConn[c].inFlight = 0 => quicConn[c].stale # "idle"

\* Mutant of QUICDestroyable: age alone decides (issue #83).
QUICDestroyableByAge(c) ==
    quicConn[c].stage = "closed" \/ quicConn[c].stale # "no"

\* isConnDestroyable: may be closed now; with bodies on it, only past the bound.
QUICDestroyable(c) ==
    \/ quicConn[c].stage = "closed"
    \/ quicConn[c].inFlight > 0 /\ quicConn[c].stalled
    \/ quicConn[c].inFlight = 0 /\ quicConn[c].stale # "no"

\* A use moves LastUsedAt: the connection is idle no longer.
Used(conn) == [conn EXCEPT !.stale = IF @ = "idle" THEN "no" ELSE @, !.stalled = FALSE]

\* QUICConn.RoundTrip counts a request in.
Lent(conn) == [Used(conn) EXCEPT !.inFlight = @ + 1]

CloseNow(conn) == [conn EXCEPT !.stage = IF @ = "none" THEN @ ELSE "closed"]

\* QUICConn.release: the last body of a retired connection closes it.
Released(conn) ==
    LET left == [Used(conn) EXCEPT !.inFlight = @ - 1]
    IN IF left.closeRequested /\ left.inFlight = 0 THEN CloseNow(left) ELSE left

\* requestClose: defer while bodies are open, else Close once the lock is free.
RunRequestClose(c) ==
    /\ c \in retiring
    /\ retiring' = retiring \ {c}
    /\ IF quicConn[c].inFlight > 0
       THEN /\ quicConn' = [quicConn EXCEPT ![c].closeRequested = TRUE]
            /\ UNCHANGED closing
       ELSE closing' = closing \cup {c} /\ UNCHANGED quicConn
    /\ UNCHANGED <<clientState, poolState, poolClosing, orderedClosed, shutdowns, h3Request>>

RunConnClose(c) ==
    /\ c \in closing
    /\ closing' = closing \ {c}
    /\ quicConn' = [quicConn EXCEPT ![c] = CloseNow(@)]
    /\ UNCHANGED <<clientState, poolState, retiring, poolClosing, orderedClosed, shutdowns,
                   h3Request>>

\* Time passes: a connection with nothing on it idles out, or reaches its age;
\* a body makes no progress for abandonedBodyTimeout.
Ages(c) ==
    /\ quicConn[c].stage = "open" /\ quicConn[c].stale # "age"
    /\ \/ quicConn' = [quicConn EXCEPT ![c].stale = "age"]
       \/ /\ quicConn[c].inFlight = 0
          /\ quicConn' = [quicConn EXCEPT ![c].stale = "idle"]
    /\ UNCHANGED <<clientState, poolState, background, h3Request>>

Stalls(c) ==
    /\ quicConn[c].inFlight > 0
    /\ quicConn' = [quicConn EXCEPT ![c].stalled = TRUE]
    /\ UNCHANGED <<clientState, poolState, background, h3Request>>

-----------------------------------------------------------------------------
(* Requests.                                                               *)

\* doHTTP3 takes its snapshot of the client's transports under h3Mu.
Snapshot(r) ==
    /\ h3Request[r].pc = "idle" /\ ~swapping
    /\ MoveRequest(r, [IdleRequest EXCEPT !.pc = IF manager = 0 THEN "idle" ELSE "pool",
                                   !.manager = manager])
    /\ UNCHANGED <<clientState, poolState, quicConn, background>>

\* QUICManager.GetPool: closed, there already, or created.
GetPool(r) ==
    LET m == h3Request[r].manager IN
    /\ h3Request[r].pc = "pool"
    /\ \/ managers[m].closed /\ Finish(r) /\ UNCHANGED poolState
       \/ /\ ~managers[m].closed /\ managers[m].pool # 0
          /\ MoveRequest(r, [h3Request[r] EXCEPT !.pc = "look", !.manager = 0,
                                          !.pool = managers[m].pool])
          /\ UNCHANGED poolState
       \/ /\ ~managers[m].closed /\ managers[m].pool = 0 /\ Len(hostPools) < MaxPools
          /\ hostPools' = Append(hostPools, <<>>)
          /\ managers' = [managers EXCEPT ![m].pool = Len(hostPools) + 1]
          /\ MoveRequest(r, [h3Request[r] EXCEPT !.pc = "look", !.manager = 0,
                                          !.pool = Len(hostPools) + 1])
    /\ UNCHANGED <<clientState, quicConn, background>>

\* The scan of GetConn stops at the first usable connection of the list.
FirstUsable(p, i) ==
    /\ QUICUsable(hostPools[p][i])
    /\ \A j \in 1..(i - 1) : ~QUICUsable(hostPools[p][j])

\* The part of GetConn and CloseIdle that drops what may be closed, retires what
\* may not be used, and keeps the rest tracked: pos lists its places in order.
PruneKept(p, pos) ==
    /\ ToSet(pos) = {i \in DOMAIN hostPools[p] : ~QUICDestroyable(hostPools[p][i])}
    /\ \A i, j \in DOMAIN pos : i < j => pos[i] < pos[j]
PruneClosed(p) == {c \in ToSet(hostPools[p]) : QUICDestroyable(c)}
PruneRetired(p) == {c \in ToSet(hostPools[p]) : ~QUICDestroyable(c) /\ ~QUICUsable(c)}

CloseIdle(p) ==
    /\ \E pos \in SeqOf(DOMAIN hostPools[p], Len(hostPools[p])) :
         /\ PruneKept(p, pos)
         /\ hostPools' = [hostPools EXCEPT ![p] = [i \in DOMAIN pos |-> @[pos[i]]]]
    /\ closing' = closing \cup PruneClosed(p)
    /\ retiring' = retiring \cup PruneRetired(p)

GetConnReuse(r) ==
    LET p == h3Request[r].pool IN
    /\ h3Request[r].pc = "look"
    /\ \E i \in DOMAIN hostPools[p] :
         LET c == hostPools[p][i] IN
         /\ FirstUsable(p, i)
         /\ hostPools' = [hostPools EXCEPT ![p] = Append(RemoveAt(@, i), c)]
         /\ quicConn' = [quicConn EXCEPT ![c] = Used(@)]
         /\ MoveRequest(r, [h3Request[r] EXCEPT !.pc = "have", !.pool = 0, !.conn = c])
    /\ UNCHANGED <<clientState, managers, background>>

GetConnMiss(r) ==
    LET p == h3Request[r].pool IN
    /\ h3Request[r].pc = "look" /\ \A c \in ToSet(hostPools[p]) : ~QUICUsable(c)
    /\ CloseIdle(p)
    /\ MoveRequest(r, [h3Request[r] EXCEPT !.pc = "create"])
    /\ UNCHANGED <<clientState, managers, quicConn, poolClosing, orderedClosed, shutdowns>>

\* createConn resolves the host outside the lock; the dial itself comes with the
\* first request on the connection.
CreateFails(r) ==
    /\ h3Request[r].pc = "create" /\ Finish(r)
    /\ UNCHANGED <<clientState, poolState, quicConn, background>>

CreateConn(r) ==
    LET p == h3Request[r].pool IN
    /\ h3Request[r].pc = "create"
    /\ \E c \in QUICConns :
          /\ quicConn[c].stage = "none"
          /\ quicConn' = [quicConn EXCEPT ![c].stage = "open"]
          /\ hostPools' = [hostPools EXCEPT ![p] = Append(@, c)]
          /\ MoveRequest(r, [h3Request[r] EXCEPT !.pc = "have", !.pool = 0, !.conn = c])
    /\ UNCHANGED <<clientState, managers, background>>

Retired(c) == quicConn[c].stage = "closed" \/ quicConn[c].closeRequested

\* QUICConn.RoundTrip refuses before anything is sent, or counts the request in.
QUICRoundTrip(r) ==
    LET c == h3Request[r].conn IN
    /\ h3Request[r].pc = "have"
    /\ \/ /\ Retired(c) /\ ~h3Request[r].retried
          /\ MoveRequest(r, [h3Request[r] EXCEPT !.pc = "again", !.conn = NoQUICConn, !.retried = TRUE])
          /\ UNCHANGED quicConn
       \/ Retired(c) /\ h3Request[r].retried /\ Finish(r) /\ UNCHANGED quicConn
       \/ /\ ~Retired(c)
          /\ quicConn' = [quicConn EXCEPT ![c] = Lent(@)]
          /\ MoveRequest(r, [h3Request[r] EXCEPT !.pc = "flight", !.retried = FALSE])
    /\ UNCHANGED <<clientState, poolState, background>>

\* The retry after ErrConnRetired reads c.quicManager again, not the snapshot.
Retry(r) ==
    /\ h3Request[r].pc = "again"
    /\ IF manager = 0 THEN MoveRequest(r, [h3Request[r] EXCEPT !.pc = "panic"])
                      ELSE MoveRequest(r, [h3Request[r] EXCEPT !.pc = "pool", !.manager = manager])
    /\ UNCHANGED <<clientState, poolState, quicConn, background>>

\* The headers arrive, and a body with them, or the exchange fails or has no body.
Respond(r) ==
    LET c == h3Request[r].conn IN
    /\ h3Request[r].pc = "flight"
    /\ \/ /\ quicConn[c].stage = "open"
          /\ quicConn' = [quicConn EXCEPT ![c] = Used(@)]
          /\ MoveRequest(r, [h3Request[r] EXCEPT !.pc = "body"])
       \/ quicConn' = [quicConn EXCEPT ![c] = Released(@)] /\ Finish(r)
    /\ UNCHANGED <<clientState, poolState, background>>

\* quicConnBodyGuard: reading makes progress; the end, an error or Close releases once.
ReadBody(r) ==
    /\ h3Request[r].pc = "body" /\ quicConn[h3Request[r].conn].stage = "open"
    /\ quicConn' = [quicConn EXCEPT ![h3Request[r].conn].stalled = FALSE]
    /\ UNCHANGED <<clientState, poolState, background, h3Request>>

EndBody(r) ==
    /\ h3Request[r].pc = "body"
    /\ quicConn' = [quicConn EXCEPT ![h3Request[r].conn] = Released(@)]
    /\ Finish(r)
    /\ UNCHANGED <<clientState, poolState, background>>

-----------------------------------------------------------------------------
(* Managers.                                                               *)

\* What QUICHostPool.Close does to the connections of the pool.
ShutPool(p) ==
    /\ hostPools' = [hostPools EXCEPT ![p] = <<>>]
    /\ closing' = closing \cup ToSet(hostPools[p])
    /\ orderedClosed' = orderedClosed \cup ToSet(hostPools[p])

\* cleanupLoop: CloseIdle on the pool, and the pool goes when it is empty.
QUICCleanup(m) ==
    LET p == managers[m].pool IN
    /\ ~managers[m].closed /\ p # 0
    /\ CloseIdle(p)
    /\ managers' = [managers EXCEPT ![m].pool = IF ToSet(hostPools[p]) = PruneClosed(p) THEN 0 ELSE @]
    /\ UNCHANGED <<clientState, quicConn, poolClosing, orderedClosed, shutdowns, h3Request>>

\* SetPreset empties m.pools and closes the old pools on goroutines.
QUICSetPreset ==
    /\ manager # 0 /\ shutdowns < MaxShutdowns /\ managers[manager].pool # 0
    /\ poolClosing' = poolClosing \cup {managers[manager].pool}
    /\ managers' = [managers EXCEPT ![manager].pool = 0]
    /\ shutdowns' = shutdowns + 1
    /\ UNCHANGED <<clientState, hostPools, quicConn, closing, retiring, orderedClosed, h3Request>>

RunPoolClose(p) ==
    /\ p \in poolClosing
    /\ poolClosing' = poolClosing \ {p}
    /\ ShutPool(p)
    /\ UNCHANGED <<clientState, managers, quicConn, retiring, shutdowns, h3Request>>

\* CloseQUICConnections: the pool stays, its connections go.
CloseConnections ==
    /\ manager # 0 /\ shutdowns < MaxShutdowns /\ managers[manager].pool # 0
    /\ shutdowns' = shutdowns + 1
    /\ ShutPool(managers[manager].pool)
    /\ UNCHANGED <<clientState, managers, quicConn, retiring, poolClosing, h3Request>>

\* QUICManager.Close.
CloseManager(m) ==
    /\ managers' = [managers EXCEPT ![m] = [closed |-> TRUE, pool |-> 0]]
    /\ IF managers[m].pool = 0 THEN UNCHANGED <<hostPools, closing, orderedClosed>>
                               ELSE ShutPool(managers[m].pool)

\* SetUDPProxy under h3Mu: close and nil out, then build for the new proxy.
SetUDPProxyBegin ==
    /\ ~swapping /\ Len(managers) < MaxManagers /\ shutdowns < MaxShutdowns
    /\ swapping' = TRUE /\ manager' = 0 /\ shutdowns' = shutdowns + 1
    /\ IF manager = 0 THEN UNCHANGED <<poolState, closing, orderedClosed>> ELSE CloseManager(manager)
    /\ UNCHANGED <<quicConn, retiring, poolClosing, h3Request>>

SetUDPProxyEnd ==
    /\ swapping
    /\ swapping' = FALSE
    /\ \/ /\ manager' = Len(managers) + 1
          /\ managers' = Append(managers, [closed |-> FALSE, pool |-> 0])
       \/ UNCHANGED <<manager, managers>>
    /\ UNCHANGED <<hostPools, quicConn, background, h3Request>>

\* Client.Close reads the field without h3Mu.
ClientClose ==
    /\ manager # 0 /\ ~managers[manager].closed /\ shutdowns < MaxShutdowns
    /\ CloseManager(manager) /\ shutdowns' = shutdowns + 1
    /\ UNCHANGED <<clientState, quicConn, retiring, poolClosing, h3Request>>

QUICNext ==
    \/ \E c \in QUICConns : RunRequestClose(c) \/ RunConnClose(c) \/ Ages(c) \/ Stalls(c)
    \/ \E r \in QUICRequests :
          \/ Snapshot(r) \/ GetPool(r) \/ GetConnReuse(r) \/ GetConnMiss(r) \/ CreateFails(r)
          \/ CreateConn(r) \/ QUICRoundTrip(r) \/ Retry(r) \/ Respond(r) \/ ReadBody(r) \/ EndBody(r)
    \/ \E m \in DOMAIN managers : QUICCleanup(m)
    \/ \E p \in DOMAIN hostPools : RunPoolClose(p)
    \/ QUICSetPreset \/ CloseConnections \/ SetUDPProxyBegin \/ SetUDPProxyEnd \/ ClientClose

QUICSpec == QUICInit /\ [][QUICNext]_quicVars

-----------------------------------------------------------------------------
(* Properties.                                                             *)

\* How a connection's fields and the goroutines under way read as one stage.
LeaseStage(c) ==
    CASE quicConn[c].stage = "none" -> "none"
      [] quicConn[c].stage = "closed" -> "closed"
      [] quicConn[c].stage = "open" /\ c \in closing -> "condemned"
      [] quicConn[c].stage = "open" /\ c \notin closing /\ quicConn[c].closeRequested -> "retired"
      [] OTHER -> "open"

Lease == INSTANCE ConnLease WITH
    LeaseConns <- QUICConns,
    stage <- [c \in QUICConns |-> LeaseStage(c)],
    leases <- [c \in QUICConns |-> quicConn[c].inFlight],
    ordered <- [c \in QUICConns |-> c \in orderedClosed],
    abandoned <- [c \in QUICConns |-> quicConn[c].stalled]

\* The pool keeps the lease promise: a connection with response bodies on it is
\* condemned only by an ordered shutdown or past the abandoned-body bound, a
\* retired one is lent no more and ends with its last body, a closed one never
\* comes back (quic_pool.go:58-150, 345-476, 693-732; issue #83).
QUICKeepsLease == Lease!LeaseSpec
=============================================================================
