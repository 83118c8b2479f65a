------------------------------ MODULE HostPool ------------------------------
(***************************************************************************)
(* The connection pools of package pool, Manager, HostPool and Conn of     *)
(* pool.go, as client.doHTTP2 uses them; the QUIC pools are QUICPool.  A   *)
(* manager maps each pool key to a HostPool; a HostPool holds any number   *)
(* of connections; a caller asks the manager for the pool, the pool for a  *)
(* connection, and sends on it, each under a lock of its own, so that the  *)
(* pool may have left the manager, and the connection the pool, before the *)
(* caller gets there.                                                      *)
(*                                                                         *)
(* A step is one critical section of Manager.mu, HostPool.mu or Conn.mu.   *)
(* The slice of connections is a set: its order decides only which usable  *)
(* connection GetConn hands out, and here that choice is free.             *)
(***************************************************************************)
EXTENDS Integers, FiniteSets

CONSTANTS
    Requests,     \* callers; each sends one request
    Conns,        \* identities of the connections a run may open
    Pools,        \* identities of the HostPool objects a run may allocate
    Keys,         \* net.JoinHostPort(connectHost, port)
    KeyOf,        \* the pool key each caller addresses
    NoConn,
    NoPool,
    MaxConns,     \* maxConnsPerHost; 0 means no limit
    Profiles,     \* fingerprint presets
    Proxies,      \* proxy URLs
    Expirations,  \* which timing facts come about: "age", "idle", "stall"
    Operations    \* which of the manager's operations are called

ASSUME ConstantsAssumption ==
    /\ IsFiniteSet(Requests)
    /\ NoConn \notin Conns
    /\ NoPool \notin Pools
    /\ KeyOf \in [Requests -> Keys]
    /\ MaxConns \in Nat
    /\ Profiles # {} /\ Proxies # {}
    /\ Expirations \subseteq {"age", "idle", "stall"}
    /\ Operations \subseteq {"cleanup", "SetPreset", "SetProxy", "CloseAllPools", "Close"}

VARIABLES
    \* Manager
    closed, pools, preset, proxyURL,
    setProxy,        \* SetProxy calls between their two critical sections
    \* HostPool
    allocated,       \* the HostPool objects that exist
    builtWith,       \* the preset and the proxy a HostPool was built with
    connections,
    \* Conn
    cstate,          \* "none" not dialled, "open", "closed"
    inFlight,
    closeRequested,  \* the connections whose closeRequested is set
    saturated,       \* the connections whose CanTakeNewRequest() is false
    aged, idle, stalled,
                     \* older than maxConnAge, not used for maxIdleTime, no
                     \* body progress for abandonedBodyTimeout
    \* goroutines started with "go"
    requesting,      \* pending conn.requestClose()
    closing,         \* pending conn.Close(), each with why it was started
    poolClosing,     \* pending p.Close()
    \* callers
    pc, rpool, rconn,
    rejectedBy       \* the connection whose RoundTrip returned ErrConnRetired

managerVars == <<closed, pools, preset, proxyURL, setProxy>>
poolVars    == <<allocated, builtWith, connections>>
timeVars    == <<aged, idle, stalled>>
connVars    == <<cstate, inFlight, closeRequested, saturated, timeVars>>
goVars      == <<requesting, closing, poolClosing>>
callVars    == <<pc, rpool, rconn, rejectedBy>>
vars == <<managerVars, poolVars, connVars, goVars, callVars>>

-----------------------------------------------------------------------------
Reasons == {"evict", "abandoned", "forced"}

Builds == [preset : Profiles, proxyURL : Proxies]

\* The type invariant; inFlight never goes below zero, so no body releases its
\* connection twice.
TypeOK ==
    /\ closed \in BOOLEAN
    /\ pools \in [Keys -> Pools \cup {NoPool}]
    /\ preset \in Profiles /\ proxyURL \in Proxies
    /\ setProxy \in SUBSET Proxies
    /\ allocated \in SUBSET Pools
    /\ builtWith \in [Pools -> Builds]
    /\ connections \in [Pools -> SUBSET Conns]
    /\ cstate \in [Conns -> {"none", "open", "closed"}]
    /\ inFlight \in [Conns -> Nat]
    /\ closeRequested \in SUBSET Conns /\ saturated \in SUBSET Conns
    /\ aged \in SUBSET Conns /\ idle \in SUBSET Conns /\ stalled \in SUBSET Conns
    /\ requesting \in SUBSET Conns
    /\ closing \in SUBSET [conn : Conns, why : Reasons]
    /\ poolClosing \in SUBSET Pools
    /\ pc \in [Requests -> {"init", "retry", "scan", "sweep", "mark", "create", "append",
                            "first", "send", "sent", "body", "abandoned", "done"}]
    /\ rpool \in [Requests -> Pools \cup {NoPool}]
    /\ rconn \in [Requests -> Conns \cup {NoConn}]
    /\ rejectedBy \in [Requests -> Conns \cup {NoConn}]

Init ==
    /\ closed = FALSE
    /\ pools = [k \in Keys |-> NoPool]
    /\ preset \in Profiles /\ proxyURL \in Proxies
    /\ setProxy = {}
    /\ allocated = {}
    /\ builtWith = [p \in Pools |-> [preset |-> preset, proxyURL |-> proxyURL]]
    /\ connections = [p \in Pools |-> {}]
    /\ cstate = [c \in Conns |-> "none"]
    /\ inFlight = [c \in Conns |-> 0]
    /\ closeRequested = {} /\ saturated = {}
    /\ aged = {} /\ idle = {} /\ stalled = {}
    /\ requesting = {} /\ closing = {} /\ poolClosing = {}
    /\ pc = [r \in Requests |-> "init"]
    /\ rpool = [r \in Requests |-> NoPool]
    /\ rconn = [r \in Requests |-> NoConn]
    /\ rejectedBy = [r \in Requests |-> NoConn]

-----------------------------------------------------------------------------
(* Predicates and updates shared by the operations.                        *)

\* isConnUsable: may be handed out for a NEW request.  CanTakeNewRequest is
\* asked of HTTP/2 connections only.
Usable(c) ==
    /\ cstate[c] # "closed" /\ c \notin closeRequested
    /\ c \notin aged
    /\ ~(inFlight[c] = 0 /\ c \in idle)
    /\ c \notin saturated

\* Mutant of Destroyable: a connection with requests on it is not protected.
DestroyableInUse(c) == cstate[c] = "closed" \/ c \in aged \cup idle

\* Mutant of Destroyable: no bound on an abandoned body.
DestroyableUnbounded(c) ==
    cstate[c] = "closed" \/ (inFlight[c] = 0 /\ c \in aged \cup idle)

\* isConnDestroyable: may be closed right now.
Destroyable(c) ==
    \/ cstate[c] = "closed"
    \/ IF inFlight[c] > 0 THEN c \in stalled ELSE c \in aged \cup idle

\* isConnRetirable: permanently unusable.
Retirable(c) == cstate[c] # "closed" /\ c \notin closeRequested /\ c \in aged

\* What a sweep counts against maxConns.
Serving(cs) == {c \in cs : ~Destroyable(c) /\ ~Retirable(c) /\ c \notin closeRequested}

Mapped == {pools[k] : k \in Keys} \ {NoPool}

Closes(cs, why) == {[conn |-> c, why |-> why] : c \in cs}

ClosePending(c) == \E x \in closing : x.conn = c

\* HostPool.mu is free: no GetConn is between its scan and its sweep.
Unlocked(p) == \A r \in Requests : ~(pc[r] = "sweep" /\ rpool[r] = p)

\* LastUsedAt = time.Now()
Touch(c) ==
    /\ idle' = idle \ {c}
    /\ stalled' = stalled \ {c}
    /\ UNCHANGED aged

\* release(): the count drops, LastUsedAt moves, and a deferred close fires
\* when the count reaches zero.
Release(c) ==
    /\ inFlight' = [inFlight EXCEPT ![c] = @ - 1]
    /\ Touch(c)
    /\ closing' = closing \cup
         (IF c \in closeRequested /\ inFlight[c] <= 1 THEN Closes({c}, "evict") ELSE {})
    /\ UNCHANGED <<cstate, closeRequested, saturated, requesting, poolClosing>>

\* The open connections whose body makes no progress.
Forsaken == {c \in stalled : cstate[c] = "open" /\ inFlight[c] > 0}

\* Mutant of Evict: a retired connection is dropped from its pool.
EvictDropsRetired(ps) ==
    LET swept  == UNION {connections[p] : p \in ps}
        doomed == {c \in swept : Destroyable(c)}
        retire == {c \in swept \ doomed : Retirable(c)} IN
    /\ closing' = closing \cup Closes(doomed \cap Forsaken, "abandoned")
                          \cup Closes({c \in doomed \ Forsaken : cstate[c] = "open"}, "evict")
    /\ requesting' = requesting \cup retire
    /\ connections' = [p \in Pools |-> connections[p] \ (doomed \cup retire)]
    /\ UNCHANGED poolClosing

\* The pass over the connections of some pools that GetConn and CloseIdle make:
\* what may go is closed and dropped, what can never serve again is retired
\* and kept, so that later passes and Close still find it.
Evict(ps) ==
    LET swept  == UNION {connections[p] : p \in ps}
        doomed == {c \in swept : Destroyable(c)} IN
    /\ closing' = closing \cup Closes(doomed \cap Forsaken, "abandoned")
                          \cup Closes({c \in doomed \ Forsaken : cstate[c] = "open"}, "evict")
    /\ requesting' = requesting \cup {c \in swept \ doomed : Retirable(c)}
    /\ connections' = [p \in Pools |-> connections[p] \ doomed]
    /\ UNCHANGED poolClosing

\* HostPool.Close of every pool in ps.
ClosePools(ps) ==
    /\ closing' = closing \cup Closes(UNION {connections[p] : p \in ps}, "forced")
    /\ connections' = [p \in Pools |-> IF p \in ps THEN {} ELSE connections[p]]

Goto(r, label) == pc' = [pc EXCEPT ![r] = label]

-----------------------------------------------------------------------------
(* Manager.GetPool and HostPool.GetConn.                                   *)

AtGetPool(r) == pc[r] \in {"init", "retry"}

GetPoolClosed(r) ==
    /\ AtGetPool(r) /\ closed
    /\ Goto(r, "done")
    /\ UNCHANGED <<managerVars, poolVars, connVars, goVars, rpool, rconn, rejectedBy>>

\* Found by the look under RLock, or by the second one under the write lock.
GetPoolHit(r) ==
    /\ AtGetPool(r) /\ ~closed /\ pools[KeyOf[r]] # NoPool
    /\ Goto(r, "scan")
    /\ rpool' = [rpool EXCEPT ![r] = pools[KeyOf[r]]]
    /\ UNCHANGED <<managerVars, poolVars, connVars, goVars, rconn, rejectedBy>>

GetPoolNew(r, p) ==
    /\ AtGetPool(r) /\ ~closed /\ pools[KeyOf[r]] = NoPool
    /\ p \notin allocated
    /\ allocated' = allocated \cup {p}
    /\ builtWith' = [builtWith EXCEPT ![p] = [preset |-> preset, proxyURL |-> proxyURL]]
    /\ pools' = [pools EXCEPT ![KeyOf[r]] = p]
    /\ Goto(r, "scan")
    /\ rpool' = [rpool EXCEPT ![r] = p]
    /\ UNCHANGED <<closed, preset, proxyURL, setProxy, connections, connVars, goVars,
                   rconn, rejectedBy>>

\* The scan finds a usable connection; MarkUsed follows after p.mu.Unlock.
ScanHit(r, c) ==
    /\ pc[r] = "scan" /\ Unlocked(rpool[r])
    /\ c \in connections[rpool[r]] /\ Usable(c)
    /\ Goto(r, "mark")
    /\ rconn' = [rconn EXCEPT ![r] = c]
    /\ UNCHANGED <<managerVars, poolVars, connVars, goVars, rpool, rejectedBy>>

MarkUsed(r) ==
    /\ pc[r] = "mark"
    /\ Touch(rconn[r])
    /\ Goto(r, "send")
    /\ UNCHANGED <<managerVars, poolVars, cstate, inFlight, closeRequested, saturated,
                   goVars, rpool, rconn, rejectedBy>>

\* No usable connection: the sweep follows with p.mu still held.
ScanMiss(r) ==
    /\ pc[r] = "scan" /\ Unlocked(rpool[r])
    /\ \A c \in connections[rpool[r]] : ~Usable(c)
    /\ Goto(r, "sweep")
    /\ UNCHANGED <<managerVars, poolVars, connVars, goVars, rpool, rconn, rejectedBy>>

Sweep(r) ==
    /\ pc[r] = "sweep"
    /\ Evict({rpool[r]})
    /\ Goto(r, IF MaxConns > 0
                    /\ Cardinality(Serving(connections[rpool[r]])) >= MaxConns
               THEN "done" ELSE "create")
    /\ UNCHANGED <<managerVars, allocated, builtWith, connVars, rpool, rconn, rejectedBy>>

\* createConn, without any lock.
CreateConn(r, c) ==
    /\ pc[r] = "create" /\ cstate[c] = "none"
    /\ cstate' = [cstate EXCEPT ![c] = "open"]
    /\ rconn' = [rconn EXCEPT ![r] = c]
    /\ Goto(r, "append")
    /\ UNCHANGED <<managerVars, poolVars, inFlight, closeRequested, saturated, timeVars,
                   goVars, rpool, rejectedBy>>

CreateConnFailed(r) ==
    /\ pc[r] = "create"
    /\ Goto(r, "done")
    /\ UNCHANGED <<managerVars, poolVars, connVars, goVars, rpool, rconn, rejectedBy>>

\* The new connection joins the pool the caller has, wherever that pool is by
\* now.  It is not marked used.
AppendConn(r) ==
    /\ pc[r] = "append" /\ Unlocked(rpool[r])
    /\ connections' = [connections EXCEPT ![rpool[r]] = @ \cup {rconn[r]}]
    /\ Goto(r, "first")
    /\ UNCHANGED <<managerVars, allocated, builtWith, connVars, goVars, rpool, rconn,
                   rejectedBy>>

-----------------------------------------------------------------------------
(* Conn.RoundTrip, and the one retry of doHTTP2 and doHTTP3.               *)

\* With a connection from the pool, or with one the caller created.
AtSend(r) == pc[r] \in {"send", "first"}

Retired(c) == cstate[c] = "closed" \/ c \in closeRequested

\* ErrConnRetired, before anything was written: once more with a connection
\* that is not this one, then give up.
Reject(r) ==
    /\ AtSend(r) /\ Retired(rconn[r])
    /\ Goto(r, IF rejectedBy[r] = NoConn THEN "retry" ELSE "done")
    /\ rejectedBy' = [rejectedBy EXCEPT ![r] = rconn[r]]
    /\ UNCHANGED <<managerVars, poolVars, connVars, goVars, rpool, rconn>>

Send(r) ==
    LET c == rconn[r] IN
    /\ AtSend(r) /\ ~Retired(c)
    /\ inFlight' = [inFlight EXCEPT ![c] = @ + 1]
    /\ Touch(c)
    /\ Goto(r, "sent")
    /\ UNCHANGED <<managerVars, poolVars, cstate, closeRequested, saturated, goVars,
                   rpool, rconn, rejectedBy>>

\* Response headers: the body keeps the connection.
Headers(r) ==
    /\ pc[r] = "sent" /\ cstate[rconn[r]] = "open"
    /\ Touch(rconn[r])
    /\ Goto(r, "body")
    /\ UNCHANGED <<managerVars, poolVars, cstate, inFlight, closeRequested, saturated,
                   goVars, rpool, rconn, rejectedBy>>

\* The exchange failed, or its response has no body, or the body ended or was
\* closed: one release, by RoundTrip or by the body guard's sync.Once.
Finish(r) ==
    /\ pc[r] \in {"sent", "body"}
    /\ Release(rconn[r])
    /\ Goto(r, "done")
    /\ UNCHANGED <<managerVars, poolVars, rpool, rconn, rejectedBy>>

\* connBodyGuard.Read returned bytes.
ReadProgress(r) ==
    /\ pc[r] = "body" /\ cstate[rconn[r]] = "open"
    /\ stalled' = stalled \ {rconn[r]}
    /\ UNCHANGED <<managerVars, poolVars, cstate, inFlight, closeRequested, saturated,
                   aged, idle, goVars, callVars>>

\* The caller neither reads the body to its end nor closes it.
Abandon(r) ==
    /\ pc[r] = "body"
    /\ Goto(r, "abandoned")
    /\ UNCHANGED <<managerVars, poolVars, connVars, goVars, rpool, rconn, rejectedBy>>

-----------------------------------------------------------------------------
(* Goroutines and the operations of the manager.                           *)

\* requestClose: defer, or unlock and then close.
RunRequestClose(c) ==
    /\ c \in requesting
    /\ requesting' = requesting \ {c}
    /\ IF inFlight[c] > 0
       THEN closeRequested' = closeRequested \cup {c} /\ UNCHANGED closing
       ELSE closing' = closing \cup Closes({c}, "evict") /\ UNCHANGED closeRequested
    /\ UNCHANGED <<managerVars, poolVars, cstate, inFlight, saturated, timeVars,
                   poolClosing, callVars>>

RunClose(x) ==
    /\ x \in closing
    /\ cstate' = [cstate EXCEPT ![x.conn] = "closed"]
    /\ closing' = closing \ {x}
    /\ UNCHANGED <<managerVars, poolVars, inFlight, closeRequested, saturated, timeVars,
                   requesting, poolClosing, callVars>>

RunPoolClose(p) ==
    /\ p \in poolClosing /\ Unlocked(p)
    /\ ClosePools({p})
    /\ poolClosing' = poolClosing \ {p}
    /\ UNCHANGED <<managerVars, allocated, builtWith, connVars, requesting, callVars>>

\* A tick of cleanupLoop: CloseIdle on every pool, then the empty ones go.
Cleanup ==
    /\ "cleanup" \in Operations /\ ~closed
    /\ \A p \in Mapped : Unlocked(p)
    /\ Evict(Mapped)
    /\ pools' = [k \in Keys |-> IF pools[k] # NoPool /\ connections'[pools[k]] = {}
                                THEN NoPool ELSE pools[k]]
    /\ UNCHANGED <<closed, preset, proxyURL, setProxy, allocated, builtWith, connVars,
                   callVars>>

\* Mutant of SetPreset: only the field is swapped.
SetPresetFieldOnly(new) ==
    /\ "SetPreset" \in Operations
    /\ preset' = new
    /\ UNCHANGED <<closed, pools, proxyURL, setProxy, poolVars, connVars, goVars, callVars>>

SetPreset(new) ==
    /\ "SetPreset" \in Operations
    /\ preset' = new
    /\ pools' = [k \in Keys |-> NoPool]
    /\ poolClosing' = poolClosing \cup Mapped
    /\ UNCHANGED <<closed, proxyURL, setProxy, poolVars, connVars, requesting, closing,
                   callVars>>

CloseAllPools ==
    /\ \A p \in Mapped : Unlocked(p)
    /\ ClosePools(Mapped)
    /\ pools' = [k \in Keys |-> NoPool]
    /\ UNCHANGED <<closed, preset, proxyURL, allocated, builtWith, connVars, requesting,
                   poolClosing, callVars>>

\* CloseAllPools called by itself.
CloseAllPoolsOnly ==
    /\ "CloseAllPools" \in Operations
    /\ CloseAllPools
    /\ UNCHANGED setProxy

\* SetProxy: CloseAllPools, then the new URL in a critical section of its own.
SetProxyBegin(new) ==
    /\ "SetProxy" \in Operations /\ new \notin setProxy
    /\ CloseAllPools
    /\ setProxy' = setProxy \cup {new}

SetProxyEnd(new) ==
    /\ new \in setProxy
    /\ proxyURL' = new
    /\ setProxy' = setProxy \ {new}
    /\ UNCHANGED <<closed, pools, preset, poolVars, connVars, goVars, callVars>>

Close ==
    /\ "Close" \in Operations /\ ~closed
    /\ \A p \in Mapped : Unlocked(p)
    /\ closed' = TRUE
    /\ ClosePools(Mapped)
    /\ pools' = [k \in Keys |-> NoPool]
    /\ UNCHANGED <<preset, proxyURL, setProxy, allocated, builtWith, connVars, requesting,
                   poolClosing, callVars>>

-----------------------------------------------------------------------------
(* Time and the peers.                                                     *)

\* The statements of a caller between getting a connection and sending on it
\* take no time: a connection just handed out is neither idle nor stalled, and
\* one just created is not old either.  One from the pool may pass maxConnAge
\* at that very moment.
JustCreated(c) == \E r \in Requests : pc[r] \in {"append", "first"} /\ rconn[r] = c

JustTaken(c) == JustCreated(c) \/ \E r \in Requests : pc[r] \in {"mark", "send"} /\ rconn[r] = c

Expire(c, fact) ==
    /\ cstate[c] = "open"
    /\ IF fact = "age" THEN ~JustCreated(c) ELSE ~JustTaken(c)
    /\ aged' = IF fact = "idle" THEN aged ELSE aged \cup {c}
    /\ idle' = IF fact = "age" THEN idle ELSE idle \cup {c}
    /\ stalled' = IF fact = "stall" THEN stalled \cup {c} ELSE stalled
    /\ UNCHANGED <<managerVars, poolVars, cstate, inFlight, closeRequested, saturated,
                   goVars, callVars>>

\* The stream limit is reached or a GOAWAY came in; streams end and the
\* connection can take requests again, or never does.
Saturate(c) ==
    /\ cstate[c] = "open" /\ c \notin saturated
    /\ saturated' = saturated \cup {c}
    /\ UNCHANGED <<managerVars, poolVars, cstate, inFlight, closeRequested, timeVars,
                   goVars, callVars>>

Unsaturate(c) ==
    /\ c \in saturated
    /\ saturated' = saturated \ {c}
    /\ UNCHANGED <<managerVars, poolVars, cstate, inFlight, closeRequested, timeVars,
                   goVars, callVars>>

-----------------------------------------------------------------------------
Caller(r) ==
    \/ GetPoolClosed(r) \/ GetPoolHit(r) \/ (\E p \in Pools : GetPoolNew(r, p))
    \/ (\E c \in Conns : ScanHit(r, c)) \/ MarkUsed(r) \/ ScanMiss(r) \/ Sweep(r)
    \/ (\E c \in Conns : CreateConn(r, c)) \/ CreateConnFailed(r) \/ AppendConn(r)
    \/ Reject(r) \/ Send(r) \/ Headers(r) \/ Finish(r) \/ ReadProgress(r) \/ Abandon(r)

Background ==
    \/ \E c \in Conns : RunRequestClose(c)
    \/ \E x \in closing : RunClose(x)
    \/ \E p \in Pools : RunPoolClose(p)
    \/ Cleanup

Operation ==
    \/ \E new \in Profiles : SetPreset(new)
    \/ \E new \in Proxies : SetProxyBegin(new) \/ SetProxyEnd(new)
    \/ CloseAllPoolsOnly \/ Close

Peer ==
    \E c \in Conns :
        \/ \E fact \in Expirations : Expire(c, fact)
        \/ Saturate(c) \/ Unsaturate(c)

Next ==
    \/ \E r \in Requests : Caller(r)
    \/ Background
    \/ Operation
    \/ Peer

Spec == Init /\ [][Next]_vars

(* Fairness.  A caller that has begun runs on: dials and exchanges are      *)
(* bounded by timeouts or by the context.  A body is read to its end,       *)
(* closed or walked away from.  Goroutines are scheduled, the ticker of the *)
(* cleanup loop ticks, and time passes.                                     *)
Fairness ==
    /\ \A r \in Requests :
         /\ WF_vars(pc[r] \notin {"init", "body"} /\ Caller(r))
         /\ WF_vars(Finish(r) \/ Abandon(r))
    /\ \A c \in Conns :
         /\ WF_vars(RunRequestClose(c))
         /\ WF_vars(\E why \in Reasons : RunClose([conn |-> c, why |-> why]))
         /\ WF_vars(Expire(c, "stall"))
    /\ \A p \in Pools : WF_vars(RunPoolClose(p))
    /\ SF_vars(Cleanup)

FairSpec == Spec /\ Fairness

-----------------------------------------------------------------------------
(* Properties.                                                              *)

InUse == {"sent", "body", "abandoned"}

Users(c) == {r \in Requests : pc[r] \in InUse /\ rconn[r] = c}

\* inFlight counts exactly the requests whose exchange or body is unfinished:
\* RoundTrip and the body guard acquire and release in pairs.
InFlightExact == \A c \in Conns : inFlight[c] = Cardinality(Users(c))

\* How the fields of a connection and its pending close read as one stage.
LeaseStage(c) ==
    CASE cstate[c] # "open" -> cstate[c]
      [] cstate[c] = "open" /\ ClosePending(c) -> "condemned"
      [] cstate[c] = "open" /\ ~ClosePending(c) /\ c \in closeRequested -> "retired"
      [] OTHER -> "open"

Lease == INSTANCE ConnLease WITH
    LeaseConns <- Conns,
    stage <- [c \in Conns |-> LeaseStage(c)],
    leases <- inFlight,
    ordered <- [c \in Conns |-> \E x \in closing : x.conn = c /\ x.why = "forced"],
    abandoned <- [c \in Conns |-> c \in stalled]

\* Issue #83, as far as the code achieves it: the pool keeps the promise of
\* ConnLease.  A connection that response bodies hold is condemned only by an
\* ordered shutdown or past the abandoned-body bound, a retired one takes no
\* new request and goes with its last body; only a request that arrives after
\* the decision to close an idle connection is closed under (pool.go:95-190,
\* 400-575, 1223-1255).
HostKeepsLease == Lease!LeaseSpec

\* An evicted connection whose body still streams stays in its pool: an open
\* connection is in a pool, about to join one, or about to be closed.
ConnTracked ==
    \A c \in Conns : cstate[c] = "open" =>
        \/ \E p \in Pools : c \in connections[p]
        \/ ClosePending(c)
        \/ \E r \in Requests : pc[r] = "append" /\ rconn[r] = c

\* GetConn never finds usable a connection that some goroutine is about to
\* close or to retire.
HandsOutLive ==
    \A p \in Pools : \A c \in connections[p] :
        Usable(c) => c \notin requesting /\ ~ClosePending(c)

\* "One retry on a fresh connection": after ErrConnRetired the second attempt
\* never gets the connection that rejected the first.
RetryGetsFresh ==
    \A r \in Requests :
        pc[r] \in {"mark", "append", "first", "send", "sent"} => rconn[r] # rejectedBy[r]

\* After SetPreset every pool of the manager, and so every connection handed
\* out from it, was built from the current preset.
ProfileCurrent ==
    \A p \in Mapped : builtWith[p].preset = preset

\* A connection in a pool the manager still has is closed in the end, also when
\* a body on it is abandoned, unless the pool leaves the manager.
MappedConnReclaimed ==
    \A c \in Conns : \A p \in Pools :
        (c \in connections[p] /\ p \in Mapped)
            ~> (cstate[c] = "closed" \/ p \notin Mapped)

\* The bookkeeping the promise of ConnLease rests on: the state is well typed,
\* the counts are exact, no connection is lost track of or handed out on its way
\* out, and a retry gets another one (pool.go:72-182, 400-575).
HostPoolSound == TypeOK /\ InFlightExact /\ ConnTracked /\ HandsOutLive /\ RetryGetsFresh

\* A switch of preset or proxy, or a shutdown, races with requests: no pool of the
\* manager is of an old preset, and none hands out a connection that is being
\* closed (pool.go:1489-1531, 1602-1640).
SwitchSound == ProfileCurrent /\ HandsOutLive
=============================================================================
