----------------------------- MODULE HTTP2Pool -----------------------------
(***************************************************************************)
(* The connection pool of transport/http2_transport.go (HTTP2Transport):   *)
(* one persistent connection per pool key, shared by every request to that *)
(* key, opened by a deduplicated dial, evicted by age, idleness or error,  *)
(* and closed only once the last response body on it has finished.         *)
(*                                                                         *)
(* Processes: the requests (RoundTrip) and connect probes (Connect), the   *)
(* singleflight dial of each key, the cleanup loop, the callers of Close,  *)
(* CloseGraceful and Refresh, and every goroutine the code starts with     *)
(* "go conn.close()" or "go t.retire(conn)".  A step is one critical       *)
(* section (connsMu, retiredMu or a connection's mu), so every window in   *)
(* which the code holds no lock is a place where other processes may run.  *)
(*                                                                         *)
(* Time is abstracted to three facts about a connection: it is older than  *)
(* maxConnAge (aged), lastUsedAt is older than maxIdleTime (idle), neither *)
(* lastUsedAt nor lastProgress moved for abandonedBodyTimeout (stalled).   *)
(***************************************************************************)
EXTENDS Integers, FiniteSets

CONSTANTS
    Requests,        \* callers; each makes one call
    Probes,          \* the callers that call Connect; the others call RoundTrip
    Conns,           \* identities of the TLS connections a run may open
    Keys,            \* pool keys, net.JoinHostPort(connectHost, port)
    KeyOf,           \* the pool key each caller addresses
    NoConn,
    NoRequest,
    MaxHTTP2Retries, \* maxHTTP2Retries
    StableALPN,      \* TRUE when every dial of a key negotiates the same ALPN
    Expirations,     \* which timing facts come about: "age", "idle", "stall"
    Shutdowns        \* which of "Close", "CloseGraceful", "Refresh" are called

ASSUME ConstantsAssumption ==
    /\ IsFiniteSet(Requests)
    /\ Probes \subseteq Requests
    /\ NoConn \notin Conns
    /\ NoRequest \notin Requests
    /\ KeyOf \in [Requests -> Keys]
    /\ MaxHTTP2Retries \in Nat
    /\ StableALPN \in BOOLEAN
    /\ Expirations \subseteq {"age", "idle", "stall"}
    /\ Shutdowns \subseteq {"Close", "CloseGraceful", "Refresh"}

VARIABLES
    \* HTTP2Transport
    closed,          \* t.closed; t.conns is nil exactly when it is TRUE
    conns,           \* t.conns
    retired,         \* t.retired
    stopped,         \* t.stopCleanup is closed
    loop,            \* the cleanupLoop goroutine
    \* persistentConn
    cstate,          \* "none" not dialled, "open", "closed", "alpn": a live
                     \* TLS connection carried by an ALPNMismatchError
    inFlight,
    closeRequested,  \* the connections whose closeRequested is set
    aged, idle, stalled,
                     \* the connections each timing fact holds of
    \* goroutines started with "go"
    retiring,        \* pending t.retire(conn)
    appending,       \* retire() deferred the close, not yet in t.retired
    closing,         \* pending conn.close(), each with why it was started
    \* callers
    pc, rconn, attempt,
    late,            \* history: callers that marked a connection in use when
                     \* its close was already pending
    failedOn,        \* history: the connection a retry's removeConn was for,
                     \* forgotten when the retry joins a call that has already
                     \* returned that connection
    \* singleflight and the servers
    dial, negotiates,
    \* CloseGraceful and Close calls in progress
    gracePc, graceTodo, closePc

poolVars   == <<closed, conns, retired>>
loopVars   == <<stopped, loop>>
timeVars   == <<aged, idle, stalled>>
connVars   == <<cstate, inFlight, closeRequested, timeVars>>
goVars     == <<retiring, appending, closing>>
callVars   == <<pc, rconn, attempt, late, failedOn>>
histVars   == <<attempt, late, failedOn>>
evictVars  == <<retiring, appending>>
dialVars   == <<dial, negotiates>>
shutVars   == <<gracePc, graceTodo, closePc>>
vars == <<poolVars, loopVars, connVars, goVars, callVars, dialVars, shutVars>>

-----------------------------------------------------------------------------
Reasons == {"evict", "abandoned", "surplus", "forced"}

\* A singleflight call: the function runs in the phases "check", "dial" and
\* "publish"; in "deliver" it has returned (its result is the connection) and
\* the key is still held.
DialRecord == [phase  : {"idle", "check", "dial", "publish", "deliver"},
               leader : Requests \cup {NoRequest},
               conn   : Conns \cup {NoConn},
               result : Conns \cup {NoConn}]

NoDial == [phase |-> "idle", leader |-> NoRequest, conn |-> NoConn, result |-> NoConn]

\* The type invariant; it also bounds the retries of roundTrip by maxHTTP2Retries.
TypeOK ==
    /\ closed \in BOOLEAN
    /\ conns \in [Keys -> Conns \cup {NoConn}]
    /\ retired \in SUBSET Conns
    /\ stopped \in BOOLEAN
    /\ loop \in {"run", "check", "exited"}
    /\ cstate \in [Conns -> {"none", "open", "alpn", "closed"}]
    /\ inFlight \in [Conns -> Int]
    /\ closeRequested \in SUBSET Conns
    /\ aged \in SUBSET Conns /\ idle \in SUBSET Conns /\ stalled \in SUBSET Conns
    /\ retiring \in SUBSET Conns
    /\ appending \in SUBSET Conns
    /\ closing \in SUBSET [conn : Conns, why : Reasons]
    /\ pc \in [Requests -> {"init", "retry", "peek", "lookup", "join", "wait",
                            "alpn", "own", "acquire", "sent", "failed",
                            "body", "abandoned", "cdial", "cstore", "done"}]
    /\ rconn \in [Requests -> Conns \cup {NoConn}]
    /\ attempt \in [Requests -> 0..MaxHTTP2Retries]
    /\ late \in SUBSET Requests
    /\ failedOn \in [Requests -> Conns \cup {NoConn}]
    /\ dial \in [Keys -> DialRecord]
    /\ negotiates \in [Keys -> {"h2", "http/1.1"}]
    /\ gracePc \in {"idle", "drain", "done"}
    /\ graceTodo \in SUBSET Conns
    /\ closePc \in {"idle", "swap", "done"}

Init ==
    /\ closed = FALSE
    /\ conns = [k \in Keys |-> NoConn]
    /\ retired = {}
    /\ stopped = FALSE
    /\ loop = "run"
    /\ cstate = [c \in Conns |-> "none"]
    /\ inFlight = [c \in Conns |-> 0]
    /\ closeRequested = {}
    /\ aged = {} /\ idle = {} /\ stalled = {}
    /\ retiring = {}
    /\ appending = {}
    /\ closing = {}
    /\ pc = [r \in Requests |-> "init"]
    /\ rconn = [r \in Requests |-> NoConn]
    /\ attempt = [r \in Requests |-> 0]
    /\ late = {}
    /\ failedOn = [r \in Requests |-> NoConn]
    /\ dial = [k \in Keys |-> NoDial]
    /\ negotiates \in [Keys -> {"h2", "http/1.1"}]
    /\ gracePc = "idle"
    /\ graceTodo = {}
    /\ closePc = "idle"

-----------------------------------------------------------------------------
(* Predicates and updates shared by the operations.                        *)

\* isConnUsable: may be handed out for a NEW request.  It does not look at
\* conn.closed.
Usable(c) ==
    /\ c \notin closeRequested
    /\ c \notin aged
    /\ ~(inFlight[c] = 0 /\ c \in idle)

\* Mutant of Destroyable: "not usable" taken for "may be closed".
DestroyableIfUnusable(c) == ~Usable(c)

\* isConnDestroyable: may be closed right now.
Destroyable(c) ==
    IF inFlight[c] > 0 THEN c \in stalled
                       ELSE c \in aged \cup idle

PooledUsable(k) == conns[k] # NoConn /\ Usable(conns[k])

Pooled == {conns[k] : k \in Keys} \ {NoConn}

\* c.lastUsedAt = time.Now()
Touch(c) ==
    /\ idle' = idle \ {c}
    /\ stalled' = stalled \ {c}
    /\ UNCHANGED aged

Closes(cs, why) == {[conn |-> c, why |-> why] : c \in cs}

ClosePending(c) == \E x \in closing : x.conn = c

\* The outcomes a dial of key k can negotiate.
MayNegotiate(k, proto) == StableALPN => negotiates[k] = proto

\* createConn returned a connection (state "open") or an ALPNMismatchError
\* carrying one (state "alpn").
Created(c, state) ==
    /\ cstate[c] = "none"
    /\ cstate' = [cstate EXCEPT ![c] = state]
    /\ UNCHANGED <<inFlight, closeRequested, timeVars>>

\* release(): the count drops, lastUsedAt moves, and a deferred close fires
\* when the count reaches zero.
Release(c) ==
    /\ inFlight' = [inFlight EXCEPT ![c] = @ - 1]
    /\ Touch(c)
    /\ closing' = closing \cup
         (IF c \in closeRequested /\ inFlight[c] <= 1 THEN Closes({c}, "evict") ELSE {})
    /\ UNCHANGED <<cstate, closeRequested, evictVars>>

\* retire(), the critical section of conn.mu: an unused connection is closed
\* by a goroutine of its own; the close of a used one is deferred, and retire
\* goes on to append it to t.retired.
Deferred(c) == inFlight[c] > 0 /\ cstate[c] # "closed"

\* Mutant of Retire: a deferred close that nothing tracks.
RetireUntracked(c) ==
    /\ closeRequested' = IF Deferred(c) THEN closeRequested \cup {c} ELSE closeRequested
    /\ closing' = IF Deferred(c) THEN closing ELSE closing \cup Closes({c}, "evict")
    /\ UNCHANGED <<cstate, inFlight, timeVars, appending>>

Retire(c) ==
    /\ closeRequested' = IF Deferred(c) THEN closeRequested \cup {c} ELSE closeRequested
    /\ appending' = IF Deferred(c) THEN appending \cup {c} ELSE appending
    /\ closing' = IF Deferred(c) THEN closing ELSE closing \cup Closes({c}, "evict")
    /\ UNCHANGED <<cstate, inFlight, timeVars>>

\* A caller moves on, to hold connection c.
Goto(r, label, c) ==
    /\ pc' = [pc EXCEPT ![r] = label]
    /\ rconn' = [rconn EXCEPT ![r] = c]

\* A step that moves a caller and changes nothing else.
CallerOnly ==
    UNCHANGED <<poolVars, loopVars, connVars, goVars, histVars, dialVars, shutVars>>

-----------------------------------------------------------------------------
(* roundTrip and getOrCreateConn, up to the singleflight dial.             *)

\* The optimistic look: the pointer is read under RLock, the connection is
\* judged after RUnlock, and a usable one is returned wherever it is by then.
\* A look that finds nothing changes nothing: LookupHit and LookupMiss, which
\* are the look under the write lock, then follow from "init" or "retry".
Peek(r) ==
    /\ pc[r] \in {"init", "retry"} /\ r \notin Probes /\ ~closed
    /\ conns[KeyOf[r]] # NoConn
    /\ Goto(r, "peek", conns[KeyOf[r]])
    /\ CallerOnly

PeekHit(r) ==
    /\ pc[r] = "peek" /\ Usable(rconn[r])
    /\ Goto(r, "acquire", rconn[r])
    /\ CallerOnly

PeekMiss(r) ==
    /\ pc[r] = "peek" /\ ~Usable(rconn[r])
    /\ Goto(r, "lookup", NoConn)
    /\ CallerOnly

AtLookup(r) == r \notin Probes /\ pc[r] \in {"init", "retry", "lookup"}

LookupClosed(r) ==
    /\ AtLookup(r) /\ closed
    /\ Goto(r, "done", NoConn)
    /\ CallerOnly

LookupHit(r) ==
    /\ AtLookup(r) /\ ~closed
    /\ PooledUsable(KeyOf[r])
    /\ Goto(r, "acquire", conns[KeyOf[r]])
    /\ CallerOnly

\* Mutant of LookupMiss: the unusable connection is retired but stays pooled.
LookupMissKeepsEntry(r) ==
    /\ AtLookup(r) /\ ~closed
    /\ ~PooledUsable(KeyOf[r])
    /\ retiring' = retiring \cup ({conns[KeyOf[r]]} \ {NoConn})
    /\ Goto(r, "join", NoConn)
    /\ UNCHANGED <<poolVars, loopVars, connVars, appending, closing, histVars,
                   dialVars, shutVars>>

LookupMiss(r) ==
    /\ AtLookup(r) /\ ~closed
    /\ ~PooledUsable(KeyOf[r])
    /\ retiring' = retiring \cup ({conns[KeyOf[r]]} \ {NoConn})
    /\ conns' = [conns EXCEPT ![KeyOf[r]] = NoConn]
    /\ Goto(r, "join", NoConn)
    /\ UNCHANGED <<closed, retired, loopVars, connVars, appending, closing, histVars,
                   dialVars, shutVars>>

\* The call of key k has returned the connection request r failed on, but its
\* key is not deleted yet: r can still join it.
ReturnedFailed(r, k) == dial[k].phase = "deliver" /\ dial[k].result = failedOn[r]

\* dialGroup.DoChan: start the dial of the key, or wait for the one under way.
JoinDial(r) ==
    LET k == KeyOf[r] IN
    /\ pc[r] = "join"
    /\ Goto(r, "wait", NoConn)
    /\ dial' = IF dial[k].phase # "idle" THEN dial
               ELSE [dial EXCEPT ![k] = [NoDial EXCEPT !.phase = "check", !.leader = r]]
    /\ failedOn' = IF ReturnedFailed(r, k) THEN [failedOn EXCEPT ![r] = NoConn]
                   ELSE failedOn
    /\ UNCHANGED <<poolVars, loopVars, connVars, goVars, attempt, late, negotiates,
                   shutVars>>

\* ctx.Done() while waiting: the caller leaves, the dial goes on without it.
CancelWait(r) ==
    /\ pc[r] = "wait"
    /\ Goto(r, "done", NoConn)
    /\ CallerOnly

-----------------------------------------------------------------------------
(* The function singleflight runs, on a goroutine of its own.              *)

Waiters(k) == {r \in Requests : pc[r] = "wait" /\ KeyOf[r] = k}

\* The function returns connection c.  Its last critical section has ended, and
\* singleflight has not yet taken its own lock: until Deliver, callers find c in
\* the pool, fail on it, and join the call that is about to hand it out.
Returns(k, c) ==
    dial' = [dial EXCEPT ![k] = [phase |-> "deliver", leader |-> @.leader,
                                 conn |-> NoConn, result |-> c]]

\* singleflight deletes the key and sends the result to every waiter, under its
\* own lock.
Deliver(k) ==
    /\ dial[k].phase = "deliver"
    /\ pc' = [r \in Requests |-> IF r \in Waiters(k) THEN "acquire" ELSE pc[r]]
    /\ rconn' = [r \in Requests |-> IF r \in Waiters(k) THEN dial[k].result ELSE rconn[r]]
    /\ dial' = [dial EXCEPT ![k] = NoDial]
    /\ UNCHANGED <<poolVars, loopVars, connVars, goVars, histVars, negotiates,
                   shutVars>>

\* Mutant of DeliverError: only the leader learns of the failed dial.
DeliverErrorToLeader(k) ==
    /\ pc' = [r \in Requests |->
                IF r \in Waiters(k) /\ r = dial[k].leader THEN "done" ELSE pc[r]]
    /\ dial' = [dial EXCEPT ![k] = NoDial]
    /\ UNCHANGED rconn

\* An error is delivered in the step that returns it: no caller can act on it in
\* between, and one that joins in between is a waiter before.
DeliverError(k) ==
    /\ pc' = [r \in Requests |-> IF r \in Waiters(k) THEN "done" ELSE pc[r]]
    /\ dial' = [dial EXCEPT ![k] = NoDial]
    /\ UNCHANGED rconn

DialRecheckHit(k) ==
    /\ dial[k].phase = "check" /\ PooledUsable(k)
    /\ Returns(k, conns[k])
    /\ UNCHANGED <<poolVars, loopVars, connVars, goVars, callVars, negotiates,
                   shutVars>>

DialRecheckMiss(k) ==
    /\ dial[k].phase = "check" /\ ~PooledUsable(k)
    /\ dial' = [dial EXCEPT ![k] = [phase |-> "dial", leader |-> @.leader,
                                    conn |-> NoConn, result |-> NoConn]]
    /\ UNCHANGED <<poolVars, loopVars, connVars, goVars, callVars, negotiates,
                   shutVars>>

DialConnected(k, c) ==
    /\ dial[k].phase = "dial" /\ MayNegotiate(k, "h2")
    /\ Created(c, "open")
    /\ dial' = [dial EXCEPT ![k] = [phase |-> "publish", leader |-> @.leader,
                                    conn |-> c, result |-> NoConn]]
    /\ UNCHANGED <<poolVars, loopVars, goVars, callVars, negotiates, shutVars>>

\* The server chose another protocol: the leader gets the live connection,
\* or a goroutine of the leader that left closes it; the others dial again.
DialDowngraded(k, c) ==
    LET leader == dial[k].leader
        waits  == leader \in Waiters(k) IN
    /\ dial[k].phase = "dial" /\ MayNegotiate(k, "http/1.1")
    /\ Created(c, "alpn")
    /\ pc' = [r \in Requests |-> IF r \notin Waiters(k) THEN pc[r]
                                 ELSE IF r = leader THEN "alpn" ELSE "own"]
    /\ rconn' = [r \in Requests |-> IF r = leader /\ waits THEN c ELSE rconn[r]]
    /\ closing' = closing \cup (IF waits THEN {} ELSE Closes({c}, "surplus"))
    /\ dial' = [dial EXCEPT ![k] = NoDial]
    /\ UNCHANGED <<poolVars, loopVars, evictVars, histVars, negotiates, shutVars>>

DialFailed(k) ==
    /\ dial[k].phase = "dial"
    /\ DeliverError(k)
    /\ UNCHANGED <<poolVars, loopVars, connVars, goVars, histVars, negotiates,
                   shutVars>>

PublishClosed(k) ==
    /\ dial[k].phase = "publish" /\ closed
    /\ closing' = closing \cup Closes({dial[k].conn}, "surplus")
    /\ DeliverError(k)
    /\ UNCHANGED <<poolVars, loopVars, connVars, evictVars, histVars, negotiates,
                   shutVars>>

PublishSurplus(k) ==
    /\ dial[k].phase = "publish" /\ ~closed /\ PooledUsable(k)
    /\ closing' = closing \cup Closes({dial[k].conn}, "surplus")
    /\ Returns(k, conns[k])
    /\ UNCHANGED <<poolVars, loopVars, connVars, evictVars, callVars, negotiates,
                   shutVars>>

\* Mutant of PublishNew: t.closed is not tested again after the dial.
PublishNewUnchecked(k) ==
    /\ dial[k].phase = "publish" /\ ~PooledUsable(k)
    /\ conns' = [conns EXCEPT ![k] = dial[k].conn]
    /\ Returns(k, dial[k].conn)
    /\ UNCHANGED <<closed, retired, loopVars, connVars, goVars, callVars,
                   negotiates, shutVars>>

\* A connection found under the key by now is overwritten, not retired.
PublishNew(k) ==
    /\ dial[k].phase = "publish" /\ ~closed /\ ~PooledUsable(k)
    /\ conns' = [conns EXCEPT ![k] = dial[k].conn]
    /\ Returns(k, dial[k].conn)
    /\ UNCHANGED <<closed, retired, loopVars, connVars, goVars, callVars,
                   negotiates, shutVars>>

-----------------------------------------------------------------------------
(* A caller with the result of an ALPN downgrade.                          *)

\* The leader takes the live connection over, to speak HTTP/1.1 on it.
TakeDowngraded(r) ==
    /\ pc[r] = "alpn"
    /\ Goto(r, "done", rconn[r])
    /\ CallerOnly

\* The leader's context ended first: its goroutine closes the connection.
DropDowngraded(r) ==
    /\ pc[r] = "alpn"
    /\ closing' = closing \cup Closes({rconn[r]}, "surplus")
    /\ Goto(r, "done", NoConn)
    /\ UNCHANGED <<poolVars, loopVars, connVars, evictVars, histVars, dialVars,
                   shutVars>>

\* A waiter dials a connection of its own, which is not put in the pool.
OwnDialConnected(r, c) ==
    /\ pc[r] = "own" /\ MayNegotiate(KeyOf[r], "h2")
    /\ Created(c, "open")
    /\ Goto(r, "acquire", c)
    /\ UNCHANGED <<poolVars, loopVars, goVars, histVars, dialVars, shutVars>>

OwnDialDowngraded(r, c) ==
    /\ pc[r] = "own" /\ MayNegotiate(KeyOf[r], "http/1.1")
    /\ Created(c, "alpn")
    /\ Goto(r, "done", c)
    /\ UNCHANGED <<poolVars, loopVars, goVars, histVars, dialVars, shutVars>>

OwnDialFailed(r) ==
    /\ pc[r] = "own"
    /\ Goto(r, "done", NoConn)
    /\ CallerOnly

-----------------------------------------------------------------------------
(* roundTrip on the connection it was given.                               *)

\* inFlight++, whatever happened to the connection since it was handed out.
\* Only the first attempt moves lastUsedAt.
Acquire(r) ==
    LET c == rconn[r] IN
    /\ pc[r] = "acquire"
    /\ inFlight' = [inFlight EXCEPT ![c] = @ + 1]
    /\ IF attempt[r] = 0 THEN Touch(c) ELSE UNCHANGED timeVars
    /\ late' = IF ClosePending(c) THEN late \cup {r} ELSE late
    /\ Goto(r, "sent", c)
    /\ UNCHANGED <<poolVars, loopVars, cstate, closeRequested, goVars, attempt,
                   failedOn, dialVars, shutVars>>

\* h2Conn.RoundTrip returned response headers: the body keeps the connection.
Headers(r) ==
    /\ pc[r] = "sent" /\ cstate[rconn[r]] = "open"
    /\ Touch(rconn[r])
    /\ Goto(r, "body", rconn[r])
    /\ UNCHANGED <<poolVars, loopVars, cstate, inFlight, closeRequested, goVars,
                   histVars, dialVars, shutVars>>

\* Headers of a response without a body: released at once.
HeadersNoBody(r) ==
    /\ pc[r] = "sent" /\ cstate[rconn[r]] = "open"
    /\ Release(rconn[r])
    /\ Goto(r, "done", NoConn)
    /\ late' = late \ {r}
    /\ UNCHANGED <<poolVars, loopVars, attempt, failedOn, dialVars, shutVars>>

\* Mutant of Fail: the failed exchange is not released.
FailWithoutRelease(r) ==
    /\ pc[r] = "sent"
    /\ Goto(r, "failed", rconn[r])
    /\ late' = late \ {r}
    /\ UNCHANGED <<poolVars, loopVars, connVars, goVars, attempt, failedOn, dialVars,
                   shutVars>>

\* h2Conn.RoundTrip returned an error.
Fail(r) ==
    /\ pc[r] = "sent"
    /\ Release(rconn[r])
    /\ Goto(r, "failed", rconn[r])
    /\ late' = late \ {r}
    /\ UNCHANGED <<poolVars, loopVars, attempt, failedOn, dialVars, shutVars>>

\* Mutant of GiveUpOrRetry: one attempt more than the budget.
GiveUpOrRetryOnceMore(r) ==
    \/ /\ Goto(r, "done", NoConn)
       /\ UNCHANGED attempt
    \/ /\ attempt[r] <= MaxHTTP2Retries
       /\ Goto(r, "retry", NoConn)
       /\ attempt' = [attempt EXCEPT ![r] = @ + 1]

\* Another attempt needs a live context, budget left, a failure the retry
\* predicate accepts and a rewindable body: all but the budget are external.
GiveUpOrRetry(r) ==
    \/ /\ Goto(r, "done", NoConn)
       /\ UNCHANGED attempt
    \/ /\ attempt[r] < MaxHTTP2Retries
       /\ Goto(r, "retry", NoConn)
       /\ attempt' = [attempt EXCEPT ![r] = @ + 1]

\* Mutant of RemoveConn: a connection other requests still use stays pooled.
RemoveConnIfUnused(r) ==
    LET c == conns[KeyOf[r]] IN
    /\ pc[r] = "failed"
    /\ IF c # NoConn /\ inFlight[c] = 0
       THEN conns' = [conns EXCEPT ![KeyOf[r]] = NoConn] /\ retiring' = retiring \cup {c}
       ELSE UNCHANGED <<conns, retiring>>
    /\ failedOn' = [failedOn EXCEPT ![r] = rconn[r]]
    /\ GiveUpOrRetry(r)
    /\ UNCHANGED <<closed, retired, loopVars, connVars, appending, closing, late,
                   dialVars, shutVars>>

\* removeConn(key): evicts whatever the key holds by now.
RemoveConn(r) ==
    LET c == conns[KeyOf[r]] IN
    /\ pc[r] = "failed"
    /\ conns' = [conns EXCEPT ![KeyOf[r]] = NoConn]
    /\ retiring' = retiring \cup ({c} \ {NoConn})
    /\ failedOn' = [failedOn EXCEPT ![r] = rconn[r]]
    /\ GiveUpOrRetry(r)
    /\ UNCHANGED <<closed, retired, loopVars, connVars, appending, closing, late,
                   dialVars, shutVars>>

\* A refused stream on a connection that is not closing stays pooled.
KeepConn(r) ==
    /\ pc[r] = "failed" /\ cstate[rconn[r]] = "open"
    /\ GiveUpOrRetry(r)
    /\ UNCHANGED <<poolVars, loopVars, connVars, goVars, late, failedOn, dialVars,
                   shutVars>>

\* connBodyGuard.Read returned bytes.
ReadProgress(r) ==
    /\ pc[r] = "body" /\ cstate[rconn[r]] = "open"
    /\ stalled' = stalled \ {rconn[r]}
    /\ UNCHANGED <<aged, idle>>
    /\ UNCHANGED <<poolVars, loopVars, cstate, inFlight, closeRequested, goVars,
                   callVars, dialVars, shutVars>>

\* The caller neither reads the body to its end nor closes it.
Abandon(r) ==
    /\ pc[r] = "body"
    /\ Goto(r, "abandoned", rconn[r])
    /\ CallerOnly

\* connBodyGuard.Read returned an error (io.EOF included) or Close was called;
\* the guard's sync.Once makes the release happen once.
FinishBody(r) ==
    /\ pc[r] = "body"
    /\ Release(rconn[r])
    /\ Goto(r, "done", NoConn)
    /\ late' = late \ {r}
    /\ UNCHANGED <<poolVars, loopVars, attempt, failedOn, dialVars, shutVars>>

-----------------------------------------------------------------------------
(* Connect, the probe of the protocol race: it dials without singleflight. *)

ConnectReturn(r) ==
    /\ pc[r] = "init" /\ r \in Probes /\ (closed \/ PooledUsable(KeyOf[r]))
    /\ Goto(r, "done", NoConn)
    /\ CallerOnly

ConnectDial(r) ==
    /\ pc[r] = "init" /\ r \in Probes /\ ~closed /\ ~PooledUsable(KeyOf[r])
    /\ Goto(r, "cdial", NoConn)
    /\ CallerOnly

ConnectConnected(r, c) ==
    /\ pc[r] = "cdial" /\ MayNegotiate(KeyOf[r], "h2")
    /\ Created(c, "open")
    /\ Goto(r, "cstore", c)
    /\ UNCHANGED <<poolVars, loopVars, goVars, histVars, dialVars, shutVars>>

ConnectDowngraded(r, c) ==
    /\ pc[r] = "cdial" /\ MayNegotiate(KeyOf[r], "http/1.1")
    /\ Created(c, "alpn")
    /\ Goto(r, "done", c)
    /\ UNCHANGED <<poolVars, loopVars, goVars, histVars, dialVars, shutVars>>

ConnectFailed(r) ==
    /\ pc[r] = "cdial"
    /\ Goto(r, "done", NoConn)
    /\ CallerOnly

\* The transport closed, or a usable connection appeared, during the dial.
ConnectDiscard(r) ==
    /\ pc[r] = "cstore" /\ (closed \/ PooledUsable(KeyOf[r]))
    /\ closing' = closing \cup Closes({rconn[r]}, "surplus")
    /\ Goto(r, "done", NoConn)
    /\ UNCHANGED <<poolVars, loopVars, connVars, evictVars, histVars, dialVars,
                   shutVars>>

\* Mutant of ConnectStore: the unusable connection is overwritten, not retired.
ConnectStoreDropsOld(r) ==
    /\ pc[r] = "cstore" /\ ~closed /\ ~PooledUsable(KeyOf[r])
    /\ conns' = [conns EXCEPT ![KeyOf[r]] = rconn[r]]
    /\ Goto(r, "done", NoConn)
    /\ UNCHANGED <<closed, retired, loopVars, connVars, goVars, histVars,
                   dialVars, shutVars>>

ConnectStore(r) ==
    LET c == conns[KeyOf[r]] IN
    /\ pc[r] = "cstore" /\ ~closed /\ ~PooledUsable(KeyOf[r])
    /\ retiring' = retiring \cup ({c} \ {NoConn})
    /\ conns' = [conns EXCEPT ![KeyOf[r]] = rconn[r]]
    /\ Goto(r, "done", NoConn)
    /\ UNCHANGED <<closed, retired, loopVars, connVars, appending, closing, histVars,
                   dialVars, shutVars>>

-----------------------------------------------------------------------------
(* Goroutines, the cleanup loop, and the shutdown operations.              *)

RunRetire(c) ==
    /\ c \in retiring
    /\ Retire(c)
    /\ retiring' = retiring \ {c}
    /\ UNCHANGED <<poolVars, loopVars, callVars, dialVars, shutVars>>

\* retire(), the critical section of retiredMu.  The caller is a goroutine, or
\* CloseGraceful, which then goes on to its next connection.
AppendRetired(c) ==
    /\ c \in appending
    /\ retired' = retired \cup {c}
    /\ appending' = appending \ {c}
    /\ graceTodo' = graceTodo \ {c}
    /\ UNCHANGED <<closed, conns, loopVars, connVars, retiring, closing, callVars,
                   dialVars, gracePc, closePc>>

\* persistentConn.close()
RunClose(x) ==
    /\ x \in closing
    /\ cstate' = [cstate EXCEPT ![x.conn] = "closed"]
    /\ closing' = closing \ {x}
    /\ UNCHANGED <<poolVars, loopVars, inFlight, closeRequested, timeVars, evictVars,
                   callVars, dialVars, shutVars>>

\* What cleanup closes, and why: nobody uses it, or its body is abandoned.
Doomed(cs) ==
    {[conn |-> c, why |-> IF inFlight[c] > 0 /\ c \in stalled THEN "abandoned"
                                                         ELSE "evict"] :
        c \in {d \in cs : Destroyable(d)}}

\* Mutant of Cleanup: the draining connections are never revisited.
CleanupPoolOnly ==
    /\ loop = "run"
    /\ conns' = [k \in Keys |-> IF conns[k] \in Pooled /\ Destroyable(conns[k])
                                THEN NoConn ELSE conns[k]]
    /\ closing' = closing \cup Doomed(Pooled)
    /\ loop' = "check"
    /\ UNCHANGED <<closed, retired, stopped, connVars, evictVars, callVars, dialVars,
                   shutVars>>

\* cleanup(), sweepRetired() included.
Cleanup ==
    LET drained == {c \in retired : cstate[c] = "closed"} IN
    /\ loop = "run"
    /\ conns' = [k \in Keys |-> IF conns[k] \in Pooled /\ Destroyable(conns[k])
                                THEN NoConn ELSE conns[k]]
    /\ retired' = {c \in retired \ drained : ~Destroyable(c)}
    /\ closing' = closing \cup Doomed(Pooled \cup (retired \ drained))
    /\ loop' = "check"
    /\ UNCHANGED <<closed, stopped, connVars, evictVars, callVars, dialVars,
                   shutVars>>

Drained == closed /\ retired = {}

\* The loop's drained() test after each tick.
LoopDrained ==
    /\ loop = "check"
    /\ loop' = IF Drained THEN "exited" ELSE "run"
    /\ UNCHANGED <<poolVars, stopped, connVars, goVars, callVars, dialVars,
                   shutVars>>

LoopStop ==
    /\ loop = "run" /\ stopped
    /\ loop' = "exited"
    /\ UNCHANGED <<poolVars, stopped, connVars, goVars, callVars, dialVars,
                   shutVars>>

Refresh ==
    /\ "Refresh" \in Shutdowns /\ ~closed
    /\ closing' = closing \cup Closes(Pooled, "forced")
    /\ conns' = [k \in Keys |-> NoConn]
    /\ UNCHANGED <<closed, retired, loopVars, connVars, evictVars, callVars, dialVars,
                   shutVars>>

\* Close, first critical section.
CloseBegin ==
    /\ "Close" \in Shutdowns /\ closePc = "idle"
    /\ closed' = TRUE
    /\ closing' = closing \cup Closes(Pooled, "forced")
    /\ conns' = [k \in Keys |-> NoConn]
    /\ closePc' = "swap"
    /\ UNCHANGED <<retired, loopVars, connVars, evictVars, callVars, dialVars,
                   gracePc, graceTodo>>

\* Close, second critical section: the draining connections are closed too.
CloseRetired ==
    /\ closePc = "swap"
    /\ stopped' = TRUE
    /\ closing' = closing \cup Closes(retired, "forced")
    /\ retired' = {}
    /\ closePc' = "done"
    /\ UNCHANGED <<closed, conns, loop, connVars, evictVars, callVars, dialVars,
                   gracePc, graceTodo>>

CloseGracefulBegin ==
    /\ "CloseGraceful" \in Shutdowns /\ gracePc = "idle" /\ ~closed
    /\ closed' = TRUE
    /\ graceTodo' = Pooled
    /\ conns' = [k \in Keys |-> NoConn]
    /\ gracePc' = "drain"
    /\ UNCHANGED <<retired, loopVars, connVars, goVars, callVars, dialVars,
                   closePc>>

CloseGracefulRetire(c) ==
    /\ gracePc = "drain" /\ c \in graceTodo /\ graceTodo \cap appending = {}
    /\ Retire(c)
    /\ graceTodo' = IF Deferred(c) THEN graceTodo ELSE graceTodo \ {c}
    /\ UNCHANGED <<poolVars, loopVars, retiring, callVars, dialVars, gracePc,
                   closePc>>

CloseGracefulEnd ==
    /\ gracePc = "drain" /\ graceTodo = {}
    /\ stopped' = (stopped \/ Drained)
    /\ gracePc' = "done"
    /\ UNCHANGED <<poolVars, loop, connVars, goVars, callVars, dialVars, graceTodo,
                   closePc>>

-----------------------------------------------------------------------------
(* Time.  A connection expires at the earliest 90 s after it was created   *)
(* (maxIdleTime); a dial ends after at most 80 s (two attempts of          *)
(* connectTimeout + 10 s) and the statements around it take no time.  So a *)
(* connection on its way into the pool, or pooled under a key while that   *)
(* key is being dialled (the dial began because the key held none), is too *)
(* young to expire.                                                        *)

Dialling(k) ==
    \/ dial[k].phase # "idle"
    \/ \E r \in Requests : KeyOf[r] = k /\ pc[r] = "join"

TooYoung(c) ==
    \/ \E k \in Keys : dial[k].conn = c \/ (conns[k] = c /\ Dialling(k))
    \/ \E r \in Requests : pc[r] = "cstore" /\ rconn[r] = c

Expire(c, fact) ==
    /\ cstate[c] = "open" /\ ~TooYoung(c)
    /\ aged' = IF fact = "idle" THEN aged ELSE aged \cup {c}
    /\ idle' = IF fact = "age" THEN idle ELSE idle \cup {c}
    /\ stalled' = IF fact = "stall" THEN stalled \cup {c} ELSE stalled
    /\ UNCHANGED <<poolVars, loopVars, cstate, inFlight, closeRequested, goVars,
                   callVars, dialVars, shutVars>>

-----------------------------------------------------------------------------
Caller(r) ==
    \/ Peek(r) \/ PeekHit(r) \/ PeekMiss(r)
    \/ LookupClosed(r) \/ LookupHit(r) \/ LookupMiss(r) \/ JoinDial(r)
    \/ CancelWait(r) \/ TakeDowngraded(r) \/ DropDowngraded(r)
    \/ \E c \in Conns : OwnDialConnected(r, c) \/ OwnDialDowngraded(r, c)
    \/ OwnDialFailed(r)
    \/ Acquire(r) \/ Headers(r) \/ HeadersNoBody(r) \/ Fail(r)
    \/ RemoveConn(r) \/ KeepConn(r) \/ ReadProgress(r) \/ Abandon(r) \/ FinishBody(r)
    \/ ConnectReturn(r) \/ ConnectDial(r) \/ ConnectFailed(r)
    \/ \E c \in Conns : ConnectConnected(r, c) \/ ConnectDowngraded(r, c)
    \/ ConnectDiscard(r) \/ ConnectStore(r)

Dialer(k) ==
    \/ DialRecheckHit(k) \/ DialRecheckMiss(k) \/ DialFailed(k)
    \/ \E c \in Conns : DialConnected(k, c) \/ DialDowngraded(k, c)
    \/ PublishClosed(k) \/ PublishSurplus(k) \/ PublishNew(k)
    \/ Deliver(k)

Background ==
    \/ \E c \in Conns : RunRetire(c) \/ AppendRetired(c)
    \/ \E x \in closing : RunClose(x)
    \/ Cleanup \/ LoopDrained \/ LoopStop

Shutdown ==
    \/ Refresh \/ CloseBegin \/ CloseRetired \/ CloseGracefulBegin
    \/ (\E c \in Conns : CloseGracefulRetire(c)) \/ CloseGracefulEnd

Next ==
    \/ \E r \in Requests : Caller(r)
    \/ \E k \in Keys : Dialer(k)
    \/ Background
    \/ Shutdown
    \/ \E c \in Conns, fact \in Expirations : Expire(c, fact)

Spec == Init /\ [][Next]_vars

(* Fairness.  A caller that has begun runs on: its dials and its exchange   *)
(* are bounded by timeouts or by its context.  A body is read to its end,   *)
(* closed or walked away from.  Goroutines are scheduled, the ticker of the *)
(* cleanup loop ticks, and time passes.                                     *)
Fairness ==
    /\ \A r \in Requests :
         /\ WF_vars(pc[r] \notin {"init", "wait", "body"} /\ Caller(r))
         /\ WF_vars(FinishBody(r) \/ Abandon(r))
    /\ \A k \in Keys : WF_vars(Dialer(k))
    /\ \A c \in Conns :
         /\ WF_vars(RunRetire(c)) /\ WF_vars(AppendRetired(c))
         /\ WF_vars(Expire(c, "stall"))
         /\ WF_vars(\E why \in Reasons : RunClose([conn |-> c, why |-> why]))
    /\ WF_vars(Cleanup) /\ WF_vars(LoopDrained)

FairSpec == Spec /\ Fairness

-----------------------------------------------------------------------------
(* Properties.                                                              *)

InUse == {"sent", "body", "abandoned"}

Users(c) == {r \in Requests : pc[r] \in InUse /\ rconn[r] = c}

\* inFlight counts exactly the requests whose exchange or body is unfinished:
\* every path of roundTrip and of connBodyGuard releases once.
InFlightExact == \A c \in Conns : inFlight[c] = Cardinality(Users(c))

\* On its way out: removed from the pool, to be closed or deferred.
Leaving(c) == c \in retiring \cup appending \cup retired \cup graceTodo \/ ClosePending(c)

\* isConnUsable never looks at conn.closed, so the pool must never hold a
\* connection that is closed, about to be closed, or waiting for its last body.
PooledServable ==
    \A c \in Pooled : cstate[c] = "open" /\ c \notin closeRequested /\ ~Leaving(c)

\* t.conns is nil once closed: no dial or probe that ends later may store into
\* it (a write to a nil map panics).
NoPublishAfterClose == closed => Pooled = {}

\* A deferred close is never forgotten: release() has fired it, or retire() has
\* put or is about to put the connection where cleanup finds it.
DeferredCloseTracked ==
    \A c \in closeRequested : cstate[c] = "open" =>
        c \in appending \cup retired \/ ClosePending(c)

\* Issue #83, as far as the code achieves it: a connection evicted for age,
\* idleness or error is closed under a request only if that request marked it
\* in use after the decision to close it.
OnlyLateArrivalsYanked ==
    \A x \in closing, r \in Requests :
        x.why = "evict" /\ r \in Users(x.conn) => r \in late

\* When every dial of a host negotiates the same protocol, an open connection
\* is always reachable by the pool, by a goroutine that will close it, or by
\* the dial or probe that is about to store it: no socket leaks.
OpenConnTracked ==
    \A c \in Conns : cstate[c] = "open" =>
        \/ c \in Pooled \/ Leaving(c)
        \/ \E k \in Keys : dial[k].conn = c
        \/ \E r \in Requests : pc[r] = "cstore" /\ rconn[r] = c

\* The live connection of an ALPN downgrade has one owner, or is being closed.
AlpnSingleOwner ==
    \A c \in Conns : cstate[c] = "alpn" =>
        IF ClosePending(c) THEN \A r \in Requests : rconn[r] # c
                           ELSE Cardinality({r \in Requests : rconn[r] = c}) = 1

\* After a failure that means the connection is gone, no later attempt of the
\* same request is sent on that connection again, whichever way the attempt gets
\* its connection: peek, lookup, recheck, a dial of its own or a dial shared with
\* others (http2_transport.go:391-432, 525-572).  The one exception is a retry
\* that joins a call whose function had already returned that connection.
RetryAvoidsFailed ==
    \A r \in Requests :
        pc[r] \in {"peek", "acquire", "sent"} => rconn[r] # failedOn[r]

\* A request that has begun gets its response or its error: no waiter of a
\* shared dial is left behind, and the retries end.
RequestAnswered ==
    \A r \in Requests :
        pc[r] # "init" ~> pc[r] \in {"body", "abandoned", "done"}

\* Every connection is closed in the end, also when the body of an evicted one
\* is abandoned without being closed.
EveryConnReclaimed ==
    \A c \in Conns : cstate[c] = "open" ~> cstate[c] = "closed"

\* Shutdown races with dials, probes and downgrades: nothing is stored once the
\* transport is closed, a pooled connection is not on its way out, one that
\* negotiated HTTP/1.1 has exactly one owner or is being closed, and a deferred
\* close is carried out or tracked although Close came between the two critical
\* sections of retire (http2_transport.go:178-200, 540-610, 1378-1451).
ShutdownSound ==
    NoPublishAfterClose /\ AlpnSingleOwner /\ PooledServable /\ DeferredCloseTracked
=============================================================================
