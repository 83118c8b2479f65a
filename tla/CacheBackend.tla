---------------------------- MODULE CacheBackend ----------------------------
(***************************************************************************)
(* bindings/clib: the session cache a host provides through callbacks.     *)
(* A synchronous backend is answered by the callback itself.  For an       *)
(* asynchronous one each operation takes a request ID from one counter,    *)
(* registers a channel of capacity 1 in the table of gets or of puts and   *)
(* deletes, calls the host and waits; the host answers by ID, late, twice, *)
(* in the other table, or never.                                           *)
(***************************************************************************)
EXTENDS Naturals

CONSTANTS
    BackendUsers, \* goroutines that use the backend
    MaxRequests   \* bound: request IDs given out

ASSUME BackendConstants == MaxRequests \in Nat

Tables == {"get", "op"}

VARIABLES
    asyncCacheRequestID,
    pending,      \* per table: the IDs with a channel
    channel,      \* the answers in a channel: [id |-> set of answers]
    user,         \* per goroutine: pc, table, request ID, what it got, and whether
                  \* its session was made with the asynchronous backend
    globalBackend \* the backend new sessions get: none, sync, async

backendVars == <<asyncCacheRequestID, pending, channel, user, globalBackend>>

RequestIds == 1..MaxRequests

\* An answer is named by the request the host gave it for.
NoAnswer == 0

BackendInit ==
    /\ asyncCacheRequestID = 0 /\ pending = [t \in Tables |-> {}]
    /\ channel = [i \in RequestIds |-> NoAnswer]
    /\ user = [u \in BackendUsers |-> [pc |-> "idle", table |-> "get", id |-> 0, got |-> NoAnswer,
                                  async |-> FALSE]]
    /\ globalBackend = "none"

\* The type invariant.
BackendTypeOK ==
    /\ asyncCacheRequestID \in 0..MaxRequests
    /\ pending \in [Tables -> SUBSET RequestIds]
    /\ channel \in [RequestIds -> 0..MaxRequests]
    /\ user \in [BackendUsers -> [pc : {"idle", "waiting", "leaving"}, table : Tables,
                           id : 0..MaxRequests, got : 0..MaxRequests, async : BOOLEAN]]
    /\ globalBackend \in {"none", "sync", "async"}

\* set_session_cache_callbacks, set_async_session_cache_callbacks and
\* clear_session_cache_callbacks; sessions made earlier keep the backend they had.
SetCallbacks(b) ==
    /\ globalBackend' = b /\ b # globalBackend
    /\ UNCHANGED <<asyncCacheRequestID, pending, channel, user>>

\* getSessionCacheBackend, when a session is made.
AttachBackend(u) ==
    /\ user[u].pc = "idle" /\ user' = [user EXCEPT ![u].async = globalBackend = "async"]
    /\ UNCHANGED <<asyncCacheRequestID, pending, channel, globalBackend>>

\* registerGetRequest or registerOpRequest, then the call into the host.
BeginWait(u, t) ==
    /\ user[u].pc = "idle" /\ user[u].async /\ asyncCacheRequestID < MaxRequests
    /\ asyncCacheRequestID' = asyncCacheRequestID + 1
    /\ pending' = [pending EXCEPT ![t] = @ \cup {asyncCacheRequestID + 1}]
    /\ user' = [user EXCEPT ![u] = [pc |-> "waiting", table |-> t,
                                    id |-> asyncCacheRequestID + 1, got |-> NoAnswer,
                                    async |-> TRUE]]
    /\ UNCHANGED <<channel, globalBackend>>

\* Get, Put and Delete of a ticket, GetECHConfig and PutECHConfig.
BackendGet(u) == BeginWait(u, "get")
BackendPut(u) == BeginWait(u, "op")
BackendDelete(u) == BeginWait(u, "op")
BackendGetECHConfig(u) == BeginWait(u, "get")
BackendPutECHConfig(u) == BeginWait(u, "op")

\* async_cache_get_result, async_cache_op_result: an ID that is not in the table
\* is dropped, and so is an answer that finds the channel full.
Deliver(i, t) ==
    IF i \in pending[t] /\ channel[i] = NoAnswer THEN [channel EXCEPT ![i] = i] ELSE channel

HostAnswers(i, t) ==
    /\ i <= asyncCacheRequestID /\ channel' = Deliver(i, t) /\ channel' # channel
    /\ UNCHANGED <<asyncCacheRequestID, pending, user, globalBackend>>

\* The answer arrives.
Receive(u) ==
    /\ user[u].pc = "waiting" /\ channel[user[u].id] # NoAnswer
    /\ user' = [user EXCEPT ![u].pc = "leaving", ![u].got = channel[user[u].id]]
    /\ channel' = [channel EXCEPT ![user[u].id] = NoAnswer]
    /\ UNCHANGED <<asyncCacheRequestID, pending, globalBackend>>

\* Mutant of MayGiveUp: the wait has no bound of its own.
MayGiveUpNever(u) == FALSE

\* The caller's context ends or asyncCacheTimeout has passed.
MayGiveUp(u) == user[u].pc = "waiting"

GiveUp(u) ==
    /\ MayGiveUp(u)
    /\ user' = [user EXCEPT ![u].pc = "leaving"]
    /\ UNCHANGED <<asyncCacheRequestID, pending, channel, globalBackend>>

\* The deferred cleanupGetRequest or cleanupOpRequest.
Leave(u) ==
    /\ user[u].pc = "leaving"
    /\ pending' = [pending EXCEPT ![user[u].table] = @ \ {user[u].id}]
    /\ user' = [user EXCEPT ![u].pc = "idle"]
    /\ UNCHANGED <<asyncCacheRequestID, channel, globalBackend>>

BackendNext ==
    \/ \E b \in {"none", "sync", "async"} : SetCallbacks(b)
    \/ \E u \in BackendUsers :
          \/ AttachBackend(u) \/ BackendGet(u) \/ BackendPut(u) \/ BackendDelete(u)
          \/ BackendGetECHConfig(u) \/ BackendPutECHConfig(u)
          \/ Receive(u) \/ GiveUp(u) \/ Leave(u)
    \/ \E i \in RequestIds, t \in Tables : HostAnswers(i, t)

\* The waiting goroutine is scheduled and its timer fires; the host owes nothing.
BackendFairness == \A u \in BackendUsers : WF_backendVars(Receive(u) \/ GiveUp(u) \/ Leave(u))

BackendSpec == BackendInit /\ [][BackendNext]_backendVars /\ BackendFairness

-----------------------------------------------------------------------------
(* Properties.                                                             *)

\* A goroutine that waits for the host ends its wait, though the host answers
\* late, in the wrong table or never, and then leaves nothing of its request in
\* the tables (httpcloak.go:2949-2994).
BackendWaitEnds ==
    \A u \in BackendUsers : user[u].pc = "waiting" ~>
        user[u].pc = "idle" /\ \A t \in Tables : user[u].id \notin pending[t]
=============================================================================
