------------------------------- MODULE CLib -------------------------------
(***************************************************************************)
(* bindings/clib: the handle tables the C API keeps for the language       *)
(* bindings.  A host calls in from several threads; an asynchronous call   *)
(* runs on a goroutine of its own and answers through the callback the     *)
(* host registered, which the host may unregister or cancel at any moment. *)
(* session.Do and DoStream are the calls out of this module; they end with *)
(* an answer, an error or a recovered panic.                               *)
(***************************************************************************)
EXTENDS Naturals, FiniteSets

CONSTANTS
    MaxHandles,    \* bound: session handles given out
    Threads,       \* host threads making synchronous calls
    Calls,         \* asynchronous calls, each with a callback ID of its own
    MaxSyncCalls   \* bound: synchronous calls

ASSUME CLibConstants == MaxHandles \in Nat \ {0} /\ MaxSyncCalls \in Nat

Handles == 1..MaxHandles

\* The entry points that return an int64 and carry no message of their own;
\* Recording is the subset that keeps lastErrors.
Recording == {"raw", "stream"}

SyncKinds == Recording \cup {"fast"}

AsyncKinds == {"request", "stream"}

VARIABLES
    sessionCounter,
    sessions,        \* the handles of the table
    lastErrors,      \* the handles with a stored error
    thread,          \* per thread: pc, entry point, session handle
    syncCalls,       \* synchronous calls made
    rawResponses,    \* how many handles of rawResponses and fastResponses are open
    rawStreams,      \* how many streams opened by a synchronous call are open
    asyncCallbacks,  \* the callback IDs of the table
    cancelFuncs,     \* the callback IDs with a cancel func
    fetched,         \* the IDs whose cancel func a canceller has read
    cancelledCalls,  \* the IDs whose context is cancelled
    call,            \* per asynchronous call: pc, kind, outcome
    streams,         \* the streams in the table that an asynchronous call opened
    told,            \* calls the host has been called back for, with how often
    refused          \* calls whose callback the host unregistered

clibVars == <<sessionCounter, sessions, lastErrors, thread, syncCalls, rawResponses,
              rawStreams, asyncCallbacks, cancelFuncs, fetched, cancelledCalls, call,
              streams, told, refused>>

sessionTable == <<sessionCounter, sessions>>
syncState == <<lastErrors, thread, syncCalls, rawResponses, rawStreams>>
callbackState == <<asyncCallbacks, cancelFuncs, fetched, cancelledCalls, call, streams, told, refused>>

IdleThread == [pc |-> "idle", kind |-> "raw", handle |-> 1]

CLibInit ==
    /\ sessionCounter = 0 /\ sessions = {} /\ lastErrors = {}
    /\ thread = [t \in Threads |-> IdleThread] /\ syncCalls = 0
    /\ rawResponses = 0 /\ rawStreams = 0
    /\ asyncCallbacks = {} /\ cancelFuncs = {} /\ fetched = {} /\ cancelledCalls = {}
    /\ call = [k \in Calls |-> [pc |-> "new", kind |-> "request", ok |-> FALSE]]
    /\ streams = {} /\ told = [k \in Calls |-> 0] /\ refused = {}

\* The type invariant.
CLibTypeOK ==
    /\ sessionCounter \in 0..MaxHandles /\ sessions \subseteq 1..sessionCounter
    /\ lastErrors \subseteq Handles
    /\ thread \in [Threads -> [pc : {"idle", "doing"}, kind : SyncKinds, handle : Handles]]
    /\ syncCalls \in 0..MaxSyncCalls /\ rawResponses \in Nat /\ rawStreams \in Nat
    /\ asyncCallbacks \subseteq Calls /\ cancelFuncs \subseteq Calls
    /\ fetched \subseteq Calls /\ cancelledCalls \subseteq Calls
    /\ call \in [Calls -> [pc : {"new", "registered", "running", "invoke", "report",
                                 "orphan", "cleanup", "done"},
                           kind : AsyncKinds, ok : BOOLEAN]]
    /\ streams \subseteq Calls /\ told \in [Calls -> Nat] /\ refused \subseteq Calls

-----------------------------------------------------------------------------
(* Session handles.                                                        *)

\* The next handle, under sessionMu.
AddSession ==
    /\ sessionCounter < MaxHandles
    /\ sessionCounter' = sessionCounter + 1
    /\ sessions' = sessions \cup {sessionCounter + 1}
    /\ UNCHANGED <<syncState, callbackState>>

SessionNew == AddSession

\* session_fork reads its parent from the table first.
SessionFork(h) == h \in sessions /\ AddSession

\* session_load and session_unmarshal; a file that cannot be read gives no handle.
SessionLoad == AddSession

\* session_free: the handle and its stored error go together, then the session
\* is closed.
FreeSession(h) ==
    /\ h \in sessions
    /\ sessions' = sessions \ {h} /\ lastErrors' = lastErrors \ {h}
    /\ UNCHANGED <<sessionCounter, thread, syncCalls, rawResponses, rawStreams, callbackState>>

-----------------------------------------------------------------------------
(* Synchronous calls: get_raw, post_raw, request_raw ("raw"), stream_get,  *)
(* stream_post, stream_request ("stream"), get_fast ("fast").              *)

\* clearLastError and getSession, two critical sections with nothing between
\* that another thread could tell apart; a handle that does not resolve
\* returns -1 at once.
BeginSync(t, k, h) ==
    /\ thread[t].pc = "idle" /\ syncCalls < MaxSyncCalls /\ h <= sessionCounter
    /\ syncCalls' = syncCalls + 1
    /\ lastErrors' = IF k \in Recording THEN lastErrors \ {h} ELSE lastErrors
    /\ thread' = [thread EXCEPT ![t] =
                    IF h \in sessions THEN [pc |-> "doing", kind |-> k, handle |-> h] ELSE @]
    /\ UNCHANGED <<rawResponses, rawStreams, sessionTable, callbackState>>

RawCall(t, h) == BeginSync(t, "raw", h)
StreamCall(t, h) == BeginSync(t, "stream", h)
GetFast(t, h) == BeginSync(t, "fast", h)

\* The session may have been freed while the call was out.
SetLastError(h) == IF h \in sessions THEN lastErrors \cup {h} ELSE lastErrors

\* makeRawResponse and get_fast_finish store a response, the stream calls a stream.
StoredResponses(k, ok) == rawResponses + (IF ok /\ k # "stream" THEN 1 ELSE 0)
StoredStreams(k, ok) == rawStreams + (IF ok /\ k = "stream" THEN 1 ELSE 0)

EndSync(t, ok) ==
    LET k == thread[t].kind
    IN  /\ thread[t].pc = "doing"
        /\ lastErrors' = IF ~ok /\ k \in Recording THEN SetLastError(thread[t].handle) ELSE lastErrors
        /\ rawResponses' = StoredResponses(k, ok) /\ rawStreams' = StoredStreams(k, ok)
        /\ thread' = [thread EXCEPT ![t] = IdleThread]
        /\ UNCHANGED <<syncCalls, sessionTable, callbackState>>

\* response_free, response_finalize and fast_free.
FreeResponse ==
    /\ rawResponses > 0 /\ rawResponses' = rawResponses - 1
    /\ UNCHANGED <<lastErrors, thread, syncCalls, rawStreams, sessionTable, callbackState>>

CloseSyncStream ==
    /\ rawStreams > 0 /\ rawStreams' = rawStreams - 1
    /\ UNCHANGED <<lastErrors, thread, syncCalls, rawResponses, sessionTable, callbackState>>

-----------------------------------------------------------------------------
(* Asynchronous calls.                                                     *)

RegisterCallback(k) ==
    /\ call[k].pc = "new"
    /\ call' = [call EXCEPT ![k].pc = "registered"]
    /\ asyncCallbacks' = asyncCallbacks \cup {k}
    /\ UNCHANGED <<cancelFuncs, fetched, cancelledCalls, streams, told, refused, sessionTable,
                   syncState>>

\* Forgets the callback and the cancel func; the request runs on.
UnregisterCallback(k) ==
    /\ k \in asyncCallbacks
    /\ asyncCallbacks' = asyncCallbacks \ {k} /\ cancelFuncs' = cancelFuncs \ {k}
    /\ refused' = refused \cup {k}
    /\ UNCHANGED <<fetched, cancelledCalls, call, streams, told, sessionTable, syncState>>

\* cancel_request reads the func under the lock and calls it after.
FetchCancel(k) ==
    /\ k \in cancelFuncs \ fetched
    /\ fetched' = fetched \cup {k}
    /\ UNCHANGED <<asyncCallbacks, cancelFuncs, cancelledCalls, call, streams, told, refused,
                   sessionTable, syncState>>

CancelRequest(k) ==
    /\ k \in fetched \ cancelledCalls
    /\ cancelledCalls' = cancelledCalls \cup {k}
    /\ UNCHANGED <<asyncCallbacks, cancelFuncs, fetched, call, streams, told, refused,
                   sessionTable, syncState>>

\* The session is resolved, the cancel func stored and the goroutine started,
\* which answers a session it has not got as an error.
StartAsync(k, kind) ==
    /\ call[k].pc = "registered"
    /\ call' = [call EXCEPT ![k].pc = "running", ![k].kind = kind]
    /\ cancelFuncs' = cancelFuncs \cup {k}
    /\ UNCHANGED <<asyncCallbacks, fetched, cancelledCalls, streams, told, refused, sessionTable,
                   syncState>>

GetAsync(k) == StartAsync(k, "request")
PostAsync(k) == StartAsync(k, "request")
RequestAsync(k) == StartAsync(k, "request")
StreamRequestAsync(k) == StartAsync(k, "stream")

\* stream_request_async with undecodable JSON answers without a context.
StartInvalid(k) ==
    /\ call[k].pc = "registered"
    /\ call' = [call EXCEPT ![k].pc = "invoke"]
    /\ UNCHANGED <<asyncCallbacks, cancelFuncs, fetched, cancelledCalls, streams, told, refused,
                   sessionTable, syncState>>

\* Do or DoStream returns.  A stream is stored before its caller hears of it.
AsyncReturns(k, ok) ==
    /\ call[k].pc = "running"
    /\ call' = [call EXCEPT ![k].pc = "invoke", ![k].ok = ok]
    /\ streams' = IF ok /\ call[k].kind = "stream" THEN streams \cup {k} ELSE streams
    /\ UNCHANGED <<asyncCallbacks, cancelFuncs, fetched, cancelledCalls, told, refused,
                   sessionTable, syncState>>

\* Mutant of GuardAsync: the panic is logged and not reported.
GuardAsyncSilent(k) == "cleanup"

\* guardAsync: a recovered panic is answered as an error.
GuardAsync(k) == "invoke"

AsyncPanics(k) ==
    /\ call[k].pc = "running"
    /\ call' = [call EXCEPT ![k].pc = GuardAsync(k)]
    /\ UNCHANGED <<asyncCallbacks, cancelFuncs, fetched, cancelledCalls, streams, told, refused,
                   sessionTable, syncState>>

\* Mutant of Unheard: the stream is left to a caller that never learns of it.
UnheardIgnored(k) == "cleanup"

\* invokeCallback found nobody: the goroutine closes the stream it opened.
Unheard(k) == IF k \in streams THEN "orphan" ELSE "cleanup"

\* invokeCallback, the part under callbackMu: take the callback, drop both entries.
TakeCallback(k) ==
    /\ call[k].pc = "invoke"
    /\ asyncCallbacks' = asyncCallbacks \ {k} /\ cancelFuncs' = cancelFuncs \ {k}
    /\ call' = [call EXCEPT ![k].pc = IF k \in asyncCallbacks THEN "report" ELSE Unheard(k)]
    /\ UNCHANGED <<fetched, cancelledCalls, streams, told, refused, sessionTable, syncState>>

\* ... and the call into the host, outside the lock.
Report(k) ==
    /\ call[k].pc = "report"
    /\ told' = [told EXCEPT ![k] = @ + 1]
    /\ call' = [call EXCEPT ![k].pc = "cleanup"]
    /\ UNCHANGED <<asyncCallbacks, cancelFuncs, fetched, cancelledCalls, streams, refused,
                   sessionTable, syncState>>

CloseOrphan(k) ==
    /\ call[k].pc = "orphan"
    /\ streams' = streams \ {k} /\ cancelledCalls' = cancelledCalls \cup {k}
    /\ call' = [call EXCEPT ![k].pc = "cleanup"]
    /\ UNCHANGED <<asyncCallbacks, cancelFuncs, fetched, told, refused, sessionTable, syncState>>

\* The deferred calls: the context is released unless a stream took it over.
CleanupLibrary(k) ==
    /\ call[k].pc = "cleanup"
    /\ call' = [call EXCEPT ![k].pc = "done"]
    /\ cancelFuncs' = IF call[k].kind = "stream" THEN cancelFuncs \ {k} ELSE cancelFuncs
    /\ cancelledCalls' = IF call[k].kind = "stream" /\ call[k].ok THEN cancelledCalls
                         ELSE cancelledCalls \cup {k}
    /\ UNCHANGED <<asyncCallbacks, fetched, streams, told, refused, sessionTable, syncState>>

\* stream_close, by a host that was told the handle.
CloseStream(k) ==
    /\ k \in streams /\ told[k] > 0
    /\ streams' = streams \ {k} /\ cancelledCalls' = cancelledCalls \cup {k}
    /\ UNCHANGED <<asyncCallbacks, cancelFuncs, fetched, call, told, refused, sessionTable,
                   syncState>>

Goroutine(k) ==
    \/ \E ok \in BOOLEAN : AsyncReturns(k, ok)
    \/ AsyncPanics(k) \/ TakeCallback(k) \/ Report(k) \/ CloseOrphan(k) \/ CleanupLibrary(k)

CLibNext ==
    \/ SessionNew \/ SessionLoad \/ FreeResponse \/ CloseSyncStream
    \/ \E h \in Handles : SessionFork(h) \/ FreeSession(h)
    \/ \E t \in Threads : \/ \E h \in Handles : RawCall(t, h) \/ StreamCall(t, h) \/ GetFast(t, h)
                          \/ \E ok \in BOOLEAN : EndSync(t, ok)
    \/ \E k \in Calls : \/ RegisterCallback(k) \/ UnregisterCallback(k)
                        \/ FetchCancel(k) \/ CancelRequest(k)
                        \/ GetAsync(k) \/ PostAsync(k) \/ RequestAsync(k)
                        \/ StreamRequestAsync(k) \/ StartInvalid(k)
                        \/ Goroutine(k) \/ CloseStream(k)

\* The goroutine of a call is scheduled, and Do ends: every path of it is under a timeout.
CLibFairness == \A k \in Calls : WF_clibVars(Goroutine(k))

CLibSpec == CLibInit /\ [][CLibNext]_clibVars /\ CLibFairness

-----------------------------------------------------------------------------
(* Properties.                                                             *)

\* When an asynchronous call is over, whatever unregistering and cancelling
\* raced with it, the host was called back once, or had unregistered and was
\* not called; nothing of the call is left in the tables; and a stream it
\* opened is closed or known to the host, which alone can close it
\* (invokeCallback, httpcloak.go:1720; stream_request_async, :3905-3909).
CallAccounted ==
    \A k \in Calls : call[k].pc = "done" =>
        /\ told[k] = IF k \in refused /\ told[k] = 0 THEN 0 ELSE 1
        /\ k \notin asyncCallbacks \cup cancelFuncs
        /\ k \in streams => told[k] = 1

\* "an entry cannot outlive its session" (httpcloak.go:70): a call that fails
\* after session_free leaves no error behind.
ErrorOfLiveSession == lastErrors \subseteq sessions

\* An asynchronous call that was started is reported to the host, or the host
\* has unregistered its callback (guardAsync: no future hangs forever).
CallAnswered ==
    \A k \in Calls : call[k].pc = "running" ~> (told[k] > 0 \/ k \in refused)

\* The tables agree once a call is over: one callback, no entry left behind, no
\* stream nobody can close, no error of a freed session (httpcloak.go:70,
\* 1720-1753, 3905-3909).
TablesSettled == CallAccounted /\ ErrorOfLiveSession
=============================================================================
