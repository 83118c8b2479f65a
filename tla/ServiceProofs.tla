---------------------------- MODULE ServiceProofs ----------------------------
(***************************************************************************)
(* Theorems about the services: the tables of the C library in CLib, the   *)
(* caches of DNSCache, the host's cache in CacheBackend, the local proxy   *)
(* of LocalProxy and the dials of DialRace.  They share no state; each has *)
(* an inductive invariant of its own.  The last section puts them together *)
(* with the pools of HostPool, as MCServices does.                         *)
(***************************************************************************)
EXTENDS MCServices, HostPoolProofs, FiniteSetTheorems, TLAPS

-----------------------------------------------------------------------------
(* The tables of the C library.                                            *)

\* How far an asynchronous call has come is told by the tables: its callback is
\* there until it is taken or refused, its cancel func until it is answered, and
\* a stream it leaves behind is known to the host.
CallInv(k) ==
    /\ k \in asyncCallbacks => call[k].pc \in {"registered", "running", "invoke"}
    /\ call[k].pc \in {"registered", "running", "invoke"} =>
          k \in asyncCallbacks \/ k \in refused
    /\ k \in cancelFuncs => call[k].pc \in {"running", "invoke"}
    /\ call[k].pc \in {"cleanup", "done"} => told[k] = 1 \/ (told[k] = 0 /\ k \in refused)
    /\ call[k].pc \notin {"cleanup", "done"} => told[k] = 0
    /\ call[k].pc = "orphan" => k \in refused
    /\ k \in streams /\ call[k].pc \in {"cleanup", "done"} => told[k] = 1
    /\ k \in streams => call[k].pc \in {"invoke", "report", "orphan", "cleanup", "done"}

CLibInv == CLibTypeOK /\ ErrorOfLiveSession /\ \A k \in Calls : CallInv(k)

\* A step that leaves the callbacks alone keeps what they say.
LEMMA CallsSame ==
  ASSUME \A k \in Calls : CallInv(k), UNCHANGED callbackState
  PROVE  \A k \in Calls : CallInv(k)'
BY DEF CallInv, callbackState

\* Every step of the C library keeps the types.
LEMMA CLibTypeStep ==
  ASSUME CLibConstants, CLibTypeOK, [CLibNext]_clibVars
  PROVE  CLibTypeOK'
<1> USE DEF CLibConstants, CLibTypeOK, Handles, SyncKinds, Recording, AsyncKinds, IdleThread,
        sessionTable, syncState, callbackState
<1>1. ASSUME SessionNew PROVE CLibTypeOK'
  BY <1>1 DEF SessionNew, AddSession
<1>2. ASSUME SessionLoad PROVE CLibTypeOK'
  BY <1>2 DEF SessionLoad, AddSession
<1>3. ASSUME FreeResponse PROVE CLibTypeOK'
  BY <1>3 DEF FreeResponse
<1>4. ASSUME CloseSyncStream PROVE CLibTypeOK'
  BY <1>4 DEF CloseSyncStream
<1>5. ASSUME NEW h \in Handles, SessionFork(h) PROVE CLibTypeOK'
  BY <1>5 DEF SessionFork, AddSession
<1>6. ASSUME NEW h \in Handles, FreeSession(h) PROVE CLibTypeOK'
  BY <1>6 DEF FreeSession
<1>7. ASSUME NEW t \in Threads, NEW h \in Handles, RawCall(t, h) PROVE CLibTypeOK'
  BY <1>7 DEF RawCall, BeginSync
<1>8. ASSUME NEW t \in Threads, NEW h \in Handles, StreamCall(t, h) PROVE CLibTypeOK'
  BY <1>8 DEF StreamCall, BeginSync
<1>9. ASSUME NEW t \in Threads, NEW h \in Handles, GetFast(t, h) PROVE CLibTypeOK'
  BY <1>9 DEF GetFast, BeginSync
<1>10. ASSUME NEW t \in Threads, NEW ok \in BOOLEAN, EndSync(t, ok) PROVE CLibTypeOK'
  <2>1. rawResponses' \in Nat /\ rawStreams' \in Nat
    BY <1>10 DEF EndSync, StoredResponses, StoredStreams
  <2>2. lastErrors' \subseteq Handles
    BY <1>10 DEF EndSync, SetLastError
  <2>3. thread' \in [Threads -> [pc : {"idle", "doing"}, kind : SyncKinds, handle : Handles]]
    BY <1>10 DEF EndSync
  <2> QED BY <1>10, <2>1, <2>2, <2>3 DEF EndSync
<1>11. ASSUME NEW k \in Calls, RegisterCallback(k) PROVE CLibTypeOK'
  BY <1>11 DEF RegisterCallback
<1>12. ASSUME NEW k \in Calls, UnregisterCallback(k) PROVE CLibTypeOK'
  BY <1>12 DEF UnregisterCallback
<1>13. ASSUME NEW k \in Calls, FetchCancel(k) PROVE CLibTypeOK'
  BY <1>13 DEF FetchCancel
<1>14. ASSUME NEW k \in Calls, CancelRequest(k) PROVE CLibTypeOK'
  BY <1>14 DEF CancelRequest
<1>15. ASSUME NEW k \in Calls, GetAsync(k) PROVE CLibTypeOK'
  BY ZenonT(60), <1>15 DEF GetAsync, StartAsync
<1>16. ASSUME NEW k \in Calls, PostAsync(k) PROVE CLibTypeOK'
  BY ZenonT(60), <1>16 DEF PostAsync, StartAsync
<1>17. ASSUME NEW k \in Calls, RequestAsync(k) PROVE CLibTypeOK'
  BY <1>17 DEF RequestAsync, StartAsync
<1>18. ASSUME NEW k \in Calls, StreamRequestAsync(k) PROVE CLibTypeOK'
  BY ZenonT(60), <1>18 DEF StreamRequestAsync, StartAsync
<1>19. ASSUME NEW k \in Calls, StartInvalid(k) PROVE CLibTypeOK'
  BY <1>19 DEF StartInvalid
<1>20. ASSUME NEW k \in Calls, NEW ok \in BOOLEAN, AsyncReturns(k, ok) PROVE CLibTypeOK'
  BY ZenonT(60), <1>20 DEF AsyncReturns
<1>21. ASSUME NEW k \in Calls, AsyncPanics(k) PROVE CLibTypeOK'
  BY <1>21 DEF AsyncPanics, GuardAsync
<1>22. ASSUME NEW k \in Calls, TakeCallback(k) PROVE CLibTypeOK'
  BY <1>22 DEF TakeCallback, Unheard
<1>23. ASSUME NEW k \in Calls, Report(k) PROVE CLibTypeOK'
  BY <1>23 DEF Report
<1>24. ASSUME NEW k \in Calls, CloseOrphan(k) PROVE CLibTypeOK'
  BY <1>24 DEF CloseOrphan
<1>25. ASSUME NEW k \in Calls, CleanupLibrary(k) PROVE CLibTypeOK'
  BY <1>25 DEF CleanupLibrary
<1>26. ASSUME NEW k \in Calls, CloseStream(k) PROVE CLibTypeOK'
  BY <1>26 DEF CloseStream
<1>27. CASE UNCHANGED clibVars
  BY <1>27 DEF clibVars
<1> QED BY <1>1, <1>2, <1>3, <1>4, <1>5, <1>6, <1>7, <1>8, <1>9, <1>10, <1>11, <1>12, <1>13,
    <1>14, <1>15, <1>16, <1>17, <1>18, <1>19, <1>20, <1>21, <1>22, <1>23, <1>24, <1>25,
    <1>26, <1>27 DEF CLibNext, Goroutine

\* Every step keeps the stored errors within the live sessions.
LEMMA ErrorStep ==
  ASSUME ErrorOfLiveSession, [CLibNext]_clibVars
  PROVE  ErrorOfLiveSession'
<1> USE DEF ErrorOfLiveSession, sessionTable, syncState, callbackState
<1>1. ASSUME SessionNew PROVE ErrorOfLiveSession'
  BY <1>1 DEF SessionNew, AddSession
<1>2. ASSUME SessionLoad PROVE ErrorOfLiveSession'
  BY <1>2 DEF SessionLoad, AddSession
<1>3. ASSUME FreeResponse PROVE ErrorOfLiveSession'
  BY <1>3 DEF FreeResponse
<1>4. ASSUME CloseSyncStream PROVE ErrorOfLiveSession'
  BY <1>4 DEF CloseSyncStream
<1>5. ASSUME NEW h \in Handles, SessionFork(h) PROVE ErrorOfLiveSession'
  BY <1>5 DEF SessionFork, AddSession
<1>6. ASSUME NEW h \in Handles, FreeSession(h) PROVE ErrorOfLiveSession'
  BY <1>6 DEF FreeSession
<1>7. ASSUME NEW t \in Threads, NEW h \in Handles, RawCall(t, h) PROVE ErrorOfLiveSession'
  BY <1>7 DEF RawCall, BeginSync
<1>8. ASSUME NEW t \in Threads, NEW h \in Handles, StreamCall(t, h) PROVE ErrorOfLiveSession'
  BY <1>8 DEF StreamCall, BeginSync
<1>9. ASSUME NEW t \in Threads, NEW h \in Handles, GetFast(t, h) PROVE ErrorOfLiveSession'
  BY <1>9 DEF GetFast, BeginSync
<1>10. ASSUME NEW t \in Threads, NEW ok \in BOOLEAN, EndSync(t, ok) PROVE ErrorOfLiveSession'
  BY <1>10 DEF EndSync, SetLastError, StoredResponses, StoredStreams
<1>11. ASSUME NEW k \in Calls, RegisterCallback(k) PROVE ErrorOfLiveSession'
  BY <1>11 DEF RegisterCallback
<1>12. ASSUME NEW k \in Calls, UnregisterCallback(k) PROVE ErrorOfLiveSession'
  BY <1>12 DEF UnregisterCallback
<1>13. ASSUME NEW k \in Calls, FetchCancel(k) PROVE ErrorOfLiveSession'
  BY <1>13 DEF FetchCancel
<1>14. ASSUME NEW k \in Calls, CancelRequest(k) PROVE ErrorOfLiveSession'
  BY <1>14 DEF CancelRequest
<1>15. ASSUME NEW k \in Calls, GetAsync(k) PROVE ErrorOfLiveSession'
  BY <1>15 DEF GetAsync, StartAsync
<1>16. ASSUME NEW k \in Calls, PostAsync(k) PROVE ErrorOfLiveSession'
  BY <1>16 DEF PostAsync, StartAsync
<1>17. ASSUME NEW k \in Calls, RequestAsync(k) PROVE ErrorOfLiveSession'
  BY <1>17 DEF RequestAsync, StartAsync
<1>18. ASSUME NEW k \in Calls, StreamRequestAsync(k) PROVE ErrorOfLiveSession'
  BY <1>18 DEF StreamRequestAsync, StartAsync
<1>19. ASSUME NEW k \in Calls, StartInvalid(k) PROVE ErrorOfLiveSession'
  BY <1>19 DEF StartInvalid
<1>20. ASSUME NEW k \in Calls, NEW ok \in BOOLEAN, AsyncReturns(k, ok) PROVE ErrorOfLiveSession'
  BY <1>20 DEF AsyncReturns
<1>21. ASSUME NEW k \in Calls, AsyncPanics(k) PROVE ErrorOfLiveSession'
  BY <1>21 DEF AsyncPanics, GuardAsync
<1>22. ASSUME NEW k \in Calls, TakeCallback(k) PROVE ErrorOfLiveSession'
  BY <1>22 DEF TakeCallback, Unheard
<1>23. ASSUME NEW k \in Calls, Report(k) PROVE ErrorOfLiveSession'
  BY <1>23 DEF Report
<1>24. ASSUME NEW k \in Calls, CloseOrphan(k) PROVE ErrorOfLiveSession'
  BY <1>24 DEF CloseOrphan
<1>25. ASSUME NEW k \in Calls, CleanupLibrary(k) PROVE ErrorOfLiveSession'
  BY <1>25 DEF CleanupLibrary
<1>26. ASSUME NEW k \in Calls, CloseStream(k) PROVE ErrorOfLiveSession'
  BY <1>26 DEF CloseStream
<1>27. CASE UNCHANGED clibVars
  BY <1>27 DEF clibVars
<1> QED BY <1>1, <1>2, <1>3, <1>4, <1>5, <1>6, <1>7, <1>8, <1>9, <1>10, <1>11, <1>12, <1>13,
    <1>14, <1>15, <1>16, <1>17, <1>18, <1>19, <1>20, <1>21, <1>22, <1>23, <1>24, <1>25,
    <1>26, <1>27 DEF CLibNext, Goroutine

\* Every step keeps the account of the calls.
LEMMA CallStep ==
  ASSUME CLibTypeOK, \A k \in Calls : CallInv(k), [CLibNext]_clibVars
  PROVE  \A k \in Calls : CallInv(k)'
<1> DEFINE Goal == \A j \in Calls : CallInv(j)'
<1>a. /\ call \in [Calls -> [pc : {"new", "registered", "running", "invoke", "report",
                                   "orphan", "cleanup", "done"},
                             kind : AsyncKinds, ok : BOOLEAN]]
      /\ told \in [Calls -> Nat]
  BY DEF CLibTypeOK
<1>b. ASSUME UNCHANGED callbackState PROVE Goal
  BY <1>b, CallsSame
<1>1. ASSUME SessionNew PROVE Goal
  BY <1>1, <1>b DEF SessionNew, sessionTable, syncState, AddSession
<1>2. ASSUME SessionLoad PROVE Goal
  BY <1>2, <1>b DEF SessionLoad, sessionTable, syncState, AddSession
<1>3. ASSUME FreeResponse PROVE Goal
  BY <1>3, <1>b DEF FreeResponse, sessionTable, syncState
<1>4. ASSUME CloseSyncStream PROVE Goal
  BY <1>4, <1>b DEF CloseSyncStream, sessionTable, syncState
<1>5. ASSUME NEW h \in Handles, SessionFork(h) PROVE Goal
  BY <1>5, <1>b DEF SessionFork, sessionTable, syncState, AddSession
<1>6. ASSUME NEW h \in Handles, FreeSession(h) PROVE Goal
  BY <1>6, <1>b DEF FreeSession, sessionTable, syncState
<1>7. ASSUME NEW t \in Threads, NEW h \in Handles, RawCall(t, h) PROVE Goal
  BY <1>7, <1>b DEF RawCall, sessionTable, syncState, BeginSync
<1>8. ASSUME NEW t \in Threads, NEW h \in Handles, StreamCall(t, h) PROVE Goal
  BY <1>8, <1>b DEF StreamCall, sessionTable, syncState, BeginSync
<1>9. ASSUME NEW t \in Threads, NEW h \in Handles, GetFast(t, h) PROVE Goal
  BY <1>9, <1>b DEF GetFast, sessionTable, syncState, BeginSync
<1>10. ASSUME NEW t \in Threads, NEW ok \in BOOLEAN, EndSync(t, ok) PROVE Goal
  BY <1>10, <1>b DEF EndSync, sessionTable, syncState, SetLastError, StoredResponses,
      StoredStreams
<1>11. ASSUME NEW k \in Calls, RegisterCallback(k) PROVE Goal
  BY <1>11, <1>a DEF RegisterCallback, CallInv
<1>12. ASSUME NEW k \in Calls, UnregisterCallback(k) PROVE Goal
  BY <1>12, <1>a DEF UnregisterCallback, CallInv
<1>13. ASSUME NEW k \in Calls, FetchCancel(k) PROVE Goal
  BY <1>13, <1>a DEF FetchCancel, CallInv
<1>14. ASSUME NEW k \in Calls, CancelRequest(k) PROVE Goal
  BY <1>14, <1>a DEF CancelRequest, CallInv
<1>15. ASSUME NEW k \in Calls, GetAsync(k) PROVE Goal
  BY <1>15, <1>a DEF GetAsync, CallInv, StartAsync
<1>16. ASSUME NEW k \in Calls, PostAsync(k) PROVE Goal
  BY <1>16, <1>a DEF PostAsync, CallInv, StartAsync
<1>17. ASSUME NEW k \in Calls, RequestAsync(k) PROVE Goal
  BY <1>17, <1>a DEF RequestAsync, CallInv, StartAsync
<1>18. ASSUME NEW k \in Calls, StreamRequestAsync(k) PROVE Goal
  BY <1>18, <1>a DEF StreamRequestAsync, CallInv, StartAsync
<1>19. ASSUME NEW k \in Calls, StartInvalid(k) PROVE Goal
  BY <1>19, <1>a DEF StartInvalid, CallInv
<1>20. ASSUME NEW k \in Calls, NEW ok \in BOOLEAN, AsyncReturns(k, ok) PROVE Goal
  BY <1>20, <1>a DEF AsyncReturns, CallInv
<1>21. ASSUME NEW k \in Calls, AsyncPanics(k) PROVE Goal
  BY <1>21, <1>a DEF AsyncPanics, CallInv, GuardAsync
<1>22. ASSUME NEW k \in Calls, TakeCallback(k) PROVE Goal
  BY <1>22, <1>a DEF TakeCallback, CallInv, Unheard
<1>23. ASSUME NEW k \in Calls, Report(k) PROVE Goal
  BY <1>23, <1>a DEF Report, CallInv
<1>24. ASSUME NEW k \in Calls, CloseOrphan(k) PROVE Goal
  BY <1>24, <1>a DEF CloseOrphan, CallInv
<1>25. ASSUME NEW k \in Calls, CleanupLibrary(k) PROVE Goal
  BY <1>25, <1>a DEF CleanupLibrary, CallInv
<1>26. ASSUME NEW k \in Calls, CloseStream(k) PROVE Goal
  BY <1>26, <1>a DEF CloseStream, CallInv
<1>27. CASE UNCHANGED clibVars
  BY <1>27, <1>b DEF clibVars, callbackState
<1> QED BY <1>1, <1>2, <1>3, <1>4, <1>5, <1>6, <1>7, <1>8, <1>9, <1>10, <1>11, <1>12, <1>13,
    <1>14, <1>15, <1>16, <1>17, <1>18, <1>19, <1>20, <1>21, <1>22, <1>23, <1>24, <1>25,
    <1>26, <1>27 DEF CLibNext, Goroutine

\* CLibInv holds before the first call.
LEMMA CLibFirst ==
  ASSUME CLibConstants, CLibInit
  PROVE  CLibInv
<1>1. CLibTypeOK
  BY DEF CLibConstants, CLibInit, CLibTypeOK, IdleThread, SyncKinds, Recording, AsyncKinds,
     Handles
<1>2. ErrorOfLiveSession
  BY DEF CLibInit, ErrorOfLiveSession
<1>3. \A k \in Calls : CallInv(k)
  BY DEF CLibInit, CallInv
<1> QED BY <1>1, <1>2, <1>3 DEF CLibInv

\* Every step of the library keeps CLibInv.
LEMMA CLibStep ==
  ASSUME CLibConstants, CLibInv, [CLibNext]_clibVars
  PROVE  CLibInv'
BY CLibTypeStep, ErrorStep, CallStep DEF CLibInv

\* However registering, cancelling, answering and closing race: a call that is
\* over was reported once, or its callback was taken back; it has left no entry
\* in the tables, no stream that nobody can close, no error of a freed session.
THEOREM TablesSafe == CLibSpec => []TablesSettled
<1>1. CLibInit => CLibInv
  BY CLibFirst, CLibConstants
<1>2. CLibInv /\ [CLibNext]_clibVars => CLibInv'
  BY CLibStep, CLibConstants
<1>3. CLibInv => TablesSettled
  BY DEF CLibInv, CallInv, TablesSettled, CallAccounted
<1> QED BY <1>1, <1>2, <1>3, PTL DEF CLibSpec

-----------------------------------------------------------------------------
(* The caches of addresses and of ECH configs.                             *)

Flights == [pc : {"none", "check", "lookup"}, stale : Entries, current : Families,
            leader : Resolvers \cup {"none"}]

Lookups == [pc : {"idle", "waiting", "done"}, name : Names \cup {CHOOSE n \in Names : TRUE},
            cancelled : BOOLEAN]

\* A caller waits only for a lookup that is under way, and each caller that is
\* done has an answer (cache.go:188-257): the outcome of a flight is delivered to
\* all that joined it before the flight is forgotten.
WaitersJoined ==
    \A r \in Resolvers :
        /\ resolver[r].pc = "waiting" => flight[resolver[r].name].pc # "none"
        /\ resolver[r].pc = "done" => answer[r] # "none"

DNSInv ==
    /\ DNSTypeOK /\ WaitersJoined
    /\ flight \in [Names -> Flights] /\ resolver \in [Resolvers -> Lookups]
    /\ \A r \in Resolvers : resolver[r].pc = "waiting" => resolver[r].name \in Names

\* An entry has a kind that a caller can be told.
LEMMA EntryAnswers ==
  ASSUME NEW n \in Names, NEW e \in Entries, EntryUsable(n, e)
  PROVE  e.kind \in {"ips", "negative"}
BY DEF Entries, EntryUsable, ConfigUsable, AddressUsable

\* The typed part of DNSInv makes the type invariant.
LEMMA DNSTyped ==
  ASSUME network \in Families, entry \in [Names -> Entries], flight \in [Names -> Flights],
         resolver \in [Resolvers -> Lookups], events \in 0..MaxEvents,
         answer \in [Resolvers -> {"none", "ips", "negative", "failed", "cancelled"}]
  PROVE  DNSTypeOK
<1>1. ASSUME NEW n \in Names
      PROVE  flight[n].pc \in {"none", "check", "lookup"} /\ flight[n].stale \in Entries
  BY DEF Flights
<1>2. ASSUME NEW r \in Resolvers PROVE resolver[r].pc \in {"idle", "waiting", "done"}
  BY DEF Lookups
<1> QED BY <1>1, <1>2 DEF DNSTypeOK

\* The parts of DNSInv that each step has to keep.
LEMMA DNSKept ==
  ASSUME DNSInv, network' \in Families, entry' \in [Names -> Entries],
         flight' \in [Names -> Flights], resolver' \in [Resolvers -> Lookups],
         events' \in 0..MaxEvents,
         answer' \in [Resolvers -> {"none", "ips", "negative", "failed", "cancelled"}],
         \A r \in Resolvers :
            /\ resolver'[r].pc = "waiting" =>
                  resolver'[r].name \in Names /\ flight'[resolver'[r].name].pc # "none"
            /\ resolver'[r].pc = "done" => answer'[r] # "none"
  PROVE  DNSInv'
<1>1. ASSUME NEW n \in Names
      PROVE  flight'[n].pc \in {"none", "check", "lookup"} /\ flight'[n].stale \in Entries
  BY DEF Flights
<1>2. ASSUME NEW r \in Resolvers PROVE resolver'[r].pc \in {"idle", "waiting", "done"}
  BY DEF Lookups
<1>3. DNSTypeOK'
  BY <1>1, <1>2 DEF DNSTypeOK
<1>4. WaitersJoined'
  BY DEF WaitersJoined
<1> QED BY <1>3, <1>4 DEF DNSInv

\* The end of a flight answers all that wait for it and nobody else; it tells
\* nobody that his context has ended.
LEMMA Delivered ==
  ASSUME DNSConstants, DNSInv, NEW n \in Names, NEW ending \in {"ips", "negative", "failed"},
         DeliverAnswer(n, ending), UNCHANGED <<network, events>>, entry' \in [Names -> Entries]
  PROVE  /\ DNSInv'
         /\ \A r \in Resolvers : answer'[r] = "cancelled" => answer[r] = "cancelled"
<1>a. /\ network \in Families /\ events \in 0..MaxEvents
      /\ flight \in [Names -> Flights] /\ resolver \in [Resolvers -> Lookups]
      /\ answer \in [Resolvers -> {"none", "ips", "negative", "failed", "cancelled"}]
  BY DEF DNSInv, DNSTypeOK
<1>b. NoFlight \in Flights
  BY DNSConstants DEF DNSConstants, NoFlight, Flights, NoEntry, Entries
<1>1. /\ flight' = [flight EXCEPT ![n] = NoFlight]
      /\ resolver' = [r \in Resolvers |->
            IF r \in Waiters(n) THEN [resolver[r] EXCEPT !.pc = "done"] ELSE resolver[r]]
      /\ answer' = [r \in Resolvers |-> IF r \in Waiters(n) THEN Seen(n, ending) ELSE answer[r]]
  BY DEF DeliverAnswer
<1>2. Seen(n, ending) \in {"ips", "negative", "failed"}
  BY DEF Seen
<1>3. ASSUME NEW r \in Resolvers, r \in Waiters(n)
      PROVE  /\ resolver'[r] \in Lookups /\ resolver'[r].pc = "done"
             /\ answer'[r] \in {"ips", "negative", "failed"}
  BY <1>1, <1>2, <1>3, <1>a DEF Lookups
<1>4. ASSUME NEW r \in Resolvers, r \notin Waiters(n)
      PROVE  /\ resolver'[r] = resolver[r] /\ answer'[r] = answer[r]
             /\ resolver[r].pc = "waiting" => resolver[r].name # n
  BY <1>1, <1>4 DEF Waiters
<1>5. flight' \in [Names -> Flights]
  BY <1>1, <1>a, <1>b
<1>6. /\ resolver' \in [Resolvers -> Lookups]
      /\ answer' \in [Resolvers -> {"none", "ips", "negative", "failed", "cancelled"}]
  BY <1>1, <1>2, <1>3, <1>4, <1>a
<1>7. ASSUME NEW r \in Resolvers
      PROVE  /\ resolver'[r].pc = "waiting" =>
                   resolver'[r].name \in Names /\ flight'[resolver'[r].name].pc # "none"
             /\ resolver'[r].pc = "done" => answer'[r] # "none"
  <2>1. CASE r \in Waiters(n)
    BY <1>3, <2>1
  <2>2. CASE r \notin Waiters(n)
    <3>1. /\ resolver'[r] = resolver[r] /\ answer'[r] = answer[r]
          /\ resolver[r].pc = "waiting" => resolver[r].name # n
      BY <1>4, <2>2
    <3>2. \A m \in Names : m # n => flight'[m] = flight[m]
      BY <1>1, <1>a
    <3> QED BY <3>1, <3>2 DEF DNSInv, WaitersJoined
  <2> QED BY <2>1, <2>2
<1>8. DNSInv'
  BY <1>a, <1>5, <1>6, <1>7, DNSKept
<1> QED BY <1>3, <1>4, <1>8

\* Every step of the cache keeps DNSInv and reports a cancellation only to a
\* caller whose own context has ended.
LEMMA DNSStep ==
  ASSUME DNSConstants, DNSInv, [DNSNext]_dnsVars
  PROVE  /\ DNSInv'
         /\ \A r \in Resolvers :
               answer'[r] = "cancelled" /\ answer[r] # "cancelled" => resolver[r].cancelled
<1> DEFINE Told == \A r \in Resolvers : answer'[r] = "cancelled" /\ answer[r] # "cancelled"
                                           => resolver[r].cancelled
           Answers == {"none", "ips", "negative", "failed", "cancelled"}
<1>a. /\ network \in Families /\ events \in 0..MaxEvents /\ entry \in [Names -> Entries]
      /\ flight \in [Names -> Flights] /\ resolver \in [Resolvers -> Lookups]
      /\ answer \in [Resolvers -> Answers]
  BY DEF DNSInv, DNSTypeOK
<1>b. \A r \in Resolvers :
         /\ resolver[r].pc = "waiting" =>
               resolver[r].name \in Names /\ flight[resolver[r].name].pc # "none"
         /\ resolver[r].pc = "done" => answer[r] # "none"
  BY DEF DNSInv, WaitersJoined
<1>c. NoFlight \in Flights /\ NoEntry \in Entries /\ "both" \in Families /\ MaxEvents \in Nat
  BY DNSConstants DEF DNSConstants, NoFlight, Flights, NoEntry, Entries
<1>1. ASSUME NEW r \in Resolvers, NEW n \in Names, Resolve(r, n) PROVE DNSInv' /\ Told
  <2>a. UNCHANGED <<network, entry, events>> /\ resolver[r].pc = "idle"
    BY <1>1 DEF Resolve
  <2>1. CASE EntryUsable(n, entry[n])
    <3>1. /\ resolver' = [resolver EXCEPT ![r].pc = "done", ![r].name = n]
          /\ answer' = [answer EXCEPT ![r] = entry[n].kind] /\ flight' = flight
      BY <1>1, <2>1 DEF Resolve
    <3>2. entry[n].kind \in {"ips", "negative"}
      BY <1>a, <2>1, EntryAnswers
    <3>3. /\ resolver'[r] \in Lookups /\ resolver'[r].pc = "done"
          /\ \A q \in Resolvers : q # r => resolver'[q] = resolver[q] /\ answer'[q] = answer[q]
          /\ answer'[r] = entry[n].kind
      BY <1>a, <3>1 DEF Lookups
    <3>4. resolver' \in [Resolvers -> Lookups] /\ answer' \in [Resolvers -> Answers]
      BY <1>a, <3>1, <3>2, <3>3
    <3>5. \A q \in Resolvers :
             /\ resolver'[q].pc = "waiting" =>
                   resolver'[q].name \in Names /\ flight'[resolver'[q].name].pc # "none"
             /\ resolver'[q].pc = "done" => answer'[q] # "none"
      BY <1>b, <3>1, <3>2, <3>3
    <3>6. DNSInv'
      BY <1>a, <2>a, <3>1, <3>4, <3>5, DNSKept
    <3> QED BY <3>2, <3>3, <3>6
  <2>2. CASE ~EntryUsable(n, entry[n])
    <3>1. /\ resolver' = [resolver EXCEPT ![r].pc = "waiting", ![r].name = n]
          /\ answer' = answer
          /\ flight' = IF flight[n].pc # "none" THEN flight
                       ELSE [flight EXCEPT ![n] = [NoFlight EXCEPT !.pc = "check", !.leader = r]]
      BY <1>1, <2>2 DEF Resolve, DoChan
    <3>2. [NoFlight EXCEPT !.pc = "check", !.leader = r] \in Flights
      BY <1>c DEF NoFlight, Flights
    <3>3. /\ flight' \in [Names -> Flights] /\ flight'[n].pc # "none"
          /\ \A m \in Names : m # n => flight'[m] = flight[m]
      BY <1>a, <3>1, <3>2 DEF NoFlight
    <3>4. /\ resolver'[r] \in Lookups /\ resolver'[r].pc = "waiting" /\ resolver'[r].name = n
          /\ \A q \in Resolvers : q # r => resolver'[q] = resolver[q]
      BY <1>a, <3>1 DEF Lookups
    <3>5. resolver' \in [Resolvers -> Lookups]
      BY <1>a, <3>1, <3>4
    <3>6. \A q \in Resolvers :
             /\ resolver'[q].pc = "waiting" =>
                   resolver'[q].name \in Names /\ flight'[resolver'[q].name].pc # "none"
             /\ resolver'[q].pc = "done" => answer'[q] # "none"
      <4>1. \A m \in Names : flight[m].pc # "none" => flight'[m].pc # "none"
        BY <3>3
      <4>2. ASSUME NEW q \in Resolvers, q # r
            PROVE  resolver'[q] = resolver[q] /\ answer'[q] = answer[q]
        BY <3>1, <3>4, <4>2
      <4> QED BY <1>b, <3>3, <3>4, <4>1, <4>2
    <3>7. DNSInv'
      BY <1>a, <2>a, <3>1, <3>3, <3>5, <3>6, DNSKept
    <3> QED BY <3>1, <3>7
  <2> QED BY <2>1, <2>2
<1>2. ASSUME NEW r \in Resolvers, CancelLookup(r) PROVE DNSInv' /\ Told
  <2>1. resolver' = [resolver EXCEPT ![r].cancelled = TRUE]
        /\ UNCHANGED <<network, entry, flight, answer, events>>
    BY <1>2 DEF CancelLookup
  <2>2. resolver' \in [Resolvers -> Lookups]
    BY <1>a, <2>1 DEF Lookups
  <2>3. \A q \in Resolvers :
           resolver'[q].pc = resolver[q].pc /\ resolver'[q].name = resolver[q].name
    BY <1>a, <2>1 DEF Lookups
  <2>4. DNSInv'
    BY <1>a, <1>b, <2>1, <2>2, <2>3, DNSKept
  <2> QED BY <2>1, <2>4
<1>3. ASSUME NEW r \in Resolvers, GiveUpLookup(r) PROVE DNSInv' /\ Told
  <2>1. /\ resolver' = [resolver EXCEPT ![r].pc = "done"] /\ resolver[r].cancelled
        /\ answer' = [answer EXCEPT ![r] = "cancelled"]
        /\ UNCHANGED <<network, entry, flight, events>>
    BY <1>3 DEF GiveUpLookup
  <2>2. /\ resolver'[r] \in Lookups /\ resolver'[r].pc = "done" /\ answer'[r] = "cancelled"
        /\ \A q \in Resolvers : q # r => resolver'[q] = resolver[q] /\ answer'[q] = answer[q]
    BY <1>a, <2>1 DEF Lookups
  <2>3. resolver' \in [Resolvers -> Lookups] /\ answer' \in [Resolvers -> Answers]
    BY <1>a, <2>1, <2>2
  <2>4. \A q \in Resolvers :
           /\ resolver'[q].pc = "waiting" =>
                 resolver'[q].name \in Names /\ flight'[resolver'[q].name].pc # "none"
           /\ resolver'[q].pc = "done" => answer'[q] # "none"
    BY <1>b, <2>1, <2>2
  <2>5. DNSInv'
    BY <1>a, <2>1, <2>3, <2>4, DNSKept
  <2> QED BY <2>1, <2>2, <2>5
<1>4. ASSUME NEW n \in Names, FlightCheck(n) PROVE DNSInv' /\ Told
  <2>a. UNCHANGED <<network, entry, events>>
    BY <1>4 DEF FlightCheck
  <2>1. CASE EntryUsable(n, entry[n])
    <3>1. DeliverAnswer(n, entry[n].kind) /\ entry[n].kind \in {"ips", "negative"}
      BY <1>4, <1>a, <2>1, EntryAnswers DEF FlightCheck
    <3> QED BY <1>a, <2>a, <3>1, Delivered, DNSConstants
  <2>2. CASE ~EntryUsable(n, entry[n])
    <3>1. /\ flight' = [flight EXCEPT ![n].pc = "lookup", ![n].stale = entry[n],
                                        ![n].current = network]
          /\ UNCHANGED <<resolver, answer>>
      BY <1>4, <2>2 DEF FlightCheck
    <3>2. /\ flight' \in [Names -> Flights] /\ flight'[n].pc = "lookup"
          /\ \A m \in Names : m # n => flight'[m] = flight[m]
      <4> DEFINE new == [flight[n] EXCEPT !.pc = "lookup", !.stale = entry[n],
                                          !.current = network]
      <4>1. new \in Flights /\ new.pc = "lookup"
        BY <1>a DEF Flights
      <4>2. flight' = [flight EXCEPT ![n] = new]
        BY <3>1
      <4> HIDE DEF new
      <4> QED BY <1>a, <4>1, <4>2
    <3>3. DNSInv'
      BY <1>a, <1>b, <2>a, <3>1, <3>2, DNSKept
    <3> QED BY <3>1, <3>3
  <2> QED BY <2>1, <2>2
<1>5. ASSUME NEW n \in Names, LookupAnswers(n) PROVE DNSInv' /\ Told
  <2>1. PICK kind \in {"ips", "negative"} : Store(n, kind) /\ DeliverAnswer(n, kind)
    BY <1>5 DEF LookupAnswers
  <2>2. entry' \in [Names -> Entries] /\ UNCHANGED <<network, events>>
    BY <1>5, <1>a, <2>1 DEF Store, Entries, LookupAnswers
  <2> QED BY <2>1, <2>2, Delivered, DNSConstants
<1>6. ASSUME NEW n \in Names, QueryAnswers(n) PROVE DNSInv' /\ Told
  <2>1. PICK kind \in {"ips", "negative"} : EchStore(n, kind) /\ DeliverAnswer(n, kind)
    BY <1>6 DEF QueryAnswers, QueryOutcomes
  <2>2. entry' \in [Names -> Entries] /\ UNCHANGED <<network, events>>
    BY <1>6, <1>a, <1>c, <2>1 DEF EchStore, Entries, QueryAnswers
  <2> QED BY <2>1, <2>2, Delivered, DNSConstants
<1>7. ASSUME NEW n \in Names, LookupFails(n) PROVE DNSInv' /\ Told
  <2>1. /\ DeliverAnswer(n, IF StaleServes(n) THEN flight[n].stale.kind ELSE "failed")
        /\ UNCHANGED <<network, entry, events>>
    BY <1>7 DEF LookupFails, LookupCancelled
  <2>2. flight[n].stale \in Entries
    BY <1>a DEF Flights
  <2>3. StaleServes(n) => flight[n].stale.kind \in {"ips", "negative"}
    BY <2>2 DEF StaleServes, StaleConfig, StaleAddress, Entries
  <2> QED BY <1>a, <2>1, <2>3, Delivered, DNSConstants
<1>8. ASSUME NEW n \in Names,
             AgeName(n) \/ Invalidate(n) \/ InvalidateECHConfig(n) \/ CleanupNames(n)
      PROVE  DNSInv' /\ Told
  <2>1. events' \in 0..MaxEvents /\ UNCHANGED <<network, resolver, answer>>
    <3>1. Event /\ UNCHANGED network
      BY <1>8 DEF AgeName, Invalidate, InvalidateECHConfig, CleanupNames, Drop
    <3> QED BY <1>a, <1>c, <3>1 DEF Event
  <2>2. \A age \in {"fresh", "expired", "lapsed"} : Older(age) \in {"fresh", "expired", "lapsed"}
    BY DEF Older
  <2>3. /\ entry' \in [Names -> Entries] /\ flight' \in [Names -> Flights]
        /\ \A m \in Names : flight'[m].pc = flight[m].pc
    <3>1. CASE AgeName(n)
      <4>1. /\ entry' = [entry EXCEPT ![n].age = Older(@)]
            /\ flight' = [flight EXCEPT ![n].stale.age = Older(@)]
        BY <3>1 DEF AgeName
      <4>2. entry[n] \in Entries /\ flight[n] \in Flights /\ flight[n].stale \in Entries
        BY <1>a DEF Flights
      <4>3. Older(entry[n].age) \in {"fresh", "expired", "lapsed"}
            /\ Older(flight[n].stale.age) \in {"fresh", "expired", "lapsed"}
        BY <2>2, <4>2 DEF Entries
      <4>4. entry' \in [Names -> Entries]
        BY <1>a, <4>1, <4>2, <4>3 DEF Entries
      <4>5. [flight[n].stale EXCEPT !.age = Older(flight[n].stale.age)] \in Entries
        BY <4>2, <4>3 DEF Entries
      <4>6. flight' = [flight EXCEPT ![n] = [flight[n] EXCEPT !.stale =
                              [flight[n].stale EXCEPT !.age = Older(flight[n].stale.age)]]]
        BY <1>a, <4>1, <4>2
      <4>7. [flight[n] EXCEPT !.stale = [flight[n].stale EXCEPT !.age = Older(flight[n].stale.age)]]
               \in Flights
        BY <4>2, <4>5 DEF Flights
      <4>8. flight'[n].pc = flight[n].pc
        BY <1>a, <4>2, <4>6 DEF Flights
      <4> QED BY <1>a, <4>4, <4>6, <4>7, <4>8
    <3>2. CASE Drop(n)
      BY <1>a, <1>c, <3>2 DEF Drop
    <3> QED BY <1>8, <3>1, <3>2 DEF Invalidate, InvalidateECHConfig, CleanupNames
  <2>4. DNSInv'
    BY <1>a, <1>b, <2>1, <2>3, DNSKept
  <2> QED BY <2>1, <2>4
<1>9. ASSUME NEW f \in Families, SetNetwork(f) PROVE DNSInv' /\ Told
  <2>1. network' \in Families /\ events' \in 0..MaxEvents /\ UNCHANGED <<resolver, answer>>
        /\ UNCHANGED <<entry, flight>>
    BY <1>9, <1>a, <1>c DEF SetNetwork, Event
  <2>2. DNSInv'
    BY <1>a, <1>b, <2>1, DNSKept
  <2> QED BY <2>1, <2>2
<1>10. CASE UNCHANGED dnsVars
  <2>1. UNCHANGED <<network, entry, flight, resolver, answer, events>>
    BY <1>10 DEF dnsVars
  <2>2. DNSInv'
    BY <1>a, <1>b, <2>1, DNSKept
  <2> QED BY <2>1, <2>2
<1> QED BY <1>1, <1>2, <1>3, <1>4, <1>5, <1>6, <1>7, <1>8, <1>9, <1>10 DEF DNSNext

\* DNSInv holds when the cache is made.
LEMMA DNSFirst ==
  ASSUME DNSConstants, DNSInit
  PROVE  DNSInv
<1>1. /\ network \in Families /\ events \in 0..MaxEvents /\ entry \in [Names -> Entries]
      /\ flight \in [Names -> Flights]
  BY DNSConstants DEF DNSInit, DNSConstants, NoEntry, Entries, NoFlight, Flights
<1>2. \A r \in Resolvers : resolver[r].pc = "idle" /\ resolver[r] \in Lookups
  BY DEF DNSInit, Lookups
<1>3. resolver \in [Resolvers -> Lookups]
  BY <1>2 DEF DNSInit
<1>4. answer \in [Resolvers -> {"none", "ips", "negative", "failed", "cancelled"}]
  BY DEF DNSInit
<1>5. DNSTypeOK
  BY <1>1, <1>3, <1>4, DNSTyped
<1> QED BY <1>1, <1>2, <1>3, <1>5 DEF DNSInv, WaitersJoined

\* A shared lookup never loses a caller and never passes one caller's
\* cancellation to another (cache.go:188-257, 657-702).
THEOREM LookupSafe == DNSSpec => [](DNSTypeOK /\ WaitersJoined) /\ CancelIsOwn
<1>1. DNSInit => DNSInv
  BY DNSFirst, DNSConstants
<1>2. DNSInv /\ [DNSNext]_dnsVars => DNSInv'
  BY DNSStep, DNSConstants
<1>3. DNSInv => DNSTypeOK /\ WaitersJoined
  BY DEF DNSInv
<1>4. DNSInv /\ [DNSNext]_dnsVars =>
        [\A r \in Resolvers : answer'[r] = "cancelled" /\ answer[r] # "cancelled"
                                 => resolver[r].cancelled]_dnsVars
  BY DNSStep, DNSConstants
<1> QED BY <1>1, <1>2, <1>3, <1>4, PTL DEF DNSSpec, CancelIsOwn

-----------------------------------------------------------------------------
(* The cache backend of the host.                                          *)

Askers == [pc : {"idle", "waiting", "leaving"}, table : Tables, id : 0..MaxRequests,
           got : 0..MaxRequests, async : BOOLEAN]

\* The goroutines between the registration of a request and its clean-up.
Asking == {u \in BackendUsers : user[u].pc # "idle"}

\* What a goroutine receives was given for its own request, however late, often
\* or wrongly addressed the host's answers are (httpcloak.go:2926-2994).
OwnAnswer == \A u \in BackendUsers : user[u].got \in {NoAnswer, user[u].id}

\* The tables hold the requests that are waited for, each in the table of its
\* kind, and no others: a request that ended left nothing behind
\* (httpcloak.go:2926-2994).
TablesHoldAsked ==
    \A t \in Tables : pending[t] = {user[u].id : u \in {v \in Asking : user[v].table = t}}

BackendInv ==
    /\ BackendTypeOK /\ OwnAnswer /\ TablesHoldAsked
    /\ \A u \in Asking : user[u].id \in 1..asyncCacheRequestID
    /\ \A u, v \in Asking : user[u].id = user[v].id => u = v
    /\ \A i \in RequestIds : channel[i] \in {NoAnswer, i}

\* A goroutine that registers takes an ID nobody has.
LEMMA BeginKeeps ==
  ASSUME BackendConstants, BackendInv, NEW u \in BackendUsers, NEW t \in Tables, BeginWait(u, t)
  PROVE  BackendInv'
<1> DEFINE i == asyncCacheRequestID + 1
           new == [pc |-> "waiting", table |-> t, id |-> i, got |-> NoAnswer, async |-> TRUE]
<1>a. /\ asyncCacheRequestID \in 0..MaxRequests /\ pending \in [Tables -> SUBSET RequestIds]
      /\ channel \in [RequestIds -> 0..MaxRequests] /\ user \in [BackendUsers -> Askers]
      /\ globalBackend \in {"none", "sync", "async"} /\ MaxRequests \in Nat
  BY BackendConstants DEF BackendInv, BackendTypeOK, BackendConstants, Askers
<1>1. /\ asyncCacheRequestID < MaxRequests /\ asyncCacheRequestID' = i
      /\ pending' = [pending EXCEPT ![t] = @ \cup {i}] /\ user' = [user EXCEPT ![u] = new]
      /\ UNCHANGED <<channel, globalBackend>> /\ user[u].pc = "idle"
  BY DEF BeginWait
<1>2. /\ i \in 1..MaxRequests /\ i \in 0..MaxRequests /\ i \in 1..i
      /\ \A j \in 1..asyncCacheRequestID : j # i /\ j \in 1..i
  BY <1>1, <1>a
<1>3. /\ new \in Askers /\ new.id = i /\ new.pc = "waiting" /\ new.table = t
      /\ new.got = NoAnswer
  BY <1>2 DEF Askers, NoAnswer
<1> HIDE DEF new
<1>4. /\ user' \in [BackendUsers -> Askers] /\ user'[u] = new
      /\ \A v \in BackendUsers : v # u => user'[v] = user[v]
  BY <1>1, <1>3, <1>a
<1>5. pending' \in [Tables -> SUBSET RequestIds]
  BY <1>1, <1>2, <1>a DEF RequestIds
<1>6. Asking' = Asking \cup {u} /\ u \notin Asking
  BY <1>1, <1>3, <1>4 DEF Asking
<1>7. BackendTypeOK'
  BY <1>1, <1>2, <1>4, <1>5, <1>a DEF BackendTypeOK, Askers
<1>8. OwnAnswer'
  BY <1>3, <1>4 DEF OwnAnswer, BackendInv
<1>9. ASSUME NEW s \in Tables
      PROVE  pending'[s] = {user'[v].id : v \in {w \in Asking' : user'[w].table = s}}
  <2>1. pending[s] = {user[v].id : v \in {w \in Asking : user[w].table = s}}
    BY DEF BackendInv, TablesHoldAsked
  <2>2. \A v \in Asking : v \in BackendUsers /\ user'[v] = user[v]
    BY <1>4, <1>6 DEF Asking
  <2>3. CASE s = t
    <3>1. pending'[s] = pending[s] \cup {i}
      BY <1>1, <1>a, <2>3
    <3> QED BY <1>3, <1>4, <1>6, <2>1, <2>2, <2>3, <3>1
  <2>4. CASE s # t
    <3>1. pending'[s] = pending[s]
      BY <1>1, <1>a, <2>4
    <3> QED BY <1>3, <1>4, <1>6, <2>1, <2>2, <2>4, <3>1
  <2> QED BY <2>3, <2>4
<1>10. \A v \in Asking' : user'[v].id \in 1..asyncCacheRequestID'
  BY <1>1, <1>2, <1>3, <1>4, <1>6 DEF BackendInv, Asking
<1>11. \A v, w \in Asking' : user'[v].id = user'[w].id => v = w
  <2>1. \A v \in Asking : user'[v] = user[v] /\ user[v].id # i
    BY <1>2, <1>4, <1>6 DEF BackendInv, Asking
  <2> QED BY <1>3, <1>4, <1>6, <2>1 DEF BackendInv
<1>12. \A j \in RequestIds : channel'[j] \in {NoAnswer, j}
  BY <1>1 DEF BackendInv
<1>13. TablesHoldAsked'
  BY <1>9 DEF TablesHoldAsked
<1> QED BY <1>7, <1>8, <1>10, <1>11, <1>12, <1>13 DEF BackendInv

\* A change that leaves the goroutines their requests and tables keeps BackendInv.
LEMMA SameRequests ==
  ASSUME BackendConstants, BackendInv, user' \in [BackendUsers -> Askers],
         channel' \in [RequestIds -> 0..MaxRequests], globalBackend' \in {"none", "sync", "async"},
         UNCHANGED <<asyncCacheRequestID, pending>>,
         \A u \in BackendUsers :
            /\ user'[u].id = user[u].id /\ user'[u].table = user[u].table
            /\ user'[u].pc # "idle" <=> user[u].pc # "idle"
            /\ user'[u].got \in {NoAnswer, user[u].id},
         \A i \in RequestIds : channel'[i] \in {NoAnswer, i}
  PROVE  BackendInv'
<1>1. BackendTypeOK'
  BY DEF BackendInv, BackendTypeOK, Askers
<1>2. Asking' = Asking
  BY DEF Asking
<1>3. OwnAnswer'
  BY DEF OwnAnswer
<1>4. ASSUME NEW s \in Tables
      PROVE  pending'[s] = {user'[v].id : v \in {w \in Asking' : user'[w].table = s}}
  <2>1. pending[s] = {user[v].id : v \in {w \in Asking : user[w].table = s}}
    BY DEF BackendInv, TablesHoldAsked
  <2>2. \A v \in Asking : user'[v].id = user[v].id /\ user'[v].table = user[v].table
    BY DEF Asking
  <2> QED BY <1>2, <2>1, <2>2
<1>5. TablesHoldAsked'
  BY <1>4 DEF TablesHoldAsked
<1>6. /\ \A u \in Asking' : user'[u].id \in 1..asyncCacheRequestID'
      /\ \A u, v \in Asking' : user'[u].id = user'[v].id => u = v
  BY <1>2 DEF BackendInv, Asking
<1> QED BY <1>1, <1>3, <1>5, <1>6 DEF BackendInv

\* The clean-up of a request takes its own ID out of its own table.
LEMMA LeaveKeeps ==
  ASSUME BackendConstants, BackendInv, NEW u \in BackendUsers, Leave(u)
  PROVE  BackendInv'
<1> DEFINE t == user[u].table  i == user[u].id
<1>a. /\ asyncCacheRequestID \in 0..MaxRequests /\ pending \in [Tables -> SUBSET RequestIds]
      /\ channel \in [RequestIds -> 0..MaxRequests] /\ user \in [BackendUsers -> Askers]
      /\ globalBackend \in {"none", "sync", "async"} /\ MaxRequests \in Nat
  BY BackendConstants DEF BackendInv, BackendTypeOK, BackendConstants, Askers
<1>1. /\ user[u].pc = "leaving" /\ pending' = [pending EXCEPT ![t] = @ \ {i}]
      /\ user' = [user EXCEPT ![u].pc = "idle"]
      /\ UNCHANGED <<asyncCacheRequestID, channel, globalBackend>>
  BY DEF Leave
<1>2. t \in Tables /\ u \in Asking
  BY <1>1, <1>a DEF Askers, Asking
<1>3. /\ user' \in [BackendUsers -> Askers] /\ user'[u].pc = "idle"
      /\ \A v \in BackendUsers : /\ user'[v].id = user[v].id /\ user'[v].table = user[v].table
                                 /\ user'[v].got = user[v].got
                                 /\ v # u => user'[v].pc = user[v].pc
  BY <1>1, <1>a DEF Askers
<1>4. pending' \in [Tables -> SUBSET RequestIds]
  BY <1>1, <1>a
<1>5. Asking' = Asking \ {u}
  BY <1>3 DEF Asking
<1>6. BackendTypeOK'
  BY <1>1, <1>3, <1>4, <1>a DEF BackendTypeOK, Askers
<1>7. OwnAnswer'
  BY <1>3 DEF OwnAnswer, BackendInv
<1>8. ASSUME NEW s \in Tables
      PROVE  pending'[s] = {user'[v].id : v \in {w \in Asking' : user'[w].table = s}}
  <2>1. pending[s] = {user[v].id : v \in {w \in Asking : user[w].table = s}}
    BY DEF BackendInv, TablesHoldAsked
  <2>2. \A v \in Asking : /\ user'[v].id = user[v].id /\ user'[v].table = user[v].table
                          /\ user[v].id = i => v = u
    BY <1>2, <1>3 DEF BackendInv, Asking
  <2>3. CASE s = t
    <3>1. pending'[s] = pending[s] \ {i}
      BY <1>1, <1>a, <2>3
    <3> HIDE DEF i, t
    <3>2. user[u].id = i /\ user[u].table = t
      BY DEF i, t
    <3> QED BY <1>2, <1>5, <2>1, <2>2, <2>3, <3>1, <3>2
  <2>4. CASE s # t
    <3>1. pending'[s] = pending[s]
      BY <1>1, <1>a, <2>4
    <3>2. user[u].table = t
      OBVIOUS
    <3> HIDE DEF i, t
    <3> QED BY <1>5, <2>1, <2>2, <2>4, <3>1, <3>2
  <2> QED BY <2>3, <2>4
<1>9. TablesHoldAsked'
  BY <1>8 DEF TablesHoldAsked
<1>10. /\ \A v \in Asking' : user'[v].id \in 1..asyncCacheRequestID'
       /\ \A v, w \in Asking' : user'[v].id = user'[w].id => v = w
  BY <1>1, <1>3, <1>5 DEF BackendInv, Asking
<1>11. \A j \in RequestIds : channel'[j] \in {NoAnswer, j}
  BY <1>1 DEF BackendInv
<1> QED BY <1>6, <1>7, <1>9, <1>10, <1>11 DEF BackendInv

\* Every step of the goroutines and of the host keeps BackendInv.
LEMMA BackendCallStep ==
  ASSUME BackendConstants, BackendInv, [BackendNext]_backendVars
  PROVE  BackendInv'
<1>a. /\ asyncCacheRequestID \in 0..MaxRequests /\ pending \in [Tables -> SUBSET RequestIds]
      /\ channel \in [RequestIds -> 0..MaxRequests] /\ user \in [BackendUsers -> Askers]
      /\ globalBackend \in {"none", "sync", "async"} /\ MaxRequests \in Nat
  BY BackendConstants DEF BackendInv, BackendTypeOK, BackendConstants, Askers
<1>b. \A i \in RequestIds : channel[i] \in {NoAnswer, i}
  BY DEF BackendInv
<1>c. \A u \in BackendUsers : user[u].got \in {NoAnswer, user[u].id}
  BY DEF BackendInv, OwnAnswer
<1>1. ASSUME NEW b \in {"none", "sync", "async"}, SetCallbacks(b) PROVE BackendInv'
  BY <1>1, <1>a, <1>b, <1>c, SameRequests DEF SetCallbacks
<1>2. ASSUME NEW u \in BackendUsers, AttachBackend(u) PROVE BackendInv'
  <2>1. user' = [user EXCEPT ![u].async = (globalBackend = "async")]
        /\ UNCHANGED <<asyncCacheRequestID, pending, channel, globalBackend>>
    BY <1>2 DEF AttachBackend
  <2> DEFINE on == (globalBackend = "async")
  <2>2. on \in BOOLEAN /\ user' = [user EXCEPT ![u].async = on]
    BY <2>1
  <2> HIDE DEF on
  <2>3. /\ user' \in [BackendUsers -> Askers]
        /\ \A v \in BackendUsers : /\ user'[v].id = user[v].id /\ user'[v].table = user[v].table
                                   /\ user'[v].got = user[v].got /\ user'[v].pc = user[v].pc
    BY <1>a, <2>2 DEF Askers
  <2> QED BY <1>a, <1>b, <1>c, <2>1, <2>3, SameRequests
<1>3. ASSUME NEW u \in BackendUsers, NEW t \in Tables, BeginWait(u, t) PROVE BackendInv'
  BY <1>3, BeginKeeps
<1>4. ASSUME NEW u \in BackendUsers, Receive(u) PROVE BackendInv'
  <2> DEFINE i == user[u].id
  <2>1. /\ user[u].pc = "waiting"
        /\ user' = [user EXCEPT ![u].pc = "leaving", ![u].got = channel[i]]
        /\ channel' = [channel EXCEPT ![i] = NoAnswer]
        /\ UNCHANGED <<asyncCacheRequestID, pending, globalBackend>>
    BY <1>4 DEF Receive
  <2>2. i \in 1..asyncCacheRequestID
    BY <2>1 DEF BackendInv, Asking
  <2>3. i \in RequestIds
    BY <1>a, <2>2 DEF RequestIds
  <2>4. channel[i] \in 0..MaxRequests /\ channel[i] \in {NoAnswer, i}
    BY <1>a, <1>b, <2>3
  <2>5. user[u].id = i
    OBVIOUS
  <2> HIDE DEF i
  <2>6. /\ user' \in [BackendUsers -> Askers]
        /\ \A v \in BackendUsers :
              /\ user'[v].id = user[v].id /\ user'[v].table = user[v].table
              /\ user'[v].pc # "idle" <=> user[v].pc # "idle"
              /\ IF v = u THEN user'[v].got = channel[i] ELSE user'[v].got = user[v].got
    BY <1>a, <2>1, <2>4 DEF Askers
  <2>7. /\ channel' \in [RequestIds -> 0..MaxRequests]
        /\ \A j \in RequestIds : channel'[j] \in {NoAnswer, j}
    <3>1. NoAnswer \in 0..MaxRequests
      BY <1>a DEF NoAnswer
    <3> QED BY <1>a, <1>b, <2>1, <3>1
  <2> QED BY <1>a, <1>c, <2>1, <2>4, <2>5, <2>6, <2>7, SameRequests
<1>5. ASSUME NEW u \in BackendUsers, GiveUp(u) PROVE BackendInv'
  <2>1. /\ user[u].pc = "waiting" /\ user' = [user EXCEPT ![u].pc = "leaving"]
        /\ UNCHANGED <<asyncCacheRequestID, pending, channel, globalBackend>>
    BY <1>5 DEF GiveUp, MayGiveUp
  <2>2. /\ user' \in [BackendUsers -> Askers]
        /\ \A v \in BackendUsers : /\ user'[v].id = user[v].id /\ user'[v].table = user[v].table
                                   /\ user'[v].pc # "idle" <=> user[v].pc # "idle"
                                   /\ user'[v].got = user[v].got
    BY <1>a, <2>1 DEF Askers
  <2> QED BY <1>a, <1>b, <1>c, <2>1, <2>2, SameRequests
<1>6. ASSUME NEW u \in BackendUsers, Leave(u) PROVE BackendInv'
  BY <1>6, LeaveKeeps
<1>7. ASSUME NEW i \in RequestIds, NEW t \in Tables, HostAnswers(i, t) PROVE BackendInv'
  <2>1. channel' = Deliver(i, t) /\ UNCHANGED <<asyncCacheRequestID, pending, user, globalBackend>>
    BY <1>7 DEF HostAnswers
  <2>2. i \in 0..MaxRequests
    BY <1>a DEF RequestIds
  <2>3. /\ channel' \in [RequestIds -> 0..MaxRequests]
        /\ \A j \in RequestIds : channel'[j] \in {NoAnswer, j}
    BY <1>a, <1>b, <2>1, <2>2 DEF Deliver
  <2> QED BY <1>a, <1>c, <2>1, <2>3, SameRequests
<1>8. CASE UNCHANGED backendVars
  BY <1>8, <1>a, <1>b, <1>c, SameRequests DEF backendVars
<1>9. "get" \in Tables /\ "op" \in Tables
  BY DEF Tables
<1> QED BY <1>1, <1>2, <1>3, <1>4, <1>5, <1>6, <1>7, <1>8, <1>9
        DEF BackendNext, BackendGet, BackendPut, BackendDelete, BackendGetECHConfig,
            BackendPutECHConfig

\* BackendInv holds before the first call.
LEMMA BackendFirst ==
  ASSUME BackendConstants, BackendInit
  PROVE  BackendInv
<1>1. 0 \in 0..MaxRequests /\ "get" \in Tables
  BY BackendConstants DEF BackendConstants, Tables
<1>2. BackendTypeOK
  BY <1>1 DEF BackendInit, BackendTypeOK, NoAnswer
<1>3. Asking = {}
  BY DEF BackendInit, Asking
<1>4. OwnAnswer
  BY DEF OwnAnswer, BackendInit
<1>5. TablesHoldAsked
  BY <1>3 DEF TablesHoldAsked, BackendInit
<1>6. \A i \in RequestIds : channel[i] \in {NoAnswer, i}
  BY DEF BackendInit
<1> QED BY <1>2, <1>3, <1>4, <1>5, <1>6 DEF BackendInv

\* Each goroutine gets the answer to its own question or none, and a request that
\* has ended leaves nothing in the tables (httpcloak.go:2926-2994).
THEOREM BackendSafe == BackendSpec => [](BackendTypeOK /\ OwnAnswer /\ TablesHoldAsked)
<1>1. BackendInit => BackendInv
  BY BackendFirst, BackendConstants
<1>2. BackendInv /\ [BackendNext]_backendVars => BackendInv'
  BY BackendCallStep, BackendConstants
<1>3. BackendInv => BackendTypeOK /\ OwnAnswer /\ TablesHoldAsked
  BY DEF BackendInv
<1> QED BY <1>1, <1>2, <1>3, PTL DEF BackendSpec

-----------------------------------------------------------------------------
(* The local proxy.                                                        *)

Connections == [pc : {"new", "accepted", "reading", "handle", "serving", "closed", "counted",
                      "gone"},
                req : ProxyRequests \cup {NoRequest}]

\* The connections in activeConns, and the ones whose handler is in wg.
Active == {c \in Clients : client[c].pc \in {"reading", "handle", "serving", "closed"}}
Waited == {c \in Clients : client[c].pc \in {"reading", "handle", "serving", "closed", "counted"}}

\* The wait group counts the accept loop and each handler, so that a Stop whose
\* wait was not cut short closes the session of nobody.
ProxyInv ==
    /\ ProxyTypeOK
    /\ activeConns = Cardinality(Active) /\ activeConns <= MaxConnections
    /\ wg = Cardinality(Waited) + (IF acceptLoop THEN 1 ELSE 0)
    /\ \A s \in Stoppers : stopper[s] = "waited" => forced \/ wg = 0
    /\ ~proxySession => forced \/ wg = 0
    /\ \A c \in Clients : client[c].pc = "accepted" => acceptLoop

\* The sets of connections are finite.
LEMMA ConnectionsFinite ==
  ASSUME LocalProxyConstants
  PROVE  /\ IsFiniteSet(Active) /\ Cardinality(Active) \in Nat
         /\ IsFiniteSet(Waited) /\ Cardinality(Waited) \in Nat
         /\ Cardinality(Clients) \in Nat
         /\ \A S \in SUBSET Clients : Cardinality(S) <= Cardinality(Clients)
<1>1. IsFiniteSet(Clients)
  BY LocalProxyConstants DEF LocalProxyConstants
<1>2. Active \subseteq Clients /\ Waited \subseteq Clients
  BY DEF Active, Waited
<1>3. IsFiniteSet(Active) /\ IsFiniteSet(Waited)
  BY <1>1, <1>2, FS_Subset
<1>4. Cardinality(Active) \in Nat /\ Cardinality(Waited) \in Nat /\ Cardinality(Clients) \in Nat
  BY <1>1, <1>3, FS_CardinalityType
<1>5. ASSUME NEW S \in SUBSET Clients PROVE Cardinality(S) <= Cardinality(Clients)
  BY <1>1, FS_Subset
<1> QED BY <1>3, <1>4, <1>5

\* One connection changes, and with it the two counters that count it.
LEMMA ConnectionMoves ==
  ASSUME LocalProxyConstants, ProxyInv, NEW c \in Clients, NEW to \in Connections,
         client' = [client EXCEPT ![c] = to], UNCHANGED <<acceptLoop, registryState, stopState>>,
         activeConns' = activeConns + (IF c \in Active' THEN 1 ELSE 0)
                                    - (IF c \in Active THEN 1 ELSE 0),
         wg' = wg + (IF c \in Waited' THEN 1 ELSE 0) - (IF c \in Waited THEN 1 ELSE 0),
         c \notin Active /\ c \in Active' => activeConns < MaxConnections,
         c \notin Waited /\ c \in Waited' => acceptLoop, to.pc = "accepted" => acceptLoop
  PROVE  ProxyInv'
<1>a. /\ client \in [Clients -> Connections] /\ activeConns = Cardinality(Active)
      /\ activeConns <= MaxConnections /\ MaxConnections \in Nat
      /\ wg = Cardinality(Waited) + (IF acceptLoop THEN 1 ELSE 0)
  BY LocalProxyConstants DEF ProxyInv, ProxyTypeOK, Connections, LocalProxyConstants
<1>b. /\ IsFiniteSet(Active) /\ Cardinality(Active) \in Nat
      /\ IsFiniteSet(Waited) /\ Cardinality(Waited) \in Nat
      /\ Cardinality(Clients) \in Nat
      /\ \A S \in SUBSET Clients : Cardinality(S) <= Cardinality(Clients)
  BY ConnectionsFinite
<1>1. client' \in [Clients -> Connections]
  BY <1>a
<1>2. \A d \in Clients : d # c => client'[d] = client[d]
  BY <1>a
<1>3. /\ Active' \subseteq Clients /\ Waited' \subseteq Clients
      /\ \A d \in Clients : d # c => (d \in Active' <=> d \in Active)
      /\ \A d \in Clients : d # c => (d \in Waited' <=> d \in Waited)
  BY <1>2 DEF Active, Waited
<1>4. ASSUME NEW S \in SUBSET Clients, NEW T \in SUBSET Clients, IsFiniteSet(S),
             Cardinality(S) \in Nat, \A d \in Clients : d # c => (d \in T <=> d \in S)
      PROVE  Cardinality(T) = Cardinality(S) + (IF c \in T THEN 1 ELSE 0)
                                             - (IF c \in S THEN 1 ELSE 0)
  <2>1. CASE c \in T /\ c \in S
    <3>1. T \subseteq S /\ S \subseteq T
      BY <1>4, <2>1
    <3>2. T = S
      BY <3>1
    <3> QED BY <1>4, <2>1, <3>2
  <2>2. CASE c \in T /\ c \notin S
    <3>1. T = S \cup {c}
      BY <1>4, <2>2
    <3>2. Cardinality(T) = Cardinality(S) + 1
      BY <1>4, <2>2, <3>1, FS_AddElement
    <3> QED BY <1>4, <2>2, <3>2
  <2>3. CASE c \notin T /\ c \in S
    <3>1. T = S \ {c}
      BY <1>4, <2>3
    <3>2. Cardinality(T) = Cardinality(S) - 1
      BY <1>4, <2>3, <3>1, FS_RemoveElement
    <3> QED BY <1>4, <2>3, <3>2
  <2>4. CASE c \notin T /\ c \notin S
    <3>1. T \subseteq S /\ S \subseteq T
      BY <1>4, <2>4
    <3>2. T = S
      BY <3>1
    <3> QED BY <1>4, <2>4, <3>2
  <2> QED BY <2>1, <2>2, <2>3, <2>4
<1>5. /\ Cardinality(Active') = Cardinality(Active) + (IF c \in Active' THEN 1 ELSE 0)
                                   - (IF c \in Active THEN 1 ELSE 0)
      /\ Cardinality(Waited') = Cardinality(Waited) + (IF c \in Waited' THEN 1 ELSE 0)
                                   - (IF c \in Waited THEN 1 ELSE 0)
  <2>1. Active \in SUBSET Clients /\ Waited \in SUBSET Clients
    BY DEF Active, Waited
  <2> QED BY <1>3, <1>4, <1>b, <2>1
<1>6. activeConns' = Cardinality(Active') /\ activeConns' \in Nat
  <2>1. activeConns' = Cardinality(Active')
    BY <1>5, <1>a, <1>b
  <2>2. IsFiniteSet(Active')
    BY <1>3, FS_Subset, LocalProxyConstants DEF LocalProxyConstants
  <2> QED BY <2>1, <2>2, FS_CardinalityType
<1>7. wg' = Cardinality(Waited') + (IF acceptLoop THEN 1 ELSE 0) /\ wg' \in Nat
  <2>1. wg' = Cardinality(Waited') + (IF acceptLoop THEN 1 ELSE 0)
    BY <1>5, <1>a, <1>b
  <2>2. IsFiniteSet(Waited')
    BY <1>3, FS_Subset, LocalProxyConstants DEF LocalProxyConstants
  <2>3. Cardinality(Waited') \in Nat
    BY <2>2, FS_CardinalityType
  <2> QED BY <2>1, <2>3
<1>8. activeConns' <= MaxConnections
  BY <1>a, <1>b
<1>9. activeConns' \in 0..Cardinality(Clients)
  BY <1>3, <1>6, <1>b
<1>10. wg = 0 => wg' = 0
  <2> SUFFICES ASSUME wg = 0 PROVE wg' = 0
    OBVIOUS
  <2>1. ~acceptLoop /\ Cardinality(Waited) = 0
    BY <1>a, <1>b
  <2>2. c \notin Waited'
    <3>1. Waited = {}
      BY <1>b, <2>1, FS_EmptySet
    <3> QED BY <2>1, <3>1
  <2> QED BY <1>b, <1>7, <2>1, <2>2
<1>11. UNCHANGED <<acceptLoop, sessionRegistry, sessionIdentifier, running, shuttingDown,
                   listener, proxySession, stopper, forced>>
  BY DEF registryState, stopState
<1>12. ProxyTypeOK'
  BY <1>1, <1>7, <1>9, <1>11 DEF ProxyInv, ProxyTypeOK, Connections
<1>13. \A d \in Clients : client'[d].pc = "accepted" => acceptLoop
  <2>1. client'[c] = to
    BY <1>a
  <2> QED BY <1>2, <2>1 DEF ProxyInv
<1> QED BY <1>6, <1>7, <1>8, <1>10, <1>11, <1>12, <1>13 DEF ProxyInv

\* The steps of a connection.
LEMMA ConnectionStep ==
  ASSUME LocalProxyConstants, ProxyInv, NEW c \in Clients,
         Accept(c) \/ StartHandler(c) \/ Handler(c)
  PROVE  ProxyInv'
<1>a. /\ client \in [Clients -> Connections] /\ activeConns \in Nat /\ wg \in Nat
      /\ MaxConnections \in Nat /\ client[c] \in Connections
  BY LocalProxyConstants, ConnectionsFinite
     DEF ProxyInv, ProxyTypeOK, Connections, LocalProxyConstants
<1>b. ASSUME NEW to \in Connections, client' = [client EXCEPT ![c] = to]
      PROVE  /\ c \in Active' <=> to.pc \in {"reading", "handle", "serving", "closed"}
             /\ c \in Waited' <=> to.pc \in {"reading", "handle", "serving", "closed", "counted"}
             /\ c \in Active <=> client[c].pc \in {"reading", "handle", "serving", "closed"}
             /\ c \in Waited <=> client[c].pc \in {"reading", "handle", "serving", "closed",
                                                   "counted"}
  BY <1>a, <1>b DEF Active, Waited
<1> DEFINE To(at) == [client[c] EXCEPT !.pc = at]
<1>c. ASSUME NEW at \in {"new", "accepted", "reading", "handle", "serving", "closed", "counted",
                          "gone"}
      PROVE  To(at) \in Connections /\ To(at).pc = at
  BY <1>a DEF Connections
<1> HIDE DEF To
<1>0. CASE Accept(c)
  <2>1. /\ acceptLoop /\ client[c].pc = "new" /\ client' = [client EXCEPT ![c] = To("accepted")]
        /\ UNCHANGED <<acceptLoop, activeConns, wg, registryState, stopState>>
    BY <1>0 DEF Accept, To
  <2>2. c \notin Active /\ c \notin Active' /\ c \notin Waited /\ c \notin Waited'
    BY <1>b, <1>c, <2>1
  <2>3. /\ activeConns' = activeConns + (IF c \in Active' THEN 1 ELSE 0)
                                    - (IF c \in Active THEN 1 ELSE 0)
        /\ wg' = wg + (IF c \in Waited' THEN 1 ELSE 0) - (IF c \in Waited THEN 1 ELSE 0)
    BY <1>a, <2>1, <2>2
  <2> QED BY <1>c, <2>1, <2>2, <2>3, ConnectionMoves
<1>1. CASE StartHandler(c)
  <2>1. /\ acceptLoop /\ client[c].pc = "accepted"
        /\ UNCHANGED <<acceptLoop, registryState, stopState>>
    BY <1>1 DEF StartHandler, ProxyInv
  <2>2. CASE activeConns >= MaxConnections
    <3>1. client' = [client EXCEPT ![c] = To("gone")] /\ UNCHANGED <<activeConns, wg>>
      BY <1>1, <2>2 DEF StartHandler, To
    <3>2. c \notin Active /\ c \notin Active' /\ c \notin Waited /\ c \notin Waited'
      BY <1>b, <1>c, <2>1, <3>1
    <3>3. /\ activeConns' = activeConns + (IF c \in Active' THEN 1 ELSE 0)
                                      - (IF c \in Active THEN 1 ELSE 0)
          /\ wg' = wg + (IF c \in Waited' THEN 1 ELSE 0) - (IF c \in Waited THEN 1 ELSE 0)
      BY <1>a, <3>1, <3>2
    <3> QED BY <1>c, <2>1, <3>1, <3>2, <3>3, ConnectionMoves
  <2>3. CASE ~(activeConns >= MaxConnections)
    <3>1. /\ client' = [client EXCEPT ![c] = To("reading")]
          /\ activeConns' = activeConns + 1 /\ wg' = wg + 1
      BY <1>1, <2>3 DEF StartHandler, To, CountConn
    <3>2. c \notin Active /\ c \in Active' /\ c \notin Waited /\ c \in Waited'
      BY <1>b, <1>c, <2>1, <3>1
    <3>3. activeConns < MaxConnections
      BY <1>a, <2>3
    <3>4. /\ activeConns' = activeConns + (IF c \in Active' THEN 1 ELSE 0)
                                      - (IF c \in Active THEN 1 ELSE 0)
          /\ wg' = wg + (IF c \in Waited' THEN 1 ELSE 0) - (IF c \in Waited THEN 1 ELSE 0)
      BY <1>a, <3>1, <3>2
    <3> QED BY <1>c, <2>1, <3>1, <3>2, <3>3, <3>4, ConnectionMoves
  <2> QED BY <2>2, <2>3
<1>2. ASSUME NEW to \in Connections, client' = [client EXCEPT ![c] = to],
             to.pc \in {"reading", "handle", "serving", "closed"},
             client[c].pc \in {"reading", "handle", "serving", "closed"},
             UNCHANGED <<acceptLoop, activeConns, wg, registryState, stopState>>
      PROVE  ProxyInv'
  <2>1. c \in Active /\ c \in Active' /\ c \in Waited /\ c \in Waited'
    BY <1>b, <1>2
  <2>2. /\ activeConns' = activeConns + (IF c \in Active' THEN 1 ELSE 0)
                                    - (IF c \in Active THEN 1 ELSE 0)
        /\ wg' = wg + (IF c \in Waited' THEN 1 ELSE 0) - (IF c \in Waited THEN 1 ELSE 0)
    BY <1>a, <1>2, <2>1
  <2> QED BY <1>2, <2>1, <2>2, ConnectionMoves
<1>3. ASSUME NEW r \in ProxyRequests, ReadRequest(c, r) PROVE ProxyInv'
  <2> DEFINE to == [client[c] EXCEPT !.pc = "handle", !.req = r]
  <2>1. to \in Connections /\ to.pc = "handle"
    BY <1>a DEF Connections
  <2>2. /\ client' = [client EXCEPT ![c] = to] /\ client[c].pc = "reading"
        /\ UNCHANGED <<acceptLoop, activeConns, wg, registryState, stopState>>
    BY <1>3 DEF ReadRequest
  <2> HIDE DEF to
  <2> QED BY <1>2, <2>1, <2>2
<1>4. CASE Serve(c)
  <2>1. /\ client' = [client EXCEPT ![c] = To("serving")] /\ client[c].pc = "handle"
        /\ UNCHANGED <<acceptLoop, activeConns, wg, registryState, stopState>>
    BY <1>4 DEF Serve, To
  <2> QED BY <1>2, <1>c, <2>1
<1>5. CASE CloseClient(c)
  <2>1. /\ client' = [client EXCEPT ![c] = To("closed")]
        /\ client[c].pc \in {"reading", "handle", "serving", "closed"}
        /\ UNCHANGED <<acceptLoop, activeConns, wg, registryState, stopState>>
    BY <1>5 DEF CloseClient, To
  <2> QED BY <1>2, <1>c, <2>1
<1>6. CASE UncountConn(c)
  <2>1. /\ client' = [client EXCEPT ![c] = To("counted")] /\ client[c].pc = "closed"
        /\ activeConns' = activeConns - 1 /\ UNCHANGED <<acceptLoop, wg, registryState, stopState>>
    BY <1>6 DEF UncountConn, To
  <2>2. c \in Active /\ c \notin Active' /\ c \in Waited /\ c \in Waited'
    BY <1>b, <1>c, <2>1
  <2>3. /\ activeConns' = activeConns + (IF c \in Active' THEN 1 ELSE 0)
                                    - (IF c \in Active THEN 1 ELSE 0)
        /\ wg' = wg + (IF c \in Waited' THEN 1 ELSE 0) - (IF c \in Waited THEN 1 ELSE 0)
    BY <1>a, <2>1, <2>2
  <2> QED BY <1>c, <2>1, <2>2, <2>3, ConnectionMoves
<1>7. CASE HandlerDone(c)
  <2>1. /\ client' = [client EXCEPT ![c] = To("gone")] /\ client[c].pc = "counted"
        /\ wg' = wg - 1 /\ UNCHANGED <<acceptLoop, activeConns, registryState, stopState>>
    BY <1>7 DEF HandlerDone, To
  <2>2. c \notin Active /\ c \notin Active' /\ c \in Waited /\ c \notin Waited'
    BY <1>b, <1>c, <2>1
  <2>3. /\ activeConns' = activeConns + (IF c \in Active' THEN 1 ELSE 0)
                                    - (IF c \in Active THEN 1 ELSE 0)
        /\ wg' = wg + (IF c \in Waited' THEN 1 ELSE 0) - (IF c \in Waited THEN 1 ELSE 0)
    BY <1>a, <2>1, <2>2
  <2> QED BY <1>c, <2>1, <2>2, <2>3, ConnectionMoves
<1> QED BY <1>0, <1>1, <1>3, <1>4, <1>5, <1>6, <1>7 DEF Handler

\* Every step of the proxy keeps ProxyInv.
LEMMA LocalProxyStep ==
  ASSUME LocalProxyConstants, ProxyInv, [ProxyNext]_proxyVars
  PROVE  ProxyInv'
<1>a. /\ client \in [Clients -> Connections] /\ activeConns = Cardinality(Active)
      /\ activeConns <= MaxConnections /\ ProxyTypeOK /\ wg \in Nat
      /\ wg = Cardinality(Waited) + (IF acceptLoop THEN 1 ELSE 0)
  BY DEF ProxyInv, ProxyTypeOK, Connections
<1>b. Cardinality(Waited) \in Nat
  BY ConnectionsFinite
<1>c. ASSUME UNCHANGED <<activeConns, wg, client, acceptLoop>>, ProxyTypeOK',
             \A s \in Stoppers : stopper'[s] = "waited" => forced' \/ wg = 0,
             ~proxySession' => forced' \/ wg = 0
      PROVE  ProxyInv'
  <2>1. Active' = Active /\ Waited' = Waited
    BY <1>c DEF Active, Waited
  <2> QED BY <1>a, <1>c, <2>1 DEF ProxyInv
<1>1. ASSUME NEW c \in Clients, Accept(c) \/ StartHandler(c) \/ Handler(c) PROVE ProxyInv'
  BY <1>1, ConnectionStep
<1>2. CASE AcceptLoopEnds
  <2>1. /\ acceptLoop /\ acceptLoop' = FALSE /\ wg' = wg - 1
        /\ UNCHANGED <<activeConns, client, registryState, stopState>>
    BY <1>2 DEF AcceptLoopEnds
  <2>a. \A c \in Clients : client[c].pc # "accepted"
    BY <1>2 DEF AcceptLoopEnds
  <2>2. Active' = Active /\ Waited' = Waited
    BY <2>1 DEF Active, Waited
  <2>3. wg > 0 /\ wg' = Cardinality(Waited) /\ wg' \in Nat
    BY <1>a, <1>b, <2>1
  <2>4. UNCHANGED <<sessionRegistry, sessionIdentifier, running, shuttingDown,
                    listener, proxySession, stopper, forced>>
    BY <2>1 DEF registryState, stopState
  <2>5. ProxyTypeOK'
    <3>1. acceptLoop' \in BOOLEAN
      BY <2>1, Zenon
    <3> QED BY <1>a, <2>1, <2>3, <2>4, <3>1 DEF ProxyTypeOK
  <2>6. wg' = Cardinality(Waited') + (IF acceptLoop' THEN 1 ELSE 0)
    BY <1>b, <2>1, <2>2, <2>3
  <2> QED BY <1>a, <2>1, <2>2, <2>3, <2>4, <2>5, <2>6, <2>a DEF ProxyInv
<1>3. ASSUME NEW i \in SessionIds, UnregisterSession(i) PROVE ProxyInv'
  <2>1. UNCHANGED <<activeConns, wg, client, acceptLoop, running, shuttingDown, listener,
                    proxySession, stopper, forced>>
    BY <1>3 DEF UnregisterSession, stopState
  <2>2. /\ sessionRegistry' \in [SessionIds -> HostSessions \cup {NoSession}]
        /\ sessionIdentifier' \in [HostSessions -> SessionIds \cup {NoSession}]
    BY <1>3, <1>a DEF UnregisterSession, ProxyTypeOK
  <2>3. ProxyTypeOK'
    BY <1>a, <2>1, <2>2 DEF ProxyTypeOK
  <2> QED BY <1>c, <2>1, <2>3 DEF ProxyInv
<1>4. ASSUME NEW i \in SessionIds, NEW s \in HostSessions, RegisterSession(i, s) PROVE ProxyInv'
  <2>1. UNCHANGED <<activeConns, wg, client, acceptLoop, running, shuttingDown, listener,
                    proxySession, stopper, forced>>
    BY <1>4 DEF RegisterSession, stopState
  <2>2. /\ sessionRegistry' \in [SessionIds -> HostSessions \cup {NoSession}]
        /\ sessionIdentifier' \in [HostSessions -> SessionIds \cup {NoSession}]
    BY <1>4, <1>a DEF RegisterSession, ProxyTypeOK
  <2>3. ProxyTypeOK'
    BY <1>a, <2>1, <2>2 DEF ProxyTypeOK
  <2> QED BY <1>c, <2>1, <2>3 DEF ProxyInv
<1>5. ASSUME NEW s \in Stoppers, Stop(s) PROVE ProxyInv'
  <2>a. stopper \in [Stoppers -> {"idle", "cancelled", "waiting", "waited", "done"}]
    BY <1>a DEF ProxyTypeOK
  <2>1. CASE StopCancel(s)
    <3>1. /\ stopper' = [stopper EXCEPT ![s] = IF running THEN "cancelled" ELSE "done"]
          /\ shuttingDown' = (shuttingDown \/ running)
          /\ UNCHANGED <<running, listener, proxySession, forced, acceptLoop, activeConns, wg,
                         client, sessionRegistry, sessionIdentifier>>
      BY <2>1 DEF StopCancel, registryState
    <3>2. stopper' \in [Stoppers -> {"idle", "cancelled", "waiting", "waited", "done"}]
          /\ \A t \in Stoppers : stopper'[t] = "waited" => stopper[t] = "waited"
      BY <2>a, <3>1
    <3>3. shuttingDown' \in BOOLEAN
      BY <3>1, Zenon
    <3>4. ProxyTypeOK'
      BY <1>a, <3>1, <3>2, <3>3 DEF ProxyTypeOK
    <3> QED BY <1>c, <3>1, <3>2, <3>4 DEF ProxyInv
  <2>2. CASE StopListener(s)
    <3>1. /\ stopper' = [stopper EXCEPT ![s] = "waiting"] /\ listener' = FALSE
          /\ UNCHANGED <<running, shuttingDown, proxySession, forced, acceptLoop, activeConns, wg,
                         client, sessionRegistry, sessionIdentifier>>
      BY <2>2 DEF StopListener, registryState
    <3>2. stopper' \in [Stoppers -> {"idle", "cancelled", "waiting", "waited", "done"}]
          /\ \A t \in Stoppers : stopper'[t] = "waited" => stopper[t] = "waited"
      BY <2>a, <3>1
    <3>3. listener' \in BOOLEAN
      BY <3>1, Zenon
    <3>4. ProxyTypeOK'
      BY <1>a, <3>1, <3>2, <3>3 DEF ProxyTypeOK
    <3> QED BY <1>c, <3>1, <3>2, <3>4 DEF ProxyInv
  <2>3. CASE StopWait(s)
    <3>1. /\ stopper' = [stopper EXCEPT ![s] = "waited"] /\ forced' = (forced \/ wg > 0)
          /\ UNCHANGED <<running, shuttingDown, listener, proxySession, acceptLoop, activeConns,
                         wg, client, sessionRegistry, sessionIdentifier>>
      BY <2>3 DEF StopWait, registryState
    <3>2. stopper' \in [Stoppers -> {"idle", "cancelled", "waiting", "waited", "done"}]
      BY <2>a, <3>1
    <3>3. forced' \in BOOLEAN
      BY <3>1, Zenon
    <3>4. ProxyTypeOK'
      BY <1>a, <3>1, <3>2, <3>3 DEF ProxyTypeOK
    <3>5. forced' \/ wg = 0
      <4>1. wg > 0 \/ wg = 0
        BY <1>a
      <4> QED BY <3>1, <4>1, Zenon
    <3> QED BY <1>c, <3>1, <3>4, <3>5
  <2>4. CASE StopClose(s)
    <3>1. /\ stopper[s] = "waited" /\ stopper' = [stopper EXCEPT ![s] = "done"]
          /\ running' = FALSE /\ proxySession' = FALSE
          /\ UNCHANGED <<shuttingDown, listener, forced, acceptLoop, activeConns, wg, client,
                         sessionRegistry, sessionIdentifier>>
      BY <2>4 DEF StopClose, registryState
    <3>2. stopper' \in [Stoppers -> {"idle", "cancelled", "waiting", "waited", "done"}]
          /\ \A t \in Stoppers : stopper'[t] = "waited" => stopper[t] = "waited"
      BY <2>a, <3>1
    <3>3. running' \in BOOLEAN /\ proxySession' \in BOOLEAN
      BY <3>1, Zenon
    <3>4. ProxyTypeOK'
      BY <1>a, <3>1, <3>2, <3>3 DEF ProxyTypeOK
    <3> QED BY <1>c, <3>1, <3>2, <3>4 DEF ProxyInv
  <2> QED BY <1>5, <2>1, <2>2, <2>3, <2>4 DEF Stop
<1>6. CASE UNCHANGED proxyVars
  <2>1. UNCHANGED <<running, shuttingDown, listener, acceptLoop, activeConns, wg, client,
                    proxySession, sessionRegistry, sessionIdentifier, stopper, forced>>
    BY <1>6 DEF proxyVars
  <2>2. ProxyTypeOK'
    BY <1>a, <2>1 DEF ProxyTypeOK
  <2> QED BY <1>c, <2>1, <2>2 DEF ProxyInv
<1> QED BY <1>1, <1>2, <1>3, <1>4, <1>5, <1>6 DEF ProxyNext

\* ProxyInv holds when the proxy has started.
LEMMA ProxyFirst ==
  ASSUME LocalProxyConstants, ProxyInit
  PROVE  ProxyInv
<1>1. Active = {} /\ Waited = {}
  BY DEF ProxyInit, Active, Waited
<1>2. Cardinality({}) = 0
  BY FS_EmptySet
<1>3. activeConns = 0 /\ wg = 1 /\ MaxConnections \in Nat /\ Cardinality(Clients) \in Nat
  BY ConnectionsFinite, LocalProxyConstants DEF ProxyInit, LocalProxyConstants
<1>4. /\ running \in BOOLEAN /\ shuttingDown \in BOOLEAN /\ listener \in BOOLEAN
      /\ acceptLoop \in BOOLEAN /\ proxySession \in BOOLEAN /\ forced \in BOOLEAN
      /\ acceptLoop = TRUE /\ proxySession = TRUE
  BY Zenon DEF ProxyInit
<1>5. /\ client \in [Clients -> Connections]
      /\ sessionRegistry \in [SessionIds -> HostSessions \cup {NoSession}]
      /\ sessionIdentifier \in [HostSessions -> SessionIds \cup {NoSession}]
      /\ stopper \in [Stoppers -> {"idle", "cancelled", "waiting", "waited", "done"}]
      /\ \A s \in Stoppers : stopper[s] # "waited"
  BY DEF ProxyInit, Connections
<1>6. ProxyTypeOK
  BY <1>3, <1>4, <1>5 DEF ProxyTypeOK, Connections
<1>7. wg = Cardinality(Waited) + (IF acceptLoop THEN 1 ELSE 0)
  BY <1>1, <1>2, <1>3, <1>4
<1> QED BY <1>1, <1>2, <1>3, <1>4, <1>5, <1>6, <1>7 DEF ProxyInv

\* ProxyInv is strong enough.
LEMMA ProxyDrained ==
  ASSUME LocalProxyConstants, ProxyInv
  PROVE  DrainedStop
<1>1. /\ IsFiniteSet(Active) /\ Cardinality(Active) \in Nat
      /\ IsFiniteSet(Waited) /\ Cardinality(Waited) \in Nat
  BY ConnectionsFinite
<1>2. ASSUME ~proxySession, ~forced
      PROVE  ~acceptLoop /\ \A c \in Clients : client[c].pc \in {"new", "gone"}
  <2>1. wg = 0 /\ wg = Cardinality(Waited) + (IF acceptLoop THEN 1 ELSE 0)
    BY <1>2 DEF ProxyInv
  <2>2. ~acceptLoop /\ Cardinality(Waited) = 0
    BY <1>1, <2>1
  <2>3. Waited = {}
    BY <1>1, <2>2, FS_EmptySet
  <2>4. ASSUME NEW c \in Clients PROVE client[c].pc \in {"new", "gone"}
    <3>1. /\ client[c].pc \in {"new", "accepted", "reading", "handle", "serving", "closed",
                               "counted", "gone"}
          /\ client[c].pc # "accepted"
      BY <2>2 DEF ProxyInv, ProxyTypeOK
    <3>2. c \notin Waited
      BY <2>3
    <3> QED BY <3>1, <3>2 DEF Waited
  <2> QED BY <2>2, <2>4
<1>3. Cardinality({c \in Clients : client[c].pc \in {"reading", "handle", "serving"}})
         <= MaxConnections
  <2> DEFINE S == {c \in Clients : client[c].pc \in {"reading", "handle", "serving"}}
  <2>1. S \subseteq Active
    BY DEF Active
  <2>2. Cardinality(S) <= Cardinality(Active) /\ Cardinality(S) \in Nat
    BY <1>1, <2>1, FS_Subset, FS_CardinalityType
  <2>3. Cardinality(Active) <= MaxConnections /\ MaxConnections \in Nat
    BY LocalProxyConstants DEF ProxyInv, LocalProxyConstants
  <2> HIDE DEF S
  <2>4. Cardinality(S) <= MaxConnections
    BY <1>1, <2>2, <2>3
  <2> QED BY <2>4 DEF S
<1> QED BY <1>2, <1>3 DEF DrainedStop

\* Stop closes the session of no handler it has waited for, and the limit on
\* connections holds (local_proxy.go:296-331, 430-456).
THEOREM DrainSafe == ProxySpec => [](ProxyTypeOK /\ DrainedStop)
<1>1. ProxyInit => ProxyInv
  BY ProxyFirst, LocalProxyConstants
<1>2. ProxyInv /\ [ProxyNext]_proxyVars => ProxyInv'
  BY LocalProxyStep, LocalProxyConstants
<1>3. ProxyInv => ProxyTypeOK /\ DrainedStop
  BY ProxyDrained, LocalProxyConstants DEF ProxyInv
<1> QED BY <1>1, <1>2, <1>3, PTL DEF ProxySpec

-----------------------------------------------------------------------------
(* The race of dials.                                                      *)

Out == {"dialling", "up", "down"}
HeldSockets == {k \in Sockets : candidate[k] = "held"}

\* Each open socket has one owner: createConn holds at most one and hands back
\* the one it holds; every other is still owed to the attempt that runs, or to
\* the drain goroutine, which waits for exactly as many results as are to come
\* (tcpip.go:93-242).
SocketsOwned ==
    /\ \A k, l \in HeldSockets : k = l
    /\ HeldSockets # {} => stage \in {"proxy", "password", "connect", "tls", "over"}
    /\ stage = "over" => HeldSockets = returned
    /\ \A k \in Sockets : candidate[k] \in Out => k[1] = attempt
    /\ stage \notin {"racing", "address"} => drains = Cardinality(Pending)

\* The dials that were not started yet.
NotStarted ==
    \A k \in Sockets :
        k[1] > attempt \/ (k[1] = attempt /\ k[2] > launched) => candidate[k] = "none"

\* Where createConn stands and what is left to do there.
RaceShape ==
    /\ attempt <= Attempts
    /\ stage = "idle" => launched = 0 /\ attempt = 1
    /\ stage = "racing" => ~proxied
    /\ stage \in {"address", "proxy", "password", "connect", "backoff"} => proxied
    /\ stage \in {"racing", "address"} => drains = 0
    /\ stage = "backoff" => attempt < Attempts
    /\ stage = "address" => Pending = {Current}
    /\ proxied /\ stage # "address" => Pending = {}
    /\ stage # "over" => returned = {}

RaceInv == RaceTypeOK /\ SocketsOwned /\ NotStarted /\ RaceShape

\* A socket is named by its attempt and its address.
LEMMA SocketNames ==
  ASSUME DialConstants
  PROVE  /\ \A a \in 1..ProxyAttempts, l \in 1..Addresses :
               <<a, l>> \in Sockets /\ <<a, l>>[1] = a /\ <<a, l>>[2] = l
         /\ \A k \in Sockets : /\ k[1] \in 1..ProxyAttempts /\ k[2] \in 1..Addresses
                               /\ k = <<k[1], k[2]>>
BY DEF Sockets

\* As many results can be outstanding as there are addresses.
LEMMA PendingBound ==
  ASSUME DialConstants, RaceTypeOK
  PROVE  /\ IsFiniteSet(Pending) /\ Cardinality(Pending) \in 0..Addresses
         /\ \A k \in Pending : /\ Cardinality(Pending \ {k}) = Cardinality(Pending) - 1
                               /\ Cardinality(Pending) > 0
<1> DEFINE S == {<<attempt, l>> : l \in 1..Addresses}  f == [l \in 1..Addresses |-> <<attempt, l>>]
<1>1. Addresses \in Nat /\ ProxyAttempts \in Nat
  BY DialConstants DEF DialConstants
<1>2. IsFiniteSet(1..Addresses) /\ Cardinality(1..Addresses) = Addresses
  BY <1>1, FS_Interval
<1>3. f \in Surjection(1..Addresses, S)
  BY DEF Surjection
<1>4. IsFiniteSet(S) /\ Cardinality(S) <= Addresses
  BY <1>2, <1>3, FS_Surjection
<1>5. Pending \subseteq S
  BY SocketNames DEF Pending
<1>6. IsFiniteSet(Pending) /\ Cardinality(Pending) <= Cardinality(S)
  BY <1>4, <1>5, FS_Subset
<1>7. Cardinality(Pending) \in Nat /\ Cardinality(S) \in Nat
  BY <1>4, <1>6, FS_CardinalityType
<1>8. ASSUME NEW k \in Pending
      PROVE  Cardinality(Pending \ {k}) = Cardinality(Pending) - 1 /\ Cardinality(Pending) > 0
  <2>1. Cardinality(Pending \ {k}) = Cardinality(Pending) - 1
    BY <1>6, FS_RemoveElement
  <2>2. Cardinality(Pending) # 0
    BY <1>6, FS_EmptySet
  <2> QED BY <1>7, <2>1, <2>2
<1> HIDE DEF S
<1> QED BY <1>1, <1>4, <1>6, <1>7, <1>8

\* Where one dial changes, the sets of dials change by it.
LEMMA DialChanges ==
  ASSUME DialConstants, RaceTypeOK, NEW k \in Sockets, NEW st \in DialStates,
         candidate' = [candidate EXCEPT ![k] = st]
  PROVE  /\ candidate' \in [Sockets -> DialStates] /\ candidate'[k] = st
         /\ \A l \in Sockets : l # k => candidate'[l] = candidate[l]
         /\ st = "held" => HeldSockets' = HeldSockets \cup {k}
         /\ st # "held" => HeldSockets' = HeldSockets \ {k}
         /\ attempt' = attempt /\ k[1] = attempt /\ st \in Out => Pending' = Pending \cup {k}
         /\ attempt' = attempt /\ st \notin Out => Pending' = Pending \ {k}
<1>1. /\ candidate' \in [Sockets -> DialStates] /\ candidate'[k] = st
      /\ \A l \in Sockets : l # k => candidate'[l] = candidate[l]
  BY DEF RaceTypeOK
<1>2. /\ st = "held" => HeldSockets' = HeldSockets \cup {k}
      /\ st # "held" => HeldSockets' = HeldSockets \ {k}
  BY <1>1 DEF HeldSockets
<1>3. ASSUME attempt' = attempt, k[1] = attempt, st \in Out PROVE Pending' = Pending \cup {k}
  BY <1>1, <1>3 DEF Pending, Out
<1>4. ASSUME attempt' = attempt, st \notin Out PROVE Pending' = Pending \ {k}
  BY <1>1, <1>4 DEF Pending, Out
<1> QED BY <1>1, <1>2, <1>3, <1>4

\* An attempt begins: its first dial is the only one out.
LEMMA AttemptStarts ==
  ASSUME DialConstants, RaceInv, NEW n \in 1..ProxyAttempts, NEW p \in BOOLEAN,
         StartAttempt(n, p), UNCHANGED <<drains, parentDone, returned>>, proxied' = p,
         Pending = {}, HeldSockets = {}, stage # "over",
         stage \notin {"racing", "address"},
         attempt <= n, n > attempt \/ launched = 0,
         n <= (IF p THEN ProxyAttempts ELSE 1)
  PROVE  RaceInv'
<1> USE SocketNames
<1>a. /\ RaceTypeOK /\ drains = 0 /\ returned = {}
      /\ \A k \in Sockets : candidate[k] \notin Out
  <2>1. drains = Cardinality({})
    BY DEF RaceInv, SocketsOwned
  <2>2. drains = 0
    BY <2>1, FS_EmptySet
  <2>3. ASSUME NEW k \in Sockets, candidate[k] \in Out PROVE FALSE
    BY <2>3 DEF RaceInv, SocketsOwned, Pending, Out
  <2> QED BY <2>2, <2>3 DEF RaceInv, RaceShape
<1>b. Addresses \in Nat \ {0} /\ ProxyAttempts \in Nat \ {0} /\ 1 \in 1..Addresses
      /\ attempt \in 1..ProxyAttempts
  BY <1>a DEF RaceTypeOK, DialConstants
<1>1. CASE parentDone
  <2>1. stage' = "over" /\ UNCHANGED <<attempt, launched, timerSet, candidate>>
    BY <1>1 DEF StartAttempt
  <2>2. Pending' = Pending /\ HeldSockets' = HeldSockets
    BY <2>1 DEF Pending, HeldSockets
  <2>3. RaceTypeOK'
    BY <1>a, <2>1 DEF RaceTypeOK, Stages
  <2>4. SocketsOwned'
    <3>1. drains' = Cardinality(Pending')
      BY <1>a, <2>2, FS_EmptySet
    <3> QED BY <1>a, <2>1, <2>2, <3>1 DEF SocketsOwned
  <2>5. NotStarted'
    BY <2>1 DEF NotStarted, RaceInv
  <2>6. RaceShape'
    <3>1. attempt <= (IF p THEN ProxyAttempts ELSE 1)
      BY <1>b
    <3>2. attempt' <= Attempts'
      BY <2>1, <3>1 DEF Attempts
    <3> QED BY <1>a, <2>1, <2>2, <3>2 DEF RaceShape
  <2> QED BY <2>3, <2>4, <2>5, <2>6 DEF RaceInv
<1>2. CASE ~parentDone
  <2> DEFINE k == <<n, 1>>
  <2>1. /\ stage' = IF p THEN "address" ELSE "racing"
        /\ attempt' = n /\ launched' = 1 /\ timerSet' = ~p
        /\ candidate' = [candidate EXCEPT ![k] = "dialling"]
    BY <1>2 DEF StartAttempt
  <2>2. k \in Sockets /\ k[1] = n /\ k[2] = 1
    BY <1>b
  <2>3. k = <<attempt', launched'>>
    BY <2>1
  <2> HIDE DEF k
  <2>4. /\ candidate' \in [Sockets -> DialStates] /\ candidate'[k] = "dialling"
        /\ \A l \in Sockets : l # k => candidate'[l] = candidate[l]
        /\ HeldSockets' = HeldSockets \ {k}
    <3>1. "dialling" \in DialStates
      BY DEF DialStates
    <3> QED BY <1>a, <2>1, <2>2, <3>1, DialChanges
  <2>5. Pending' = {k}
    BY <1>a, <2>1, <2>2, <2>4 DEF Pending, Out
  <2>6. RaceTypeOK'
    <3>1. timerSet' \in BOOLEAN /\ proxied' \in BOOLEAN
      BY <2>1, Zenon
    <3>2. stage' \in Stages /\ launched' \in 0..Addresses /\ drains' \in 0..Addresses
      BY <1>a, <1>b, <2>1 DEF Stages
    <3> QED BY <1>a, <1>b, <2>1, <2>4, <3>1, <3>2 DEF RaceTypeOK
  <2>7. SocketsOwned'
    BY <1>a, <2>1, <2>2, <2>4 DEF SocketsOwned, Out
  <2>8. NotStarted'
    <3>1. ASSUME NEW l \in Sockets, l[1] > n \/ (l[1] = n /\ l[2] > 1)
          PROVE  candidate'[l] = "none"
      <4>1. l # k
        BY <1>b, <2>2, <3>1
      <4>2. l[1] > attempt \/ (l[1] = attempt /\ l[2] > launched)
        BY <1>b, <3>1
      <4>3. candidate[l] = "none"
        BY <4>2 DEF RaceInv, NotStarted
      <4> QED BY <2>4, <4>1, <4>3
    <3> QED BY <2>1, <3>1 DEF NotStarted
  <2>9. RaceShape'
    <3>1. attempt' <= Attempts'
      BY <2>1 DEF Attempts
    <3>2. Pending' = {Current'}
      BY <2>3, <2>5 DEF Current
    <3>3. /\ stage' = "racing" => ~proxied'
          /\ stage' # "racing" => proxied' /\ stage' = "address"
      BY <2>1
    <3>4. stage' \in {"racing", "address"}
      BY <2>1
    <3> QED BY <1>a, <3>1, <3>2, <3>3, <3>4 DEF RaceShape
  <2> QED BY <2>6, <2>7, <2>8, <2>9 DEF RaceInv
<1> QED BY <1>1, <1>2

\* retryDial pauses only for a proxy, and only before a last attempt.
LEMMA AttemptOver ==
  ASSUME DialConstants, RaceInv, NEW ending, AttemptEnds(ending)
  PROVE  /\ stage' \in {"backoff", "over"}
         /\ stage' = "backoff" => proxied /\ attempt < Attempts
<1>1. stage' = IF Retried(ending) /\ attempt < Attempts THEN "backoff" ELSE "over"
  BY DEF AttemptEnds
<1>2. attempt \in 1..ProxyAttempts /\ ProxyAttempts \in Nat
  BY DEF RaceInv, RaceTypeOK, DialConstants
<1>3. attempt < Attempts => proxied
  BY <1>2 DEF Attempts
<1> QED BY <1>1, <1>3

\* The steps of the race on the addresses of the target.
LEMMA RacingStep ==
  ASSUME DialConstants, RaceInv, stage = "racing",
         TimerFires \/ RaceCancelled \/ \E k \in Sockets : TakeWinner(k) \/ TakeError(k)
  PROVE  RaceInv'
<1> USE SocketNames
<1>a. /\ RaceTypeOK /\ ~proxied /\ drains = 0 /\ returned = {} /\ HeldSockets = {}
      /\ \A k \in Sockets : candidate[k] \in Out => k[1] = attempt
      /\ attempt <= Attempts /\ NotStarted
  BY DEF RaceInv, RaceShape, SocketsOwned
<1>b. /\ Addresses \in Nat /\ ProxyAttempts \in Nat /\ attempt \in 1..ProxyAttempts
      /\ launched \in 0..Addresses /\ candidate \in [Sockets -> DialStates]
  BY <1>a DEF RaceTypeOK, DialConstants
<1>c. IsFiniteSet(Pending) /\ Cardinality(Pending) \in 0..Addresses
  BY <1>a, PendingBound
\* The race goes on: nothing is held, nothing returned, nothing to drain.
<1>d. ASSUME UNCHANGED <<stage, proxied, attempt, drains, parentDone, returned>>,
             timerSet' \in BOOLEAN, launched' \in 0..Addresses,
             candidate' \in [Sockets -> DialStates], HeldSockets' = {},
             \A k \in Sockets : candidate'[k] \in Out => k[1] = attempt, NotStarted'
      PROVE  RaceInv'
  <2>1. RaceTypeOK'
    BY <1>a, <1>d DEF RaceTypeOK
  <2>2. SocketsOwned'
    BY <1>a, <1>d DEF SocketsOwned
  <2>3. RaceShape'
    BY <1>a, <1>d DEF RaceShape, Attempts
  <2> QED BY <1>d, <2>1, <2>2, <2>3 DEF RaceInv
\* The next address is dialled, after a failed one was read.
<1>e. ASSUME NEW states \in [Sockets -> DialStates], launched < Addresses, LaunchNext(states),
             \A k \in Sockets : states[k] = candidate[k] \/ states[k] = "closed",
             \A k \in Sockets : candidate[k] = "none" => states[k] = "none",
             UNCHANGED <<stage, proxied, attempt, drains, parentDone, returned>>,
             timerSet' \in BOOLEAN
      PROVE  RaceInv'
  <2> DEFINE k == <<attempt, launched + 1>>
  <2>1. launched + 1 \in 1..Addresses /\ launched + 1 \in 0..Addresses
    BY <1>b, <1>e
  <2>2. k \in Sockets /\ k[1] = attempt /\ k[2] = launched + 1
    BY <1>b, <2>1
  <2>3. launched' = launched + 1 /\ candidate' = [states EXCEPT ![k] = "dialling"]
    BY <1>e DEF LaunchNext
  <2> HIDE DEF k
  <2>4. /\ candidate' \in [Sockets -> DialStates] /\ candidate'[k] = "dialling"
        /\ \A l \in Sockets : l # k => candidate'[l] = states[l]
    <3>1. "dialling" \in DialStates
      BY DEF DialStates
    <3> QED BY <1>e, <2>2, <2>3, <3>1
  <2>5. HeldSockets' = {}
    BY <1>a, <1>e, <2>4 DEF HeldSockets
  <2>6. \A l \in Sockets : candidate'[l] \in Out => l[1] = attempt
    BY <1>a, <1>e, <2>2, <2>4 DEF Out
  <2>7. NotStarted'
    <3>1. ASSUME NEW l \in Sockets,
                 l[1] > attempt \/ (l[1] = attempt /\ l[2] > launched + 1)
          PROVE  candidate'[l] = "none"
      <4>1. l # k
        BY <1>b, <2>2, <3>1
      <4>2. l[1] > attempt \/ (l[1] = attempt /\ l[2] > launched)
        BY <1>b, <3>1
      <4>3. candidate[l] = "none"
        BY <1>a, <4>2 DEF NotStarted
      <4> QED BY <1>e, <2>4, <4>1, <4>3
    <3> QED BY <1>e, <2>3, <3>1 DEF NotStarted
  <2> QED BY <1>d, <1>e, <2>1, <2>3, <2>4, <2>5, <2>6, <2>7
\* The race is over without a connection.
<1>f. ASSUME UNCHANGED <<proxied, attempt, launched, parentDone, returned>>,
             AttemptEnds("error"), timerSet' \in BOOLEAN, drains' = Cardinality(Pending'),
             candidate' \in [Sockets -> DialStates], HeldSockets' = {},
             \A k \in Sockets : candidate'[k] \in Out => k[1] = attempt, NotStarted',
             drains' \in 0..Addresses
      PROVE  RaceInv'
  <2>1. stage' = "over"
    BY <1>a, <1>f, AttemptOver
  <2>2. RaceTypeOK'
    BY <1>a, <1>f, <2>1 DEF RaceTypeOK, Stages
  <2>3. SocketsOwned'
    BY <1>a, <1>f, <2>1 DEF SocketsOwned
  <2>4. RaceShape'
    BY <1>a, <1>f, <2>1 DEF RaceShape, Attempts
  <2> QED BY <1>f, <2>2, <2>3, <2>4 DEF RaceInv
<1>1. CASE TimerFires
  <2>a. UNCHANGED <<stage, proxied, attempt, drains, parentDone, returned>>
    BY <1>1 DEF TimerFires
  <2>1. CASE launched < Addresses
    <3>1. LaunchNext(candidate) /\ timerSet' = (launched + 1 < Addresses)
      BY <1>1, <2>1 DEF TimerFires
    <3>2. timerSet' \in BOOLEAN
      BY <3>1
    <3> QED BY <1>b, <1>e, <2>a, <2>1, <3>1, <3>2
  <2>2. CASE ~(launched < Addresses)
    <3>1. timerSet' = FALSE /\ UNCHANGED <<launched, candidate>>
      BY <1>1, <2>2 DEF TimerFires
    <3>2. timerSet' \in BOOLEAN
      BY <3>1, Zenon
    <3>3. HeldSockets' = {} /\ NotStarted'
      BY <1>a, <2>a, <3>1 DEF HeldSockets, NotStarted
    <3> QED BY <1>a, <1>b, <1>d, <2>a, <3>1, <3>2, <3>3
  <2> QED BY <2>1, <2>2
<1>2. CASE RaceCancelled
  <2>1. /\ drains' = Cardinality(Pending) /\ AttemptEnds("error") /\ timerSet' = FALSE
        /\ UNCHANGED <<proxied, attempt, launched, candidate, parentDone, returned>>
    BY <1>2 DEF RaceCancelled, LeftToDrain
  <2>2. timerSet' \in BOOLEAN
    BY <2>1, Zenon
  <2>3. HeldSockets' = {} /\ NotStarted' /\ Pending' = Pending
    BY <1>a, <2>1 DEF HeldSockets, NotStarted, Pending
  <2> QED BY <1>a, <1>b, <1>c, <1>f, <2>1, <2>2, <2>3
<1>3. ASSUME NEW k \in Sockets, TakeWinner(k) PROVE RaceInv'
  <2>1. /\ k[1] = attempt /\ candidate[k] = "up" /\ candidate' = [candidate EXCEPT ![k] = "held"]
        /\ drains' = Cardinality(Pending) - 1 /\ stage' = "tls" /\ timerSet' = FALSE
        /\ UNCHANGED <<proxied, attempt, launched, parentDone, returned>>
    BY <1>3 DEF TakeWinner
  <2>2. "held" \in DialStates /\ "held" \notin Out
    BY DEF DialStates, Out
  <2>3. /\ candidate' \in [Sockets -> DialStates] /\ candidate'[k] = "held"
        /\ \A l \in Sockets : l # k => candidate'[l] = candidate[l]
        /\ HeldSockets' = HeldSockets \cup {k} /\ Pending' = Pending \ {k}
    BY <1>a, <2>1, <2>2, DialChanges
  <2>4. k \in Pending
    BY <2>1 DEF Pending
  <2>5. drains' = Cardinality(Pending') /\ drains' \in 0..Addresses
    <3>1. Cardinality(Pending') = Cardinality(Pending) - 1 /\ Cardinality(Pending) > 0
      BY <1>a, <2>3, <2>4, PendingBound
    <3> QED BY <1>b, <1>c, <2>1, <3>1
  <2>6. RaceTypeOK'
    <3>1. timerSet' \in BOOLEAN
      BY <2>1, Zenon
    <3> QED BY <1>a, <2>1, <2>3, <2>5, <3>1 DEF RaceTypeOK, Stages
  <2>7. SocketsOwned'
    BY <1>a, <2>1, <2>2, <2>3, <2>5 DEF SocketsOwned
  <2>8. NotStarted'
    BY <1>a, <2>1, <2>3 DEF NotStarted
  <2>9. RaceShape'
    BY <1>a, <2>1 DEF RaceShape, Attempts
  <2> QED BY <2>6, <2>7, <2>8, <2>9 DEF RaceInv
<1>4. ASSUME NEW k \in Sockets, TakeError(k) PROVE RaceInv'
  <2> DEFINE read == [candidate EXCEPT ![k] = "closed"]
  <2>1. k[1] = attempt /\ candidate[k] = "down"
        /\ UNCHANGED <<proxied, attempt, drains, parentDone, returned>>
    BY <1>4 DEF TakeError
  <2>2. \/ /\ launched < Addresses /\ LaunchNext(read) /\ UNCHANGED stage
           /\ timerSet' = (timerSet \/ launched + 1 < Addresses)
        \/ /\ launched = Addresses /\ candidate' = read /\ UNCHANGED <<launched, timerSet>>
           /\ IF Pending = {k} THEN AttemptEnds("error") ELSE UNCHANGED stage
    BY <1>4 DEF TakeError
  <2>3. "closed" \in DialStates /\ "closed" \notin Out
    BY DEF DialStates, Out
  <2>4. /\ read \in [Sockets -> DialStates] /\ read[k] = "closed"
        /\ \A l \in Sockets : l # k => read[l] = candidate[l]
    BY <1>b, <2>3
  <2>5. CASE /\ launched < Addresses /\ LaunchNext(read) /\ UNCHANGED stage
             /\ timerSet' = (timerSet \/ launched + 1 < Addresses)
    <3>1. timerSet' \in BOOLEAN
      BY <2>5, Zenon
    <3>2. /\ \A l \in Sockets : read[l] = candidate[l] \/ read[l] = "closed"
          /\ \A l \in Sockets : candidate[l] = "none" => read[l] = "none"
      BY <2>1, <2>4
    <3>3. UNCHANGED <<stage, proxied, attempt, drains, parentDone, returned>>
      BY <2>1, <2>5
    <3> HIDE DEF read
    <3> QED BY <1>e, <2>4, <2>5, <3>1, <3>2, <3>3
  <2>6. CASE /\ launched = Addresses /\ candidate' = read /\ UNCHANGED <<launched, timerSet>>
             /\ IF Pending = {k} THEN AttemptEnds("error") ELSE UNCHANGED stage
    <3>1. /\ candidate' \in [Sockets -> DialStates] /\ candidate'[k] = "closed"
          /\ \A l \in Sockets : l # k => candidate'[l] = candidate[l]
          /\ HeldSockets' = HeldSockets \ {k} /\ Pending' = Pending \ {k}
      BY ZenonT(60), <1>a, <2>1, <2>3, <2>6, DialChanges
    <3>2. /\ HeldSockets' = {} /\ NotStarted' /\ timerSet' \in BOOLEAN
          /\ \A l \in Sockets : candidate'[l] \in Out => l[1] = attempt
      <4>1. timerSet' \in BOOLEAN
        BY <1>a, <2>6 DEF RaceTypeOK
      <4>2. NotStarted'
        BY <1>a, <2>1, <2>6, <3>1 DEF NotStarted
      <4> QED BY <1>a, <2>1, <3>1, <4>1, <4>2
    <3>3. CASE Pending = {k}
      <4>1. Pending' = {} /\ AttemptEnds("error")
        BY <2>6, <3>1, <3>3
      <4>2. drains' = Cardinality(Pending') /\ drains' \in 0..Addresses
        BY <1>a, <1>b, <2>1, <4>1, FS_EmptySet
      <4> QED BY <1>f, <2>1, <2>6, <3>1, <3>2, <4>1, <4>2
    <3>4. CASE Pending # {k}
      BY <1>b, <1>d, <2>1, <2>6, <3>1, <3>2, <3>4
    <3> QED BY <3>3, <3>4
  <2> QED BY <2>2, <2>5, <2>6
<1> QED BY <1>1, <1>2, <1>3, <1>4

\* The walk over the addresses of the proxy.
LEMMA AddressStep ==
  ASSUME DialConstants, RaceInv, ProxyAddress
  PROVE  RaceInv'
<1> USE SocketNames
<1>a. /\ RaceTypeOK /\ proxied /\ drains = 0 /\ returned = {} /\ HeldSockets = {}
      /\ \A k \in Sockets : candidate[k] \in Out => k = Current
      /\ attempt <= Attempts /\ NotStarted /\ Pending = {Current} /\ stage = "address"
  <2>1. stage = "address"
    BY DEF ProxyAddress
  <2>2. /\ RaceTypeOK /\ proxied /\ drains = 0 /\ returned = {} /\ HeldSockets = {}
        /\ attempt <= Attempts /\ NotStarted /\ Pending = {Current}
    BY <2>1 DEF RaceInv, RaceShape, SocketsOwned
  <2>3. ASSUME NEW k \in Sockets, candidate[k] \in Out PROVE k = Current
    <3>1. k \in Pending
      BY <2>3 DEF RaceInv, SocketsOwned, Pending, Out
    <3> QED BY <2>2, <3>1
  <2> QED BY <2>1, <2>2, <2>3
<1>b. /\ Addresses \in Nat /\ ProxyAttempts \in Nat /\ attempt \in 1..ProxyAttempts
      /\ launched \in 0..Addresses /\ candidate \in [Sockets -> DialStates]
  BY <1>a DEF RaceTypeOK, DialConstants
<1>c. Current \in Sockets /\ Current[1] = attempt /\ candidate[Current] \in Out
  BY <1>a DEF Pending, Out
<1>d. UNCHANGED <<proxied, attempt, timerSet, drains, parentDone, returned>>
  BY DEF ProxyAddress
<1> DEFINE k == Current
<1>1. CASE candidate[k] = "up"
  <2>1. candidate' = [candidate EXCEPT ![k] = "held"] /\ stage' = "proxy" /\ UNCHANGED launched
    BY <1>1 DEF ProxyAddress
  <2>2. "held" \in DialStates /\ "held" \notin Out
    BY DEF DialStates, Out
  <2>3. /\ candidate' \in [Sockets -> DialStates] /\ candidate'[k] = "held"
        /\ \A l \in Sockets : l # k => candidate'[l] = candidate[l]
        /\ HeldSockets' = HeldSockets \cup {k} /\ Pending' = Pending \ {k}
    BY <1>a, <1>c, <1>d, <2>1, <2>2, DialChanges
  <2>4. Pending' = {} /\ HeldSockets' = {k} /\ \A l \in Sockets : candidate'[l] \notin Out
    <3> HIDE DEF k
    <3>1. Pending = {k} /\ \A l \in Sockets : candidate[l] \in Out => l = k
      BY <1>a DEF k
    <3> QED BY <1>a, <2>2, <2>3, <3>1
  <2>5. drains' = Cardinality(Pending')
    BY <1>a, <1>d, <2>4, FS_EmptySet
  <2>6. RaceTypeOK'
    BY <1>a, <1>d, <2>1, <2>3 DEF RaceTypeOK, Stages
  <2>7. SocketsOwned'
    <3> HIDE DEF k
    <3> QED BY <1>a, <2>1, <2>4, <2>5 DEF SocketsOwned
  <2>8. NotStarted'
    <3>1. candidate[k] # "none"
      BY <1>1
    <3> HIDE DEF k
    <3> QED BY <1>a, <1>d, <2>1, <2>3, <3>1 DEF NotStarted
  <2>9. RaceShape'
    <3> HIDE DEF k
    <3> QED BY <1>a, <1>d, <2>1, <2>4 DEF RaceShape, Attempts
  <2> QED BY <2>6, <2>7, <2>8, <2>9 DEF RaceInv
<1>2. CASE candidate[k] # "up"
  <2> DEFINE read == [candidate EXCEPT ![k] = "closed"]
  <2>1. candidate[k] = "down"
    BY <1>2 DEF ProxyAddress
  <2>2. "closed" \in DialStates /\ "closed" \notin Out
    BY DEF DialStates, Out
  <2>3. /\ read \in [Sockets -> DialStates] /\ read[k] = "closed"
        /\ \A l \in Sockets : l # k => read[l] = candidate[l]
    BY <1>b, <1>c, <2>2
  <2>4. \A l \in Sockets : read[l] \notin Out /\ read[l] # "held"
    <3>1. \A l \in Sockets : candidate[l] # "held" /\ (candidate[l] \in Out => l = k)
      BY <1>a DEF HeldSockets
    <3> HIDE DEF read, k
    <3> QED BY <2>2, <2>3, <3>1
  <2>5. \A l \in Sockets : candidate[l] = "none" => read[l] = "none"
    <3> HIDE DEF read, k
    <3> QED BY <2>1, <2>3
  <2>6. CASE launched < Addresses
    <3> DEFINE n == <<attempt, launched + 1>>
    <3>1. launched' = launched + 1 /\ candidate' = [read EXCEPT ![n] = "dialling"]
          /\ stage' = "address"
      BY <1>2, <1>a, <2>6 DEF ProxyAddress, LaunchNext
    <3>2. launched + 1 \in 1..Addresses /\ launched + 1 \in 0..Addresses
      BY <1>b, <2>6
    <3>3. n \in Sockets /\ n[1] = attempt /\ n[2] = launched + 1 /\ n = <<attempt', launched'>>
      BY <1>b, <1>d, <3>1, <3>2
    <3> HIDE DEF n, read
    <3>4. /\ candidate' \in [Sockets -> DialStates] /\ candidate'[n] = "dialling"
          /\ \A l \in Sockets : l # n => candidate'[l] = read[l]
      <4>1. "dialling" \in DialStates
        BY DEF DialStates
      <4> QED BY <2>3, <3>1, <3>3, <4>1
    <3>5. HeldSockets' = {} /\ Pending' = {n}
          /\ \A l \in Sockets : candidate'[l] \in Out => l[1] = attempt
      <4>1. "dialling" \in Out
        BY DEF Out
      <4>2. \A l \in Sockets : candidate'[l] # "held" /\ (candidate'[l] \in Out <=> l = n)
        BY <2>4, <3>3, <3>4, <4>1
      <4>3. HeldSockets' = {}
        BY <4>2 DEF HeldSockets
      <4>4. Pending' = {n}
        BY <1>d, <3>3, <4>2 DEF Pending, Out
      <4> QED BY <3>3, <4>2, <4>3, <4>4
    <3>6. RaceTypeOK'
      BY <1>a, <1>d, <3>1, <3>2, <3>4 DEF RaceTypeOK, Stages
    <3>7. SocketsOwned'
      BY <1>a, <1>d, <3>1, <3>5 DEF SocketsOwned
    <3>8. NotStarted'
      <4>1. ASSUME NEW l \in Sockets,
                   l[1] > attempt \/ (l[1] = attempt /\ l[2] > launched + 1)
            PROVE  candidate'[l] = "none"
        <5>1. l # n
          BY <1>b, <3>3, <4>1
        <5>2. l[1] > attempt \/ (l[1] = attempt /\ l[2] > launched)
          BY <1>b, <4>1
        <5>3. candidate[l] = "none"
          BY <1>a, <5>2 DEF NotStarted
        <5> QED BY <2>5, <3>4, <5>1, <5>3
      <4> QED BY <1>d, <3>1, <4>1 DEF NotStarted
    <3>9. RaceShape'
      <4>1. Pending' = {Current'}
        BY <3>3, <3>5 DEF Current
      <4> QED BY <1>a, <1>d, <3>1, <4>1 DEF RaceShape, Attempts
    <3> QED BY <3>6, <3>7, <3>8, <3>9 DEF RaceInv
  <2>7. CASE ~(launched < Addresses)
    <3>1. candidate' = read /\ AttemptEnds("error") /\ UNCHANGED launched
      BY <1>2, <2>7 DEF ProxyAddress
    <3>2. /\ stage' \in {"backoff", "over"}
          /\ stage' = "backoff" => attempt < Attempts
      BY <3>1, AttemptOver
    <3> HIDE DEF read
    <3>3. HeldSockets' = {} /\ Pending' = {} /\ \A l \in Sockets : candidate'[l] \notin Out
      BY <2>4, <3>1 DEF HeldSockets, Pending, Out
    <3>4. drains' = Cardinality(Pending')
      BY <1>a, <1>d, <3>3, FS_EmptySet
    <3>5. RaceTypeOK'
      BY <1>a, <1>d, <2>3, <3>1, <3>2 DEF RaceTypeOK, Stages
    <3>6. SocketsOwned'
      BY <1>a, <1>d, <3>2, <3>3, <3>4 DEF SocketsOwned
    <3>7. NotStarted'
      BY <1>a, <1>d, <2>5, <3>1 DEF NotStarted
    <3>8. RaceShape'
      BY <1>a, <1>d, <3>2, <3>3 DEF RaceShape, Attempts
    <3> QED BY <3>5, <3>6, <3>7, <3>8 DEF RaceInv
  <2> QED BY <2>6, <2>7
<1> QED BY <1>1, <1>2

\* The conversation with the proxy and the handshake end one way or the other:
\* the socket in hand stays in hand, is closed, or is handed back.
LEMMA HeldStep ==
  ASSUME DialConstants, RaceInv, stage \in {"proxy", "password", "connect", "tls"},
         UNCHANGED <<proxied, attempt, launched, timerSet, drains, parentDone>>,
         \/ /\ stage' \in {"password", "connect", "tls"} /\ UNCHANGED <<candidate, returned>>
            /\ stage' # "tls" => proxied
         \/ /\ candidate' = [k \in Sockets |->
                               IF candidate[k] = "held" THEN "closed" ELSE candidate[k]]
            /\ AttemptEnds("error") /\ UNCHANGED returned
         \/ stage' = "over" /\ UNCHANGED candidate /\ returned' = HeldSockets
  PROVE  RaceInv'
<1>a. /\ RaceTypeOK /\ returned = {} /\ NotStarted /\ attempt <= Attempts
      /\ \A k \in Sockets : candidate[k] \in Out => k[1] = attempt
      /\ drains = Cardinality(Pending) /\ \A k, l \in HeldSockets : k = l
      /\ proxied => Pending = {}
  BY DEF RaceInv, RaceShape, SocketsOwned
<1>b. candidate \in [Sockets -> DialStates]
  BY <1>a DEF RaceTypeOK
<1>1. CASE /\ stage' \in {"password", "connect", "tls"} /\ UNCHANGED <<candidate, returned>>
           /\ stage' # "tls" => proxied
  <2>1. HeldSockets' = HeldSockets /\ Pending' = Pending
    BY <1>1 DEF HeldSockets, Pending
  <2>2. RaceTypeOK'
    BY <1>1, <1>a DEF RaceTypeOK, Stages
  <2>3. SocketsOwned'
    BY <1>1, <1>a, <2>1 DEF SocketsOwned
  <2>4. NotStarted'
    BY <1>1, <1>a DEF NotStarted
  <2>5. RaceShape'
    BY <1>1, <1>a, <2>1 DEF RaceShape, Attempts
  <2> QED BY <2>2, <2>3, <2>4, <2>5 DEF RaceInv
<1>2. CASE /\ candidate' = [k \in Sockets |->
                              IF candidate[k] = "held" THEN "closed" ELSE candidate[k]]
           /\ AttemptEnds("error") /\ UNCHANGED returned
  <2>1. /\ stage' \in {"backoff", "over"}
        /\ stage' = "backoff" => proxied /\ attempt < Attempts
    BY <1>2, AttemptOver
  <2>2. candidate' \in [Sockets -> DialStates]
    BY <1>2, <1>b DEF DialStates
  <2>3. \A k \in Sockets : /\ candidate'[k] # "held"
                           /\ candidate'[k] \in Out <=> candidate[k] \in Out
                           /\ candidate[k] = "none" => candidate'[k] = "none"
    BY <1>2 DEF Out
  <2>4. HeldSockets' = {} /\ Pending' = Pending
    BY <2>3 DEF HeldSockets, Pending, Out
  <2>5. RaceTypeOK'
    BY <1>2, <1>a, <2>1, <2>2 DEF RaceTypeOK, Stages
  <2>6. SocketsOwned'
    BY <1>2, <1>a, <2>1, <2>3, <2>4 DEF SocketsOwned
  <2>7. NotStarted'
    BY <1>a, <2>3 DEF NotStarted
  <2>8. RaceShape'
    BY <1>2, <1>a, <2>1, <2>4 DEF RaceShape, Attempts
  <2> QED BY <2>5, <2>6, <2>7, <2>8 DEF RaceInv
<1>3. CASE stage' = "over" /\ UNCHANGED candidate /\ returned' = HeldSockets
  <2>1. HeldSockets' = HeldSockets /\ Pending' = Pending /\ HeldSockets \subseteq Sockets
    BY <1>3 DEF HeldSockets, Pending
  <2>2. RaceTypeOK'
    BY <1>3, <1>a, <2>1 DEF RaceTypeOK, Stages
  <2>3. SocketsOwned'
    BY <1>3, <1>a, <2>1 DEF SocketsOwned
  <2>4. NotStarted'
    BY <1>3, <1>a DEF NotStarted
  <2>5. RaceShape'
    BY <1>3, <1>a, <2>1 DEF RaceShape, Attempts
  <2> QED BY <2>2, <2>3, <2>4, <2>5 DEF RaceInv
<1> QED BY <1>1, <1>2, <1>3

\* Every step of createConn, its dials and its drain keeps RaceInv.
LEMMA RaceStep ==
  ASSUME DialConstants, RaceInv, [RaceNext]_raceVars
  PROVE  RaceInv'
<1> USE SocketNames
<1>a. /\ RaceTypeOK /\ attempt <= Attempts /\ NotStarted /\ attempt \in 1..ProxyAttempts
      /\ candidate \in [Sockets -> DialStates] /\ ProxyAttempts \in Nat \ {0}
  BY DEF RaceInv, RaceShape, RaceTypeOK, DialConstants
<1>1. ASSUME NEW p \in BOOLEAN, CreateTCPConn(p) PROVE RaceInv'
  <2>1. /\ stage = "idle" /\ proxied' = p /\ StartAttempt(1, p)
        /\ UNCHANGED <<drains, parentDone, returned>>
    BY <1>1 DEF CreateTCPConn
  <2>2. launched = 0 /\ attempt = 1
    BY <2>1 DEF RaceInv, RaceShape
  <2>3. ASSUME NEW k \in Sockets PROVE candidate[k] = "none"
    <3>1. k[1] > attempt \/ (k[1] = attempt /\ k[2] > launched)
      BY <2>2
    <3> QED BY <1>a, <3>1 DEF NotStarted
  <2>4. Pending = {} /\ HeldSockets = {}
    BY <2>3 DEF Pending, HeldSockets
  <2>5. 1 \in 1..ProxyAttempts /\ attempt <= 1 /\ 1 <= (IF p THEN ProxyAttempts ELSE 1)
    BY <1>a, <2>2
  <2>6. stage # "over" /\ stage \notin {"racing", "address"}
    BY <2>1
  <2> QED BY <2>1, <2>2, <2>4, <2>5, <2>6, AttemptStarts
<1>2. ASSUME NEW k \in Sockets, DialReturns(k) PROVE RaceInv'
  <2>1. PICK ending \in {"up", "down"} : candidate' = [candidate EXCEPT ![k] = ending]
    BY <1>2 DEF DialReturns
  <2>2. /\ candidate[k] = "dialling"
        /\ UNCHANGED <<stage, proxied, attempt, launched, timerSet, drains, parentDone, returned>>
    BY <1>2 DEF DialReturns
  <2>3. ending \in DialStates /\ ending \in Out /\ ending # "held" /\ candidate[k] \in Out
    BY <2>2 DEF DialStates, Out
  <2>4. k[1] = attempt
    BY <2>3 DEF RaceInv, SocketsOwned
  <2>5. /\ candidate' \in [Sockets -> DialStates] /\ candidate'[k] = ending
        /\ \A l \in Sockets : l # k => candidate'[l] = candidate[l]
        /\ HeldSockets' = HeldSockets \ {k} /\ Pending' = Pending \cup {k}
    BY <1>a, <2>1, <2>2, <2>3, <2>4, DialChanges
  <2>6. HeldSockets' = HeldSockets /\ Pending' = Pending
    <3>1. k \notin HeldSockets /\ k \in Pending
      BY <2>2, <2>4 DEF HeldSockets, Pending
    <3> QED BY <2>5, <3>1
  <2>7. RaceTypeOK'
    BY <1>a, <2>2, <2>5 DEF RaceTypeOK
  <2>8. SocketsOwned'
    BY <2>2, <2>4, <2>5, <2>6 DEF RaceInv, SocketsOwned
  <2>9. NotStarted'
    BY <1>a, <2>2, <2>5 DEF NotStarted
  <2>10. RaceShape'
    BY <2>2, <2>6 DEF RaceInv, RaceShape, Attempts, Current
  <2> QED BY <2>7, <2>8, <2>9, <2>10 DEF RaceInv
<1>3. ASSUME NEW k \in Sockets, DrainOne(k) PROVE RaceInv'
  <2>1. /\ stage # "racing" /\ drains > 0 /\ k[1] = attempt /\ candidate[k] \in {"up", "down"}
        /\ candidate' = [candidate EXCEPT ![k] = "closed"] /\ drains' = drains - 1
        /\ UNCHANGED <<stage, proxied, attempt, launched, timerSet, parentDone, returned>>
    BY <1>3 DEF DrainOne
  <2>2. stage \notin {"racing", "address"} /\ drains = Cardinality(Pending)
    BY <2>1 DEF RaceInv, RaceShape, SocketsOwned
  <2>3. "closed" \in DialStates /\ "closed" \notin Out
    BY DEF DialStates, Out
  <2>4. /\ candidate' \in [Sockets -> DialStates] /\ candidate'[k] = "closed"
        /\ \A l \in Sockets : l # k => candidate'[l] = candidate[l]
        /\ HeldSockets' = HeldSockets \ {k} /\ Pending' = Pending \ {k}
    BY ZenonT(60), <1>a, <2>1, <2>3, DialChanges
  <2>5. HeldSockets' = HeldSockets /\ k \in Pending
    BY <2>1, <2>4 DEF HeldSockets, Pending
  <2>6. drains' = Cardinality(Pending') /\ drains' \in 0..Addresses
    <3>1. /\ Cardinality(Pending') = Cardinality(Pending) - 1 /\ Cardinality(Pending) > 0
          /\ Cardinality(Pending) \in 0..Addresses /\ Addresses \in Nat
      BY <1>a, <2>4, <2>5, PendingBound DEF DialConstants
    <3> QED BY <2>1, <2>2, <3>1
  <2>7. RaceTypeOK'
    BY <1>a, <2>1, <2>4, <2>6 DEF RaceTypeOK
  <2>8. SocketsOwned'
    BY <2>1, <2>3, <2>4, <2>5, <2>6 DEF RaceInv, SocketsOwned
  <2>9. NotStarted'
    BY <1>a, <2>1, <2>4 DEF NotStarted
  <2>10. RaceShape'
    BY <2>1, <2>2, <2>4 DEF RaceInv, RaceShape, Attempts
  <2> QED BY <2>7, <2>8, <2>9, <2>10 DEF RaceInv
<1>4. CASE TimerFires \/ RaceCancelled \/ \E k \in Sockets : TakeWinner(k) \/ TakeError(k)
  <2>1. stage = "racing"
    BY <1>4 DEF TimerFires, RaceCancelled, TakeWinner, TakeError
  <2> QED BY <1>4, <2>1, RacingStep
<1>5. CASE ProxyAddress
  BY <1>5, AddressStep
<1>6. CASE Backoff
  <2>1. /\ stage = "backoff" /\ StartAttempt(attempt + 1, proxied)
        /\ UNCHANGED <<proxied, drains, parentDone, returned>>
    BY <1>6 DEF Backoff
  <2>2. proxied /\ attempt < Attempts /\ Pending = {} /\ HeldSockets = {}
    BY <2>1 DEF RaceInv, RaceShape, SocketsOwned
  <2>3. attempt < ProxyAttempts
    BY <2>2 DEF Attempts
  <2>4. /\ attempt + 1 \in 1..ProxyAttempts /\ attempt <= attempt + 1 /\ attempt + 1 > attempt
        /\ attempt + 1 <= (IF proxied THEN ProxyAttempts ELSE 1)
    BY <1>a, <2>2, <2>3
  <2>5. proxied \in BOOLEAN /\ proxied' = proxied
    BY <1>a, <2>1 DEF RaceTypeOK
  <2>6. stage # "over" /\ stage \notin {"racing", "address"}
    BY <2>1
  <2> QED BY <2>1, <2>2, <2>4, <2>5, <2>6, AttemptStarts
<1>7. ASSUME NEW from \in {"proxy", "password", "connect"},
             NEW to \in {"password", "connect", "tls"},
             ProxyStep(from, to)
      PROVE  RaceInv'
  <2>1. /\ stage = from
        /\ UNCHANGED <<proxied, attempt, launched, timerSet, drains, parentDone, returned>>
        /\ \/ stage' = to /\ UNCHANGED candidate
           \/ /\ candidate' = [k \in Sockets |->
                                 IF candidate[k] = "held" THEN "closed" ELSE candidate[k]]
              /\ AttemptEnds("error")
    BY <1>7 DEF ProxyStep
  <2>2. proxied
    BY <2>1 DEF RaceInv, RaceShape
  <2> QED BY <2>1, <2>2, HeldStep
<1>8. ASSUME NEW ending \in {"ok", "error", "alpn"}, TLSHandshake(ending) PROVE RaceInv'
  <2>1. stage = "tls" /\ UNCHANGED <<proxied, attempt, launched, timerSet, drains, parentDone>>
    BY <1>8 DEF TLSHandshake
  <2>2. CASE ending = "error"
    <3>1. /\ candidate' = [k \in Sockets |->
                             IF candidate[k] = "held" THEN "closed" ELSE candidate[k]]
          /\ AttemptEnds("error") /\ UNCHANGED returned
      BY <1>8, <2>2 DEF TLSHandshake
    <3> QED BY <2>1, <3>1, HeldStep
  <2>3. CASE ending # "error"
    <3>1. ending = "ok" \/ ending = "alpn"
      BY <2>3
    <3>2. returned' = HeldSockets /\ UNCHANGED candidate
      BY <1>8, <2>3, <3>1 DEF TLSHandshake, Retried, HeldSockets
    <3>3. stage' = "over"
      BY <1>8, <3>1 DEF TLSHandshake, AttemptEnds, Retried
    <3> QED BY <2>1, <3>2, <3>3, HeldStep
  <2> QED BY <2>2, <2>3
<1>9. CASE CallerLeaves
  <2>1. /\ parentDone' = TRUE
        /\ UNCHANGED <<stage, proxied, attempt, launched, timerSet, candidate, drains, returned>>
    BY <1>9 DEF CallerLeaves
  <2>2. parentDone' \in BOOLEAN
    BY <2>1, Zenon
  <2>3. Pending' = Pending /\ HeldSockets' = HeldSockets
    BY <2>1 DEF Pending, HeldSockets
  <2> QED BY <2>1, <2>2, <2>3
          DEF RaceInv, RaceTypeOK, SocketsOwned, NotStarted, RaceShape, Attempts, Current
<1>10. CASE UNCHANGED raceVars
  <2>1. UNCHANGED <<stage, proxied, attempt, launched, timerSet, candidate, drains, parentDone,
                    returned>>
    BY <1>10 DEF raceVars
  <2>2. Pending' = Pending /\ HeldSockets' = HeldSockets
    BY <2>1 DEF Pending, HeldSockets
  <2> QED BY <2>1, <2>2
          DEF RaceInv, RaceTypeOK, SocketsOwned, NotStarted, RaceShape, Attempts, Current
<1>11. ASSUME SocksGreeting \/ SocksPasswordAuth \/ SocksConnect \/ HTTPConnect PROVE RaceInv'
  BY <1>7, <1>11 DEF SocksGreeting, SocksPasswordAuth, SocksConnect, HTTPConnect
<1> QED BY <1>1, <1>2, <1>3, <1>4, <1>5, <1>6, <1>8, <1>9, <1>10, <1>11 DEF RaceNext, CreateConnStep

\* RaceInv holds before the first dial.
LEMMA RaceFirst ==
  ASSUME DialConstants, RaceInit
  PROVE  RaceInv
<1>1. Pending = {} /\ HeldSockets = {}
  BY DEF RaceInit, Pending, HeldSockets
<1>2. Addresses \in Nat \ {0} /\ ProxyAttempts \in Nat \ {0}
  BY DEF DialConstants
<1>3. proxied \in BOOLEAN /\ timerSet \in BOOLEAN /\ parentDone \in BOOLEAN /\ ~proxied
  BY Zenon DEF RaceInit
<1>4. RaceTypeOK
  BY <1>2, <1>3 DEF RaceInit, RaceTypeOK, Stages, DialStates
<1>5. SocketsOwned
  <2>1. Cardinality(Pending) = 0
    BY <1>1, FS_EmptySet
  <2> QED BY <1>1, <2>1 DEF RaceInit, SocketsOwned, Out
<1>6. NotStarted
  BY DEF RaceInit, NotStarted
<1>7. RaceShape
  BY <1>1, <1>2, <1>3 DEF RaceInit, RaceShape, Attempts
<1> QED BY <1>4, <1>5, <1>6, <1>7 DEF RaceInv

\* Once createConn is over and its drain has read what it waits for, no socket
\* is open but the one the caller was given.
LEMMA DrainedRace ==
  ASSUME DialConstants, RaceInv, stage = "over", drains = 0
  PROVE  OpenSockets \subseteq returned
<1>1. Pending = {}
  <2>1. IsFiniteSet(Pending) /\ Cardinality(Pending) = 0
    BY PendingBound DEF RaceInv, SocketsOwned
  <2> QED BY <2>1, FS_EmptySet
<1>2. ASSUME NEW k \in Sockets, candidate[k] = "up" PROVE FALSE
  <2>1. k[1] = attempt
    BY <1>2 DEF RaceInv, SocketsOwned, Out
  <2> QED BY <1>1, <1>2, <2>1 DEF Pending
<1>3. HeldSockets = returned
  BY DEF RaceInv, SocketsOwned
<1> QED BY <1>2, <1>3 DEF OpenSockets, HeldSockets

\* No socket of a createConn is lost: at every moment each open
\* one is held, handed back or waited for, and when the waiting is over only the
\* one handed back is left (tcpip.go:93-242, socks5_tcp.go:75-131).
THEOREM DialSafe ==
  RaceSpec => [](/\ RaceTypeOK /\ SocketsOwned
                 /\ stage = "over" /\ drains = 0 => OpenSockets \subseteq returned)
<1>1. RaceInit => RaceInv
  BY RaceFirst, DialConstants
<1>2. RaceInv /\ [RaceNext]_raceVars => RaceInv'
  BY RaceStep, DialConstants
<1>3. RaceInv => /\ RaceTypeOK /\ SocketsOwned
                 /\ stage = "over" /\ drains = 0 => OpenSockets \subseteq returned
  BY DrainedRace, DialConstants DEF RaceInv
<1> QED BY <1>1, <1>2, <1>3, PTL DEF RaceSpec

-----------------------------------------------------------------------------
(* The services together.                                                  *)

ServicesInv == IInv /\ DNSInv /\ CLibInv /\ BackendInv /\ ProxyInv /\ RaceInv

\* A step of one service leaves the state of the others alone, and with it
\* their invariants.
LEMMA ServicesStep ==
  ASSUME ServicesInv,
         [ServicesNext]_<<part, vars, dnsVars, clibVars, backendVars, proxyVars, raceVars>>
  PROVE  ServicesInv'
<1>1. /\ [Next]_vars /\ [DNSNext]_dnsVars /\ [CLibNext]_clibVars /\ [BackendNext]_backendVars
      /\ [ProxyNext]_proxyVars /\ [RaceNext]_raceVars
  BY DEF ServicesNext
<1>2. IInv'
  BY <1>1, IInvStep DEF ServicesInv
<1>3. DNSInv'
  BY <1>1, DNSStep, DNSConstants DEF ServicesInv
<1>4. CLibInv'
  BY <1>1, CLibStep, CLibConstants DEF ServicesInv
<1>5. BackendInv'
  BY <1>1, BackendCallStep, BackendConstants DEF ServicesInv
<1>6. ProxyInv'
  BY <1>1, LocalProxyStep, LocalProxyConstants DEF ServicesInv
<1>7. RaceInv'
  BY <1>1, RaceStep, DialConstants DEF ServicesInv
<1> QED BY <1>2, <1>3, <1>4, <1>5, <1>6, <1>7 DEF ServicesInv

\* The services keep their types and their safety properties side by side: the
\* tables of the library settle, no caller of a lookup is lost, every answer of
\* the host goes to the one that asked, Stop drains, and no socket is lost.
THEOREM ServicesSafe ==
  ServicesSpec =>
    [](/\ ServicesTypeOK /\ HostPoolSound /\ TablesSettled /\ WaitersJoined
       /\ OwnAnswer /\ TablesHoldAsked /\ DrainedStop /\ SocketsOwned)
<1>1. ServicesInit => ServicesInv
  <2> SUFFICES ASSUME ServicesInit PROVE ServicesInv
    OBVIOUS
  <2>1. IInv
    BY InitIInv DEF ServicesInit
  <2>2. DNSInv
    BY DNSFirst, DNSConstants DEF ServicesInit
  <2>3. CLibInv
    BY CLibFirst, CLibConstants DEF ServicesInit
  <2>4. BackendInv
    BY BackendFirst, BackendConstants DEF ServicesInit
  <2>5. ProxyInv
    BY ProxyFirst, LocalProxyConstants DEF ServicesInit
  <2>6. RaceInv
    BY RaceFirst, DialConstants DEF ServicesInit
  <2> QED BY <2>1, <2>2, <2>3, <2>4, <2>5, <2>6 DEF ServicesInv
<1>2. ServicesInv
        /\ [ServicesNext]_<<part, vars, dnsVars, clibVars, backendVars, proxyVars, raceVars>>
        => ServicesInv'
  BY ServicesStep
<1>3. ServicesInv => /\ ServicesTypeOK /\ HostPoolSound /\ TablesSettled /\ WaitersJoined
                     /\ OwnAnswer /\ TablesHoldAsked /\ DrainedStop /\ SocketsOwned
  <2> SUFFICES ASSUME ServicesInv
               PROVE  /\ ServicesTypeOK /\ HostPoolSound /\ TablesSettled /\ WaitersJoined
                      /\ OwnAnswer /\ TablesHoldAsked /\ DrainedStop /\ SocketsOwned
    OBVIOUS
  <2>1. TypeOK /\ HostPoolSound
    BY IInvSound DEF ServicesInv, IInv, TypeInv
  <2>2. DNSTypeOK /\ WaitersJoined
    BY DEF ServicesInv, DNSInv
  <2>3. CLibTypeOK /\ TablesSettled
    BY DEF ServicesInv, CLibInv, CallInv, TablesSettled, CallAccounted
  <2>4. BackendTypeOK /\ OwnAnswer /\ TablesHoldAsked
    BY DEF ServicesInv, BackendInv
  <2>5. ProxyTypeOK /\ DrainedStop
    BY ProxyDrained, LocalProxyConstants DEF ServicesInv, ProxyInv
  <2>6. RaceTypeOK /\ SocketsOwned
    BY DEF ServicesInv, RaceInv
  <2> QED BY <2>1, <2>2, <2>3, <2>4, <2>5, <2>6 DEF ServicesTypeOK
<1> QED BY <1>1, <1>2, <1>3, PTL DEF ServicesSpec
==============================================================================
