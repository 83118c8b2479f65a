-------------------------- MODULE HTTP2PoolProofs --------------------------
(***************************************************************************)
(* Theorems about HTTP2Pool, for any number of requests, connections and   *)
(* keys.  The inductive invariant IInv has eight layers, each preserved    *)
(* under the ones before it:                                               *)
(*   TypeInv        types, and who holds a connection;                     *)
(*   PoolInv        for each connection, where it may be at once: in the   *)
(*                  pool, on its way in, on its way out, or never dialled; *)
(*   InFlightExact  the in-use count of each connection;                   *)
(*   LateInv        who may still use a connection that is being evicted;  *)
(*   RetryInv       a connection a request failed on is out of its reach;  *)
(*   AlpnInv        who owns the connection of an ALPN downgrade;          *)
(*   YoungInv       what is stored while a key is dialled has not expired; *)
(*   TrackInv       no open connection is out of everybody's reach.        *)
(***************************************************************************)
EXTENDS HTTP2Pool, TLAPS, FiniteSetTheorems

\* Where a caller holds a connection, and which connection a dial holds.
Holding == {"peek", "acquire", "sent", "failed", "body", "abandoned", "alpn", "cstore"}

HoldsConn ==
    /\ \A r \in Requests : pc[r] \in Holding => rconn[r] \in Conns
    /\ \A k \in Keys : (dial[k].phase = "publish") <=> (dial[k].conn # NoConn)
    /\ \A k \in Keys : (dial[k].phase = "deliver") <=> (dial[k].result # NoConn)

TypeInv == TypeOK /\ HoldsConn

\* The places of a caller.
Labels == {"init", "retry", "peek", "lookup", "join", "wait", "alpn", "own", "acquire",
           "sent", "failed", "body", "abandoned", "cdial", "cstore", "done"}

\* What leaving the failure branch of roundTrip does to the caller.
LEMMA RetryTypes ==
  ASSUME ConstantsAssumption, TypeInv, NEW r \in Requests, GiveUpOrRetry(r)
  PROVE  /\ attempt' \in [Requests -> 0..MaxHTTP2Retries]
         /\ pc' \in [Requests -> Labels]
         /\ rconn' \in [Requests -> Conns \cup {NoConn}]
         /\ \A q \in Requests : pc'[q] \in Holding => rconn'[q] \in Conns
<1> USE DEF ConstantsAssumption, TypeInv, TypeOK, HoldsConn, Holding, Goto, Labels
<1>1. CASE Goto(r, "done", NoConn) /\ UNCHANGED attempt
  BY <1>1
<1>2. CASE /\ attempt[r] < MaxHTTP2Retries
           /\ Goto(r, "retry", NoConn)
           /\ attempt' = [attempt EXCEPT ![r] = @ + 1]
  BY SMTT(40), <1>2
<1> QED BY <1>1, <1>2 DEF GiveUpOrRetry

\* Every step preserves the types.
LEMMA TypeStep == ASSUME ConstantsAssumption, TypeInv, [Next]_vars PROVE TypeInv'
<1> USE ConstantsAssumption DEF ConstantsAssumption, TypeInv, TypeOK, HoldsConn, Holding,
        poolVars, loopVars, connVars, goVars, callVars, dialVars, shutVars, histVars,
        evictVars,
        CallerOnly, Goto, Reasons, timeVars, DialRecord, NoDial, Closes
<1>1. ASSUME NEW r \in Requests, Peek(r) PROVE TypeInv'
  BY <1>1 DEF Peek
<1>2. ASSUME NEW r \in Requests, PeekHit(r) PROVE TypeInv'
  BY <1>2 DEF PeekHit
<1>3. ASSUME NEW r \in Requests, PeekMiss(r) PROVE TypeInv'
  BY <1>3 DEF PeekMiss
<1>4. ASSUME NEW r \in Requests, LookupClosed(r) PROVE TypeInv'
  BY <1>4 DEF LookupClosed
<1>5. ASSUME NEW r \in Requests, LookupHit(r) PROVE TypeInv'
  BY <1>5 DEF LookupHit, PooledUsable
<1>6. ASSUME NEW r \in Requests, LookupMiss(r) PROVE TypeInv'
  BY <1>6 DEF LookupMiss, PooledUsable
<1>7. ASSUME NEW r \in Requests, JoinDial(r) PROVE TypeInv'
  BY <1>7 DEF JoinDial, ReturnedFailed
<1>8. ASSUME NEW r \in Requests, CancelWait(r) PROVE TypeInv'
  BY <1>8 DEF CancelWait
<1>9. ASSUME NEW r \in Requests, TakeDowngraded(r) PROVE TypeInv'
  BY <1>9 DEF TakeDowngraded
<1>10. ASSUME NEW r \in Requests, DropDowngraded(r) PROVE TypeInv'
  BY <1>10 DEF DropDowngraded
<1>11. ASSUME NEW r \in Requests, OwnDialFailed(r) PROVE TypeInv'
  BY <1>11 DEF OwnDialFailed
<1>12. ASSUME NEW r \in Requests, Acquire(r) PROVE TypeInv'
  BY <1>12 DEF Acquire, Touch, ClosePending
<1>13. ASSUME NEW r \in Requests, Headers(r) PROVE TypeInv'
  BY <1>13 DEF Headers, Touch
<1>14. ASSUME NEW r \in Requests, HeadersNoBody(r) PROVE TypeInv'
  BY <1>14 DEF HeadersNoBody, Release, Touch
<1>15. ASSUME NEW r \in Requests, Fail(r) PROVE TypeInv'
  BY <1>15 DEF Fail, Release, Touch
<1>16. ASSUME NEW r \in Requests, RemoveConn(r) PROVE TypeInv'
  BY <1>16, RetryTypes DEF RemoveConn, Labels
<1>17. ASSUME NEW r \in Requests, KeepConn(r) PROVE TypeInv'
  BY <1>17, RetryTypes DEF KeepConn, Labels
<1>18. ASSUME NEW r \in Requests, ReadProgress(r) PROVE TypeInv'
  BY <1>18 DEF ReadProgress
<1>19. ASSUME NEW r \in Requests, Abandon(r) PROVE TypeInv'
  BY <1>19 DEF Abandon
<1>20. ASSUME NEW r \in Requests, FinishBody(r) PROVE TypeInv'
  BY <1>20 DEF FinishBody, Release, Touch
<1>21. ASSUME NEW r \in Requests, ConnectReturn(r) PROVE TypeInv'
  BY <1>21 DEF ConnectReturn, PooledUsable
<1>22. ASSUME NEW r \in Requests, ConnectDial(r) PROVE TypeInv'
  BY <1>22 DEF ConnectDial, PooledUsable
<1>23. ASSUME NEW r \in Requests, ConnectFailed(r) PROVE TypeInv'
  BY <1>23 DEF ConnectFailed
<1>24. ASSUME NEW r \in Requests, ConnectDiscard(r) PROVE TypeInv'
  BY <1>24 DEF ConnectDiscard, PooledUsable
<1>25. ASSUME NEW r \in Requests, ConnectStore(r) PROVE TypeInv'
  BY <1>25 DEF ConnectStore, PooledUsable
<1>26. ASSUME NEW r \in Requests, NEW c \in Conns, OwnDialConnected(r, c) PROVE TypeInv'
  BY <1>26 DEF OwnDialConnected, Created
<1>27. ASSUME NEW r \in Requests, NEW c \in Conns, OwnDialDowngraded(r, c) PROVE TypeInv'
  BY <1>27 DEF OwnDialDowngraded, Created
<1>28. ASSUME NEW r \in Requests, NEW c \in Conns, ConnectConnected(r, c) PROVE TypeInv'
  BY <1>28 DEF ConnectConnected, Created
<1>29. ASSUME NEW r \in Requests, NEW c \in Conns, ConnectDowngraded(r, c) PROVE TypeInv'
  BY <1>29 DEF ConnectDowngraded, Created
<1>30. ASSUME NEW k \in Keys, DialRecheckHit(k) PROVE TypeInv'
  BY <1>30 DEF DialRecheckHit, Returns, DeliverError, Created, PooledUsable
<1>31. ASSUME NEW k \in Keys, DialRecheckMiss(k) PROVE TypeInv'
  BY <1>31 DEF DialRecheckMiss, Returns, DeliverError, Created, PooledUsable
<1>32. ASSUME NEW k \in Keys, DialFailed(k) PROVE TypeInv'
  BY <1>32 DEF DialFailed, Returns, DeliverError, Created, PooledUsable
<1>33. ASSUME NEW k \in Keys, PublishClosed(k) PROVE TypeInv'
  BY <1>33 DEF PublishClosed, Returns, DeliverError, Created, PooledUsable
<1>34. ASSUME NEW k \in Keys, PublishSurplus(k) PROVE TypeInv'
  BY <1>34 DEF PublishSurplus, Returns, DeliverError, Created, PooledUsable
<1>35. ASSUME NEW k \in Keys, PublishNew(k) PROVE TypeInv'
  BY <1>35 DEF PublishNew, Returns, DeliverError, Created, PooledUsable
<1>36. ASSUME NEW k \in Keys, NEW c \in Conns, DialConnected(k, c) PROVE TypeInv'
  BY <1>36 DEF DialConnected, Returns, DeliverError, Created, PooledUsable
<1>37. ASSUME NEW k \in Keys, NEW c \in Conns, DialDowngraded(k, c) PROVE TypeInv'
  BY <1>37 DEF DialDowngraded, Created, Waiters
<1>38. ASSUME NEW c \in Conns, RunRetire(c) PROVE TypeInv'
  BY <1>38 DEF RunRetire, Retire
<1>39. ASSUME NEW c \in Conns, AppendRetired(c) PROVE TypeInv'
  BY <1>39 DEF AppendRetired
<1>40. ASSUME NEW x \in closing, RunClose(x) PROVE TypeInv'
  BY <1>40 DEF RunClose
<1>41. ASSUME Cleanup PROVE TypeInv'
  BY <1>41 DEF Cleanup, Doomed, Pooled
<1>42. ASSUME LoopDrained PROVE TypeInv'
  BY <1>42 DEF LoopDrained
<1>43. ASSUME LoopStop PROVE TypeInv'
  BY <1>43 DEF LoopStop
<1>44. ASSUME Refresh PROVE TypeInv'
  BY <1>44 DEF Refresh, Pooled
<1>45. ASSUME CloseBegin PROVE TypeInv'
  BY <1>45 DEF CloseBegin, Pooled
<1>46. ASSUME CloseRetired PROVE TypeInv'
  BY <1>46 DEF CloseRetired
<1>47. ASSUME CloseGracefulBegin PROVE TypeInv'
  BY <1>47 DEF CloseGracefulBegin, Pooled
<1>48. ASSUME CloseGracefulEnd PROVE TypeInv'
  BY <1>48 DEF CloseGracefulEnd
<1>49. ASSUME NEW c \in Conns, CloseGracefulRetire(c) PROVE TypeInv'
  BY <1>49 DEF CloseGracefulRetire, Retire
<1>50. ASSUME NEW c \in Conns, NEW fact \in Expirations, Expire(c, fact) PROVE TypeInv'
  BY <1>50 DEF Expire
<1>51. CASE UNCHANGED vars
  BY <1>51 DEF vars
<1>52. ASSUME NEW k \in Keys, Deliver(k) PROVE TypeInv'
  BY <1>52 DEF Deliver, Waiters
<1> QED BY <1>1, <1>2, <1>3, <1>4, <1>5, <1>6, <1>7, <1>8, <1>9, <1>10, <1>11, <1>12,
      <1>13, <1>14, <1>15, <1>16, <1>17, <1>18, <1>19, <1>20, <1>21, <1>22, <1>23, <1>24,
      <1>25, <1>26, <1>27, <1>28, <1>29, <1>30, <1>31, <1>32, <1>33, <1>34, <1>35, <1>36,
      <1>37, <1>38, <1>39, <1>40, <1>41, <1>42, <1>43, <1>44, <1>45, <1>46, <1>47, <1>48,
      <1>49, <1>50, <1>51, <1>52 DEF Next, Caller, Dialer, Background, Shutdown

\* Nothing has been decided about c: no close of it is deferred or pending.
Undecided(c) ==
    /\ cstate[c] = "open" /\ c \notin closeRequested /\ ~ClosePending(c)
    /\ c \notin appending \cup retired

\* c is not on its way out.
Kept(c) == Undecided(c) /\ c \notin retiring \cup graceTodo

\* c is under key k in the pool: nowhere else, and not on its way out.
PoolKept(c) ==
    \A k \in Keys : conns[k] = c =>
        Kept(c) /\ \A j \in Keys : conns[j] = c => j = k

\* c is what a dial is about to publish: nowhere else yet.
DialKept(c) ==
    \A k \in Keys : dial[k].conn = c =>
        Kept(c) /\ \A j \in Keys : conns[j] # c /\ (dial[j].conn = c => j = k)

\* c is what a Connect probe is about to store: nowhere else yet.
ProbeKept(c) ==
    \A r \in Requests : pc[r] = "cstore" /\ rconn[r] = c =>
        /\ Kept(c)
        /\ \A j \in Keys : conns[j] # c /\ dial[j].conn # c
        /\ \A q \in Requests : pc[q] = "cstore" /\ rconn[q] = c => q = r

\* c is on its way out: by one path, which has not yet decided how to close it.
EvictedOnce(c) ==
    /\ c \in retiring \/ (c \in graceTodo /\ c \notin appending) => Undecided(c)
    /\ c \in retiring => c \notin graceTodo

\* A connection not dialled yet is nowhere; one owned for HTTP/1.1 is not "open".
Untouched(c) ==
    /\ cstate[c] = "none" =>
         /\ c \notin closeRequested /\ ~ClosePending(c)
         /\ c \notin retiring \cup graceTodo \cup appending \cup retired
    /\ \A r \in Requests : pc[r] = "alpn" /\ rconn[r] = c => cstate[c] \in {"alpn", "closed"}

\* c is what a call has returned and not yet delivered: dialled, and in the pool
\* under that key at most.
Handed(c) ==
    \A k \in Keys : dial[k].result = c =>
        /\ cstate[c] \in {"open", "closed"}
        /\ \A j \in Keys : (conns[j] = c => j = k) /\ dial[j].conn # c
        /\ \A q \in Requests : ~(pc[q] = "cstore" /\ rconn[q] = c)

\* DeferredCloseTracked, for one connection.
Tracked(c) ==
    c \in closeRequested /\ cstate[c] = "open" => c \in appending \cup retired \/ ClosePending(c)

ConnInv(c) ==
    /\ PoolKept(c) /\ DialKept(c) /\ ProbeKept(c) /\ Handed(c)
    /\ EvictedOnce(c) /\ Untouched(c) /\ Tracked(c)

PoolInv ==
    /\ \A c \in Conns : ConnInv(c)
    /\ closed => \A k \in Keys : conns[k] = NoConn

\* Starting closes of the connections in S makes exactly those pending as well.
LEMMA ClosingAdds ==
  ASSUME NEW S, NEW why, closing' = closing \cup Closes(S, why)
  PROVE  \A c : ClosePending(c)' <=> ClosePending(c) \/ c \in S
<1> TAKE c
<1>1. ASSUME NEW x \in closing', x.conn = c PROVE ClosePending(c) \/ c \in S
  <2>1. CASE x \in closing
    BY <1>1, <2>1 DEF ClosePending
  <2>2. CASE x \in Closes(S, why)
    BY <1>1, <2>2 DEF Closes
  <2> QED BY <1>1, <2>1, <2>2
<1>2. ASSUME c \in S PROVE \E x \in closing' : x.conn = c
  <2>1. [conn |-> c, why |-> why] \in Closes(S, why)
    BY <1>2 DEF Closes
  <2> QED BY <2>1
<1>3. ASSUME NEW x \in closing, x.conn = c PROVE \E y \in closing' : y.conn = c
  BY <1>3
<1> QED BY <1>1, <1>2, <1>3 DEF ClosePending

\* The pending closes depend on closing only.
LEMMA ClosingSame ==
  ASSUME closing' = closing
  PROVE  \A c : ClosePending(c)' <=> ClosePending(c)
BY DEF ClosePending

\* release() starts a close when it is the last one on a deferred close.
LEMMA ReleaseCloses ==
  ASSUME NEW d, Release(d)
  PROVE  \A c : ClosePending(c)' <=>
            ClosePending(c) \/ (c = d /\ d \in closeRequested /\ inFlight[d] <= 1)
<1>1. CASE d \in closeRequested /\ inFlight[d] <= 1
  <2>1. closing' = closing \cup Closes({d}, "evict")
    BY <1>1 DEF Release
  <2> QED BY <1>1, <2>1, ClosingAdds
<1>2. CASE ~(d \in closeRequested /\ inFlight[d] <= 1)
  <2>1. closing' = closing
    BY <1>2 DEF Release
  <2> QED BY <1>2, <2>1, ClosingSame
<1> QED BY <1>1, <1>2

\* retire() starts a close unless it defers it.
LEMMA RetireCloses ==
  ASSUME NEW d, Retire(d)
  PROVE  \A c : ClosePending(c)' <=> ClosePending(c) \/ (c = d /\ ~Deferred(d))
<1>1. CASE Deferred(d)
  BY <1>1, ClosingSame DEF Retire
<1>2. CASE ~Deferred(d)
  <2>1. closing' = closing \cup Closes({d}, "evict")
    BY <1>2 DEF Retire
  <2> QED BY <1>2, <2>1, ClosingAdds
<1> QED BY <1>1, <1>2

\* What cleanup closes.
Swept(c) ==
    Destroyable(c) /\ (c \in Pooled \/ (c \in retired /\ cstate[c] # "closed"))

\* cleanup() starts the closes of what it sweeps.
LEMMA CleanupCloses ==
  ASSUME Cleanup
  PROVE  \A c : ClosePending(c)' <=> ClosePending(c) \/ Swept(c)
<1> DEFINE T == Pooled \cup (retired \ {c \in retired : cstate[c] = "closed"})
<1> TAKE c
<1>1. closing' = closing \cup Doomed(T)
  BY DEF Cleanup
<1>2. ASSUME NEW x \in Doomed(T), x.conn = c PROVE c \in T /\ Destroyable(c)
  <2>1. PICK d \in {e \in T : Destroyable(e)} :
            x = [conn |-> d, why |-> IF inFlight[d] > 0 /\ d \in stalled THEN "abandoned" ELSE "evict"]
    BY <1>2 DEF Doomed
  <2> QED BY <1>2, <2>1
<1>4. ASSUME c \in T, Destroyable(c) PROVE \E x \in Doomed(T) : x.conn = c
  <2> DEFINE x == [conn |-> c, why |-> IF inFlight[c] > 0 /\ c \in stalled THEN "abandoned" ELSE "evict"]
  <2>1. x \in Doomed(T) /\ x.conn = c
    BY <1>4 DEF Doomed
  <2> QED BY SMTT(40), <2>1
<1>3. c \in T <=> c \in Pooled \/ (c \in retired /\ cstate[c] # "closed")
  OBVIOUS
<1> HIDE DEF T
<1> QED BY <1>1, <1>2, <1>3, <1>4 DEF ClosePending, Swept

\* Ending one close leaves the pending closes of other connections alone.
LEMMA RunCloseCloses ==
  ASSUME NEW y \in closing, RunClose(y)
  PROVE  \A c : c # y.conn => (ClosePending(c)' <=> ClosePending(c))
BY DEF RunClose, ClosePending

\* Every step keeps each connection in one place.
LEMMA PoolStep ==
  ASSUME ConstantsAssumption, TypeInv, TypeInv', PoolInv, [Next]_vars
  PROVE  PoolInv'
<1>a. /\ NoConn \notin Conns
      /\ KeyOf \in [Requests -> Keys]
      /\ conns \in [Keys -> Conns \cup {NoConn}] /\ dial \in [Keys -> DialRecord]
      /\ cstate \in [Conns -> {"none", "open", "alpn", "closed"}]
      /\ pc \in [Requests -> Labels] /\ rconn \in [Requests -> Conns \cup {NoConn}]
      /\ \A r \in Requests : pc[r] \in Holding => rconn[r] \in Conns
      /\ \A k \in Keys : (dial[k].phase = "publish") <=> (dial[k].conn # NoConn)
      /\ \A k \in Keys : (dial[k].phase = "deliver") <=> (dial[k].result # NoConn)
  BY DEF ConstantsAssumption, TypeInv, TypeOK, HoldsConn, Labels
<1> USE <1>a DEF PoolInv, ConnInv, PoolKept, DialKept, ProbeKept, Handed, EvictedOnce, Untouched,
      Tracked,
     Kept, Undecided, Holding, CallerOnly, Goto, NoDial,
        poolVars, loopVars, connVars, goVars, callVars, dialVars, shutVars, histVars,
        evictVars
<1>1. ASSUME NEW r \in Requests, Peek(r) PROVE PoolInv'
  BY <1>1, ClosingSame DEF Peek
<1>2. ASSUME NEW r \in Requests, PeekHit(r) PROVE PoolInv'
  BY <1>2, ClosingSame DEF PeekHit
<1>3. ASSUME NEW r \in Requests, PeekMiss(r) PROVE PoolInv'
  BY <1>3, ClosingSame DEF PeekMiss
<1>4. ASSUME NEW r \in Requests, LookupClosed(r) PROVE PoolInv'
  BY <1>4, ClosingSame DEF LookupClosed
<1>5. ASSUME NEW r \in Requests, LookupHit(r) PROVE PoolInv'
  BY <1>5, ClosingSame DEF LookupHit, PooledUsable
<1>6. ASSUME NEW r \in Requests, LookupMiss(r) PROVE PoolInv'
  BY <1>6, ClosingSame DEF LookupMiss, PooledUsable
<1>7. ASSUME NEW r \in Requests, JoinDial(r) PROVE PoolInv'
  BY <1>7, ClosingSame DEF JoinDial
<1>8. ASSUME NEW r \in Requests, CancelWait(r) PROVE PoolInv'
  BY <1>8, ClosingSame DEF CancelWait
<1>9. ASSUME NEW r \in Requests, TakeDowngraded(r) PROVE PoolInv'
  BY <1>9, ClosingSame DEF TakeDowngraded
<1>10. ASSUME NEW r \in Requests, DropDowngraded(r) PROVE PoolInv'
  <2>1. closing' = closing \cup Closes({rconn[r]}, "surplus")
    BY <1>10 DEF DropDowngraded
  <2>2. \A c : ClosePending(c)' <=> ClosePending(c) \/ c \in {rconn[r]}
    BY <2>1, ClosingAdds
  <2> QED BY <1>10, <2>2 DEF DropDowngraded
<1>11. ASSUME NEW r \in Requests, OwnDialFailed(r) PROVE PoolInv'
  BY <1>11, ClosingSame DEF OwnDialFailed
<1>12. ASSUME NEW r \in Requests, Acquire(r) PROVE PoolInv'
  BY <1>12, ClosingSame DEF Acquire
<1>13. ASSUME NEW r \in Requests, Headers(r) PROVE PoolInv'
  BY <1>13, ClosingSame DEF Headers
<1>14. ASSUME NEW r \in Requests, HeadersNoBody(r) PROVE PoolInv'
  <2>1. \A c : ClosePending(c)' <=>
            ClosePending(c) \/ (c = rconn[r] /\ rconn[r] \in closeRequested
                                 /\ inFlight[rconn[r]] <= 1)
    BY <1>14, ReleaseCloses DEF HeadersNoBody
  <2> QED BY <1>14, <2>1 DEF HeadersNoBody, Release
<1>15. ASSUME NEW r \in Requests, Fail(r) PROVE PoolInv'
  <2>1. \A c : ClosePending(c)' <=>
            ClosePending(c) \/ (c = rconn[r] /\ rconn[r] \in closeRequested
                                 /\ inFlight[rconn[r]] <= 1)
    BY <1>15, ReleaseCloses DEF Fail
  <2> QED BY <1>15, <2>1 DEF Fail, Release
<1>16. ASSUME NEW r \in Requests, RemoveConn(r) PROVE PoolInv'
  BY SMTT(40), <1>16, ClosingSame DEF RemoveConn, GiveUpOrRetry
<1>17. ASSUME NEW r \in Requests, KeepConn(r) PROVE PoolInv'
  BY SMTT(40), <1>17, ClosingSame DEF KeepConn, GiveUpOrRetry
<1>18. ASSUME NEW r \in Requests, ReadProgress(r) PROVE PoolInv'
  BY <1>18, ClosingSame DEF ReadProgress
<1>19. ASSUME NEW r \in Requests, Abandon(r) PROVE PoolInv'
  BY <1>19, ClosingSame DEF Abandon
<1>20. ASSUME NEW r \in Requests, FinishBody(r) PROVE PoolInv'
  <2>1. \A c : ClosePending(c)' <=>
            ClosePending(c) \/ (c = rconn[r] /\ rconn[r] \in closeRequested
                                 /\ inFlight[rconn[r]] <= 1)
    BY <1>20, ReleaseCloses DEF FinishBody
  <2> QED BY <1>20, <2>1 DEF FinishBody, Release
<1>21. ASSUME NEW r \in Requests, ConnectReturn(r) PROVE PoolInv'
  BY <1>21, ClosingSame DEF ConnectReturn, PooledUsable
<1>22. ASSUME NEW r \in Requests, ConnectDial(r) PROVE PoolInv'
  BY <1>22, ClosingSame DEF ConnectDial, PooledUsable
<1>23. ASSUME NEW r \in Requests, ConnectFailed(r) PROVE PoolInv'
  BY <1>23, ClosingSame DEF ConnectFailed
<1>24. ASSUME NEW r \in Requests, ConnectDiscard(r) PROVE PoolInv'
  <2>1. closing' = closing \cup Closes({rconn[r]}, "surplus")
    BY <1>24 DEF ConnectDiscard
  <2>2. \A c : ClosePending(c)' <=> ClosePending(c) \/ c \in {rconn[r]}
    BY <2>1, ClosingAdds
  <2> QED BY <1>24, <2>2 DEF ConnectDiscard, PooledUsable
<1>25. ASSUME NEW r \in Requests, ConnectStore(r) PROVE PoolInv'
  BY <1>25, ClosingSame DEF ConnectStore, PooledUsable
<1>26. ASSUME NEW r \in Requests, NEW c \in Conns, OwnDialConnected(r, c) PROVE PoolInv'
  BY <1>26, ClosingSame DEF OwnDialConnected, Created
<1>27. ASSUME NEW r \in Requests, NEW c \in Conns, OwnDialDowngraded(r, c) PROVE PoolInv'
  BY <1>27, ClosingSame DEF OwnDialDowngraded, Created
<1>28. ASSUME NEW r \in Requests, NEW c \in Conns, ConnectConnected(r, c) PROVE PoolInv'
  BY <1>28, ClosingSame DEF ConnectConnected, Created
<1>29. ASSUME NEW r \in Requests, NEW c \in Conns, ConnectDowngraded(r, c) PROVE PoolInv'
  BY <1>29, ClosingSame DEF ConnectDowngraded, Created
<1>30. ASSUME NEW k \in Keys, DialRecheckHit(k) PROVE PoolInv'
  BY <1>30, ClosingSame DEF DialRecheckHit, Returns, DeliverError, Created,
        PooledUsable, Waiters
<1>31. ASSUME NEW k \in Keys, DialRecheckMiss(k) PROVE PoolInv'
  BY <1>31, ClosingSame DEF DialRecheckMiss, Returns, DeliverError, Created,
        PooledUsable, Waiters
<1>32. ASSUME NEW k \in Keys, DialFailed(k) PROVE PoolInv'
  BY <1>32, ClosingSame DEF DialFailed, Returns, DeliverError, Created, PooledUsable,
        Waiters
<1>33. ASSUME NEW k \in Keys, PublishClosed(k) PROVE PoolInv'
  <2> DEFINE d == dial[k].conn
  <2>1. closing' = closing \cup Closes({d}, "surplus")
    BY <1>33 DEF PublishClosed
  <2> HIDE DEF d
  <2>2. \A c : ClosePending(c)' <=> ClosePending(c) \/ c \in {d}
    BY <2>1, ClosingAdds
  <2> QED BY <1>33, <2>2 DEF PublishClosed, Returns, DeliverError, Created,
        PooledUsable, Waiters, d
<1>34. ASSUME NEW k \in Keys, PublishSurplus(k) PROVE PoolInv'
  <2> DEFINE d == dial[k].conn
  <2>1. closing' = closing \cup Closes({d}, "surplus")
    BY <1>34 DEF PublishSurplus
  <2> HIDE DEF d
  <2>2. \A c : ClosePending(c)' <=> ClosePending(c) \/ c \in {d}
    BY <2>1, ClosingAdds
  <2> QED BY <1>34, <2>2 DEF PublishSurplus, Returns, DeliverError, Created,
        PooledUsable, Waiters, d
<1>35. ASSUME NEW k \in Keys, PublishNew(k) PROVE PoolInv'
  BY <1>35, ClosingSame DEF PublishNew, Returns, DeliverError, Created, PooledUsable,
        Waiters
<1>36. ASSUME NEW k \in Keys, NEW c \in Conns, DialConnected(k, c) PROVE PoolInv'
  BY <1>36, ClosingSame DEF DialConnected, Returns, DeliverError, Created,
        PooledUsable, Waiters
<1>37. ASSUME NEW k \in Keys, NEW c \in Conns, DialDowngraded(k, c) PROVE PoolInv'
  <2>1. \A d : ClosePending(d)' <=> ClosePending(d) \/ (d = c /\ dial[k].leader \notin Waiters(k))
    <3>1. CASE dial[k].leader \in Waiters(k)
      BY <1>37, <3>1, ClosingSame DEF DialDowngraded
    <3>2. CASE dial[k].leader \notin Waiters(k)
      <4>1. closing' = closing \cup Closes({c}, "surplus")
        BY <1>37, <3>2 DEF DialDowngraded
      <4> QED BY <3>2, <4>1, ClosingAdds
    <3> QED BY <3>1, <3>2
  <2> QED BY <1>37, <2>1 DEF DialDowngraded, Created, Waiters
<1>38. ASSUME NEW c \in Conns, RunRetire(c) PROVE PoolInv'
  <2>1. \A d : ClosePending(d)' <=> ClosePending(d) \/ (d = c /\ ~Deferred(c))
    BY <1>38, RetireCloses DEF RunRetire
  <2> QED BY <1>38, <2>1 DEF RunRetire, Retire, Deferred
<1>39. ASSUME NEW c \in Conns, AppendRetired(c) PROVE PoolInv'
  BY <1>39, ClosingSame DEF AppendRetired
<1>40. ASSUME NEW x \in closing, RunClose(x) PROVE PoolInv'
  <2>1. \A c : c # x.conn => (ClosePending(c)' <=> ClosePending(c))
    BY <1>40, RunCloseCloses
  <2>2. ClosePending(x.conn)
    BY <1>40 DEF ClosePending
  <2>3. x.conn \in Conns
    BY <1>40 DEF TypeInv, TypeOK
  <2> QED BY <1>40, <2>1, <2>2, <2>3 DEF RunClose
<1>41. ASSUME Cleanup PROVE PoolInv'
  <2>1. \A c : ClosePending(c)' <=> ClosePending(c) \/ Swept(c)
    BY <1>41, CleanupCloses
  <2>2. \A k \in Keys, c \in Conns : conns'[k] = c => conns[k] = c /\ ~Swept(c)
    BY <1>41 DEF Cleanup, Pooled, Swept
  <2>3. \A c \in Conns : Swept(c) => c \in retired \/ \E k \in Keys : conns[k] = c
    BY DEF Swept, Pooled
  <2>4. \A c \in Conns : c \in retired /\ cstate[c] # "closed" => c \in retired' \/ Swept(c)
    BY <1>41 DEF Cleanup, Swept
  <2>5. /\ retired' \subseteq retired
        /\ UNCHANGED <<closed, cstate, closeRequested, retiring, appending, graceTodo,
                       pc, rconn, dial>>
    BY <1>41 DEF Cleanup
  <2>6. closed => \A k \in Keys : conns'[k] = NoConn
    BY <1>41 DEF Cleanup, Pooled
  <2> QED BY SMTT(40), <2>1, <2>2, <2>3, <2>4, <2>5, <2>6
<1>42. ASSUME LoopDrained PROVE PoolInv'
  BY <1>42, ClosingSame DEF LoopDrained
<1>43. ASSUME LoopStop PROVE PoolInv'
  BY <1>43, ClosingSame DEF LoopStop
<1>44. ASSUME Refresh PROVE PoolInv'
  <2>1. closing' = closing \cup Closes(Pooled, "forced")
    BY <1>44 DEF Refresh
  <2>2. \A c : ClosePending(c)' <=> ClosePending(c) \/ c \in Pooled
    BY <2>1, ClosingAdds
  <2> QED BY <1>44, <2>2 DEF Refresh, Pooled
<1>45. ASSUME CloseBegin PROVE PoolInv'
  <2>1. closing' = closing \cup Closes(Pooled, "forced")
    BY <1>45 DEF CloseBegin
  <2>2. \A c : ClosePending(c)' <=> ClosePending(c) \/ c \in Pooled
    BY <2>1, ClosingAdds
  <2> QED BY <1>45, <2>2 DEF CloseBegin, Pooled
<1>46. ASSUME CloseRetired PROVE PoolInv'
  <2>1. closing' = closing \cup Closes(retired, "forced")
    BY <1>46 DEF CloseRetired
  <2>2. \A c : ClosePending(c)' <=> ClosePending(c) \/ c \in retired
    BY <2>1, ClosingAdds
  <2> QED BY <1>46, <2>2 DEF CloseRetired
<1>47. ASSUME CloseGracefulBegin PROVE PoolInv'
  BY <1>47, ClosingSame DEF CloseGracefulBegin, Pooled
<1>48. ASSUME CloseGracefulEnd PROVE PoolInv'
  BY <1>48, ClosingSame DEF CloseGracefulEnd
<1>49. ASSUME NEW c \in Conns, CloseGracefulRetire(c) PROVE PoolInv'
  <2>1. \A d : ClosePending(d)' <=> ClosePending(d) \/ (d = c /\ ~Deferred(c))
    BY <1>49, RetireCloses DEF CloseGracefulRetire
  <2> QED BY <1>49, <2>1 DEF CloseGracefulRetire, Retire, Deferred
<1>50. ASSUME NEW c \in Conns, NEW fact \in Expirations, Expire(c, fact) PROVE PoolInv'
  BY <1>50, ClosingSame DEF Expire
<1>51. CASE UNCHANGED vars
  BY <1>51, ClosingSame DEF vars
<1>52. ASSUME NEW k \in Keys, Deliver(k) PROVE PoolInv'
  BY <1>52, ClosingSame DEF Deliver, Waiters
<1> QED BY <1>1, <1>2, <1>3, <1>4, <1>5, <1>6, <1>7, <1>8, <1>9, <1>10, <1>11, <1>12,
      <1>13, <1>14, <1>15, <1>16, <1>17, <1>18, <1>19, <1>20, <1>21, <1>22, <1>23, <1>24,
      <1>25, <1>26, <1>27, <1>28, <1>29, <1>30, <1>31, <1>32, <1>33, <1>34, <1>35, <1>36,
      <1>37, <1>38, <1>39, <1>40, <1>41, <1>42, <1>43, <1>44, <1>45, <1>46, <1>47, <1>48,
      <1>49, <1>50, <1>51, <1>52 DEF Next, Caller, Dialer, Background, Shutdown

\* Finitely many callers use a connection.
LEMMA UsersFinite ==
  ASSUME ConstantsAssumption
  PROVE  \A c : IsFiniteSet(Users(c))
BY FS_Subset DEF ConstantsAssumption, Users

\* A step that neither starts nor ends the use of a connection keeps the count.
LEMMA CountUnchanged ==
  ASSUME InFlightExact, inFlight' = inFlight,
         \A r \in Requests :
            /\ pc'[r] \in InUse <=> pc[r] \in InUse
            /\ pc[r] \in InUse => rconn'[r] = rconn[r]
  PROVE  InFlightExact'
<1>1. ASSUME NEW c \in Conns PROVE Users(c)' = Users(c)
  BY DEF Users
<1> QED BY <1>1 DEF InFlightExact

\* release() takes one user away.
LEMMA CountReleased ==
  ASSUME ConstantsAssumption, TypeInv, InFlightExact, NEW r \in Requests, pc[r] \in InUse,
         Release(rconn[r]), NEW label, label \notin InUse, NEW d, Goto(r, label, d)
  PROVE  /\ InFlightExact'
         /\ \A c \in Conns : Users(c)' = IF c = rconn[r] THEN Users(c) \ {r} ELSE Users(c)
<1>1. pc \in [Requests -> Labels] /\ rconn \in [Requests -> Conns \cup {NoConn}]
      /\ inFlight \in [Conns -> Int] /\ rconn[r] \in Conns
  BY DEF TypeInv, TypeOK, HoldsConn, Holding, InUse, Labels
<1>2. ASSUME NEW c \in Conns
      PROVE  Users(c)' = IF c = rconn[r] THEN Users(c) \ {r} ELSE Users(c)
  BY <1>1 DEF Users, Goto
<1>3. r \in Users(rconn[r])
  BY DEF Users
<1>4. Cardinality(Users(rconn[r]) \ {r}) = Cardinality(Users(rconn[r])) - 1
  BY <1>3, UsersFinite, FS_RemoveElement
<1>5. ASSUME NEW c \in Conns PROVE inFlight'[c] = Cardinality(Users(c)')
  <2>1. CASE c = rconn[r]
    BY <1>1, <1>2, <1>4, <2>1 DEF Release, InFlightExact
  <2>2. CASE c # rconn[r]
    BY <1>1, <1>2, <2>2 DEF Release, InFlightExact
  <2> QED BY <2>1, <2>2
<1> QED BY <1>2, <1>5 DEF InFlightExact

\* inFlight++ adds one user.
LEMMA CountAcquired ==
  ASSUME ConstantsAssumption, TypeInv, InFlightExact, NEW r \in Requests, Acquire(r)
  PROVE  /\ InFlightExact'
         /\ \A c \in Conns : Users(c)' = IF c = rconn[r] THEN Users(c) \cup {r} ELSE Users(c)
<1>1. pc \in [Requests -> Labels] /\ rconn \in [Requests -> Conns \cup {NoConn}]
      /\ inFlight \in [Conns -> Int] /\ rconn[r] \in Conns /\ pc[r] = "acquire"
  BY DEF TypeInv, TypeOK, HoldsConn, Holding, InUse, Acquire, Labels
<1>2. ASSUME NEW c \in Conns
      PROVE  Users(c)' = IF c = rconn[r] THEN Users(c) \cup {r} ELSE Users(c)
  BY <1>1 DEF Users, Goto, Acquire, InUse
<1>3. r \notin Users(rconn[r])
  BY <1>1 DEF Users, InUse
<1>4. Cardinality(Users(rconn[r]) \cup {r}) = Cardinality(Users(rconn[r])) + 1
  BY <1>3, UsersFinite, FS_AddElement
<1>5. ASSUME NEW c \in Conns PROVE inFlight'[c] = Cardinality(Users(c)')
  <2>1. CASE c = rconn[r]
    BY <1>1, <1>2, <1>4, <2>1 DEF Acquire, InFlightExact
  <2>2. CASE c # rconn[r]
    BY <1>1, <1>2, <2>2 DEF Acquire, InFlightExact
  <2> QED BY <2>1, <2>2
<1> QED BY <1>2, <1>5 DEF InFlightExact

\* Every step keeps inFlight exact.
LEMMA CountStep ==
  ASSUME ConstantsAssumption, TypeInv, InFlightExact, [Next]_vars
  PROVE  InFlightExact'
<1>a. /\ pc \in [Requests -> Labels] /\ rconn \in [Requests -> Conns \cup {NoConn}]
      /\ \A r \in Requests : pc[r] \in Holding => rconn[r] \in Conns
  BY DEF TypeInv, TypeOK, HoldsConn, Labels
<1> USE <1>a, CountUnchanged DEF InUse, CallerOnly, Goto,
        poolVars, loopVars, connVars, goVars, callVars, dialVars, shutVars, histVars,
        evictVars
<1>1. ASSUME NEW r \in Requests, Peek(r) PROVE InFlightExact'
  BY <1>1 DEF Peek
<1>2. ASSUME NEW r \in Requests, PeekHit(r) PROVE InFlightExact'
  BY <1>2 DEF PeekHit
<1>3. ASSUME NEW r \in Requests, PeekMiss(r) PROVE InFlightExact'
  BY <1>3 DEF PeekMiss
<1>4. ASSUME NEW r \in Requests, LookupClosed(r) PROVE InFlightExact'
  BY <1>4 DEF LookupClosed, AtLookup
<1>5. ASSUME NEW r \in Requests, LookupHit(r) PROVE InFlightExact'
  BY <1>5 DEF LookupHit, AtLookup
<1>6. ASSUME NEW r \in Requests, LookupMiss(r) PROVE InFlightExact'
  BY <1>6 DEF LookupMiss, AtLookup
<1>7. ASSUME NEW r \in Requests, JoinDial(r) PROVE InFlightExact'
  BY <1>7 DEF JoinDial
<1>8. ASSUME NEW r \in Requests, CancelWait(r) PROVE InFlightExact'
  BY <1>8 DEF CancelWait
<1>9. ASSUME NEW r \in Requests, TakeDowngraded(r) PROVE InFlightExact'
  BY <1>9 DEF TakeDowngraded
<1>10. ASSUME NEW r \in Requests, DropDowngraded(r) PROVE InFlightExact'
  BY <1>10 DEF DropDowngraded
<1>11. ASSUME NEW r \in Requests, OwnDialFailed(r) PROVE InFlightExact'
  BY <1>11 DEF OwnDialFailed
<1>12. ASSUME NEW r \in Requests, Acquire(r) PROVE InFlightExact'
  BY <1>12, CountAcquired
<1>13. ASSUME NEW r \in Requests, Headers(r) PROVE InFlightExact'
  BY <1>13 DEF Headers
<1>14. ASSUME NEW r \in Requests, HeadersNoBody(r) PROVE InFlightExact'
  BY <1>14, CountReleased DEF HeadersNoBody
<1>15. ASSUME NEW r \in Requests, Fail(r) PROVE InFlightExact'
  BY <1>15, CountReleased DEF Fail
<1>16. ASSUME NEW r \in Requests, RemoveConn(r) PROVE InFlightExact'
  BY <1>16 DEF RemoveConn, GiveUpOrRetry
<1>17. ASSUME NEW r \in Requests, KeepConn(r) PROVE InFlightExact'
  BY <1>17 DEF KeepConn, GiveUpOrRetry
<1>18. ASSUME NEW r \in Requests, ReadProgress(r) PROVE InFlightExact'
  BY <1>18 DEF ReadProgress
<1>19. ASSUME NEW r \in Requests, Abandon(r) PROVE InFlightExact'
  BY <1>19 DEF Abandon
<1>20. ASSUME NEW r \in Requests, FinishBody(r) PROVE InFlightExact'
  BY <1>20, CountReleased DEF FinishBody
<1>21. ASSUME NEW r \in Requests, ConnectReturn(r) PROVE InFlightExact'
  BY <1>21 DEF ConnectReturn
<1>22. ASSUME NEW r \in Requests, ConnectDial(r) PROVE InFlightExact'
  BY <1>22 DEF ConnectDial
<1>23. ASSUME NEW r \in Requests, ConnectFailed(r) PROVE InFlightExact'
  BY <1>23 DEF ConnectFailed
<1>24. ASSUME NEW r \in Requests, ConnectDiscard(r) PROVE InFlightExact'
  BY <1>24 DEF ConnectDiscard
<1>25. ASSUME NEW r \in Requests, ConnectStore(r) PROVE InFlightExact'
  BY <1>25 DEF ConnectStore
<1>26. ASSUME NEW r \in Requests, NEW c \in Conns, OwnDialConnected(r, c) PROVE InFlightExact'
  BY <1>26 DEF OwnDialConnected, Created
<1>27. ASSUME NEW r \in Requests, NEW c \in Conns, OwnDialDowngraded(r, c) PROVE InFlightExact'
  BY <1>27 DEF OwnDialDowngraded, Created
<1>28. ASSUME NEW r \in Requests, NEW c \in Conns, ConnectConnected(r, c) PROVE InFlightExact'
  BY <1>28 DEF ConnectConnected, Created
<1>29. ASSUME NEW r \in Requests, NEW c \in Conns, ConnectDowngraded(r, c) PROVE InFlightExact'
  BY <1>29 DEF ConnectDowngraded, Created
<1>30. ASSUME NEW k \in Keys, DialRecheckHit(k) PROVE InFlightExact'
  BY <1>30 DEF DialRecheckHit, Returns, DeliverError, Created, Waiters
<1>31. ASSUME NEW k \in Keys, DialRecheckMiss(k) PROVE InFlightExact'
  BY <1>31 DEF DialRecheckMiss, Returns, DeliverError, Created, Waiters
<1>32. ASSUME NEW k \in Keys, DialFailed(k) PROVE InFlightExact'
  BY <1>32 DEF DialFailed, Returns, DeliverError, Created, Waiters
<1>33. ASSUME NEW k \in Keys, PublishClosed(k) PROVE InFlightExact'
  BY <1>33 DEF PublishClosed, Returns, DeliverError, Created, Waiters
<1>34. ASSUME NEW k \in Keys, PublishSurplus(k) PROVE InFlightExact'
  BY <1>34 DEF PublishSurplus, Returns, DeliverError, Created, Waiters
<1>35. ASSUME NEW k \in Keys, PublishNew(k) PROVE InFlightExact'
  BY <1>35 DEF PublishNew, Returns, DeliverError, Created, Waiters
<1>36. ASSUME NEW k \in Keys, NEW c \in Conns, DialConnected(k, c) PROVE InFlightExact'
  BY <1>36 DEF DialConnected, Returns, DeliverError, Created, Waiters
<1>37. ASSUME NEW k \in Keys, NEW c \in Conns, DialDowngraded(k, c) PROVE InFlightExact'
  BY <1>37 DEF DialDowngraded, Returns, DeliverError, Created, Waiters
<1>38. ASSUME NEW c \in Conns, RunRetire(c) PROVE InFlightExact'
  BY <1>38 DEF RunRetire, Retire
<1>39. ASSUME NEW c \in Conns, AppendRetired(c) PROVE InFlightExact'
  BY <1>39 DEF AppendRetired
<1>40. ASSUME NEW x \in closing, RunClose(x) PROVE InFlightExact'
  BY <1>40 DEF RunClose
<1>41. ASSUME Cleanup PROVE InFlightExact'
  BY <1>41 DEF Cleanup
<1>42. ASSUME LoopDrained PROVE InFlightExact'
  BY <1>42 DEF LoopDrained
<1>43. ASSUME LoopStop PROVE InFlightExact'
  BY <1>43 DEF LoopStop
<1>44. ASSUME Refresh PROVE InFlightExact'
  BY <1>44 DEF Refresh
<1>45. ASSUME CloseBegin PROVE InFlightExact'
  BY <1>45 DEF CloseBegin
<1>46. ASSUME CloseRetired PROVE InFlightExact'
  BY <1>46 DEF CloseRetired
<1>47. ASSUME CloseGracefulBegin PROVE InFlightExact'
  BY <1>47 DEF CloseGracefulBegin
<1>48. ASSUME CloseGracefulEnd PROVE InFlightExact'
  BY <1>48 DEF CloseGracefulEnd
<1>49. ASSUME NEW c \in Conns, CloseGracefulRetire(c) PROVE InFlightExact'
  BY <1>49 DEF CloseGracefulRetire, Retire
<1>50. ASSUME NEW c \in Conns, NEW fact \in Expirations, Expire(c, fact) PROVE InFlightExact'
  BY <1>50 DEF Expire
<1>51. CASE UNCHANGED vars
  BY <1>51 DEF vars
<1>52. ASSUME NEW k \in Keys, Deliver(k) PROVE InFlightExact'
  BY <1>52 DEF Deliver, Waiters
<1> QED BY <1>1, <1>2, <1>3, <1>4, <1>5, <1>6, <1>7, <1>8, <1>9, <1>10, <1>11, <1>12,
      <1>13, <1>14, <1>15, <1>16, <1>17, <1>18, <1>19, <1>20, <1>21, <1>22, <1>23, <1>24,
      <1>25, <1>26, <1>27, <1>28, <1>29, <1>30, <1>31, <1>32, <1>33, <1>34, <1>35, <1>36,
      <1>37, <1>38, <1>39, <1>40, <1>41, <1>42, <1>43, <1>44, <1>45, <1>46, <1>47, <1>48,
      <1>49, <1>50, <1>51, <1>52 DEF Next, Caller, Dialer, Background, Shutdown

\* An eviction close of c is pending.
EvictPending(c) == [conn |-> c, why |-> "evict"] \in closing

\* OnlyLateArrivalsYanked, for one connection at a time.
LateInv == \A c \in Conns : EvictPending(c) => Users(c) \subseteq late

\* A count of zero means that nobody uses the connection.
LEMMA NoUsers ==
  ASSUME ConstantsAssumption, InFlightExact, NEW c \in Conns, inFlight[c] <= 0
  PROVE  Users(c) = {}
BY UsersFinite, FS_CardinalityType, FS_EmptySet DEF InFlightExact

\* A step that starts no use and no eviction keeps LateInv.
LEMMA LateFrame ==
  ASSUME LateInv, late \subseteq late',
         \A c \in Conns : EvictPending(c)' => EvictPending(c),
         \A r \in Requests : pc'[r] \in InUse => pc[r] \in InUse /\ rconn'[r] = rconn[r]
  PROVE  LateInv'
<1>1. ASSUME NEW c \in Conns PROVE Users(c)' \subseteq Users(c)
  BY DEF Users
<1> QED BY <1>1 DEF LateInv

\* The release that fires a deferred close leaves no user behind.
LEMMA LateReleased ==
  ASSUME ConstantsAssumption, TypeInv, InFlightExact, LateInv, NEW r \in Requests,
         pc[r] \in InUse, Release(rconn[r]), NEW label, label \notin InUse, NEW d,
         Goto(r, label, d), late' = late \ {r}
  PROVE  LateInv'
<1>1. rconn[r] \in Conns /\ inFlight \in [Conns -> Int] /\ IsFiniteSet(Requests)
  BY DEF TypeInv, TypeOK, HoldsConn, Holding, InUse, ConstantsAssumption
<1>2. /\ InFlightExact'
      /\ \A c \in Conns : Users(c)' = IF c = rconn[r] THEN Users(c) \ {r} ELSE Users(c)
  BY CountReleased
<1>3. ASSUME NEW c \in Conns PROVE r \notin Users(c)'
  BY <1>2 DEF Users
<1>4. ASSUME NEW c \in Conns, EvictPending(c)', ~EvictPending(c) PROVE Users(c)' = {}
  <2>1. c = rconn[r] /\ inFlight[c] <= 1
    BY <1>4 DEF Release, EvictPending, Closes
  <2>2. inFlight'[c] <= 0
    BY <1>1, <2>1 DEF Release
  <2>3. Cardinality(Users(c)') <= 0 /\ IsFiniteSet(Users(c)')
    BY <1>1, <1>2, <2>2, UsersFinite, FS_Subset DEF InFlightExact
  <2> QED BY <2>3, FS_CardinalityType, FS_EmptySet
<1> QED BY <1>2, <1>3, <1>4 DEF LateInv

\* retire() closes at once only when nobody uses the connection.
LEMMA LateRetired ==
  ASSUME ConstantsAssumption, TypeInv, InFlightExact, LateInv, NEW d \in Conns, Retire(d),
         cstate[d] = "open", UNCHANGED <<pc, rconn, late>>
  PROVE  LateInv'
<1>1. ASSUME NEW c \in Conns PROVE Users(c)' = Users(c)
  BY DEF Users
<1>2. ASSUME NEW c \in Conns, EvictPending(c)', ~EvictPending(c) PROVE Users(c) = {}
  <2>1. c = d /\ ~Deferred(d)
    BY <1>2 DEF Retire, EvictPending, Closes
  <2>2. inFlight[c] <= 0
    BY <2>1 DEF Deferred, TypeInv, TypeOK
  <2> QED BY <2>2, NoUsers
<1> QED BY <1>1, <1>2 DEF LateInv

\* Every step keeps eviction closes away from earlier users.
LEMMA LateStep ==
  ASSUME ConstantsAssumption, TypeInv, PoolInv, InFlightExact, LateInv, [Next]_vars
  PROVE  LateInv'
<1>a. /\ pc \in [Requests -> Labels] /\ rconn \in [Requests -> Conns \cup {NoConn}]
      /\ \A r \in Requests : pc[r] \in Holding => rconn[r] \in Conns
      /\ \A c \in Conns : ConnInv(c)
  BY DEF TypeInv, TypeOK, HoldsConn, Labels, PoolInv
<1> USE <1>a, LateFrame DEF InUse, CallerOnly, Goto, EvictPending,
        poolVars, loopVars, connVars, goVars, callVars, dialVars, shutVars, histVars,
        evictVars
<1>1. ASSUME NEW r \in Requests, Peek(r) PROVE LateInv'
  BY <1>1 DEF Peek
<1>2. ASSUME NEW r \in Requests, PeekHit(r) PROVE LateInv'
  BY <1>2 DEF PeekHit
<1>3. ASSUME NEW r \in Requests, PeekMiss(r) PROVE LateInv'
  BY <1>3 DEF PeekMiss
<1>4. ASSUME NEW r \in Requests, LookupClosed(r) PROVE LateInv'
  BY <1>4 DEF LookupClosed, AtLookup
<1>5. ASSUME NEW r \in Requests, LookupHit(r) PROVE LateInv'
  BY <1>5 DEF LookupHit, AtLookup
<1>6. ASSUME NEW r \in Requests, LookupMiss(r) PROVE LateInv'
  BY <1>6 DEF LookupMiss, AtLookup
<1>7. ASSUME NEW r \in Requests, JoinDial(r) PROVE LateInv'
  BY <1>7 DEF JoinDial
<1>8. ASSUME NEW r \in Requests, CancelWait(r) PROVE LateInv'
  BY <1>8 DEF CancelWait
<1>9. ASSUME NEW r \in Requests, TakeDowngraded(r) PROVE LateInv'
  BY <1>9 DEF TakeDowngraded
<1>10. ASSUME NEW r \in Requests, DropDowngraded(r) PROVE LateInv'
  BY <1>10 DEF DropDowngraded, Closes
<1>11. ASSUME NEW r \in Requests, OwnDialFailed(r) PROVE LateInv'
  BY <1>11 DEF OwnDialFailed
<1>12. ASSUME NEW r \in Requests, Acquire(r) PROVE LateInv'
  <2>1. \A c \in Conns : Users(c)' = IF c = rconn[r] THEN Users(c) \cup {r} ELSE Users(c)
    BY <1>12, CountAcquired
  <2>2. EvictPending(rconn[r]) => ClosePending(rconn[r])
    BY DEF ClosePending
  <2>3. late' = (IF ClosePending(rconn[r]) THEN late \cup {r} ELSE late) /\ closing' = closing
    BY <1>12 DEF Acquire
  <2> QED BY <2>1, <2>2, <2>3 DEF LateInv
<1>13. ASSUME NEW r \in Requests, Headers(r) PROVE LateInv'
  BY <1>13 DEF Headers
<1>14. ASSUME NEW r \in Requests, HeadersNoBody(r) PROVE LateInv'
  BY <1>14, LateReleased DEF HeadersNoBody
<1>15. ASSUME NEW r \in Requests, Fail(r) PROVE LateInv'
  BY <1>15, LateReleased DEF Fail
<1>16. ASSUME NEW r \in Requests, RemoveConn(r) PROVE LateInv'
  BY <1>16 DEF RemoveConn, GiveUpOrRetry
<1>17. ASSUME NEW r \in Requests, KeepConn(r) PROVE LateInv'
  BY <1>17 DEF KeepConn, GiveUpOrRetry
<1>18. ASSUME NEW r \in Requests, ReadProgress(r) PROVE LateInv'
  BY <1>18 DEF ReadProgress
<1>19. ASSUME NEW r \in Requests, Abandon(r) PROVE LateInv'
  BY <1>19 DEF Abandon
<1>20. ASSUME NEW r \in Requests, FinishBody(r) PROVE LateInv'
  BY <1>20, LateReleased DEF FinishBody
<1>21. ASSUME NEW r \in Requests, ConnectReturn(r) PROVE LateInv'
  BY <1>21 DEF ConnectReturn
<1>22. ASSUME NEW r \in Requests, ConnectDial(r) PROVE LateInv'
  BY <1>22 DEF ConnectDial
<1>23. ASSUME NEW r \in Requests, ConnectFailed(r) PROVE LateInv'
  BY <1>23 DEF ConnectFailed
<1>24. ASSUME NEW r \in Requests, ConnectDiscard(r) PROVE LateInv'
  BY <1>24 DEF ConnectDiscard, Closes
<1>25. ASSUME NEW r \in Requests, ConnectStore(r) PROVE LateInv'
  BY <1>25 DEF ConnectStore
<1>26. ASSUME NEW r \in Requests, NEW c \in Conns, OwnDialConnected(r, c) PROVE LateInv'
  BY <1>26 DEF OwnDialConnected, Created
<1>27. ASSUME NEW r \in Requests, NEW c \in Conns, OwnDialDowngraded(r, c) PROVE LateInv'
  BY <1>27 DEF OwnDialDowngraded, Created
<1>28. ASSUME NEW r \in Requests, NEW c \in Conns, ConnectConnected(r, c) PROVE LateInv'
  BY <1>28 DEF ConnectConnected, Created
<1>29. ASSUME NEW r \in Requests, NEW c \in Conns, ConnectDowngraded(r, c) PROVE LateInv'
  BY <1>29 DEF ConnectDowngraded, Created
<1>30. ASSUME NEW k \in Keys, DialRecheckHit(k) PROVE LateInv'
  BY <1>30 DEF DialRecheckHit, Returns, DeliverError, Created, Waiters
<1>31. ASSUME NEW k \in Keys, DialRecheckMiss(k) PROVE LateInv'
  BY <1>31 DEF DialRecheckMiss, Returns, DeliverError, Created, Waiters
<1>32. ASSUME NEW k \in Keys, DialFailed(k) PROVE LateInv'
  BY <1>32 DEF DialFailed, Returns, DeliverError, Created, Waiters
<1>33. ASSUME NEW k \in Keys, PublishClosed(k) PROVE LateInv'
  BY <1>33 DEF PublishClosed, Returns, DeliverError, Created, Waiters, Closes
<1>34. ASSUME NEW k \in Keys, PublishSurplus(k) PROVE LateInv'
  BY <1>34 DEF PublishSurplus, Returns, DeliverError, Created, Waiters, Closes
<1>35. ASSUME NEW k \in Keys, PublishNew(k) PROVE LateInv'
  BY <1>35 DEF PublishNew, Returns, DeliverError, Created, Waiters
<1>36. ASSUME NEW k \in Keys, NEW c \in Conns, DialConnected(k, c) PROVE LateInv'
  BY <1>36 DEF DialConnected, Returns, DeliverError, Created, Waiters
<1>37. ASSUME NEW k \in Keys, NEW c \in Conns, DialDowngraded(k, c) PROVE LateInv'
  BY <1>37 DEF DialDowngraded, Returns, DeliverError, Created, Waiters, Closes
<1>38. ASSUME NEW c \in Conns, RunRetire(c) PROVE LateInv'
  <2>1. cstate[c] = "open"
    BY <1>38 DEF RunRetire, ConnInv, EvictedOnce, Undecided
  <2> QED BY <1>38, <2>1, LateRetired DEF RunRetire
<1>39. ASSUME NEW c \in Conns, AppendRetired(c) PROVE LateInv'
  BY <1>39 DEF AppendRetired
<1>40. ASSUME NEW x \in closing, RunClose(x) PROVE LateInv'
  BY <1>40 DEF RunClose
<1>41. ASSUME Cleanup PROVE LateInv'
  <2>1. ASSUME NEW c \in Conns, EvictPending(c)', ~EvictPending(c) PROVE Users(c) = {}
    <3> DEFINE T == Pooled \cup (retired \ {d \in retired : cstate[d] = "closed"})
    <3>1. [conn |-> c, why |-> "evict"] \in Doomed(T)
      BY <1>41, <2>1 DEF Cleanup
    <3>2. PICK d \in {e \in T : Destroyable(e)} :
             [conn |-> c, why |-> "evict"] =
             [conn |-> d, why |-> IF inFlight[d] > 0 /\ d \in stalled THEN "abandoned" ELSE "evict"]
      BY <3>1 DEF Doomed
    <3>3. c = d /\ (IF inFlight[d] > 0 /\ d \in stalled THEN "abandoned" ELSE "evict") = "evict"
      BY <3>2
    <3>4. inFlight[c] <= 0
      BY <3>2, <3>3 DEF Destroyable, TypeInv, TypeOK
    <3> QED BY <3>4, NoUsers
  <2>2. \A c \in Conns : Users(c)' = Users(c)
    BY <1>41 DEF Cleanup, Users
  <2> QED BY <1>41, <2>1, <2>2 DEF Cleanup, LateInv
<1>42. ASSUME LoopDrained PROVE LateInv'
  BY <1>42 DEF LoopDrained
<1>43. ASSUME LoopStop PROVE LateInv'
  BY <1>43 DEF LoopStop
<1>44. ASSUME Refresh PROVE LateInv'
  BY <1>44 DEF Refresh, Closes
<1>45. ASSUME CloseBegin PROVE LateInv'
  BY <1>45 DEF CloseBegin, Closes
<1>46. ASSUME CloseRetired PROVE LateInv'
  BY <1>46 DEF CloseRetired, Closes
<1>47. ASSUME CloseGracefulBegin PROVE LateInv'
  BY <1>47 DEF CloseGracefulBegin
<1>48. ASSUME CloseGracefulEnd PROVE LateInv'
  BY <1>48 DEF CloseGracefulEnd
<1>49. ASSUME NEW c \in Conns, CloseGracefulRetire(c) PROVE LateInv'
  <2>1. cstate[c] = "open"
    BY <1>49 DEF CloseGracefulRetire, ConnInv, EvictedOnce, Undecided
  <2> QED BY <1>49, <2>1, LateRetired DEF CloseGracefulRetire
<1>50. ASSUME NEW c \in Conns, NEW fact \in Expirations, Expire(c, fact) PROVE LateInv'
  BY <1>50 DEF Expire
<1>51. CASE UNCHANGED vars
  BY SMTT(40), <1>51 DEF vars
<1>52. ASSUME NEW k \in Keys, Deliver(k) PROVE LateInv'
  BY <1>52 DEF Deliver, Waiters
<1> QED BY <1>1, <1>2, <1>3, <1>4, <1>5, <1>6, <1>7, <1>8, <1>9, <1>10, <1>11, <1>12,
      <1>13, <1>14, <1>15, <1>16, <1>17, <1>18, <1>19, <1>20, <1>21, <1>22, <1>23, <1>24,
      <1>25, <1>26, <1>27, <1>28, <1>29, <1>30, <1>31, <1>32, <1>33, <1>34, <1>35, <1>36,
      <1>37, <1>38, <1>39, <1>40, <1>41, <1>42, <1>43, <1>44, <1>45, <1>46, <1>47, <1>48,
      <1>49, <1>50, <1>51, <1>52 DEF Next, Caller, Dialer, Background, Shutdown

\* Where a request carries the connection it was handed.
Carrying == {"peek", "acquire", "sent", "failed", "body", "abandoned"}

\* c is neither in the pool nor on its way into it, and was dialled before.
Gone(c) ==
    /\ cstate[c] # "none"
    /\ \A k \in Keys : conns[k] # c /\ dial[k].conn # c
    /\ \A q \in Requests : ~(pc[q] = "cstore" /\ rconn[q] = c)

RetryInv ==
    \A r \in Requests, c \in Conns :
        /\ failedOn[r] = c => Gone(c)
        /\ pc[r] \in Carrying /\ rconn[r] = c =>
             /\ cstate[c] # "none"
             /\ \A k \in Keys : (conns[k] = c => k = KeyOf[r]) /\ dial[k].conn # c
             /\ \A q \in Requests : ~(pc[q] = "cstore" /\ rconn[q] = c)
        /\ pc[r] \in {"peek", "acquire", "sent"} /\ rconn[r] = c => failedOn[r] # c
        /\ pc[r] = "wait" /\ dial[KeyOf[r]].result = c => failedOn[r] # c

\* Every step keeps a failed connection out of reach of its request.
LEMMA RetryStep ==
  ASSUME ConstantsAssumption, TypeInv, PoolInv, RetryInv, [Next]_vars
  PROVE  RetryInv'
<1>a. /\ NoConn \notin Conns
      /\ KeyOf \in [Requests -> Keys]
      /\ conns \in [Keys -> Conns \cup {NoConn}] /\ dial \in [Keys -> DialRecord]
      /\ cstate \in [Conns -> {"none", "open", "alpn", "closed"}]
      /\ pc \in [Requests -> Labels] /\ rconn \in [Requests -> Conns \cup {NoConn}]
      /\ failedOn \in [Requests -> Conns \cup {NoConn}]
      /\ \A r \in Requests : pc[r] \in Holding => rconn[r] \in Conns
      /\ \A k \in Keys : (dial[k].phase = "publish") <=> (dial[k].conn # NoConn)
      /\ \A k \in Keys : (dial[k].phase = "deliver") <=> (dial[k].result # NoConn)
  BY DEF ConstantsAssumption, TypeInv, TypeOK, HoldsConn, Labels
<1>b. ASSUME NEW c \in Conns
      PROVE  /\ \A k \in Keys : conns[k] = c => \A j \in Keys : conns[j] = c => j = k
             /\ \A k \in Keys : conns[k] = c \/ dial[k].conn = c => cstate[c] = "open"
             /\ \A k \in Keys : dial[k].conn = c =>
                    \A j \in Keys : conns[j] # c /\ (dial[j].conn = c => j = k)
             /\ \A r \in Requests : pc[r] = "cstore" /\ rconn[r] = c =>
                  /\ cstate[c] = "open"
                  /\ \A j \in Keys : conns[j] # c /\ dial[j].conn # c
             /\ Handed(c)
  BY DEF PoolInv, ConnInv, PoolKept, DialKept, ProbeKept, Kept, Undecided
<1>c. \A x \in closing : x.conn \in Conns
  BY DEF TypeInv, TypeOK
<1> USE <1>a, <1>b, <1>c DEF RetryInv, Gone, Handed, Carrying, Holding, CallerOnly, Goto, NoDial,
        poolVars, loopVars, connVars, goVars, callVars, dialVars, shutVars, histVars,
        evictVars
<1>1. ASSUME NEW r \in Requests, Peek(r) PROVE RetryInv'
  BY <1>1 DEF Peek
<1>2. ASSUME NEW r \in Requests, PeekHit(r) PROVE RetryInv'
  BY <1>2 DEF PeekHit
<1>3. ASSUME NEW r \in Requests, PeekMiss(r) PROVE RetryInv'
  BY <1>3 DEF PeekMiss
<1>4. ASSUME NEW r \in Requests, LookupClosed(r) PROVE RetryInv'
  BY <1>4 DEF LookupClosed, AtLookup, PooledUsable
<1>5. ASSUME NEW r \in Requests, LookupHit(r) PROVE RetryInv'
  BY <1>5 DEF LookupHit, AtLookup, PooledUsable
<1>6. ASSUME NEW r \in Requests, LookupMiss(r) PROVE RetryInv'
  BY <1>6 DEF LookupMiss, AtLookup, PooledUsable
<1>7. ASSUME NEW r \in Requests, JoinDial(r) PROVE RetryInv'
  BY <1>7 DEF JoinDial, ReturnedFailed
<1>8. ASSUME NEW r \in Requests, CancelWait(r) PROVE RetryInv'
  BY <1>8 DEF CancelWait
<1>9. ASSUME NEW r \in Requests, TakeDowngraded(r) PROVE RetryInv'
  BY <1>9 DEF TakeDowngraded
<1>10. ASSUME NEW r \in Requests, DropDowngraded(r) PROVE RetryInv'
  BY <1>10 DEF DropDowngraded
<1>11. ASSUME NEW r \in Requests, OwnDialFailed(r) PROVE RetryInv'
  BY <1>11 DEF OwnDialFailed
<1>12. ASSUME NEW r \in Requests, Acquire(r) PROVE RetryInv'
  BY <1>12 DEF Acquire
<1>13. ASSUME NEW r \in Requests, Headers(r) PROVE RetryInv'
  BY <1>13 DEF Headers
<1>14. ASSUME NEW r \in Requests, HeadersNoBody(r) PROVE RetryInv'
  BY <1>14 DEF HeadersNoBody, Release
<1>15. ASSUME NEW r \in Requests, Fail(r) PROVE RetryInv'
  BY <1>15 DEF Fail, Release
<1>16. ASSUME NEW r \in Requests, RemoveConn(r) PROVE RetryInv'
  <2>1. PICK label \in {"done", "retry"} : Goto(r, label, NoConn)
    BY <1>16 DEF RemoveConn, GiveUpOrRetry
  <2>2. pc[r] = "failed" /\ conns' = [conns EXCEPT ![KeyOf[r]] = NoConn]
        /\ failedOn' = [failedOn EXCEPT ![r] = rconn[r]] /\ UNCHANGED <<cstate, dial>>
    BY <1>16 DEF RemoveConn
  <2> QED BY <2>1, <2>2
<1>17. ASSUME NEW r \in Requests, KeepConn(r) PROVE RetryInv'
  BY <1>17 DEF KeepConn, GiveUpOrRetry
<1>18. ASSUME NEW r \in Requests, ReadProgress(r) PROVE RetryInv'
  BY <1>18 DEF ReadProgress
<1>19. ASSUME NEW r \in Requests, Abandon(r) PROVE RetryInv'
  BY <1>19 DEF Abandon
<1>20. ASSUME NEW r \in Requests, FinishBody(r) PROVE RetryInv'
  BY <1>20 DEF FinishBody, Release
<1>21. ASSUME NEW r \in Requests, ConnectReturn(r) PROVE RetryInv'
  BY <1>21 DEF ConnectReturn
<1>22. ASSUME NEW r \in Requests, ConnectDial(r) PROVE RetryInv'
  BY <1>22 DEF ConnectDial
<1>23. ASSUME NEW r \in Requests, ConnectFailed(r) PROVE RetryInv'
  BY <1>23 DEF ConnectFailed
<1>24. ASSUME NEW r \in Requests, ConnectDiscard(r) PROVE RetryInv'
  BY <1>24 DEF ConnectDiscard
<1>25. ASSUME NEW r \in Requests, ConnectStore(r) PROVE RetryInv'
  BY <1>25 DEF ConnectStore
<1>26. ASSUME NEW r \in Requests, NEW c \in Conns, OwnDialConnected(r, c) PROVE RetryInv'
  BY <1>26 DEF OwnDialConnected, Created
<1>27. ASSUME NEW r \in Requests, NEW c \in Conns, OwnDialDowngraded(r, c) PROVE RetryInv'
  BY <1>27 DEF OwnDialDowngraded, Created
<1>28. ASSUME NEW r \in Requests, NEW c \in Conns, ConnectConnected(r, c) PROVE RetryInv'
  BY <1>28 DEF ConnectConnected, Created
<1>29. ASSUME NEW r \in Requests, NEW c \in Conns, ConnectDowngraded(r, c) PROVE RetryInv'
  BY <1>29 DEF ConnectDowngraded, Created
<1>30. ASSUME NEW k \in Keys, DialRecheckHit(k) PROVE RetryInv'
  BY <1>30 DEF DialRecheckHit, Returns, DeliverError, Created, Waiters, PooledUsable
<1>31. ASSUME NEW k \in Keys, DialRecheckMiss(k) PROVE RetryInv'
  BY <1>31 DEF DialRecheckMiss, Returns, DeliverError, Created, Waiters, PooledUsable
<1>32. ASSUME NEW k \in Keys, DialFailed(k) PROVE RetryInv'
  BY <1>32 DEF DialFailed, Returns, DeliverError, Created, Waiters, PooledUsable
<1>33. ASSUME NEW k \in Keys, PublishClosed(k) PROVE RetryInv'
  BY <1>33 DEF PublishClosed, Returns, DeliverError, Created, Waiters, PooledUsable
<1>34. ASSUME NEW k \in Keys, PublishSurplus(k) PROVE RetryInv'
  BY <1>34 DEF PublishSurplus, Returns, DeliverError, Created, Waiters, PooledUsable
<1>35. ASSUME NEW k \in Keys, PublishNew(k) PROVE RetryInv'
  BY <1>35 DEF PublishNew, Returns, DeliverError, Created, Waiters, PooledUsable
<1>36. ASSUME NEW k \in Keys, NEW c \in Conns, DialConnected(k, c) PROVE RetryInv'
  BY <1>36 DEF DialConnected, Returns, DeliverError, Created, Waiters, PooledUsable
<1>37. ASSUME NEW k \in Keys, NEW c \in Conns, DialDowngraded(k, c) PROVE RetryInv'
  BY <1>37 DEF DialDowngraded, Returns, DeliverError, Created, Waiters, PooledUsable
<1>38. ASSUME NEW c \in Conns, RunRetire(c) PROVE RetryInv'
  BY <1>38 DEF RunRetire, Retire
<1>39. ASSUME NEW c \in Conns, AppendRetired(c) PROVE RetryInv'
  BY <1>39 DEF AppendRetired
<1>40. ASSUME NEW x \in closing, RunClose(x) PROVE RetryInv'
  BY <1>40 DEF RunClose
<1>41. ASSUME Cleanup PROVE RetryInv'
  BY <1>41 DEF Cleanup
<1>42. ASSUME LoopDrained PROVE RetryInv'
  BY <1>42 DEF LoopDrained
<1>43. ASSUME LoopStop PROVE RetryInv'
  BY <1>43 DEF LoopStop
<1>44. ASSUME Refresh PROVE RetryInv'
  BY <1>44 DEF Refresh
<1>45. ASSUME CloseBegin PROVE RetryInv'
  BY <1>45 DEF CloseBegin
<1>46. ASSUME CloseRetired PROVE RetryInv'
  BY <1>46 DEF CloseRetired
<1>47. ASSUME CloseGracefulBegin PROVE RetryInv'
  BY <1>47 DEF CloseGracefulBegin
<1>48. ASSUME CloseGracefulEnd PROVE RetryInv'
  BY <1>48 DEF CloseGracefulEnd
<1>49. ASSUME NEW c \in Conns, CloseGracefulRetire(c) PROVE RetryInv'
  BY <1>49 DEF CloseGracefulRetire, Retire
<1>50. ASSUME NEW c \in Conns, NEW fact \in Expirations, Expire(c, fact) PROVE RetryInv'
  BY <1>50 DEF Expire
<1>51. CASE UNCHANGED vars
  BY <1>51 DEF vars
<1>52. ASSUME NEW k \in Keys, Deliver(k) PROVE RetryInv'
  BY <1>52 DEF Deliver, Waiters
<1> QED BY <1>1, <1>2, <1>3, <1>4, <1>5, <1>6, <1>7, <1>8, <1>9, <1>10, <1>11, <1>12,
      <1>13, <1>14, <1>15, <1>16, <1>17, <1>18, <1>19, <1>20, <1>21, <1>22, <1>23, <1>24,
      <1>25, <1>26, <1>27, <1>28, <1>29, <1>30, <1>31, <1>32, <1>33, <1>34, <1>35, <1>36,
      <1>37, <1>38, <1>39, <1>40, <1>41, <1>42, <1>43, <1>44, <1>45, <1>46, <1>47, <1>48,
      <1>49, <1>50, <1>51, <1>52 DEF Next, Caller, Dialer, Background, Shutdown

\* The live connection of a downgrade has one owner, at rest or about to take
\* it, or is being closed and has none; an undialled one has none either.
Owned(c) ==
    /\ cstate[c] = "none" => \A r \in Requests : rconn[r] # c
    /\ cstate[c] = "alpn" =>
         IF ClosePending(c) THEN \A r \in Requests : rconn[r] # c
         ELSE \E r \in Requests : /\ rconn[r] = c /\ pc[r] \in {"alpn", "done"}
                                  /\ \A q \in Requests : rconn[q] = c => q = r
    /\ c \in closeRequested \cup appending \cup retired => cstate[c] \in {"open", "closed"}

AlpnInv == \A c \in Conns : Owned(c)

\* A dial that ends in a downgrade starts a close when its leader has left.
LEMMA DowngradeCloses ==
  ASSUME NEW k, NEW c, DialDowngraded(k, c)
  PROVE  \A d : ClosePending(d)' <=>
             ClosePending(d) \/ (d = c /\ dial[k].leader \notin Waiters(k))
<1>1. CASE dial[k].leader \in Waiters(k)
  BY <1>1, ClosingSame DEF DialDowngraded
<1>2. CASE dial[k].leader \notin Waiters(k)
  <2>1. closing' = closing \cup Closes({c}, "surplus")
    BY <1>2 DEF DialDowngraded
  <2> QED BY <1>2, <2>1, ClosingAdds
<1> QED BY <1>1, <1>2

\* Every step leaves the connection of a downgrade with one owner at most.
LEMMA AlpnStep ==
  ASSUME ConstantsAssumption, TypeInv, PoolInv, AlpnInv, [Next]_vars
  PROVE  AlpnInv'
<1> SUFFICES ASSUME NEW d \in Conns PROVE Owned(d)'
  BY DEF AlpnInv
<1>a. /\ NoConn \notin Conns /\ NoRequest \notin Requests
      /\ KeyOf \in [Requests -> Keys]
      /\ conns \in [Keys -> Conns \cup {NoConn}] /\ dial \in [Keys -> DialRecord]
      /\ cstate \in [Conns -> {"none", "open", "alpn", "closed"}]
      /\ pc \in [Requests -> Labels] /\ rconn \in [Requests -> Conns \cup {NoConn}]
      /\ \A r \in Requests : pc[r] \in Holding => rconn[r] \in Conns
      /\ \A k \in Keys : (dial[k].phase = "publish") <=> (dial[k].conn # NoConn)
      /\ \A k \in Keys : (dial[k].phase = "deliver") <=> (dial[k].result # NoConn)
  BY DEF ConstantsAssumption, TypeInv, TypeOK, HoldsConn, Labels
<1>b. /\ \A k \in Keys : conns[k] = d \/ dial[k].conn = d => cstate[d] = "open"
      /\ \A r \in Requests : pc[r] = "cstore" /\ rconn[r] = d => cstate[d] = "open"
      /\ d \in retiring => cstate[d] = "open"
      /\ d \in graceTodo /\ d \notin appending => cstate[d] = "open"
      /\ cstate[d] = "none" => ~ClosePending(d)
      /\ \A k \in Keys : dial[k].result = d => cstate[d] \in {"open", "closed"}
  BY DEF PoolInv, ConnInv, PoolKept, DialKept, ProbeKept, Kept, Undecided, EvictedOnce,
         Untouched, Handed
<1>c. Owned(d)
  BY DEF AlpnInv
<1> USE <1>a, <1>b, <1>c, ClosingSame DEF Owned, Holding, Labels, CallerOnly, Goto, NoDial,
        poolVars, loopVars, connVars, goVars, callVars, dialVars, shutVars, histVars,
        evictVars
<1>1. ASSUME NEW r \in Requests, Peek(r) PROVE Owned(d)'
  BY <1>1 DEF Peek
<1>2. ASSUME NEW r \in Requests, PeekHit(r) PROVE Owned(d)'
  BY <1>2 DEF PeekHit
<1>3. ASSUME NEW r \in Requests, PeekMiss(r) PROVE Owned(d)'
  BY <1>3 DEF PeekMiss
<1>4. ASSUME NEW r \in Requests, LookupClosed(r) PROVE Owned(d)'
  BY <1>4 DEF LookupClosed, AtLookup
<1>5. ASSUME NEW r \in Requests, LookupHit(r) PROVE Owned(d)'
  BY <1>5 DEF LookupHit, PooledUsable, AtLookup
<1>6. ASSUME NEW r \in Requests, LookupMiss(r) PROVE Owned(d)'
  BY <1>6 DEF LookupMiss, AtLookup
<1>7. ASSUME NEW r \in Requests, JoinDial(r) PROVE Owned(d)'
  BY <1>7 DEF JoinDial
<1>8. ASSUME NEW r \in Requests, CancelWait(r) PROVE Owned(d)'
  BY <1>8 DEF CancelWait
<1>9. ASSUME NEW r \in Requests, TakeDowngraded(r) PROVE Owned(d)'
  BY <1>9 DEF TakeDowngraded
<1>10. ASSUME NEW r \in Requests, DropDowngraded(r) PROVE Owned(d)'
  <2>1. closing' = closing \cup Closes({rconn[r]}, "surplus")
    BY <1>10 DEF DropDowngraded
  <2>2. \A c : ClosePending(c)' <=> ClosePending(c) \/ c \in {rconn[r]}
    BY <2>1, ClosingAdds
  <2> QED BY <1>10, <2>2 DEF DropDowngraded
<1>11. ASSUME NEW r \in Requests, OwnDialFailed(r) PROVE Owned(d)'
  BY <1>11 DEF OwnDialFailed
<1>12. ASSUME NEW r \in Requests, Acquire(r) PROVE Owned(d)'
  BY <1>12 DEF Acquire
<1>13. ASSUME NEW r \in Requests, Headers(r) PROVE Owned(d)'
  BY <1>13 DEF Headers
<1>14. ASSUME NEW r \in Requests, HeadersNoBody(r) PROVE Owned(d)'
  <2>1. \A c : ClosePending(c)' <=>
            ClosePending(c) \/ (c = rconn[r] /\ rconn[r] \in closeRequested
                                 /\ inFlight[rconn[r]] <= 1)
    BY <1>14, ReleaseCloses DEF HeadersNoBody
  <2> QED BY <1>14, <2>1 DEF HeadersNoBody, Release
<1>15. ASSUME NEW r \in Requests, Fail(r) PROVE Owned(d)'
  <2>1. \A c : ClosePending(c)' <=>
            ClosePending(c) \/ (c = rconn[r] /\ rconn[r] \in closeRequested
                                 /\ inFlight[rconn[r]] <= 1)
    BY <1>15, ReleaseCloses DEF Fail
  <2> QED BY <1>15, <2>1 DEF Fail, Release
<1>16. ASSUME NEW r \in Requests, RemoveConn(r) PROVE Owned(d)'
  BY <1>16 DEF RemoveConn, GiveUpOrRetry
<1>17. ASSUME NEW r \in Requests, KeepConn(r) PROVE Owned(d)'
  BY <1>17 DEF KeepConn, GiveUpOrRetry
<1>18. ASSUME NEW r \in Requests, ReadProgress(r) PROVE Owned(d)'
  BY <1>18 DEF ReadProgress
<1>19. ASSUME NEW r \in Requests, Abandon(r) PROVE Owned(d)'
  BY <1>19 DEF Abandon
<1>20. ASSUME NEW r \in Requests, FinishBody(r) PROVE Owned(d)'
  <2>1. \A c : ClosePending(c)' <=>
            ClosePending(c) \/ (c = rconn[r] /\ rconn[r] \in closeRequested
                                 /\ inFlight[rconn[r]] <= 1)
    BY <1>20, ReleaseCloses DEF FinishBody
  <2> QED BY <1>20, <2>1 DEF FinishBody, Release
<1>21. ASSUME NEW r \in Requests, ConnectReturn(r) PROVE Owned(d)'
  BY <1>21 DEF ConnectReturn
<1>22. ASSUME NEW r \in Requests, ConnectDial(r) PROVE Owned(d)'
  BY <1>22 DEF ConnectDial
<1>23. ASSUME NEW r \in Requests, ConnectFailed(r) PROVE Owned(d)'
  BY <1>23 DEF ConnectFailed
<1>24. ASSUME NEW r \in Requests, ConnectDiscard(r) PROVE Owned(d)'
  <2>1. closing' = closing \cup Closes({rconn[r]}, "surplus")
    BY <1>24 DEF ConnectDiscard
  <2>2. \A c : ClosePending(c)' <=> ClosePending(c) \/ c \in {rconn[r]}
    BY <2>1, ClosingAdds
  <2> QED BY <1>24, <2>2 DEF ConnectDiscard
<1>25. ASSUME NEW r \in Requests, ConnectStore(r) PROVE Owned(d)'
  BY <1>25 DEF ConnectStore
<1>26. ASSUME NEW r \in Requests, NEW c \in Conns, OwnDialConnected(r, c) PROVE Owned(d)'
  BY <1>26 DEF OwnDialConnected, Created
<1>27. ASSUME NEW r \in Requests, NEW c \in Conns, OwnDialDowngraded(r, c) PROVE Owned(d)'
  BY <1>27 DEF OwnDialDowngraded, Created
<1>28. ASSUME NEW r \in Requests, NEW c \in Conns, ConnectConnected(r, c) PROVE Owned(d)'
  BY <1>28 DEF ConnectConnected, Created
<1>29. ASSUME NEW r \in Requests, NEW c \in Conns, ConnectDowngraded(r, c) PROVE Owned(d)'
  BY <1>29 DEF ConnectDowngraded, Created
<1>30. ASSUME NEW k \in Keys, DialRecheckHit(k) PROVE Owned(d)'
  BY <1>30 DEF DialRecheckHit, Returns, DeliverError, PooledUsable, Waiters
<1>31. ASSUME NEW k \in Keys, DialRecheckMiss(k) PROVE Owned(d)'
  BY <1>31 DEF DialRecheckMiss, Returns, DeliverError, PooledUsable, Waiters
<1>32. ASSUME NEW k \in Keys, DialFailed(k) PROVE Owned(d)'
  BY <1>32 DEF DialFailed, Returns, DeliverError, PooledUsable, Waiters
<1>33. ASSUME NEW k \in Keys, PublishClosed(k) PROVE Owned(d)'
  <2> DEFINE e == dial[k].conn
  <2>1. closing' = closing \cup Closes({e}, "surplus")
    BY <1>33 DEF PublishClosed
  <2> HIDE DEF e
  <2>2. \A c : ClosePending(c)' <=> ClosePending(c) \/ c \in {e}
    BY <2>1, ClosingAdds
  <2> QED BY <1>33, <2>2 DEF PublishClosed, Returns, DeliverError, PooledUsable, Waiters, e
<1>34. ASSUME NEW k \in Keys, PublishSurplus(k) PROVE Owned(d)'
  <2> DEFINE e == dial[k].conn
  <2>1. closing' = closing \cup Closes({e}, "surplus")
    BY <1>34 DEF PublishSurplus
  <2> HIDE DEF e
  <2>2. \A c : ClosePending(c)' <=> ClosePending(c) \/ c \in {e}
    BY <2>1, ClosingAdds
  <2> QED BY <1>34, <2>2 DEF PublishSurplus, Returns, DeliverError, PooledUsable, Waiters, e
<1>35. ASSUME NEW k \in Keys, PublishNew(k) PROVE Owned(d)'
  BY <1>35 DEF PublishNew, Returns, DeliverError, PooledUsable, Waiters
<1>36. ASSUME NEW k \in Keys, NEW c \in Conns, DialConnected(k, c) PROVE Owned(d)'
  BY <1>36 DEF DialConnected, Created
<1>37. ASSUME NEW k \in Keys, NEW c \in Conns, DialDowngraded(k, c) PROVE Owned(d)'
  <2>1. ClosePending(d)' <=> ClosePending(d) \/ (d = c /\ dial[k].leader \notin Waiters(k))
    BY <1>37, DowngradeCloses
  <2> QED BY <1>37, <2>1 DEF DialDowngraded, Created, Waiters
<1>38. ASSUME NEW c \in Conns, RunRetire(c) PROVE Owned(d)'
  <2>1. ClosePending(d)' <=> ClosePending(d) \/ (d = c /\ ~Deferred(c))
    BY <1>38, RetireCloses DEF RunRetire
  <2> QED BY <1>38, <2>1 DEF RunRetire, Retire, Deferred
<1>39. ASSUME NEW c \in Conns, AppendRetired(c) PROVE Owned(d)'
  BY <1>39 DEF AppendRetired
<1>40. ASSUME NEW x \in closing, RunClose(x) PROVE Owned(d)'
  <2>1. /\ d # x.conn => (ClosePending(d)' <=> ClosePending(d))
        /\ x.conn \in Conns
    BY <1>40, RunCloseCloses DEF TypeInv, TypeOK
  <2> QED BY <1>40, <2>1 DEF RunClose
<1>41. ASSUME Cleanup PROVE Owned(d)'
  <2>1. ClosePending(d)' <=> ClosePending(d) \/ Swept(d)
    BY <1>41, CleanupCloses
  <2>2. Swept(d) => d \in retired \/ \E k \in Keys : conns[k] = d
    BY DEF Swept, Pooled
  <2>3. /\ retired' \subseteq retired
        /\ UNCHANGED <<cstate, closeRequested, appending, pc, rconn>>
    BY <1>41 DEF Cleanup
  <2> QED BY <2>1, <2>2, <2>3
<1>42. ASSUME LoopDrained PROVE Owned(d)'
  BY <1>42 DEF LoopDrained
<1>43. ASSUME LoopStop PROVE Owned(d)'
  BY <1>43 DEF LoopStop
<1>44. ASSUME Refresh PROVE Owned(d)'
  <2>1. closing' = closing \cup Closes(Pooled, "forced")
    BY <1>44 DEF Refresh
  <2>2. \A c : ClosePending(c)' <=> ClosePending(c) \/ c \in Pooled
    BY <2>1, ClosingAdds
  <2> QED BY <1>44, <2>2 DEF Refresh, Pooled
<1>45. ASSUME CloseBegin PROVE Owned(d)'
  <2>1. closing' = closing \cup Closes(Pooled, "forced")
    BY <1>45 DEF CloseBegin
  <2>2. \A c : ClosePending(c)' <=> ClosePending(c) \/ c \in Pooled
    BY <2>1, ClosingAdds
  <2> QED BY <1>45, <2>2 DEF CloseBegin, Pooled
<1>46. ASSUME CloseRetired PROVE Owned(d)'
  <2>1. closing' = closing \cup Closes(retired, "forced")
    BY <1>46 DEF CloseRetired
  <2>2. \A c : ClosePending(c)' <=> ClosePending(c) \/ c \in retired
    BY <2>1, ClosingAdds
  <2> QED BY <1>46, <2>2 DEF CloseRetired
<1>47. ASSUME CloseGracefulBegin PROVE Owned(d)'
  BY <1>47 DEF CloseGracefulBegin
<1>48. ASSUME CloseGracefulEnd PROVE Owned(d)'
  BY <1>48 DEF CloseGracefulEnd
<1>49. ASSUME NEW c \in Conns, CloseGracefulRetire(c) PROVE Owned(d)'
  <2>1. ClosePending(d)' <=> ClosePending(d) \/ (d = c /\ ~Deferred(c))
    BY <1>49, RetireCloses DEF CloseGracefulRetire
  <2> QED BY <1>49, <2>1 DEF CloseGracefulRetire, Retire, Deferred
<1>50. ASSUME NEW c \in Conns, NEW fact \in Expirations, Expire(c, fact) PROVE Owned(d)'
  BY <1>50 DEF Expire
<1>51. CASE UNCHANGED vars
  BY <1>51 DEF vars
<1>52. ASSUME NEW k \in Keys, Deliver(k) PROVE Owned(d)'
  BY <1>52 DEF Deliver, Waiters
<1> QED BY <1>1, <1>2, <1>3, <1>4, <1>5, <1>6, <1>7, <1>8, <1>9, <1>10, <1>11, <1>12, <1>13,
    <1>14, <1>15, <1>16, <1>17, <1>18, <1>19, <1>20, <1>21, <1>22, <1>23, <1>24, <1>25,
    <1>26, <1>27, <1>28, <1>29, <1>30, <1>31, <1>32, <1>33, <1>34, <1>35, <1>36, <1>37,
    <1>38, <1>39, <1>40, <1>41, <1>42, <1>43, <1>44, <1>45, <1>46, <1>47, <1>48, <1>49,
    <1>50, <1>51, <1>52 DEF Next, Caller, Dialer, Background, Shutdown

\* A connection not dialled yet, on its way into the pool, or pooled under a key
\* that is being dialled has not expired.
Young(c) ==
    /\ cstate[c] = "none" => c \notin aged \cup idle
    /\ TooYoung(c) => c \notin aged \cup idle

YoungInv == \A c \in Conns : Young(c)

\* A key is being dialled from the moment its pool entry was found unusable and
\* dropped: what is stored there meanwhile has just been dialled.
LEMMA YoungStep ==
  ASSUME ConstantsAssumption, TypeInv, PoolInv, YoungInv, [Next]_vars
  PROVE  YoungInv'
<1> SUFFICES ASSUME NEW d \in Conns PROVE Young(d)'
  BY DEF YoungInv
<1>a. /\ NoConn \notin Conns /\ NoRequest \notin Requests
      /\ KeyOf \in [Requests -> Keys]
      /\ conns \in [Keys -> Conns \cup {NoConn}] /\ dial \in [Keys -> DialRecord]
      /\ cstate \in [Conns -> {"none", "open", "alpn", "closed"}]
      /\ pc \in [Requests -> Labels] /\ rconn \in [Requests -> Conns \cup {NoConn}]
      /\ \A r \in Requests : pc[r] \in Holding => rconn[r] \in Conns
      /\ \A k \in Keys : (dial[k].phase = "publish") <=> (dial[k].conn # NoConn)
      /\ \A k \in Keys : (dial[k].phase = "deliver") <=> (dial[k].result # NoConn)
  BY DEF ConstantsAssumption, TypeInv, TypeOK, HoldsConn, Labels
<1>b. /\ \A k \in Keys : conns[k] = d \/ dial[k].conn = d => cstate[d] = "open"
      /\ \A r \in Requests : pc[r] = "cstore" /\ rconn[r] = d => cstate[d] = "open"
  BY DEF PoolInv, ConnInv, PoolKept, DialKept, ProbeKept, Kept, Undecided
<1>c. Young(d)
  BY DEF YoungInv
<1> USE <1>a, <1>b, <1>c DEF Young, TooYoung, Dialling, Holding, Labels, CallerOnly, Goto,
        NoDial, Touch, timeVars, poolVars, loopVars, connVars, goVars, callVars, dialVars, shutVars, histVars,
        evictVars
<1>1. ASSUME NEW r \in Requests, Peek(r) PROVE Young(d)'
  BY <1>1 DEF Peek
<1>2. ASSUME NEW r \in Requests, PeekHit(r) PROVE Young(d)'
  BY <1>2 DEF PeekHit
<1>3. ASSUME NEW r \in Requests, PeekMiss(r) PROVE Young(d)'
  BY <1>3 DEF PeekMiss
<1>4. ASSUME NEW r \in Requests, LookupClosed(r) PROVE Young(d)'
  BY <1>4 DEF LookupClosed, AtLookup
<1>5. ASSUME NEW r \in Requests, LookupHit(r) PROVE Young(d)'
  BY <1>5 DEF LookupHit, AtLookup
<1>6. ASSUME NEW r \in Requests, LookupMiss(r) PROVE Young(d)'
  BY <1>6 DEF LookupMiss, AtLookup
<1>7. ASSUME NEW r \in Requests, JoinDial(r) PROVE Young(d)'
  BY <1>7 DEF JoinDial
<1>8. ASSUME NEW r \in Requests, CancelWait(r) PROVE Young(d)'
  BY <1>8 DEF CancelWait
<1>9. ASSUME NEW r \in Requests, TakeDowngraded(r) PROVE Young(d)'
  BY <1>9 DEF TakeDowngraded
<1>10. ASSUME NEW r \in Requests, DropDowngraded(r) PROVE Young(d)'
  BY <1>10 DEF DropDowngraded
<1>11. ASSUME NEW r \in Requests, OwnDialFailed(r) PROVE Young(d)'
  BY <1>11 DEF OwnDialFailed
<1>12. ASSUME NEW r \in Requests, Acquire(r) PROVE Young(d)'
  BY <1>12 DEF Acquire
<1>13. ASSUME NEW r \in Requests, Headers(r) PROVE Young(d)'
  BY <1>13 DEF Headers
<1>14. ASSUME NEW r \in Requests, HeadersNoBody(r) PROVE Young(d)'
  BY <1>14 DEF HeadersNoBody, Release
<1>15. ASSUME NEW r \in Requests, Fail(r) PROVE Young(d)'
  BY <1>15 DEF Fail, Release
<1>16. ASSUME NEW r \in Requests, RemoveConn(r) PROVE Young(d)'
  BY <1>16 DEF RemoveConn, GiveUpOrRetry
<1>17. ASSUME NEW r \in Requests, KeepConn(r) PROVE Young(d)'
  BY <1>17 DEF KeepConn, GiveUpOrRetry
<1>18. ASSUME NEW r \in Requests, ReadProgress(r) PROVE Young(d)'
  BY <1>18 DEF ReadProgress
<1>19. ASSUME NEW r \in Requests, Abandon(r) PROVE Young(d)'
  BY <1>19 DEF Abandon
<1>20. ASSUME NEW r \in Requests, FinishBody(r) PROVE Young(d)'
  BY <1>20 DEF FinishBody, Release
<1>21. ASSUME NEW r \in Requests, ConnectReturn(r) PROVE Young(d)'
  BY <1>21 DEF ConnectReturn
<1>22. ASSUME NEW r \in Requests, ConnectDial(r) PROVE Young(d)'
  BY <1>22 DEF ConnectDial
<1>23. ASSUME NEW r \in Requests, ConnectFailed(r) PROVE Young(d)'
  BY <1>23 DEF ConnectFailed
<1>24. ASSUME NEW r \in Requests, ConnectDiscard(r) PROVE Young(d)'
  BY <1>24 DEF ConnectDiscard
<1>25. ASSUME NEW r \in Requests, ConnectStore(r) PROVE Young(d)'
  BY <1>25 DEF ConnectStore
<1>26. ASSUME NEW r \in Requests, NEW c \in Conns, OwnDialConnected(r, c) PROVE Young(d)'
  BY <1>26 DEF OwnDialConnected, Created
<1>27. ASSUME NEW r \in Requests, NEW c \in Conns, OwnDialDowngraded(r, c) PROVE Young(d)'
  BY <1>27 DEF OwnDialDowngraded, Created
<1>28. ASSUME NEW r \in Requests, NEW c \in Conns, ConnectConnected(r, c) PROVE Young(d)'
  BY <1>28 DEF ConnectConnected, Created
<1>29. ASSUME NEW r \in Requests, NEW c \in Conns, ConnectDowngraded(r, c) PROVE Young(d)'
  BY <1>29 DEF ConnectDowngraded, Created
<1>30. ASSUME NEW k \in Keys, DialRecheckHit(k) PROVE Young(d)'
  BY <1>30 DEF DialRecheckHit, Returns, DeliverError, PooledUsable, Waiters
<1>31. ASSUME NEW k \in Keys, DialRecheckMiss(k) PROVE Young(d)'
  BY <1>31 DEF DialRecheckMiss, Returns, DeliverError, PooledUsable, Waiters
<1>32. ASSUME NEW k \in Keys, DialFailed(k) PROVE Young(d)'
  BY <1>32 DEF DialFailed, Returns, DeliverError, PooledUsable, Waiters
<1>33. ASSUME NEW k \in Keys, PublishClosed(k) PROVE Young(d)'
  BY <1>33 DEF PublishClosed, Returns, DeliverError, PooledUsable, Waiters
<1>34. ASSUME NEW k \in Keys, PublishSurplus(k) PROVE Young(d)'
  BY <1>34 DEF PublishSurplus, Returns, DeliverError, PooledUsable, Waiters
<1>35. ASSUME NEW k \in Keys, PublishNew(k) PROVE Young(d)'
  BY <1>35 DEF PublishNew, Returns, DeliverError, PooledUsable, Waiters
<1>36. ASSUME NEW k \in Keys, NEW c \in Conns, DialConnected(k, c) PROVE Young(d)'
  BY <1>36 DEF DialConnected, Created
<1>37. ASSUME NEW k \in Keys, NEW c \in Conns, DialDowngraded(k, c) PROVE Young(d)'
  BY <1>37 DEF DialDowngraded, Created, Waiters
<1>38. ASSUME NEW c \in Conns, RunRetire(c) PROVE Young(d)'
  BY <1>38 DEF RunRetire, Retire
<1>39. ASSUME NEW c \in Conns, AppendRetired(c) PROVE Young(d)'
  BY <1>39 DEF AppendRetired
<1>40. ASSUME NEW x \in closing, RunClose(x) PROVE Young(d)'
  BY <1>40 DEF RunClose
<1>41. ASSUME Cleanup PROVE Young(d)'
  BY <1>41 DEF Cleanup
<1>42. ASSUME LoopDrained PROVE Young(d)'
  BY <1>42 DEF LoopDrained
<1>43. ASSUME LoopStop PROVE Young(d)'
  BY <1>43 DEF LoopStop
<1>44. ASSUME Refresh PROVE Young(d)'
  BY <1>44 DEF Refresh
<1>45. ASSUME CloseBegin PROVE Young(d)'
  BY <1>45 DEF CloseBegin
<1>46. ASSUME CloseRetired PROVE Young(d)'
  BY <1>46 DEF CloseRetired
<1>47. ASSUME CloseGracefulBegin PROVE Young(d)'
  BY <1>47 DEF CloseGracefulBegin
<1>48. ASSUME CloseGracefulEnd PROVE Young(d)'
  BY <1>48 DEF CloseGracefulEnd
<1>49. ASSUME NEW c \in Conns, CloseGracefulRetire(c) PROVE Young(d)'
  BY <1>49 DEF CloseGracefulRetire, Retire
<1>50. ASSUME NEW c \in Conns, NEW fact \in Expirations, Expire(c, fact) PROVE Young(d)'
  BY <1>50 DEF Expire
<1>51. CASE UNCHANGED vars
  BY <1>51 DEF vars
<1>52. ASSUME NEW k \in Keys, Deliver(k) PROVE Young(d)'
  BY <1>52 DEF Deliver, Waiters
<1> QED BY <1>1, <1>2, <1>3, <1>4, <1>5, <1>6, <1>7, <1>8, <1>9, <1>10, <1>11, <1>12, <1>13,
    <1>14, <1>15, <1>16, <1>17, <1>18, <1>19, <1>20, <1>21, <1>22, <1>23, <1>24, <1>25,
    <1>26, <1>27, <1>28, <1>29, <1>30, <1>31, <1>32, <1>33, <1>34, <1>35, <1>36, <1>37,
    <1>38, <1>39, <1>40, <1>41, <1>42, <1>43, <1>44, <1>45, <1>46, <1>47, <1>48, <1>49,
    <1>50, <1>51, <1>52 DEF Next, Caller, Dialer, Background, Shutdown

\* OpenConnTracked, for one connection.
Reachable(c) ==
    cstate[c] = "open" =>
        \/ c \in Pooled \/ Leaving(c)
        \/ \E k \in Keys : dial[k].conn = c
        \/ \E r \in Requests : pc[r] = "cstore" /\ rconn[r] = c

\* With one protocol for each host, a waiter dials for itself only where the
\* server speaks HTTP/1.1.
TrackInv ==
    /\ gracePc = "idle" => graceTodo = {}
    /\ \A r \in Requests : pc[r] = "own" => MayNegotiate(KeyOf[r], "http/1.1")
    /\ StableALPN => \A c \in Conns : Reachable(c)

\* Every step keeps the open connections reachable.
LEMMA TrackStep ==
  ASSUME ConstantsAssumption, TypeInv, PoolInv, YoungInv, TrackInv, [Next]_vars
  PROVE  TrackInv'
<1>a. /\ NoConn \notin Conns /\ NoRequest \notin Requests
      /\ KeyOf \in [Requests -> Keys]
      /\ conns \in [Keys -> Conns \cup {NoConn}] /\ dial \in [Keys -> DialRecord]
      /\ cstate \in [Conns -> {"none", "open", "alpn", "closed"}]
      /\ pc \in [Requests -> Labels] /\ rconn \in [Requests -> Conns \cup {NoConn}]
      /\ \A r \in Requests : pc[r] \in Holding => rconn[r] \in Conns
      /\ \A k \in Keys : (dial[k].phase = "publish") <=> (dial[k].conn # NoConn)
      /\ \A k \in Keys : (dial[k].phase = "deliver") <=> (dial[k].result # NoConn)
      /\ negotiates \in [Keys -> {"h2", "http/1.1"}]
  BY DEF ConstantsAssumption, TypeInv, TypeOK, HoldsConn, Labels
<1>b. \A k \in Keys : dial[k].phase = "publish" /\ ~PooledUsable(k) => conns[k] = NoConn
  BY <1>a DEF PoolInv, ConnInv, PoolKept, Kept, Undecided, YoungInv, Young, TooYoung, Dialling,
         PooledUsable, Usable
<1> USE <1>a, <1>b, ClosingSame DEF TrackInv, MayNegotiate, Reachable, Leaving, Pooled,
        Holding, Labels, CallerOnly, Goto, NoDial,
        poolVars, loopVars, connVars, goVars, callVars, dialVars, shutVars, histVars,
        evictVars
<1>1. ASSUME NEW r \in Requests, Peek(r) PROVE TrackInv'
  BY <1>1 DEF Peek
<1>2. ASSUME NEW r \in Requests, PeekHit(r) PROVE TrackInv'
  BY <1>2 DEF PeekHit
<1>3. ASSUME NEW r \in Requests, PeekMiss(r) PROVE TrackInv'
  BY <1>3 DEF PeekMiss
<1>4. ASSUME NEW r \in Requests, LookupClosed(r) PROVE TrackInv'
  BY <1>4 DEF LookupClosed, AtLookup
<1>5. ASSUME NEW r \in Requests, LookupHit(r) PROVE TrackInv'
  BY <1>5 DEF LookupHit, PooledUsable, AtLookup
<1>6. ASSUME NEW r \in Requests, LookupMiss(r) PROVE TrackInv'
  BY <1>6 DEF LookupMiss, AtLookup
<1>7. ASSUME NEW r \in Requests, JoinDial(r) PROVE TrackInv'
  BY <1>7 DEF JoinDial
<1>8. ASSUME NEW r \in Requests, CancelWait(r) PROVE TrackInv'
  BY <1>8 DEF CancelWait
<1>9. ASSUME NEW r \in Requests, TakeDowngraded(r) PROVE TrackInv'
  BY <1>9 DEF TakeDowngraded
<1>10. ASSUME NEW r \in Requests, DropDowngraded(r) PROVE TrackInv'
  <2>1. closing' = closing \cup Closes({rconn[r]}, "surplus")
    BY <1>10 DEF DropDowngraded
  <2>2. \A c : ClosePending(c)' <=> ClosePending(c) \/ c \in {rconn[r]}
    BY <2>1, ClosingAdds
  <2> QED BY <1>10, <2>2 DEF DropDowngraded
<1>11. ASSUME NEW r \in Requests, OwnDialFailed(r) PROVE TrackInv'
  BY <1>11 DEF OwnDialFailed
<1>12. ASSUME NEW r \in Requests, Acquire(r) PROVE TrackInv'
  BY <1>12 DEF Acquire
<1>13. ASSUME NEW r \in Requests, Headers(r) PROVE TrackInv'
  BY <1>13 DEF Headers
<1>14. ASSUME NEW r \in Requests, HeadersNoBody(r) PROVE TrackInv'
  <2>1. \A c : ClosePending(c)' <=>
            ClosePending(c) \/ (c = rconn[r] /\ rconn[r] \in closeRequested
                                 /\ inFlight[rconn[r]] <= 1)
    BY <1>14, ReleaseCloses DEF HeadersNoBody
  <2> QED BY <1>14, <2>1 DEF HeadersNoBody, Release
<1>15. ASSUME NEW r \in Requests, Fail(r) PROVE TrackInv'
  <2>1. \A c : ClosePending(c)' <=>
            ClosePending(c) \/ (c = rconn[r] /\ rconn[r] \in closeRequested
                                 /\ inFlight[rconn[r]] <= 1)
    BY <1>15, ReleaseCloses DEF Fail
  <2> QED BY <1>15, <2>1 DEF Fail, Release
<1>16. ASSUME NEW r \in Requests, RemoveConn(r) PROVE TrackInv'
  BY <1>16 DEF RemoveConn, GiveUpOrRetry
<1>17. ASSUME NEW r \in Requests, KeepConn(r) PROVE TrackInv'
  BY <1>17 DEF KeepConn, GiveUpOrRetry
<1>18. ASSUME NEW r \in Requests, ReadProgress(r) PROVE TrackInv'
  BY <1>18 DEF ReadProgress
<1>19. ASSUME NEW r \in Requests, Abandon(r) PROVE TrackInv'
  BY <1>19 DEF Abandon
<1>20. ASSUME NEW r \in Requests, FinishBody(r) PROVE TrackInv'
  <2>1. \A c : ClosePending(c)' <=>
            ClosePending(c) \/ (c = rconn[r] /\ rconn[r] \in closeRequested
                                 /\ inFlight[rconn[r]] <= 1)
    BY <1>20, ReleaseCloses DEF FinishBody
  <2> QED BY <1>20, <2>1 DEF FinishBody, Release
<1>21. ASSUME NEW r \in Requests, ConnectReturn(r) PROVE TrackInv'
  BY <1>21 DEF ConnectReturn
<1>22. ASSUME NEW r \in Requests, ConnectDial(r) PROVE TrackInv'
  BY <1>22 DEF ConnectDial
<1>23. ASSUME NEW r \in Requests, ConnectFailed(r) PROVE TrackInv'
  BY <1>23 DEF ConnectFailed
<1>24. ASSUME NEW r \in Requests, ConnectDiscard(r) PROVE TrackInv'
  <2>1. closing' = closing \cup Closes({rconn[r]}, "surplus")
    BY <1>24 DEF ConnectDiscard
  <2>2. \A c : ClosePending(c)' <=> ClosePending(c) \/ c \in {rconn[r]}
    BY <2>1, ClosingAdds
  <2> QED BY <1>24, <2>2 DEF ConnectDiscard
<1>25. ASSUME NEW r \in Requests, ConnectStore(r) PROVE TrackInv'
  BY <1>25 DEF ConnectStore
<1>26. ASSUME NEW r \in Requests, NEW c \in Conns, OwnDialConnected(r, c) PROVE TrackInv'
  BY <1>26 DEF OwnDialConnected, Created
<1>27. ASSUME NEW r \in Requests, NEW c \in Conns, OwnDialDowngraded(r, c) PROVE TrackInv'
  BY <1>27 DEF OwnDialDowngraded, Created
<1>28. ASSUME NEW r \in Requests, NEW c \in Conns, ConnectConnected(r, c) PROVE TrackInv'
  BY <1>28 DEF ConnectConnected, Created
<1>29. ASSUME NEW r \in Requests, NEW c \in Conns, ConnectDowngraded(r, c) PROVE TrackInv'
  BY <1>29 DEF ConnectDowngraded, Created
<1>30. ASSUME NEW k \in Keys, DialRecheckHit(k) PROVE TrackInv'
  BY <1>30 DEF DialRecheckHit, Returns, DeliverError, PooledUsable, Waiters
<1>31. ASSUME NEW k \in Keys, DialRecheckMiss(k) PROVE TrackInv'
  BY <1>31 DEF DialRecheckMiss, Returns, DeliverError, PooledUsable, Waiters
<1>32. ASSUME NEW k \in Keys, DialFailed(k) PROVE TrackInv'
  BY <1>32 DEF DialFailed, Returns, DeliverError, PooledUsable, Waiters
<1>33. ASSUME NEW k \in Keys, PublishClosed(k) PROVE TrackInv'
  <2> DEFINE e == dial[k].conn
  <2>1. closing' = closing \cup Closes({e}, "surplus")
    BY <1>33 DEF PublishClosed
  <2> HIDE DEF e
  <2>2. \A c : ClosePending(c)' <=> ClosePending(c) \/ c \in {e}
    BY <2>1, ClosingAdds
  <2> QED BY <1>33, <2>2 DEF PublishClosed, Returns, DeliverError, PooledUsable, Waiters, e
<1>34. ASSUME NEW k \in Keys, PublishSurplus(k) PROVE TrackInv'
  <2> DEFINE e == dial[k].conn
  <2>1. closing' = closing \cup Closes({e}, "surplus")
    BY <1>34 DEF PublishSurplus
  <2> HIDE DEF e
  <2>2. \A c : ClosePending(c)' <=> ClosePending(c) \/ c \in {e}
    BY <2>1, ClosingAdds
  <2> QED BY <1>34, <2>2 DEF PublishSurplus, Returns, DeliverError, PooledUsable, Waiters, e
<1>35. ASSUME NEW k \in Keys, PublishNew(k) PROVE TrackInv'
  BY <1>35 DEF PublishNew, Returns, DeliverError, PooledUsable, Waiters
<1>36. ASSUME NEW k \in Keys, NEW c \in Conns, DialConnected(k, c) PROVE TrackInv'
  BY <1>36 DEF DialConnected, Created
<1>37. ASSUME NEW k \in Keys, NEW c \in Conns, DialDowngraded(k, c) PROVE TrackInv'
  <2>1. \A d : ClosePending(d)' <=>
              ClosePending(d) \/ (d = c /\ dial[k].leader \notin Waiters(k))
    BY <1>37, DowngradeCloses
  <2> QED BY <1>37, <2>1 DEF DialDowngraded, Created, Waiters
<1>38. ASSUME NEW c \in Conns, RunRetire(c) PROVE TrackInv'
  <2>1. \A d : ClosePending(d)' <=> ClosePending(d) \/ (d = c /\ ~Deferred(c))
    BY <1>38, RetireCloses DEF RunRetire
  <2> QED BY <1>38, <2>1 DEF RunRetire, Retire, Deferred
<1>39. ASSUME NEW c \in Conns, AppendRetired(c) PROVE TrackInv'
  BY <1>39 DEF AppendRetired
<1>40. ASSUME NEW x \in closing, RunClose(x) PROVE TrackInv'
  <2>1. /\ \A d : d # x.conn => (ClosePending(d)' <=> ClosePending(d))
        /\ x.conn \in Conns
    BY <1>40, RunCloseCloses DEF TypeInv, TypeOK
  <2> QED BY <1>40, <2>1 DEF RunClose
<1>41. ASSUME Cleanup PROVE TrackInv'
  <2>1. \A c : ClosePending(c)' <=> ClosePending(c) \/ Swept(c)
    BY <1>41, CleanupCloses
  <2>2. \A c \in Conns : c \in Pooled => c \in Pooled' \/ Swept(c)
    BY <1>41 DEF Cleanup, Swept
  <2>3. \A c \in Conns : c \in retired /\ cstate[c] # "closed" => c \in retired' \/ Swept(c)
    BY <1>41 DEF Cleanup, Swept
  <2>4. UNCHANGED <<cstate, negotiates, retiring, appending, gracePc, graceTodo, pc, rconn, dial>>
    BY <1>41 DEF Cleanup
  <2> QED BY <2>1, <2>2, <2>3, <2>4
<1>42. ASSUME LoopDrained PROVE TrackInv'
  BY <1>42 DEF LoopDrained
<1>43. ASSUME LoopStop PROVE TrackInv'
  BY <1>43 DEF LoopStop
<1>44. ASSUME Refresh PROVE TrackInv'
  <2>1. closing' = closing \cup Closes(Pooled, "forced")
    BY <1>44 DEF Refresh
  <2>2. \A c : ClosePending(c)' <=> ClosePending(c) \/ c \in Pooled
    BY <2>1, ClosingAdds
  <2> QED BY <1>44, <2>2 DEF Refresh
<1>45. ASSUME CloseBegin PROVE TrackInv'
  <2>1. closing' = closing \cup Closes(Pooled, "forced")
    BY <1>45 DEF CloseBegin
  <2>2. \A c : ClosePending(c)' <=> ClosePending(c) \/ c \in Pooled
    BY <2>1, ClosingAdds
  <2> QED BY <1>45, <2>2 DEF CloseBegin
<1>46. ASSUME CloseRetired PROVE TrackInv'
  <2>1. closing' = closing \cup Closes(retired, "forced")
    BY <1>46 DEF CloseRetired
  <2>2. \A c : ClosePending(c)' <=> ClosePending(c) \/ c \in retired
    BY <2>1, ClosingAdds
  <2> QED BY <1>46, <2>2 DEF CloseRetired
<1>47. ASSUME CloseGracefulBegin PROVE TrackInv'
  BY <1>47 DEF CloseGracefulBegin
<1>48. ASSUME CloseGracefulEnd PROVE TrackInv'
  BY <1>48 DEF CloseGracefulEnd
<1>49. ASSUME NEW c \in Conns, CloseGracefulRetire(c) PROVE TrackInv'
  <2>1. \A d : ClosePending(d)' <=> ClosePending(d) \/ (d = c /\ ~Deferred(c))
    BY <1>49, RetireCloses DEF CloseGracefulRetire
  <2> QED BY <1>49, <2>1 DEF CloseGracefulRetire, Retire, Deferred
<1>50. ASSUME NEW c \in Conns, NEW fact \in Expirations, Expire(c, fact) PROVE TrackInv'
  BY <1>50 DEF Expire
<1>51. CASE UNCHANGED vars
  BY <1>51 DEF vars
<1>52. ASSUME NEW k \in Keys, Deliver(k) PROVE TrackInv'
  BY <1>52 DEF Deliver, Waiters
<1> QED BY <1>1, <1>2, <1>3, <1>4, <1>5, <1>6, <1>7, <1>8, <1>9, <1>10, <1>11, <1>12, <1>13,
    <1>14, <1>15, <1>16, <1>17, <1>18, <1>19, <1>20, <1>21, <1>22, <1>23, <1>24, <1>25,
    <1>26, <1>27, <1>28, <1>29, <1>30, <1>31, <1>32, <1>33, <1>34, <1>35, <1>36, <1>37,
    <1>38, <1>39, <1>40, <1>41, <1>42, <1>43, <1>44, <1>45, <1>46, <1>47, <1>48, <1>49,
    <1>50, <1>51, <1>52 DEF Next, Caller, Dialer, Background, Shutdown

\* TypeInv holds initially.
LEMMA InitType == Init => TypeInv
<1> SUFFICES ASSUME Init PROVE TypeInv
  OBVIOUS
<1> USE ConstantsAssumption DEF ConstantsAssumption, Init
<1>1. NoDial \in DialRecord
  BY DEF NoDial, DialRecord
<1>2. attempt \in [Requests -> 0..MaxHTTP2Retries]
  OBVIOUS
<1>3. HoldsConn
  BY DEF HoldsConn, Holding, NoDial
<1>4. /\ dial \in [Keys -> DialRecord] /\ negotiates \in [Keys -> {"h2", "http/1.1"}]
      /\ closed \in BOOLEAN /\ stopped \in BOOLEAN
  BY <1>1
<1>5. /\ conns \in [Keys -> Conns \cup {NoConn}] /\ rconn \in [Requests -> Conns \cup {NoConn}]
      /\ failedOn \in [Requests -> Conns \cup {NoConn}] /\ inFlight \in [Conns -> Int]
      /\ closing \in SUBSET [conn : Conns, why : Reasons]
  OBVIOUS
<1> QED BY <1>2, <1>3, <1>4, <1>5 DEF TypeInv, TypeOK

\* Every variable of the pool keeps its type: the counters, the owner of each
\* dial and the pending closes of http2_transport.go stay well formed.
THEOREM TypeCorrect == Spec => []TypeOK
<1>1. Init => TypeInv
  BY InitType
<1>2. TypeInv /\ [Next]_vars => TypeInv'
  BY ConstantsAssumption, TypeStep
<1>3. TypeInv => TypeOK
  BY DEF TypeInv
<1> QED BY <1>1, <1>2, <1>3, PTL DEF Spec

\* The inductive invariant.
IInv ==
    /\ TypeInv /\ PoolInv /\ InFlightExact /\ LateInv /\ RetryInv
    /\ AlpnInv /\ YoungInv /\ TrackInv

\* IInv holds initially.
LEMMA InitIInv == Init => IInv
<1> SUFFICES ASSUME Init PROVE IInv
  OBVIOUS
<1>1. TypeInv
  BY InitType
<1>2. PoolInv
  BY ConstantsAssumption DEF ConstantsAssumption, Init, NoDial, PoolInv, ConnInv,
        PoolKept, DialKept, ProbeKept, Handed, EvictedOnce,
      Untouched, Tracked, ClosePending
<1>3. InFlightExact
  <2>1. \A c \in Conns : Users(c) = {}
    BY DEF Init, Users, InUse
  <2> QED BY <2>1, FS_EmptySet DEF Init, InFlightExact
<1>4. LateInv
  BY DEF Init, LateInv, EvictPending
<1>5. RetryInv
  BY ConstantsAssumption DEF ConstantsAssumption, Init, RetryInv, Carrying
<1>6. AlpnInv /\ YoungInv /\ TrackInv
  BY ConstantsAssumption DEF ConstantsAssumption, Init, NoDial, AlpnInv, Owned, YoungInv,
        Young, TrackInv, Reachable
<1> QED BY <1>1, <1>2, <1>3, <1>4, <1>5, <1>6 DEF IInv

\* IInv holds in every reachable state.
LEMMA Inductive == Spec => []IInv
<1>1. IInv /\ [Next]_vars => IInv'
  BY ConstantsAssumption, TypeStep, PoolStep, CountStep, LateStep, RetryStep, AlpnStep,
     YoungStep, TrackStep DEF IInv
<1> QED BY InitIInv, <1>1, PTL DEF Spec

\* A pooled connection is open and on no path to being closed, whatever dials,
\* probes, failures, cleanup ticks and shutdowns interleave, and nothing is
\* stored in the pool after Close or CloseGraceful made t.conns nil.
THEOREM PoolServableAlways == Spec => [](PooledServable /\ NoPublishAfterClose)
<1>1. IInv => PooledServable /\ NoPublishAfterClose
  BY DEF IInv, TypeInv, TypeOK, PoolInv, ConnInv, PoolKept, Kept, Undecided,
        PooledServable, NoPublishAfterClose, Pooled, Leaving
<1> QED BY <1>1, Inductive, PTL

\* A close that retire() deferred is never forgotten while the socket is open.
THEOREM DeferredCloseNeverLost == Spec => []DeferredCloseTracked
<1>1. IInv => DeferredCloseTracked
  BY DEF IInv, TypeInv, TypeOK, PoolInv, ConnInv, Tracked, DeferredCloseTracked
<1> QED BY <1>1, Inductive, PTL

\* inFlight is exactly the number of unfinished exchanges and bodies: no path of
\* roundTrip or connBodyGuard releases twice or not at all.
THEOREM InFlightCorrect == Spec => []InFlightExact
<1>1. IInv => InFlightExact
  BY DEF IInv
<1> QED BY <1>1, Inductive, PTL

\* Issue #83: the only requests an eviction can cut off are those that marked
\* the connection in use after the decision to close it.
THEOREM EvictionSafe == Spec => []OnlyLateArrivalsYanked
<1>1. IInv => OnlyLateArrivalsYanked
  <2> SUFFICES ASSUME IInv, NEW x \in closing, NEW r \in Requests, x.why = "evict",
                      r \in Users(x.conn)
               PROVE  r \in late
    BY DEF OnlyLateArrivalsYanked
  <2>1. x.conn \in Conns /\ x = [conn |-> x.conn, why |-> "evict"]
    BY DEF IInv, TypeInv, TypeOK
  <2> QED BY <2>1 DEF IInv, LateInv, EvictPending
<1> QED BY <1>1, Inductive, PTL

\* A retry after removeConn never goes out on the connection that failed, whether
\* it finds its connection in the pool, dials it or shares the dial of another
\* request, unless it joined a call that had already returned that connection.
THEOREM RetrySafe == Spec => []RetryAvoidsFailed
<1>1. IInv => RetryAvoidsFailed
  BY DEF IInv, TypeInv, HoldsConn, Holding, RetryInv, RetryAvoidsFailed
<1> QED BY <1>1, Inductive, PTL

\* The live connection of an ALPN downgrade has one owner or is being closed, also
\* when Close, CloseGraceful or a cancelled leader race with the dial; nothing is
\* stored after shutdown, the pool holds only servable connections, and a deferred
\* close stays tracked.
THEOREM ShutdownSafe == Spec => []ShutdownSound
<1>1. IInv => ShutdownSound
  <2> SUFFICES ASSUME IInv PROVE ShutdownSound
    OBVIOUS
  <2>1. AlpnSingleOwner
    <3> SUFFICES ASSUME NEW c \in Conns, cstate[c] = "alpn", ~ClosePending(c)
                 PROVE  Cardinality({r \in Requests : rconn[r] = c}) = 1
      BY DEF AlpnSingleOwner, IInv, AlpnInv, Owned
    <3>1. PICK r \in Requests : rconn[r] = c /\ \A q \in Requests : rconn[q] = c => q = r
      BY DEF IInv, AlpnInv, Owned
    <3>2. {q \in Requests : rconn[q] = c} = {r}
      BY <3>1
    <3> QED BY <3>2, FS_Singleton
  <2>2. NoPublishAfterClose /\ PooledServable /\ DeferredCloseTracked
    BY DEF Tracked, DeferredCloseTracked, IInv, TypeInv, TypeOK, PoolInv, ConnInv, PoolKept, Kept, Undecided,
        PooledServable, NoPublishAfterClose, Pooled, Leaving
  <2> QED BY <2>1, <2>2 DEF ShutdownSound
<1> QED BY <1>1, Inductive, PTL

\* Where every dial of a host negotiates the same protocol, no socket leaks: an
\* open connection is in the pool, on its way in, or on its way out.
THEOREM NoSocketLeaks == ASSUME StableALPN PROVE Spec => []OpenConnTracked
<1>1. IInv => OpenConnTracked
  BY DEF IInv, TrackInv, Reachable, OpenConnTracked
<1> QED BY <1>1, Inductive, PTL
=============================================================================
