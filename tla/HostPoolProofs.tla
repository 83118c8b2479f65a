--------------------------- MODULE HostPoolProofs ---------------------------
(***************************************************************************)
(* Theorems about HostPool, for any number of callers, connections, pools  *)
(* and keys.  The inductive invariant IInv has five parts, each preserved  *)
(* under the ones before it:                                               *)
(*   InFlightExact   the in-use count of each connection;                  *)
(*   TypeInv         types, and who has a pool or a connection;            *)
(*   PoolInv         for each connection, where it may be at once: in one  *)
(*                   pool, on its way in, on its way out, or not dialled;  *)
(*   RetryInv        a connection that rejected a caller is out of reach;  *)
(*   ProfileCurrent  the preset the pools of the manager were built with.  *)
(***************************************************************************)
EXTENDS HostPool, TLAPS, FiniteSetTheorems

\* The places of a caller.
Labels == {"init", "retry", "scan", "sweep", "mark", "create", "append", "first", "send",
           "sent", "body", "abandoned", "done"}

\* Where a caller has a pool, and where it has a connection.
InPool == {"scan", "sweep", "mark", "create", "append", "first", "send", "sent", "body",
           "abandoned"}

Holding == {"mark", "append", "first", "send", "sent", "body", "abandoned"}

HoldsConn ==
    \A r \in Requests :
        /\ pc[r] \in InPool => rpool[r] \in Pools
        /\ pc[r] \in Holding => rconn[r] \in Conns

TypeInv == TypeOK /\ HoldsConn

-----------------------------------------------------------------------------
(* The in-use count.                                                       *)

\* Finitely many callers use a connection.
LEMMA UsersFinite ==
  ASSUME ConstantsAssumption, NEW c
  PROVE  IsFiniteSet(Users(c))
BY FS_Subset DEF ConstantsAssumption, Users

\* A caller whose exchange or body is unfinished is counted.
LEMMA UserCounted ==
  ASSUME ConstantsAssumption, TypeInv, InFlightExact, NEW r \in Requests, pc[r] \in InUse
  PROVE  rconn[r] \in Conns /\ inFlight[rconn[r]] > 0
<1>1. rconn[r] \in Conns
  BY DEF TypeInv, HoldsConn, Holding, InUse
<1>2. r \in Users(rconn[r])
  BY DEF Users
<1> QED BY <1>1, <1>2, UsersFinite, FS_CardinalityType, FS_EmptySet DEF InFlightExact

\* A step that neither acquires nor releases keeps the count exact.
LEMMA CountUnchanged ==
  ASSUME InFlightExact, UNCHANGED inFlight,
         \A r \in Requests : \/ pc'[r] = pc[r] /\ rconn'[r] = rconn[r]
                             \/ pc[r] \notin InUse /\ pc'[r] \notin InUse
                             \/ pc[r] \in InUse /\ pc'[r] \in InUse /\ rconn'[r] = rconn[r]
  PROVE  InFlightExact'
<1>1. ASSUME NEW c \in Conns PROVE Users(c)' = Users(c)
  BY DEF Users
<1> QED BY <1>1 DEF InFlightExact

\* One caller's acquire adds it to the users of its connection.
LEMMA CountAcquired ==
  ASSUME ConstantsAssumption, TypeInv, InFlightExact, NEW r \in Requests, Send(r)
  PROVE  InFlightExact'
<1>1. /\ pc \in [Requests -> Labels] /\ pc' = [pc EXCEPT ![r] = "sent"] /\ rconn' = rconn
      /\ inFlight \in [Conns -> Nat] /\ rconn[r] \in Conns /\ pc[r] \notin InUse
      /\ inFlight' = [inFlight EXCEPT ![rconn[r]] = @ + 1]
  BY DEF Send, AtSend, Goto, TypeInv, TypeOK, HoldsConn, Holding, InUse, Labels, poolVars,
      managerVars
<1>2. \A c \in Conns : Users(c)' = IF c = rconn[r] THEN Users(c) \cup {r} ELSE Users(c)
  BY <1>1 DEF Users, InUse
<1>3. \A c \in Conns : r \notin Users(c)
  BY <1>1 DEF Users
<1>4. ASSUME NEW c \in Conns PROVE inFlight'[c] = Cardinality(Users(c)')
  BY SMTT(40), <1>1, <1>2, <1>3, UsersFinite, FS_AddElement DEF InFlightExact
<1> QED BY <1>4 DEF InFlightExact

\* One caller's release takes it from them.
LEMMA CountReleased ==
  ASSUME ConstantsAssumption, TypeInv, InFlightExact, NEW r \in Requests, Finish(r)
  PROVE  InFlightExact'
<1>1. /\ pc \in [Requests -> Labels] /\ pc' = [pc EXCEPT ![r] = "done"] /\ rconn' = rconn
      /\ inFlight \in [Conns -> Nat] /\ rconn[r] \in Conns /\ pc[r] \in InUse
      /\ inFlight' = [inFlight EXCEPT ![rconn[r]] = @ - 1]
  BY DEF Finish, Release, Goto, TypeInv, TypeOK, HoldsConn, Holding, InUse, Labels
<1>2. \A c \in Conns : Users(c)' = IF c = rconn[r] THEN Users(c) \ {r} ELSE Users(c)
  BY <1>1 DEF Users, InUse
<1>3. r \in Users(rconn[r])
  BY <1>1 DEF Users
<1>4. ASSUME NEW c \in Conns PROVE inFlight'[c] = Cardinality(Users(c)')
  BY <1>1, <1>2, <1>3, UsersFinite, FS_RemoveElement DEF InFlightExact
<1> QED BY <1>4 DEF InFlightExact

\* Every step keeps inFlight exact.
LEMMA CountStep ==
  ASSUME ConstantsAssumption, TypeInv, InFlightExact, [Next]_vars
  PROVE  InFlightExact'
<1>a. pc \in [Requests -> Labels] /\ rconn \in [Requests -> Conns \cup {NoConn}]
  BY DEF TypeInv, TypeOK, Labels
<1> USE <1>a, CountUnchanged DEF InUse, Goto, AtGetPool, AtSend, managerVars, poolVars,
    timeVars, connVars, goVars, callVars
<1>1. ASSUME NEW r \in Requests, GetPoolClosed(r) PROVE InFlightExact'
  BY <1>1 DEF GetPoolClosed
<1>2. ASSUME NEW r \in Requests, GetPoolHit(r) PROVE InFlightExact'
  BY <1>2 DEF GetPoolHit
<1>3. ASSUME NEW r \in Requests, NEW p \in Pools, GetPoolNew(r, p) PROVE InFlightExact'
  BY <1>3 DEF GetPoolNew
<1>4. ASSUME NEW r \in Requests, NEW c \in Conns, ScanHit(r, c) PROVE InFlightExact'
  BY <1>4 DEF ScanHit
<1>5. ASSUME NEW r \in Requests, MarkUsed(r) PROVE InFlightExact'
  BY <1>5 DEF MarkUsed
<1>6. ASSUME NEW r \in Requests, ScanMiss(r) PROVE InFlightExact'
  BY <1>6 DEF ScanMiss
<1>7. ASSUME NEW r \in Requests, Sweep(r) PROVE InFlightExact'
  BY <1>7 DEF Sweep
<1>8. ASSUME NEW r \in Requests, NEW c \in Conns, CreateConn(r, c) PROVE InFlightExact'
  BY <1>8 DEF CreateConn
<1>9. ASSUME NEW r \in Requests, CreateConnFailed(r) PROVE InFlightExact'
  BY <1>9 DEF CreateConnFailed
<1>10. ASSUME NEW r \in Requests, AppendConn(r) PROVE InFlightExact'
  BY <1>10 DEF AppendConn
<1>11. ASSUME NEW r \in Requests, Reject(r) PROVE InFlightExact'
  BY <1>11 DEF Reject
<1>12. ASSUME NEW r \in Requests, Send(r) PROVE InFlightExact'
  BY <1>12, CountAcquired
<1>13. ASSUME NEW r \in Requests, Headers(r) PROVE InFlightExact'
  BY <1>13 DEF Headers
<1>14. ASSUME NEW r \in Requests, Finish(r) PROVE InFlightExact'
  BY <1>14, CountReleased
<1>15. ASSUME NEW r \in Requests, ReadProgress(r) PROVE InFlightExact'
  BY <1>15 DEF ReadProgress
<1>16. ASSUME NEW r \in Requests, Abandon(r) PROVE InFlightExact'
  BY <1>16 DEF Abandon
<1>17. ASSUME NEW c \in Conns, RunRequestClose(c) PROVE InFlightExact'
  BY <1>17 DEF RunRequestClose
<1>18. ASSUME NEW x \in closing, RunClose(x) PROVE InFlightExact'
  BY <1>18 DEF RunClose
<1>19. ASSUME NEW p \in Pools, RunPoolClose(p) PROVE InFlightExact'
  BY <1>19 DEF RunPoolClose
<1>20. ASSUME Cleanup PROVE InFlightExact'
  BY <1>20 DEF Cleanup
<1>21. ASSUME NEW new \in Profiles, SetPreset(new) PROVE InFlightExact'
  BY <1>21 DEF SetPreset
<1>22. ASSUME NEW new \in Proxies, SetProxyBegin(new) PROVE InFlightExact'
  BY <1>22 DEF SetProxyBegin, CloseAllPools
<1>23. ASSUME NEW new \in Proxies, SetProxyEnd(new) PROVE InFlightExact'
  BY <1>23 DEF SetProxyEnd
<1>24. ASSUME CloseAllPoolsOnly PROVE InFlightExact'
  BY <1>24 DEF CloseAllPoolsOnly, CloseAllPools
<1>25. ASSUME Close PROVE InFlightExact'
  BY <1>25 DEF Close
<1>26. ASSUME NEW c \in Conns, NEW fact \in Expirations, Expire(c, fact) PROVE InFlightExact'
  BY <1>26 DEF Expire
<1>27. ASSUME NEW c \in Conns, Saturate(c) PROVE InFlightExact'
  BY <1>27 DEF Saturate
<1>28. ASSUME NEW c \in Conns, Unsaturate(c) PROVE InFlightExact'
  BY <1>28 DEF Unsaturate
<1>29. CASE UNCHANGED vars
  BY <1>29 DEF vars
<1> QED BY <1>1, <1>2, <1>3, <1>4, <1>5, <1>6, <1>7, <1>8, <1>9, <1>10, <1>11, <1>12, <1>13,
    <1>14, <1>15, <1>16, <1>17, <1>18, <1>19, <1>20, <1>21, <1>22, <1>23, <1>24, <1>25,
    <1>26, <1>27, <1>28, <1>29 DEF Next, Caller, Background, Operation, Peer

-----------------------------------------------------------------------------
(* Types.                                                                  *)

\* What the passes over the pools return.
LEMMA EvictTypes ==
  ASSUME TypeInv, NEW ps \in SUBSET Pools, Evict(ps)
  PROVE  /\ closing' \in SUBSET [conn : Conns, why : Reasons]
         /\ requesting' \in SUBSET Conns
         /\ connections' \in [Pools -> SUBSET Conns]
         /\ poolClosing' = poolClosing
BY DEF TypeInv, TypeOK, Evict, Closes, Reasons

\* Closing pools keeps the types.
LEMMA ClosePoolsTypes ==
  ASSUME TypeInv, NEW ps \in SUBSET Pools, ClosePools(ps)
  PROVE  /\ closing' \in SUBSET [conn : Conns, why : Reasons]
         /\ connections' \in [Pools -> SUBSET Conns]
BY SMTT(40) DEF TypeInv, TypeOK, ClosePools, Closes, Reasons

\* Every step preserves the types.
LEMMA TypeStep ==
  ASSUME ConstantsAssumption, TypeInv, InFlightExact, [Next]_vars
  PROVE  TypeInv'
<1>a. Mapped \in SUBSET Pools
  BY DEF Mapped, TypeInv, TypeOK
<1> USE ConstantsAssumption, <1>a DEF ConstantsAssumption, TypeInv, TypeOK, HoldsConn,
        Holding, InPool, Goto, Touch, Builds, managerVars, poolVars, timeVars, connVars, goVars, callVars
<1>1. ASSUME NEW r \in Requests, GetPoolClosed(r) PROVE TypeInv'
  BY <1>1 DEF GetPoolClosed, AtGetPool
<1>2. ASSUME NEW r \in Requests, GetPoolHit(r) PROVE TypeInv'
  BY <1>2 DEF GetPoolHit, AtGetPool
<1>3. ASSUME NEW r \in Requests, NEW p \in Pools, GetPoolNew(r, p) PROVE TypeInv'
  BY <1>3 DEF GetPoolNew, AtGetPool
<1>4. ASSUME NEW r \in Requests, NEW c \in Conns, ScanHit(r, c) PROVE TypeInv'
  BY <1>4 DEF ScanHit
<1>5. ASSUME NEW r \in Requests, MarkUsed(r) PROVE TypeInv'
  BY <1>5 DEF MarkUsed
<1>6. ASSUME NEW r \in Requests, ScanMiss(r) PROVE TypeInv'
  BY <1>6 DEF ScanMiss
<1>7. ASSUME NEW r \in Requests, Sweep(r) PROVE TypeInv'
  BY <1>7, EvictTypes DEF Sweep
<1>8. ASSUME NEW r \in Requests, NEW c \in Conns, CreateConn(r, c) PROVE TypeInv'
  BY <1>8 DEF CreateConn
<1>9. ASSUME NEW r \in Requests, CreateConnFailed(r) PROVE TypeInv'
  BY <1>9 DEF CreateConnFailed
<1>10. ASSUME NEW r \in Requests, AppendConn(r) PROVE TypeInv'
  BY <1>10 DEF AppendConn
<1>11. ASSUME NEW r \in Requests, Reject(r) PROVE TypeInv'
  BY <1>11 DEF Reject, AtSend
<1>12. ASSUME NEW r \in Requests, Send(r) PROVE TypeInv'
  BY <1>12 DEF Send, AtSend
<1>13. ASSUME NEW r \in Requests, Headers(r) PROVE TypeInv'
  BY <1>13 DEF Headers
<1>14. ASSUME NEW r \in Requests, Finish(r) PROVE TypeInv'
  BY <1>14, UserCounted DEF Finish, Release, InUse, Closes, Reasons
<1>15. ASSUME NEW r \in Requests, ReadProgress(r) PROVE TypeInv'
  BY <1>15 DEF ReadProgress
<1>16. ASSUME NEW r \in Requests, Abandon(r) PROVE TypeInv'
  BY <1>16 DEF Abandon
<1>17. ASSUME NEW c \in Conns, RunRequestClose(c) PROVE TypeInv'
  BY <1>17 DEF RunRequestClose, Closes, Reasons
<1>18. ASSUME NEW x \in closing, RunClose(x) PROVE TypeInv'
  BY <1>18 DEF RunClose
<1>19. ASSUME NEW p \in Pools, RunPoolClose(p) PROVE TypeInv'
  BY <1>19, ClosePoolsTypes DEF RunPoolClose
<1>20. ASSUME Cleanup PROVE TypeInv'
  BY <1>20, EvictTypes DEF Cleanup
<1>21. ASSUME NEW new \in Profiles, SetPreset(new) PROVE TypeInv'
  BY <1>21 DEF SetPreset
<1>22. ASSUME NEW new \in Proxies, SetProxyBegin(new) PROVE TypeInv'
  BY <1>22, ClosePoolsTypes DEF SetProxyBegin, CloseAllPools
<1>23. ASSUME NEW new \in Proxies, SetProxyEnd(new) PROVE TypeInv'
  BY <1>23 DEF SetProxyEnd
<1>24. ASSUME CloseAllPoolsOnly PROVE TypeInv'
  BY <1>24, ClosePoolsTypes DEF CloseAllPoolsOnly, CloseAllPools
<1>25. ASSUME Close PROVE TypeInv'
  BY <1>25, ClosePoolsTypes DEF Close
<1>26. ASSUME NEW c \in Conns, NEW fact \in Expirations, Expire(c, fact) PROVE TypeInv'
  BY <1>26 DEF Expire
<1>27. ASSUME NEW c \in Conns, Saturate(c) PROVE TypeInv'
  BY <1>27 DEF Saturate
<1>28. ASSUME NEW c \in Conns, Unsaturate(c) PROVE TypeInv'
  BY <1>28 DEF Unsaturate
<1>29. CASE UNCHANGED vars
  BY <1>29 DEF vars
<1> QED BY <1>1, <1>2, <1>3, <1>4, <1>5, <1>6, <1>7, <1>8, <1>9, <1>10, <1>11, <1>12, <1>13,
    <1>14, <1>15, <1>16, <1>17, <1>18, <1>19, <1>20, <1>21, <1>22, <1>23, <1>24, <1>25,
    <1>26, <1>27, <1>28, <1>29 DEF Next, Caller, Background, Operation, Peer

-----------------------------------------------------------------------------
(* Where a connection is.                                                  *)

\* No decision to close or to retire c is on its way.
Undecided(c) == c \notin closeRequested /\ c \notin requesting /\ ~ClosePending(c)

\* c is in no more than one pool.
OnePool(c) == \A p, q \in Pools : c \in connections[p] /\ c \in connections[q] => p = q

\* c is what one caller's createConn returned: in no pool yet, and untouched.
Fresh(c) ==
    \A r \in Requests : pc[r] = "append" /\ rconn[r] = c =>
        /\ cstate[c] = "open" /\ Undecided(c)
        /\ \A p \in Pools : c \notin connections[p]
        /\ \A q \in Requests : pc[q] = "append" /\ rconn[q] = c => q = r

\* A connection that is leaving and can still be found in a pool cannot be handed
\* out: it is old, or its close is deferred.
LeavesUnusable(c) ==
    /\ c \in requesting => c \in aged
    /\ ClosePending(c) /\ (\E p \in Pools : c \in connections[p]) =>
         c \in aged \/ c \in closeRequested

\* A connection not dialled yet is nowhere.
Untouched(c) ==
    cstate[c] = "none" =>
        /\ Undecided(c)
        /\ \A p \in Pools : c \notin connections[p]
        /\ \A r \in Requests : pc[r] \in Holding => rconn[r] # c

\* ConnTracked, for one connection.
Tracked(c) ==
    cstate[c] = "open" =>
        \/ \E p \in Pools : c \in connections[p]
        \/ ClosePending(c)
        \/ \E r \in Requests : pc[r] = "append" /\ rconn[r] = c

ConnInv(c) == OnePool(c) /\ Fresh(c) /\ LeavesUnusable(c) /\ Untouched(c) /\ Tracked(c)

PoolInv == \A c \in Conns : ConnInv(c)

\* Starting closes of the connections in S makes exactly those pending as well.
LEMMA ClosingAdds ==
  ASSUME NEW S, NEW why, closing' = closing \cup Closes(S, why)
  PROVE  \A c : ClosePending(c)' <=> ClosePending(c) \/ c \in S
<1> TAKE c
<1>1. ASSUME NEW x \in Closes(S, why), x.conn = c PROVE c \in S
  BY <1>1 DEF Closes
<1>2. ASSUME c \in S PROVE [conn |-> c, why |-> why] \in Closes(S, why)
  BY <1>2 DEF Closes
<1>3. ASSUME c \in S PROVE \E x \in closing' : x.conn = c
  BY <1>2, <1>3
<1> QED BY <1>1, <1>3 DEF ClosePending

\* The pending closes depend on closing only.
LEMMA ClosingSame ==
  ASSUME closing' = closing
  PROVE  \A c : ClosePending(c)' <=> ClosePending(c)
BY DEF ClosePending

\* A close that has run is pending no more, unless another goroutine has one too.
LEMMA RunCloseMoves ==
  ASSUME TypeInv, NEW x \in closing, RunClose(x), NEW c \in Conns
  PROVE  /\ ClosePending(c)' => ClosePending(c)
         /\ c = x.conn => ClosePending(c)
         /\ c # x.conn => (ClosePending(c)' <=> ClosePending(c))
         /\ cstate'[c] = IF c = x.conn THEN "closed" ELSE cstate[c]
BY DEF RunClose, ClosePending, TypeInv, TypeOK

\* release() starts a close when it is the last one on a deferred close.
LEMMA ReleaseCloses ==
  ASSUME NEW d, Release(d)
  PROVE  \A c : ClosePending(c)' <=>
            ClosePending(c) \/ (c = d /\ d \in closeRequested /\ inFlight[d] <= 1)
<1>1. CASE d \in closeRequested /\ inFlight[d] <= 1
  <2>1. closing' = closing \cup Closes({d}, "evict")
    BY <1>1 DEF Release
  <2> QED BY <1>1, <2>1, ClosingAdds
<1>2. CASE ~(d \in closeRequested /\ inFlight[d] <= 1)
  <2>1. closing' = closing
    BY <1>2 DEF Release
  <2> QED BY <1>2, <2>1, ClosingSame
<1> QED BY <1>1, <1>2

\* requestClose() defers, or starts a close.
LEMMA RequestCloses ==
  ASSUME TypeInv, NEW d \in Conns, RunRequestClose(d)
  PROVE  \A c : ClosePending(c)' <=> ClosePending(c) \/ (c = d /\ inFlight[d] = 0)
<1>1. CASE inFlight[d] > 0
  BY <1>1, ClosingSame DEF RunRequestClose, TypeInv, TypeOK
<1>2. CASE ~(inFlight[d] > 0)
  <2>1. inFlight[d] = 0
    BY <1>2 DEF TypeInv, TypeOK
  <2>2. closing' = closing \cup Closes({d}, "evict")
    BY <1>2 DEF RunRequestClose
  <2> QED BY <2>1, <2>2, ClosingAdds
<1> QED BY <1>1, <1>2

\* c is in one of the pools ps.
Found(c, ps) == \E p \in ps : c \in connections[p]

\* What the pass of GetConn and CloseIdle does to one connection.
LEMMA EvictMoves ==
  ASSUME TypeInv, NEW ps \in SUBSET Pools, Evict(ps), NEW c \in Conns
  PROVE  /\ ClosePending(c)' <=>
              ClosePending(c) \/ (Found(c, ps) /\ Destroyable(c) /\ cstate[c] = "open")
         /\ c \in requesting' <=>
              c \in requesting \/ (Found(c, ps) /\ ~Destroyable(c) /\ Retirable(c))
         /\ \A p \in Pools : c \in connections'[p] <=>
              c \in connections[p] /\ ~(Found(c, ps) /\ Destroyable(c))
<1> DEFINE swept  == UNION {connections[p] : p \in ps}
           doomed == {d \in swept : Destroyable(d)}
           S == doomed \cap Forsaken
           T == {d \in doomed \ Forsaken : cstate[d] = "open"}
<1>1. c \in swept <=> Found(c, ps)
  BY DEF Found
<1>2. /\ closing' = (closing \cup Closes(S, "abandoned")) \cup Closes(T, "evict")
      /\ requesting' = requesting \cup {d \in swept \ doomed : Retirable(d)}
      /\ connections' = [p \in Pools |-> connections[p] \ doomed]
  BY DEF Evict
<1>3. c \in S \/ c \in T <=> c \in swept /\ Destroyable(c) /\ cstate[c] = "open"
  BY DEF Forsaken
<1> HIDE DEF S, T, swept
<1>4. (\E x \in closing' : x.conn = c) <=> ClosePending(c) \/ c \in S \/ c \in T
  <2>1. ASSUME NEW U, NEW why PROVE (\E x \in Closes(U, why) : x.conn = c) <=> c \in U
    <3>1. ASSUME c \in U PROVE [conn |-> c, why |-> why] \in Closes(U, why)
      BY <3>1 DEF Closes
    <3> QED BY <3>1 DEF Closes
  <2> QED BY <1>2, <2>1 DEF ClosePending
<1> QED BY <1>1, <1>2, <1>3, <1>4 DEF ClosePending

\* What HostPool.Close does to one connection.
LEMMA ClosePoolsMoves ==
  ASSUME TypeInv, NEW ps \in SUBSET Pools, ClosePools(ps), NEW c \in Conns
  PROVE  /\ ClosePending(c)' <=> ClosePending(c) \/ Found(c, ps)
         /\ \A p \in Pools : c \in connections'[p] <=> c \in connections[p] /\ p \notin ps
<1>1. closing' = closing \cup Closes(UNION {connections[p] : p \in ps}, "forced")
  BY DEF ClosePools
<1>2. c \in UNION {connections[p] : p \in ps} <=> Found(c, ps)
  BY DEF Found
<1>3. \A p \in Pools : c \in connections'[p] <=> c \in connections[p] /\ p \notin ps
  BY DEF ClosePools
<1> QED BY <1>1, <1>2, <1>3, ClosingAdds

\* Every step keeps each connection where it may be.
LEMMA PoolStep ==
  ASSUME ConstantsAssumption, TypeInv, PoolInv, [Next]_vars
  PROVE  PoolInv'
<1> SUFFICES ASSUME NEW d \in Conns PROVE ConnInv(d)'
  BY DEF PoolInv
<1>a. /\ pc \in [Requests -> Labels] /\ rconn \in [Requests -> Conns \cup {NoConn}]
      /\ connections \in [Pools -> SUBSET Conns] /\ requesting \in SUBSET Conns
      /\ cstate \in [Conns -> {"none", "open", "closed"}]
      /\ \A r \in Requests : /\ pc[r] \in InPool => rpool[r] \in Pools
                             /\ pc[r] \in Holding => rconn[r] \in Conns
  BY DEF TypeInv, TypeOK, HoldsConn, Labels
<1>b. ConnInv(d) /\ Mapped \in SUBSET Pools
  BY DEF PoolInv, Mapped, TypeInv, TypeOK
<1> USE <1>a, <1>b, ClosingSame
        DEF ConnInv, OnePool, Fresh, Undecided, LeavesUnusable, Untouched, Tracked,
        Holding, InPool, Labels, Goto, AtGetPool, AtSend, managerVars, poolVars, timeVars, connVars, goVars, callVars
<1>1. ASSUME NEW r \in Requests, GetPoolClosed(r) PROVE ConnInv(d)'
  BY <1>1 DEF GetPoolClosed
<1>2. ASSUME NEW r \in Requests, GetPoolHit(r) PROVE ConnInv(d)'
  BY <1>2 DEF GetPoolHit
<1>3. ASSUME NEW r \in Requests, NEW p \in Pools, GetPoolNew(r, p) PROVE ConnInv(d)'
  BY <1>3 DEF GetPoolNew
<1>4. ASSUME NEW r \in Requests, NEW c \in Conns, ScanHit(r, c) PROVE ConnInv(d)'
  BY <1>4 DEF ScanHit
<1>5. ASSUME NEW r \in Requests, MarkUsed(r) PROVE ConnInv(d)'
  BY <1>5 DEF MarkUsed, Touch
<1>6. ASSUME NEW r \in Requests, ScanMiss(r) PROVE ConnInv(d)'
  BY <1>6 DEF ScanMiss
<1>7. ASSUME NEW r \in Requests, Sweep(r) PROVE ConnInv(d)'
  BY <1>7, EvictMoves DEF Sweep, Found, Retirable, Destroyable
<1>8. ASSUME NEW r \in Requests, NEW c \in Conns, CreateConn(r, c) PROVE ConnInv(d)'
  BY <1>8 DEF CreateConn
<1>9. ASSUME NEW r \in Requests, CreateConnFailed(r) PROVE ConnInv(d)'
  BY <1>9 DEF CreateConnFailed
<1>10. ASSUME NEW r \in Requests, AppendConn(r) PROVE ConnInv(d)'
  BY <1>10 DEF AppendConn
<1>11. ASSUME NEW r \in Requests, Reject(r) PROVE ConnInv(d)'
  BY <1>11 DEF Reject
<1>12. ASSUME NEW r \in Requests, Send(r) PROVE ConnInv(d)'
  BY <1>12 DEF Send, Touch
<1>13. ASSUME NEW r \in Requests, Headers(r) PROVE ConnInv(d)'
  BY <1>13 DEF Headers, Touch
<1>14. ASSUME NEW r \in Requests, Finish(r) PROVE ConnInv(d)'
  <2>0. ClosePending(d)' => ClosePending(d) \/ d \in closeRequested
    BY <1>14, ReleaseCloses DEF Finish
  <2>4. ClosePending(d) => ClosePending(d)'
    BY <1>14, ReleaseCloses DEF Finish
  <2>1. /\ UNCHANGED <<connections, requesting, closeRequested, cstate, aged, rconn>>
        /\ pc' = [pc EXCEPT ![r] = "done"]
    BY <1>14 DEF Finish, Release, Touch
  <2>2. \A q \in Requests : pc'[q] = IF q = r THEN "done" ELSE pc[q]
    BY <2>1
  <2>3. pc[r] # "append"
    BY <1>14 DEF Finish
  <2> QED BY <2>0, <2>1, <2>2, <2>3, <2>4
<1>15. ASSUME NEW r \in Requests, ReadProgress(r) PROVE ConnInv(d)'
  BY <1>15 DEF ReadProgress
<1>16. ASSUME NEW r \in Requests, Abandon(r) PROVE ConnInv(d)'
  BY <1>16 DEF Abandon
<1>17. ASSUME NEW c \in Conns, RunRequestClose(c) PROVE ConnInv(d)'
  BY <1>17, RequestCloses DEF RunRequestClose
<1>18. ASSUME NEW x \in closing, RunClose(x) PROVE ConnInv(d)'
  BY <1>18, RunCloseMoves DEF RunClose
<1>19. ASSUME NEW p \in Pools, RunPoolClose(p) PROVE ConnInv(d)'
  BY <1>19, ClosePoolsMoves DEF RunPoolClose, Found
<1>20. ASSUME Cleanup PROVE ConnInv(d)'
  BY <1>20, EvictMoves DEF Cleanup, Found, Retirable, Destroyable
<1>21. ASSUME NEW new \in Profiles, SetPreset(new) PROVE ConnInv(d)'
  BY <1>21 DEF SetPreset
<1>22. ASSUME NEW new \in Proxies, SetProxyBegin(new) PROVE ConnInv(d)'
  BY <1>22, ClosePoolsMoves DEF SetProxyBegin, CloseAllPools, Found
<1>23. ASSUME NEW new \in Proxies, SetProxyEnd(new) PROVE ConnInv(d)'
  BY <1>23 DEF SetProxyEnd
<1>24. ASSUME CloseAllPoolsOnly PROVE ConnInv(d)'
  BY <1>24, ClosePoolsMoves DEF CloseAllPoolsOnly, CloseAllPools, Found
<1>25. ASSUME Close PROVE ConnInv(d)'
  BY <1>25, ClosePoolsMoves DEF Close, Found
<1>26. ASSUME NEW c \in Conns, NEW fact \in Expirations, Expire(c, fact) PROVE ConnInv(d)'
  BY <1>26 DEF Expire
<1>27. ASSUME NEW c \in Conns, Saturate(c) PROVE ConnInv(d)'
  BY <1>27 DEF Saturate
<1>28. ASSUME NEW c \in Conns, Unsaturate(c) PROVE ConnInv(d)'
  BY <1>28 DEF Unsaturate
<1>29. CASE UNCHANGED vars
  BY <1>29 DEF vars
<1> QED BY <1>1, <1>2, <1>3, <1>4, <1>5, <1>6, <1>7, <1>8, <1>9, <1>10, <1>11, <1>12, <1>13,
    <1>14, <1>15, <1>16, <1>17, <1>18, <1>19, <1>20, <1>21, <1>22, <1>23, <1>24, <1>25,
    <1>26, <1>27, <1>28, <1>29 DEF Next, Caller, Background, Operation, Peer

-----------------------------------------------------------------------------
(* The retry, and the preset of the pools.                                 *)

\* A connection that rejected a caller is out of its reach for good.
RetryInv ==
    \A r \in Requests :
        /\ rejectedBy[r] \in Conns => Retired(rejectedBy[r])
        /\ pc[r] \in {"mark", "append", "first", "send", "sent"} => rconn[r] # rejectedBy[r]

\* Every step keeps the connection that rejected a caller out of its reach.
LEMMA RetryStep ==
  ASSUME ConstantsAssumption, TypeInv, PoolInv, RetryInv, [Next]_vars
  PROVE  RetryInv'
<1>a. /\ pc \in [Requests -> Labels] /\ rconn \in [Requests -> Conns \cup {NoConn}]
      /\ rejectedBy \in [Requests -> Conns \cup {NoConn}]
      /\ closeRequested \in SUBSET Conns /\ NoConn \notin Conns
      /\ cstate \in [Conns -> {"none", "open", "closed"}]
      /\ \A r \in Requests : pc[r] \in Holding => rconn[r] \in Conns
      /\ \A c \in Conns : cstate[c] = "none" => c \notin closeRequested
  BY DEF TypeInv, TypeOK, HoldsConn, Labels, ConstantsAssumption, PoolInv, ConnInv, Untouched,
         Undecided
<1> USE <1>a DEF RetryInv, Retired, Holding, Labels, Goto, AtGetPool, AtSend, managerVars,
    poolVars, timeVars, connVars, goVars, callVars
<1>1. ASSUME NEW r \in Requests, GetPoolClosed(r) PROVE RetryInv'
  BY <1>1 DEF GetPoolClosed
<1>2. ASSUME NEW r \in Requests, GetPoolHit(r) PROVE RetryInv'
  BY <1>2 DEF GetPoolHit
<1>3. ASSUME NEW r \in Requests, NEW p \in Pools, GetPoolNew(r, p) PROVE RetryInv'
  BY <1>3 DEF GetPoolNew
<1>4. ASSUME NEW r \in Requests, NEW c \in Conns, ScanHit(r, c) PROVE RetryInv'
  BY <1>4 DEF ScanHit, Usable
<1>5. ASSUME NEW r \in Requests, MarkUsed(r) PROVE RetryInv'
  BY <1>5 DEF MarkUsed
<1>6. ASSUME NEW r \in Requests, ScanMiss(r) PROVE RetryInv'
  BY <1>6 DEF ScanMiss
<1>7. ASSUME NEW r \in Requests, Sweep(r) PROVE RetryInv'
  BY <1>7 DEF Sweep
<1>8. ASSUME NEW r \in Requests, NEW c \in Conns, CreateConn(r, c) PROVE RetryInv'
  BY <1>8 DEF CreateConn
<1>9. ASSUME NEW r \in Requests, CreateConnFailed(r) PROVE RetryInv'
  BY <1>9 DEF CreateConnFailed
<1>10. ASSUME NEW r \in Requests, AppendConn(r) PROVE RetryInv'
  BY <1>10 DEF AppendConn
<1>11. ASSUME NEW r \in Requests, Reject(r) PROVE RetryInv'
  BY <1>11 DEF Reject
<1>12. ASSUME NEW r \in Requests, Send(r) PROVE RetryInv'
  BY <1>12 DEF Send
<1>13. ASSUME NEW r \in Requests, Headers(r) PROVE RetryInv'
  BY <1>13 DEF Headers
<1>14. ASSUME NEW r \in Requests, Finish(r) PROVE RetryInv'
  BY <1>14 DEF Finish, Release
<1>15. ASSUME NEW r \in Requests, ReadProgress(r) PROVE RetryInv'
  BY <1>15 DEF ReadProgress
<1>16. ASSUME NEW r \in Requests, Abandon(r) PROVE RetryInv'
  BY <1>16 DEF Abandon
<1>17. ASSUME NEW c \in Conns, RunRequestClose(c) PROVE RetryInv'
  BY <1>17 DEF RunRequestClose
<1>18. ASSUME NEW x \in closing, RunClose(x) PROVE RetryInv'
  BY <1>18 DEF RunClose, TypeInv, TypeOK
<1>19. ASSUME NEW p \in Pools, RunPoolClose(p) PROVE RetryInv'
  BY <1>19 DEF RunPoolClose
<1>20. ASSUME Cleanup PROVE RetryInv'
  BY <1>20 DEF Cleanup
<1>21. ASSUME NEW new \in Profiles, SetPreset(new) PROVE RetryInv'
  BY <1>21 DEF SetPreset
<1>22. ASSUME NEW new \in Proxies, SetProxyBegin(new) PROVE RetryInv'
  BY <1>22 DEF SetProxyBegin, CloseAllPools
<1>23. ASSUME NEW new \in Proxies, SetProxyEnd(new) PROVE RetryInv'
  BY <1>23 DEF SetProxyEnd
<1>24. ASSUME CloseAllPoolsOnly PROVE RetryInv'
  BY <1>24 DEF CloseAllPoolsOnly, CloseAllPools
<1>25. ASSUME Close PROVE RetryInv'
  BY <1>25 DEF Close
<1>26. ASSUME NEW c \in Conns, NEW fact \in Expirations, Expire(c, fact) PROVE RetryInv'
  BY <1>26 DEF Expire
<1>27. ASSUME NEW c \in Conns, Saturate(c) PROVE RetryInv'
  BY <1>27 DEF Saturate
<1>28. ASSUME NEW c \in Conns, Unsaturate(c) PROVE RetryInv'
  BY <1>28 DEF Unsaturate
<1>29. CASE UNCHANGED vars
  BY <1>29 DEF vars
<1> QED BY <1>1, <1>2, <1>3, <1>4, <1>5, <1>6, <1>7, <1>8, <1>9, <1>10, <1>11, <1>12, <1>13,
    <1>14, <1>15, <1>16, <1>17, <1>18, <1>19, <1>20, <1>21, <1>22, <1>23, <1>24, <1>25,
    <1>26, <1>27, <1>28, <1>29 DEF Next, Caller, Background, Operation, Peer

\* Every step keeps the pools of the manager on its preset.
LEMMA ProfileStep ==
  ASSUME ConstantsAssumption, TypeInv, ProfileCurrent, [Next]_vars
  PROVE  ProfileCurrent'
<1>a. KeyOf \in [Requests -> Keys] /\ NoPool \notin Pools
      /\ pools \in [Keys -> Pools \cup {NoPool}] /\ builtWith \in [Pools -> Builds]
  BY DEF TypeInv, TypeOK, ConstantsAssumption
<1> USE <1>a DEF ProfileCurrent, Mapped, managerVars, poolVars, timeVars, connVars, goVars,
    callVars
<1>1. ASSUME NEW r \in Requests, GetPoolClosed(r) PROVE ProfileCurrent'
  BY <1>1 DEF GetPoolClosed
<1>2. ASSUME NEW r \in Requests, GetPoolHit(r) PROVE ProfileCurrent'
  BY <1>2 DEF GetPoolHit
<1>3. ASSUME NEW r \in Requests, NEW p \in Pools, GetPoolNew(r, p) PROVE ProfileCurrent'
  BY <1>3 DEF GetPoolNew
<1>4. ASSUME NEW r \in Requests, NEW c \in Conns, ScanHit(r, c) PROVE ProfileCurrent'
  BY <1>4 DEF ScanHit
<1>5. ASSUME NEW r \in Requests, MarkUsed(r) PROVE ProfileCurrent'
  BY <1>5 DEF MarkUsed
<1>6. ASSUME NEW r \in Requests, ScanMiss(r) PROVE ProfileCurrent'
  BY <1>6 DEF ScanMiss
<1>7. ASSUME NEW r \in Requests, Sweep(r) PROVE ProfileCurrent'
  BY <1>7 DEF Sweep
<1>8. ASSUME NEW r \in Requests, NEW c \in Conns, CreateConn(r, c) PROVE ProfileCurrent'
  BY <1>8 DEF CreateConn
<1>9. ASSUME NEW r \in Requests, CreateConnFailed(r) PROVE ProfileCurrent'
  BY <1>9 DEF CreateConnFailed
<1>10. ASSUME NEW r \in Requests, AppendConn(r) PROVE ProfileCurrent'
  BY <1>10 DEF AppendConn
<1>11. ASSUME NEW r \in Requests, Reject(r) PROVE ProfileCurrent'
  BY <1>11 DEF Reject
<1>12. ASSUME NEW r \in Requests, Send(r) PROVE ProfileCurrent'
  BY <1>12 DEF Send
<1>13. ASSUME NEW r \in Requests, Headers(r) PROVE ProfileCurrent'
  BY <1>13 DEF Headers
<1>14. ASSUME NEW r \in Requests, Finish(r) PROVE ProfileCurrent'
  BY <1>14 DEF Finish
<1>15. ASSUME NEW r \in Requests, ReadProgress(r) PROVE ProfileCurrent'
  BY <1>15 DEF ReadProgress
<1>16. ASSUME NEW r \in Requests, Abandon(r) PROVE ProfileCurrent'
  BY <1>16 DEF Abandon
<1>17. ASSUME NEW c \in Conns, RunRequestClose(c) PROVE ProfileCurrent'
  BY <1>17 DEF RunRequestClose
<1>18. ASSUME NEW x \in closing, RunClose(x) PROVE ProfileCurrent'
  BY <1>18 DEF RunClose
<1>19. ASSUME NEW p \in Pools, RunPoolClose(p) PROVE ProfileCurrent'
  BY <1>19 DEF RunPoolClose
<1>20. ASSUME Cleanup PROVE ProfileCurrent'
  BY <1>20 DEF Cleanup
<1>21. ASSUME NEW new \in Profiles, SetPreset(new) PROVE ProfileCurrent'
  BY <1>21 DEF SetPreset
<1>22. ASSUME NEW new \in Proxies, SetProxyBegin(new) PROVE ProfileCurrent'
  BY <1>22 DEF SetProxyBegin, CloseAllPools
<1>23. ASSUME NEW new \in Proxies, SetProxyEnd(new) PROVE ProfileCurrent'
  BY <1>23 DEF SetProxyEnd
<1>24. ASSUME CloseAllPoolsOnly PROVE ProfileCurrent'
  BY <1>24 DEF CloseAllPoolsOnly, CloseAllPools
<1>25. ASSUME Close PROVE ProfileCurrent'
  BY <1>25 DEF Close
<1>26. ASSUME NEW c \in Conns, NEW fact \in Expirations, Expire(c, fact) PROVE ProfileCurrent'
  BY <1>26 DEF Expire
<1>27. ASSUME NEW c \in Conns, Saturate(c) PROVE ProfileCurrent'
  BY <1>27 DEF Saturate
<1>28. ASSUME NEW c \in Conns, Unsaturate(c) PROVE ProfileCurrent'
  BY <1>28 DEF Unsaturate
<1>29. CASE UNCHANGED vars
  BY <1>29 DEF vars
<1> QED BY <1>1, <1>2, <1>3, <1>4, <1>5, <1>6, <1>7, <1>8, <1>9, <1>10, <1>11, <1>12, <1>13,
    <1>14, <1>15, <1>16, <1>17, <1>18, <1>19, <1>20, <1>21, <1>22, <1>23, <1>24, <1>25,
    <1>26, <1>27, <1>28, <1>29 DEF Next, Caller, Background, Operation, Peer

-----------------------------------------------------------------------------
(* The inductive invariant, and what follows from it.                      *)

IInv == TypeInv /\ PoolInv /\ InFlightExact /\ RetryInv /\ ProfileCurrent

\* IInv holds initially.
LEMMA InitIInv == Init => IInv
<1> SUFFICES ASSUME Init PROVE IInv
  OBVIOUS
<1> USE ConstantsAssumption DEF ConstantsAssumption, Init
<1>1. TypeInv
  <2>1. TypeOK
    BY DEF TypeOK, Builds, Reasons
  <2>2. HoldsConn
    BY DEF HoldsConn, Holding, InPool
  <2> QED BY <2>1, <2>2 DEF TypeInv
<1>2. PoolInv
  BY DEF PoolInv, ConnInv, OnePool, Fresh, LeavesUnusable, Untouched, Undecided, Tracked,
         ClosePending, Holding
<1>3. InFlightExact
  <2>1. \A c \in Conns : Users(c) = {}
    BY DEF Users, InUse
  <2> QED BY <2>1, FS_EmptySet DEF InFlightExact
<1>4. RetryInv
  BY DEF RetryInv
<1>5. ProfileCurrent
  BY DEF ProfileCurrent, Mapped
<1> QED BY <1>1, <1>2, <1>3, <1>4, <1>5 DEF IInv

\* Every step keeps IInv.
LEMMA IInvStep ==
  ASSUME IInv, [Next]_vars
  PROVE  IInv'
BY ConstantsAssumption, TypeStep, PoolStep, CountStep, RetryStep, ProfileStep DEF IInv

\* IInv holds in every reachable state.
LEMMA Inductive == Spec => []IInv
<1>1. IInv /\ [Next]_vars => IInv'
  BY IInvStep
<1> QED BY InitIInv, <1>1, PTL DEF Spec

\* A connection in a pool that some goroutine is about to retire or to close is
\* too old or already retired, so isConnUsable refuses it.
LEMMA LeavingRefused == ASSUME IInv PROVE HandsOutLive
<1> SUFFICES ASSUME NEW p \in Pools, NEW c \in connections[p], Usable(c)
             PROVE  c \notin requesting /\ ~ClosePending(c)
  BY DEF HandsOutLive
<1>1. c \in Conns
  BY DEF IInv, TypeInv, TypeOK
<1> QED BY <1>1 DEF IInv, PoolInv, ConnInv, LeavesUnusable, Usable

\* IInv is strong enough.
LEMMA IInvSound == ASSUME IInv PROVE HostPoolSound
<1>1. TypeOK /\ InFlightExact
  BY DEF IInv, TypeInv
<1>2. ConnTracked
  BY DEF IInv, PoolInv, ConnInv, Tracked, ConnTracked
<1>3. RetryGetsFresh
  BY DEF IInv, RetryInv, RetryGetsFresh
<1> QED BY <1>1, <1>2, <1>3, LeavingRefused DEF HostPoolSound

\* Whatever dials, sweeps, cleanup ticks, deferred closes, switches of preset or
\* proxy and shutdowns interleave: the in-use count of a connection is exact, an
\* open connection is always in a pool, about to join one or about to be closed,
\* GetConn never hands out a connection that is on its way out, and a retry
\* after ErrConnRetired never gets the connection that refused the first attempt.
THEOREM HostPoolSafe == Spec => []HostPoolSound
<1>1. IInv => HostPoolSound
  BY IInvSound
<1> QED BY <1>1, Inductive, PTL

\* No pool the manager has was built from an old preset, however SetPreset,
\* SetProxy, CloseAllPools and Close race with requests, and none hands out a
\* connection that is being closed.
THEOREM SwitchSafe == Spec => []SwitchSound
<1>1. IInv => SwitchSound
  BY LeavingRefused DEF IInv, SwitchSound
<1> QED BY <1>1, Inductive, PTL

-----------------------------------------------------------------------------
(* The pool keeps the promise of ConnLease.                                *)

\* The stage of a connection, one fact for each of its values.
LEMMA StageIs ==
  ASSUME NEW c
  PROVE  /\ cstate[c] # "open" => LeaseStage(c) = cstate[c]
         /\ cstate[c] = "open" /\ ClosePending(c) => LeaseStage(c) = "condemned"
         /\ cstate[c] = "open" /\ ~ClosePending(c) /\ c \in closeRequested
               => LeaseStage(c) = "retired"
         /\ cstate[c] = "open" /\ ~ClosePending(c) /\ c \notin closeRequested
               => LeaseStage(c) = "open"
BY DEF LeaseStage

\* The same of the next state.
LEMMA StageBecomes ==
  ASSUME NEW c
  PROVE  /\ cstate'[c] # "open" => LeaseStage(c)' = cstate'[c]
         /\ cstate'[c] = "open" /\ ClosePending(c)' => LeaseStage(c)' = "condemned"
         /\ cstate'[c] = "open" /\ ~ClosePending(c)' /\ c \in closeRequested'
               => LeaseStage(c)' = "retired"
         /\ cstate'[c] = "open" /\ ~ClosePending(c)' /\ c \notin closeRequested'
               => LeaseStage(c)' = "open"
BY DEF LeaseStage

\* A close that an ordered shutdown started is pending.
Ordered(c) == \E x \in closing : x.conn = c /\ x.why = "forced"

\* The steps of ConnLease, in the terms of the pool.
LEMMA LeaseSteps ==
  ASSUME NEW c \in Conns,
         \/ LeaseStage(c) = "none" /\ LeaseStage(c)' = "open" /\ inFlight'[c] = 0
         \/ /\ LeaseStage(c) \in {"open", "condemned"} /\ LeaseStage(c)' = LeaseStage(c)
            /\ inFlight'[c] = inFlight[c] + 1
         \/ /\ inFlight[c] > 0 /\ inFlight'[c] = inFlight[c] - 1
            /\ IF LeaseStage(c) \in {"retired", "condemned"} /\ inFlight[c] = 1
               THEN LeaseStage(c)' = "condemned" ELSE LeaseStage(c)' = LeaseStage(c)
         \/ /\ LeaseStage(c) = "open" /\ LeaseStage(c)' = "retired"
            /\ inFlight[c] > 0 /\ inFlight'[c] = inFlight[c]
         \/ /\ LeaseStage(c) \in {"open", "retired"} /\ LeaseStage(c)' = "condemned"
            /\ inFlight'[c] = inFlight[c]
            /\ inFlight[c] = 0 \/ Ordered(c)' \/ c \in stalled
         \/ /\ LeaseStage(c) = "condemned" /\ LeaseStage(c)' = "closed"
            /\ inFlight'[c] = inFlight[c]
         \/ LeaseStage(c)' = LeaseStage(c) /\ inFlight'[c] = inFlight[c]
  PROVE  Lease!LeaseStep(c)
BY DEF Lease!LeaseStep, Lease!Open, Lease!Lend, Lease!GiveBack, Lease!Retire, Lease!Condemn,
       Lease!End, Lease!Moves, Lease!Holds, Ordered

\* A connection that a step leaves alone.
LEMMA LeaseFrame ==
  ASSUME NEW c \in Conns, cstate'[c] = cstate[c], inFlight'[c] = inFlight[c],
         c \in closeRequested' <=> c \in closeRequested, ClosePending(c)' <=> ClosePending(c)
  PROVE  Lease!LeaseStep(c)
BY StageIs, StageBecomes, LeaseSteps

\* A connection whose close a step starts.
LEMMA LeaseCondemned ==
  ASSUME TypeInv, NEW c \in Conns, cstate' = cstate, inFlight' = inFlight,
         closeRequested' = closeRequested, ClosePending(c)',
         cstate[c] = "open" /\ ~ClosePending(c) =>
            inFlight[c] = 0 \/ Ordered(c)' \/ c \in stalled
  PROVE  Lease!LeaseStep(c)
<1>1. CASE cstate[c] = "open" /\ ~ClosePending(c)
  BY <1>1, StageIs, StageBecomes, LeaseSteps
<1>2. CASE ~(cstate[c] = "open" /\ ~ClosePending(c))
  <2>1. LeaseStage(c)' = LeaseStage(c)
    BY <1>2, StageIs, StageBecomes
  <2> QED BY <2>1, LeaseSteps
<1> QED BY <1>1, <1>2

\* HostPool.Close condemns the connections it finds, by order.
LEMMA LeaseClosePools ==
  ASSUME TypeInv, NEW ps \in SUBSET Pools, ClosePools(ps), NEW c \in Conns,
         UNCHANGED <<cstate, inFlight, closeRequested>>
  PROVE  Lease!LeaseStep(c)
<1>1. CASE Found(c, ps)
  <2>1. [conn |-> c, why |-> "forced"] \in closing'
    BY <1>1 DEF ClosePools, Closes, Found
  <2>2. Ordered(c)'
    BY <2>1 DEF Ordered
  <2> QED BY <1>1, <2>2, ClosePoolsMoves, LeaseCondemned
<1>2. CASE ~Found(c, ps)
  BY <1>2, ClosePoolsMoves, LeaseFrame
<1> QED BY <1>1, <1>2

\* An evicting pass condemns what nobody uses and what was abandoned.
LEMMA LeaseEvict ==
  ASSUME TypeInv, NEW ps \in SUBSET Pools, Evict(ps), NEW c \in Conns,
         UNCHANGED <<cstate, inFlight, closeRequested>>
  PROVE  Lease!LeaseStep(c)
<1>1. CASE Found(c, ps) /\ Destroyable(c) /\ cstate[c] = "open"
  <2>1. inFlight[c] = 0 \/ c \in stalled
    BY <1>1 DEF Destroyable, TypeInv, TypeOK
  <2>2. ClosePending(c)'
    BY <1>1, EvictMoves
  <2> QED BY <2>1, <2>2, LeaseCondemned
<1>2. CASE ~(Found(c, ps) /\ Destroyable(c) /\ cstate[c] = "open")
  BY <1>2, EvictMoves, LeaseFrame
<1> QED BY <1>1, <1>2

\* Every step of the pool is a step of ConnLease for each connection.
LEMMA LeaseStepEach ==
  ASSUME ConstantsAssumption, IInv, [Next]_vars, NEW d \in Conns
  PROVE  Lease!LeaseStep(d)
<1>a. /\ TypeInv /\ InFlightExact /\ ConnInv(d) /\ Mapped \in SUBSET Pools
      /\ cstate \in [Conns -> {"none", "open", "closed"}] /\ inFlight \in [Conns -> Nat]
  BY DEF IInv, PoolInv, Mapped, TypeInv, TypeOK
<1> USE <1>a, ClosingSame, LeaseFrame DEF managerVars, poolVars, timeVars, connVars, goVars,
    callVars
<1>1. ASSUME NEW r \in Requests, GetPoolClosed(r) PROVE Lease!LeaseStep(d)
  BY <1>1 DEF GetPoolClosed
<1>2. ASSUME NEW r \in Requests, GetPoolHit(r) PROVE Lease!LeaseStep(d)
  BY <1>2 DEF GetPoolHit
<1>3. ASSUME NEW r \in Requests, NEW p \in Pools, GetPoolNew(r, p) PROVE Lease!LeaseStep(d)
  BY <1>3 DEF GetPoolNew
<1>4. ASSUME NEW r \in Requests, NEW c \in Conns, ScanHit(r, c) PROVE Lease!LeaseStep(d)
  BY <1>4 DEF ScanHit
<1>5. ASSUME NEW r \in Requests, MarkUsed(r) PROVE Lease!LeaseStep(d)
  BY <1>5 DEF MarkUsed
<1>6. ASSUME NEW r \in Requests, ScanMiss(r) PROVE Lease!LeaseStep(d)
  BY <1>6 DEF ScanMiss
<1>7. ASSUME NEW r \in Requests, Sweep(r) PROVE Lease!LeaseStep(d)
  BY <1>7, LeaseEvict DEF Sweep, HoldsConn, TypeInv, InPool
<1>8. ASSUME NEW r \in Requests, NEW c \in Conns, CreateConn(r, c) PROVE Lease!LeaseStep(d)
  <2>1. cstate[c] = "none" /\ cstate' = [cstate EXCEPT ![c] = "open"]
        /\ UNCHANGED <<inFlight, closeRequested, closing>>
    BY <1>8 DEF CreateConn
  <2>2. CASE d # c
    BY <2>1, <2>2
  <2>3. CASE d = c
    <3>1. inFlight'[d] = 0
      <4>1. Users(d) = {}
        BY <1>a, <2>1, <2>3 DEF ConnInv, Untouched, Users, InUse, Holding
      <4> QED BY <2>1, <4>1, FS_EmptySet DEF InFlightExact
    <3>2. ~ClosePending(d)' /\ d \notin closeRequested'
      BY <2>1, <2>3 DEF ConnInv, Untouched, Undecided
    <3> QED BY <2>1, <2>3, <3>1, <3>2, StageIs, StageBecomes, LeaseSteps
  <2> QED BY <2>2, <2>3
<1>9. ASSUME NEW r \in Requests, CreateConnFailed(r) PROVE Lease!LeaseStep(d)
  BY <1>9 DEF CreateConnFailed
<1>10. ASSUME NEW r \in Requests, AppendConn(r) PROVE Lease!LeaseStep(d)
  BY <1>10 DEF AppendConn
<1>11. ASSUME NEW r \in Requests, Reject(r) PROVE Lease!LeaseStep(d)
  BY <1>11 DEF Reject
<1>12. ASSUME NEW r \in Requests, Send(r) PROVE Lease!LeaseStep(d)
  <2>0. rconn[r] \in Conns /\ cstate[rconn[r]] # "closed" /\ rconn[r] \notin closeRequested
    BY <1>12 DEF Send, AtSend, Retired, TypeInv, HoldsConn, Holding
  <2>1. /\ inFlight' = [inFlight EXCEPT ![rconn[r]] = @ + 1]
        /\ UNCHANGED <<cstate, closeRequested, closing>>
    BY <1>12 DEF Send
  <2>2. CASE d # rconn[r]
    BY <2>0, <2>1, <2>2
  <2>3. CASE d = rconn[r]
    <3>1. cstate[d] = "open"
      BY <1>12, <2>0, <2>3 DEF ConnInv, Untouched, Send, AtSend, Holding
    <3>2. inFlight'[d] = inFlight[d] + 1 /\ cstate'[d] = "open" /\ d \notin closeRequested
          /\ d \notin closeRequested' /\ (ClosePending(d)' <=> ClosePending(d))
      BY <2>0, <2>1, <2>3, <3>1
    <3> QED BY <3>1, <3>2, StageIs, StageBecomes, LeaseSteps
  <2> QED BY <2>2, <2>3
<1>13. ASSUME NEW r \in Requests, Headers(r) PROVE Lease!LeaseStep(d)
  BY <1>13 DEF Headers
<1>14. ASSUME NEW r \in Requests, Finish(r) PROVE Lease!LeaseStep(d)
  <2>0. rconn[r] \in Conns /\ inFlight[rconn[r]] > 0
    BY <1>14, UserCounted DEF Finish, InUse
  <2>1. /\ inFlight' = [inFlight EXCEPT ![rconn[r]] = @ - 1]
        /\ UNCHANGED <<cstate, closeRequested>>
    BY <1>14 DEF Finish, Release
  <2>2. ClosePending(d)' <=>
          ClosePending(d) \/ (d = rconn[r] /\ d \in closeRequested /\ inFlight[d] <= 1)
    BY <1>14, ReleaseCloses DEF Finish
  <2>3. CASE d # rconn[r]
    BY <2>1, <2>2, <2>3
  <2>4. CASE d = rconn[r]
    <3>1. inFlight[d] > 0 /\ inFlight'[d] = inFlight[d] - 1 /\ inFlight[d] \in Nat
      BY <2>0, <2>1, <2>4
    <3>2. IF LeaseStage(d) \in {"retired", "condemned"} /\ inFlight[d] = 1
          THEN LeaseStage(d)' = "condemned" ELSE LeaseStage(d)' = LeaseStage(d)
      BY <2>1, <2>2, <2>4, <3>1, StageIs, StageBecomes
    <3> QED BY <3>1, <3>2, LeaseSteps
  <2> QED BY <2>3, <2>4
<1>15. ASSUME NEW r \in Requests, ReadProgress(r) PROVE Lease!LeaseStep(d)
  BY <1>15 DEF ReadProgress
<1>16. ASSUME NEW r \in Requests, Abandon(r) PROVE Lease!LeaseStep(d)
  BY <1>16 DEF Abandon
<1>17. ASSUME NEW c \in Conns, RunRequestClose(c) PROVE Lease!LeaseStep(d)
  <2>1. /\ c \in requesting /\ UNCHANGED <<cstate, inFlight>>
        /\ closeRequested' = IF inFlight[c] > 0 THEN closeRequested \cup {c} ELSE closeRequested
    BY <1>17 DEF RunRequestClose
  <2>2. ClosePending(d)' <=> ClosePending(d) \/ (d = c /\ inFlight[c] = 0)
    BY <1>17, RequestCloses
  <2>3. CASE d # c
    BY <2>1, <2>2, <2>3
  <2>4. CASE d = c /\ inFlight[c] = 0
    BY <2>1, <2>2, <2>4, LeaseCondemned
  <2>5. CASE d = c /\ inFlight[c] # 0
    <3>1. inFlight[d] > 0 /\ d \in closeRequested' /\ (ClosePending(d)' <=> ClosePending(d))
      BY <2>1, <2>2, <2>5
    <3>2. CASE LeaseStage(d) = "open"
      BY <2>1, <3>1, <3>2, StageIs, StageBecomes, LeaseSteps
    <3>3. CASE LeaseStage(d) # "open"
      <4>1. LeaseStage(d)' = LeaseStage(d)
        BY <2>1, <3>1, <3>3, StageIs, StageBecomes
      <4> QED BY <2>1, <4>1, LeaseSteps
    <3> QED BY <3>2, <3>3
  <2> QED BY <2>3, <2>4, <2>5
<1>18. ASSUME NEW x \in closing, RunClose(x) PROVE Lease!LeaseStep(d)
  <2>1. UNCHANGED <<inFlight, closeRequested>>
    BY <1>18 DEF RunClose
  <2>2. CASE d # x.conn
    BY <1>18, <2>1, <2>2, RunCloseMoves
  <2>3. CASE d = x.conn
    <3>1. ClosePending(d) /\ cstate'[d] = "closed"
      BY <1>18, <2>3, RunCloseMoves
    <3>2. cstate[d] \in {"open", "closed"}
      BY <3>1 DEF ConnInv, Untouched, Undecided
    <3> QED BY <2>1, <3>1, <3>2, StageIs, StageBecomes, LeaseSteps
  <2> QED BY <2>2, <2>3
<1>19. ASSUME NEW p \in Pools, RunPoolClose(p) PROVE Lease!LeaseStep(d)
  BY <1>19, LeaseClosePools DEF RunPoolClose
<1>20. ASSUME Cleanup PROVE Lease!LeaseStep(d)
  BY <1>20, LeaseEvict DEF Cleanup
<1>21. ASSUME NEW new \in Profiles, SetPreset(new) PROVE Lease!LeaseStep(d)
  BY <1>21 DEF SetPreset
<1>22. ASSUME NEW new \in Proxies, SetProxyBegin(new) PROVE Lease!LeaseStep(d)
  BY <1>22, LeaseClosePools DEF SetProxyBegin, CloseAllPools
<1>23. ASSUME NEW new \in Proxies, SetProxyEnd(new) PROVE Lease!LeaseStep(d)
  BY <1>23 DEF SetProxyEnd
<1>24. ASSUME CloseAllPoolsOnly PROVE Lease!LeaseStep(d)
  BY <1>24, LeaseClosePools DEF CloseAllPoolsOnly, CloseAllPools
<1>25. ASSUME Close PROVE Lease!LeaseStep(d)
  BY <1>25, LeaseClosePools DEF Close
<1>26. ASSUME NEW c \in Conns, NEW fact \in Expirations, Expire(c, fact)
       PROVE  Lease!LeaseStep(d)
  BY <1>26 DEF Expire
<1>27. ASSUME NEW c \in Conns, Saturate(c) PROVE Lease!LeaseStep(d)
  BY <1>27 DEF Saturate
<1>28. ASSUME NEW c \in Conns, Unsaturate(c) PROVE Lease!LeaseStep(d)
  BY <1>28 DEF Unsaturate
<1>29. CASE UNCHANGED vars
  BY <1>29 DEF vars
<1> QED BY <1>1, <1>2, <1>3, <1>4, <1>5, <1>6, <1>7, <1>8, <1>9, <1>10, <1>11, <1>12, <1>13,
    <1>14, <1>15, <1>16, <1>17, <1>18, <1>19, <1>20, <1>21, <1>22, <1>23, <1>24, <1>25,
    <1>26, <1>27, <1>28, <1>29 DEF Next, Caller, Background, Operation, Peer

\* The pool of a host keeps the promise of ConnLease for every connection: what
\* response bodies hold is closed only by an ordered shutdown, past the
\* abandoned-body bound, or under a request that arrived after the decision, and
\* a retired connection goes with its last body.
THEOREM HostPoolImplementsLease == Spec => HostKeepsLease
<1>1. Init => Lease!LeaseInit
  <2> SUFFICES ASSUME Init PROVE Lease!LeaseInit
    OBVIOUS
  <2>1. \A c \in Conns : LeaseStage(c) = "none"
    BY StageIs DEF Init
  <2>2. [c \in Conns |-> LeaseStage(c)] = [c \in Conns |-> "none"]
    BY <2>1
  <2>3. [c \in Conns |-> c \in stalled] = [c \in Conns |-> FALSE]
    <3>1. \A c \in Conns : (c \in stalled) = FALSE
      BY DEF Init
    <3> QED BY <3>1, Zenon
  <2>4. [c \in Conns |-> \E x \in closing : x.conn = c /\ x.why = "forced"]
          = [c \in Conns |-> FALSE]
    BY Zenon DEF Init
  <2> QED BY <2>2, <2>3, <2>4 DEF Init, Lease!LeaseInit
<1>2. IInv /\ [Next]_vars => [Lease!LeaseNext]_(Lease!leaseVars)
  BY ConstantsAssumption, LeaseStepEach DEF Lease!LeaseNext
<1> QED BY <1>1, <1>2, Inductive, PTL DEF Spec, HostKeepsLease, Lease!LeaseSpec
=============================================================================
