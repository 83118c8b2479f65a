--------------------------- MODULE QUICPoolProofs ---------------------------
(***************************************************************************)
(* Theorems about QUICPool, for any number of requests, connections, pools *)
(* and managers: that it keeps the promise of ConnLease.                   *)
(* The inductive invariant IInv has five parts:                            *)
(*   ListInv     the lists of managers, pools and their connections;       *)
(*   TypeInv     types;                                                    *)
(*   RequestInv  what a request has at each of its places;                 *)
(*   CountExact  the in-flight count of a connection is its requests;      *)
(*   Known       a connection that was not created is nowhere.             *)
(***************************************************************************)
EXTENDS QUICPool, TLAPS, FiniteSetTheorems, SequenceTheorems

-----------------------------------------------------------------------------
(* The inductive invariant.                                                *)

Manager == [closed : BOOLEAN, pool : 0..MaxPools]

Connection ==
    [stage : {"none", "open", "closed"}, inFlight : Nat, closeRequested : BOOLEAN,
     stale : {"no", "idle", "age"}, stalled : BOOLEAN]

Labels == {"idle", "pool", "look", "create", "have", "flight", "body", "again", "panic"}

Request ==
    [pc : Labels, manager : 0..MaxManagers, pool : 0..MaxPools,
     conn : QUICConns \cup {NoQUICConn}, retried : BOOLEAN]

\* The connections in any pool.
AllPooled == UNION {ToSet(hostPools[p]) : p \in DOMAIN hostPools}

\* The lists: managers point at pools that exist, and pools hold connections.
ListInv ==
    /\ managers \in Seq(Manager) /\ Len(managers) <= MaxManagers
    /\ swapping => Len(managers) < MaxManagers
    /\ hostPools \in Seq(Seq(QUICConns)) /\ Len(hostPools) <= MaxPools
    /\ \A m \in DOMAIN managers : managers[m].pool <= Len(hostPools)
    /\ manager \in 0..Len(managers) /\ swapping \in BOOLEAN
    /\ poolClosing \subseteq DOMAIN hostPools

TypeInv ==
    /\ quicConn \in [QUICConns -> Connection]
    /\ h3Request \in [QUICRequests -> Request]
    /\ closing \subseteq QUICConns /\ retiring \subseteq QUICConns
    /\ orderedClosed \subseteq QUICConns

\* A request has a manager, a pool or a connection where it needs one.
RequestInv ==
    \A r \in QUICRequests :
        /\ h3Request[r].pc = "pool" => h3Request[r].manager \in DOMAIN managers
        /\ h3Request[r].pc \in {"look", "create"} => h3Request[r].pool \in DOMAIN hostPools
        /\ h3Request[r].pc \in {"have", "flight", "body"} => h3Request[r].conn \in QUICConns

\* The requests a connection is counted in use by.
Users(c) ==
    {r \in QUICRequests : h3Request[r].pc \in {"flight", "body"} /\ h3Request[r].conn = c}

\* acquire and release keep the in-flight count exact.
CountExact == \A c \in QUICConns : quicConn[c].inFlight = Cardinality(Users(c))

Unknown(c) ==
    /\ c \notin AllPooled /\ c \notin closing \cup retiring \cup orderedClosed
    /\ ~quicConn[c].closeRequested
    /\ \A r \in QUICRequests :
         h3Request[r].pc \in {"have", "flight", "body"} => h3Request[r].conn # c

\* A connection that was not created is in no pool, under no request and not about
\* to be closed.
Known == \A c \in QUICConns : quicConn[c].stage = "none" => Unknown(c)

IInv == ListInv /\ TypeInv /\ RequestInv /\ CountExact /\ Known

-----------------------------------------------------------------------------
(* The lists of connections.                                               *)

\* The members of a sequence over S are in S.
LEMMA SeqMembers ==
  ASSUME NEW S, NEW s \in Seq(S)
  PROVE  ToSet(s) \subseteq S
BY ElementOfSeq DEF ToSet

\* A pool that a connection is moved to the end of.
LEMMA MovedToEnd ==
  ASSUME NEW S, NEW s \in Seq(S), NEW i \in DOMAIN s
  PROVE  /\ Append(RemoveAt(s, i), s[i]) \in Seq(S)
         /\ ToSet(Append(RemoveAt(s, i), s[i])) \subseteq ToSet(s)
<1> DEFINE n == Len(s)  a == SubSeq(s, 1, i - 1)  b == SubSeq(s, i + 1, n)
           ab == a \o b  e == s[i]  t == Append(ab, e)
<1>1. n \in Nat /\ DOMAIN s = 1..n /\ i \in 1..n /\ e \in S
  BY ElementOfSeq
<1>2. a \in Seq(S) /\ Len(a) = i - 1 /\ \A j \in 1..(i - 1) : a[j] = s[j]
  BY <1>1
<1>3. b \in Seq(S) /\ Len(b) = n - i /\ \A j \in 1..(n - i) : b[j] = s[i + j]
  <2>1. b \in Seq(S)
    BY <1>1, SubSeqProperties
  <2> QED BY <1>1, <2>1, SubSeqProperties
<1> HIDE DEF a, b, e, n
<1>4. /\ ab \in Seq(S) /\ Len(ab) = n - 1
      /\ \A j \in 1..(n - 1) : ab[j] = IF j <= i - 1 THEN a[j] ELSE b[j - (i - 1)]
  <2>1. /\ ab \in Seq(S) /\ Len(ab) = Len(a) + Len(b)
        /\ \A j \in 1..(Len(a) + Len(b)) : ab[j] = IF j <= Len(a) THEN a[j] ELSE b[j - Len(a)]
    BY <1>2, <1>3, ConcatProperties
  <2> HIDE DEF ab
  <2>2. Len(a) + Len(b) = n - 1
    BY <1>1, <1>2, <1>3
  <2> QED BY <1>2, <2>1, <2>2
<1> HIDE DEF ab
<1>5. ASSUME NEW j \in 1..(n - 1) PROVE ab[j] \in ToSet(s)
  <2>1. CASE j <= i - 1
    BY <1>1, <1>2, <1>4, <2>1 DEF ToSet
  <2>2. CASE j > i - 1
    <3>1. j - (i - 1) \in 1..(n - i) /\ i + (j - (i - 1)) \in 1..n
      BY <1>1, <2>2
    <3>2. ab[j] = s[i + (j - (i - 1))]
      BY <1>1, <1>3, <1>4, <2>2, <3>1
    <3> QED BY <1>1, <3>1, <3>2 DEF ToSet
  <2> QED BY <1>1, <2>1, <2>2
<1>6. /\ t \in Seq(S) /\ Len(t) = n /\ t[n] = e
      /\ \A j \in 1..(n - 1) : t[j] = ab[j]
  <2>1. /\ t \in Seq(S) /\ Len(t) = Len(ab) + 1 /\ t[Len(ab) + 1] = e
        /\ \A j \in 1..Len(ab) : t[j] = ab[j]
    BY <1>1, <1>4, AppendProperties
  <2> HIDE DEF t
  <2> QED BY <1>1, <1>4, <2>1
<1> HIDE DEF t
<1>7. ASSUME NEW x \in ToSet(t) PROVE x \in ToSet(s)
  <2>1. PICK j \in 1..n : t[j] = x
    BY <1>6 DEF ToSet
  <2>2. CASE j = n
    BY <1>1, <1>6, <2>1, <2>2 DEF ToSet, e
  <2>3. CASE j # n
    <3>1. j \in 1..(n - 1)
      BY <1>1, <2>1, <2>3
    <3> QED BY <1>5, <1>6, <2>1, <3>1
  <2> QED BY <2>2, <2>3
<1> QED BY <1>6, <1>7 DEF RemoveAt, t, ab, a, b, e, n

\* A pool that is cut down to some of its places.
LEMMA CutDown ==
  ASSUME NEW S, NEW s \in Seq(S), NEW pos \in SeqOf(DOMAIN s, Len(s)),
         NEW t, t = [i \in DOMAIN pos |-> s[pos[i]]]
  PROVE  t \in Seq(S) /\ ToSet(t) \subseteq ToSet(s)
<1>1. PICK n \in 0..Len(s) : pos \in [1..n -> DOMAIN s]
  BY DEF SeqOf
<1>2. DOMAIN t = 1..n /\ \A i \in 1..n : t[i] \in ToSet(s) /\ t[i] \in S
  BY <1>1, ElementOfSeq DEF ToSet
<1>3. t \in [1..n -> S]
  BY <1>1, <1>2
<1> QED BY <1>1, <1>2, <1>3 DEF ToSet

\* AllPooled is the set of the members of the pools.
LEMMA PooledMembers ==
  /\ \A c : c \in AllPooled <=> \E p \in DOMAIN hostPools : c \in ToSet(hostPools[p])
  /\ \A c : c \in AllPooled' <=> \E p \in DOMAIN hostPools' : c \in ToSet(hostPools'[p])
BY DEF AllPooled

\* The pools hold connections only.
LEMMA PooledAreConns ==
  ASSUME ListInv
  PROVE  AllPooled \subseteq QUICConns
<1>1. ASSUME NEW p \in DOMAIN hostPools PROVE ToSet(hostPools[p]) \subseteq QUICConns
  BY SeqMembers, ElementOfSeq DEF ListInv
<1> QED BY <1>1, PooledMembers

\* The pools after a step: the same ones or one more, with the connections of
\* before and those in new.
PoolsAfter(new) ==
    /\ hostPools' \in Seq(Seq(QUICConns)) /\ Len(hostPools') >= Len(hostPools)
    /\ Len(hostPools') <= MaxPools
    /\ AllPooled' \subseteq AllPooled \cup new

\* A step that leaves the pools alone adds nothing to them.
LEMMA PoolsSame ==
  ASSUME ListInv, UNCHANGED hostPools
  PROVE  PoolsAfter({})
BY DEF ListInv, PoolsAfter, AllPooled

\* One pool changes.
LEMMA OnePool ==
  ASSUME ListInv, NEW p \in DOMAIN hostPools, NEW t \in Seq(QUICConns), NEW new,
         hostPools' = [hostPools EXCEPT ![p] = t],
         ToSet(t) \subseteq ToSet(hostPools[p]) \cup new
  PROVE  PoolsAfter(new)
<1>1. /\ hostPools' \in Seq(Seq(QUICConns)) /\ Len(hostPools') = Len(hostPools)
      /\ DOMAIN hostPools' = DOMAIN hostPools
      /\ hostPools'[p] = t /\ \A q \in DOMAIN hostPools : q # p => hostPools'[q] = hostPools[q]
  BY ExceptSeq DEF ListInv
<1>2. ASSUME NEW c \in AllPooled' PROVE c \in AllPooled \cup new
  <2>1. PICK q \in DOMAIN hostPools : c \in ToSet(hostPools'[q])
    BY <1>1, PooledMembers
  <2>2. CASE q = p
    BY <1>1, <2>1, <2>2, PooledMembers
  <2>3. CASE q # p
    BY <1>1, <2>1, <2>3, PooledMembers
  <2> QED BY <2>2, <2>3
<1> QED BY <1>1, <1>2 DEF PoolsAfter, ListInv

\* CloseIdle and the prune of GetConn.
LEMMA PoolsPruned ==
  ASSUME ListInv, NEW p \in DOMAIN hostPools, CloseIdle(p)
  PROVE  /\ PoolsAfter({})
         /\ PruneClosed(p) \subseteq AllPooled /\ PruneRetired(p) \subseteq AllPooled
<1>1. PICK pos \in SeqOf(DOMAIN hostPools[p], Len(hostPools[p])) :
         hostPools' = [hostPools EXCEPT ![p] = [i \in DOMAIN pos |-> hostPools[p][pos[i]]]]
  BY DEF CloseIdle
<1> DEFINE t == [i \in DOMAIN pos |-> hostPools[p][pos[i]]]
<1>2. hostPools[p] \in Seq(QUICConns)
  BY ElementOfSeq DEF ListInv
<1>3. t \in Seq(QUICConns) /\ ToSet(t) \subseteq ToSet(hostPools[p])
  BY <1>2, CutDown
<1>4. hostPools' = [hostPools EXCEPT ![p] = t]
  BY <1>1
<1> HIDE DEF t
<1>5. PoolsAfter({})
  BY <1>3, <1>4, OnePool
<1>6. PruneClosed(p) \subseteq AllPooled /\ PruneRetired(p) \subseteq AllPooled
  BY PooledMembers DEF PruneClosed, PruneRetired
<1> QED BY <1>5, <1>6

\* QUICHostPool.Close.
LEMMA PoolsShut ==
  ASSUME ListInv, NEW p \in DOMAIN hostPools, ShutPool(p)
  PROVE  PoolsAfter({}) /\ ToSet(hostPools[p]) \subseteq AllPooled
<1>1. <<>> \in Seq(QUICConns) /\ ToSet(<<>>) \subseteq ToSet(hostPools[p]) \cup {}
  BY DEF ToSet
<1>2. PoolsAfter({})
  BY <1>1, OnePool DEF ShutPool
<1> QED BY <1>2, PooledMembers

\* GetConn finds a connection.
LEMMA PoolsReused ==
  ASSUME ListInv, NEW p \in DOMAIN hostPools, NEW i \in DOMAIN hostPools[p],
         hostPools' = [hostPools EXCEPT ![p] = Append(RemoveAt(@, i), hostPools[p][i])]
  PROVE  PoolsAfter({}) /\ hostPools[p][i] \in QUICConns /\ hostPools[p][i] \in AllPooled
<1>1. hostPools[p] \in Seq(QUICConns)
  BY ElementOfSeq DEF ListInv
<1> DEFINE t == Append(RemoveAt(hostPools[p], i), hostPools[p][i])
<1>2. t \in Seq(QUICConns) /\ ToSet(t) \subseteq ToSet(hostPools[p])
  BY <1>1, MovedToEnd
<1>3. hostPools' = [hostPools EXCEPT ![p] = t]
  OBVIOUS
<1> HIDE DEF t
<1>4. PoolsAfter({})
  BY <1>2, <1>3, OnePool
<1>5. hostPools[p][i] \in ToSet(hostPools[p])
  BY DEF ToSet
<1> QED BY <1>1, <1>4, <1>5, PooledMembers, ElementOfSeq

\* GetConn appends a new connection.
LEMMA PoolsAdded ==
  ASSUME ListInv, NEW p \in DOMAIN hostPools, NEW c \in QUICConns,
         hostPools' = [hostPools EXCEPT ![p] = Append(@, c)]
  PROVE  PoolsAfter({c})
<1>1. hostPools[p] \in Seq(QUICConns)
  BY ElementOfSeq DEF ListInv
<1> DEFINE t == Append(hostPools[p], c)
<1>2. /\ t \in Seq(QUICConns) /\ Len(t) = Len(hostPools[p]) + 1
      /\ \A i \in 1..Len(hostPools[p]) : t[i] = hostPools[p][i]
      /\ t[Len(hostPools[p]) + 1] = c
  BY <1>1
<1>3. ToSet(t) \subseteq ToSet(hostPools[p]) \cup {c}
  <2> SUFFICES ASSUME NEW x \in ToSet(t) PROVE x \in ToSet(hostPools[p]) \cup {c}
    OBVIOUS
  <2> HIDE DEF t
  <2>1. PICK i \in 1..(Len(hostPools[p]) + 1) : t[i] = x
    BY <1>2 DEF ToSet
  <2> QED BY <1>1, <1>2, <2>1 DEF ToSet
<1>4. hostPools' = [hostPools EXCEPT ![p] = t]
  OBVIOUS
<1> HIDE DEF t
<1> QED BY <1>2, <1>3, <1>4, OnePool

\* GetPool creates a pool.
LEMMA PoolsGrown ==
  ASSUME ListInv, Len(hostPools) < MaxPools, hostPools' = Append(hostPools, <<>>), MaxPools \in Nat
  PROVE  PoolsAfter({}) /\ Len(hostPools') = Len(hostPools) + 1
<1> DEFINE n == Len(hostPools)
<1>1. /\ hostPools \in Seq(Seq(QUICConns)) /\ n \in Nat /\ <<>> \in Seq(QUICConns)
  BY DEF ListInv
<1>2. /\ hostPools' \in Seq(Seq(QUICConns)) /\ Len(hostPools') = n + 1
      /\ DOMAIN hostPools' = 1..(n + 1) /\ hostPools'[n + 1] = <<>>
      /\ \A p \in 1..n : hostPools'[p] = hostPools[p]
  BY <1>1
<1>3. ASSUME NEW c \in AllPooled' PROVE c \in AllPooled
  <2>1. PICK p \in 1..(n + 1) : c \in ToSet(hostPools'[p])
    BY <1>2, PooledMembers
  <2>2. p \in 1..n
    BY <1>1, <1>2, <2>1 DEF ToSet
  <2> QED BY <1>1, <1>2, <2>1, <2>2, PooledMembers
<1> QED BY <1>1, <1>2, <1>3 DEF PoolsAfter

-----------------------------------------------------------------------------
(* Managers and pools.                                                     *)

\* One manager changes.
LEMMA OneManager ==
  ASSUME ListInv, NEW m \in DOMAIN managers, NEW x \in Manager,
         managers' = [managers EXCEPT ![m] = x]
  PROVE  /\ managers' \in Seq(Manager) /\ Len(managers') = Len(managers)
         /\ DOMAIN managers' = DOMAIN managers /\ managers'[m] = x
         /\ \A n \in DOMAIN managers : n # m => managers'[n] = managers[n]
BY ExceptSeq DEF ListInv

\* Managers that point at the pools they did, or at none, or at the new one.
ManagersAfter ==
    /\ managers' \in Seq(Manager) /\ Len(managers') = Len(managers)
    /\ DOMAIN managers' = DOMAIN managers
    /\ \A m \in DOMAIN managers : managers'[m].pool <= Len(hostPools')

\* A step that leaves the managers alone keeps them well formed.
LEMMA ManagersSame ==
  ASSUME ListInv, UNCHANGED managers, NEW new, PoolsAfter(new)
  PROVE  ManagersAfter
<1>1. \A m \in DOMAIN managers : managers[m] \in Manager
  BY ElementOfSeq DEF ListInv
<1> QED BY <1>1 DEF ListInv, ManagersAfter, PoolsAfter, Manager

\* One manager is replaced: closed, or given its host pool.
LEMMA ManagersSet ==
  ASSUME QUICConstants, ListInv, NEW m \in DOMAIN managers, NEW x \in Manager,
         managers' = [managers EXCEPT ![m] = x], NEW new, PoolsAfter(new),
         x.pool <= Len(hostPools')
  PROVE  ManagersAfter
<1>1. \A n \in DOMAIN managers : managers[n] \in Manager
  BY ElementOfSeq DEF ListInv
<1>2. /\ managers' \in Seq(Manager) /\ Len(managers') = Len(managers)
      /\ DOMAIN managers' = DOMAIN managers /\ managers'[m] = x
      /\ \A n \in DOMAIN managers : n # m => managers'[n] = managers[n]
  BY OneManager
<1>3. ASSUME NEW n \in DOMAIN managers PROVE managers'[n].pool <= Len(hostPools')
  BY <1>1, <1>2 DEF ListInv, PoolsAfter, Manager
<1> QED BY <1>2, <1>3 DEF ManagersAfter

\* The pool of a manager, if it has one.
LEMMA ManagerPool ==
  ASSUME QUICConstants, ListInv, NEW m \in DOMAIN managers
  PROVE  /\ managers[m] \in Manager
         /\ managers[m].pool # 0 => managers[m].pool \in DOMAIN hostPools
<1>1. managers[m] \in Manager
  BY ElementOfSeq DEF ListInv
<1>2. managers[m].pool <= Len(hostPools) /\ DOMAIN hostPools = 1..Len(hostPools)
  BY DEF ListInv
<1> QED BY <1>1, <1>2 DEF Manager, QUICConstants

\* A step of this shape keeps the lists.
LEMMA ListsKept ==
  ASSUME ListInv, NEW new, PoolsAfter(new), ManagersAfter, UNCHANGED <<manager, swapping>>,
         poolClosing' \subseteq DOMAIN hostPools
  PROVE  ListInv'
<1>1. DOMAIN hostPools \subseteq DOMAIN hostPools'
  BY DEF ListInv, PoolsAfter
<1> QED BY <1>1 DEF ListInv, PoolsAfter, ManagersAfter

\* QUICManager.Close.
LEMMA ManagerCloses ==
  ASSUME QUICConstants, ListInv, NEW m \in DOMAIN managers, CloseManager(m)
  PROVE  /\ ManagersAfter /\ PoolsAfter({})
         /\ \E found \in SUBSET AllPooled :
              closing' = closing \cup found /\ orderedClosed' = orderedClosed \cup found
<1> DEFINE x == [closed |-> TRUE, pool |-> 0]
<1>1. x \in Manager /\ managers' = [managers EXCEPT ![m] = x]
  BY DEF Manager, CloseManager, QUICConstants
<1>2. PoolsAfter({}) /\ \E found \in SUBSET AllPooled :
              closing' = closing \cup found /\ orderedClosed' = orderedClosed \cup found
  <2>1. CASE managers[m].pool = 0
    <3>1. UNCHANGED <<hostPools, closing, orderedClosed>>
      BY <2>1 DEF CloseManager
    <3> QED BY <3>1, PoolsSame
  <2>2. CASE managers[m].pool # 0
    <3>1. managers[m].pool \in DOMAIN hostPools /\ ShutPool(managers[m].pool)
      BY <2>2, ManagerPool DEF CloseManager
    <3>2. PoolsAfter({}) /\ ToSet(hostPools[managers[m].pool]) \in SUBSET AllPooled
      BY <3>1, PoolsShut
    <3> QED BY <3>1, <3>2 DEF ShutPool
  <2> QED BY <2>1, <2>2
<1>3. x.pool <= Len(hostPools')
  BY <1>2 DEF PoolsAfter
<1> HIDE DEF x
<1>4. ManagersAfter
  BY <1>1, <1>2, <1>3, ManagersSet
<1> QED BY <1>2, <1>4

\* Every step keeps the lists; managers and pools are only added, and a connection
\* enters a pool when it is created.
LEMMA ListStep ==
  ASSUME QUICConstants, ListInv, TypeInv, RequestInv, [QUICNext]_quicVars
  PROVE  /\ ListInv'
         /\ DOMAIN managers \subseteq DOMAIN managers' /\ DOMAIN hostPools \subseteq DOMAIN hostPools'
         /\ \A c \in AllPooled' : c \in AllPooled \/ quicConn'[c].stage # "none"
<1> DEFINE Goal ==
      /\ ListInv'
      /\ DOMAIN managers \subseteq DOMAIN managers' /\ DOMAIN hostPools \subseteq DOMAIN hostPools'
      /\ \A c \in AllPooled' : c \in AllPooled \/ quicConn'[c].stage # "none"
<1>a. ASSUME UNCHANGED <<managers, hostPools, manager, swapping, poolClosing>> PROVE Goal
  BY <1>a DEF ListInv, AllPooled
<1>b. ASSUME PoolsAfter({}), ManagersAfter, UNCHANGED <<manager, swapping>>,
             poolClosing' \subseteq DOMAIN hostPools
      PROVE  Goal
  <2>1. DOMAIN hostPools \subseteq DOMAIN hostPools' /\ DOMAIN managers \subseteq DOMAIN managers'
    BY <1>b DEF PoolsAfter, ManagersAfter, ListInv
  <2> QED BY <1>b, <2>1, ListsKept DEF PoolsAfter
<1>c. /\ h3Request \in [QUICRequests -> Request] /\ quicConn \in [QUICConns -> Connection]
      /\ poolClosing \subseteq DOMAIN hostPools
      /\ manager # 0 => manager \in DOMAIN managers
  BY DEF TypeInv, ListInv
<1> HIDE DEF Goal
<1>1. ASSUME NEW c \in QUICConns, RunRequestClose(c) PROVE Goal
  BY <1>1, <1>a DEF RunRequestClose, clientState, poolState, background
<1>2. ASSUME NEW c \in QUICConns, RunConnClose(c) PROVE Goal
  BY <1>2, <1>a DEF RunConnClose, clientState, poolState, background
<1>3. ASSUME NEW c \in QUICConns, Ages(c) PROVE Goal
  BY <1>3, <1>a DEF Ages, clientState, poolState, background
<1>4. ASSUME NEW c \in QUICConns, Stalls(c) PROVE Goal
  BY <1>4, <1>a DEF Stalls, clientState, poolState, background
<1>5. ASSUME NEW r \in QUICRequests, Snapshot(r) PROVE Goal
  BY <1>5, <1>a DEF Snapshot, clientState, poolState, background
<1>6. ASSUME NEW r \in QUICRequests, GetPool(r) PROVE Goal
  <2> DEFINE m == h3Request[r].manager
  <2>1. m \in DOMAIN managers /\ UNCHANGED <<manager, swapping, poolClosing>>
    BY <1>6 DEF GetPool, RequestInv, clientState, background
  <2>2. CASE UNCHANGED poolState
    BY <1>a, <2>1, <2>2 DEF poolState
  <2>3. CASE ~UNCHANGED poolState
    <3>1. /\ hostPools' = Append(hostPools, <<>>) /\ Len(hostPools) < MaxPools
          /\ managers' = [managers EXCEPT ![m].pool = Len(hostPools) + 1]
      BY <1>6, <2>3 DEF GetPool
    <3>2. PoolsAfter({}) /\ Len(hostPools') = Len(hostPools) + 1
      BY <3>1, PoolsGrown DEF QUICConstants
    <3> DEFINE x == [managers[m] EXCEPT !.pool = Len(hostPools) + 1]
    <3>3. managers' = [managers EXCEPT ![m] = x]
      BY <3>1
    <3>4. x \in Manager /\ x.pool = Len(hostPools) + 1
      <4>1. managers[m] \in Manager
        BY <2>1, ManagerPool
      <4>2. Len(hostPools) + 1 \in 0..MaxPools
        BY <3>1 DEF ListInv, QUICConstants
      <4> QED BY <4>1, <4>2 DEF Manager
    <3> HIDE DEF x, m
    <3>5. x.pool <= Len(hostPools')
      BY <3>2, <3>4 DEF PoolsAfter, ListInv
    <3>6. ManagersAfter
      BY <2>1, <3>2, <3>3, <3>4, <3>5, ManagersSet
    <3> QED BY <1>b, <1>c, <2>1, <3>2, <3>6
  <2> QED BY <2>2, <2>3
<1>7. ASSUME NEW r \in QUICRequests, GetConnReuse(r) PROVE Goal
  <2> DEFINE p == h3Request[r].pool
  <2>1. PICK i \in DOMAIN hostPools[p] :
          hostPools' = [hostPools EXCEPT ![p] = Append(RemoveAt(@, i), hostPools[p][i])]
    BY <1>7 DEF GetConnReuse
  <2>2. p \in DOMAIN hostPools /\ UNCHANGED <<managers, manager, swapping, poolClosing>>
    BY <1>7 DEF GetConnReuse, RequestInv, clientState, background
  <2> HIDE DEF p
  <2>3. PoolsAfter({})
    BY <2>1, <2>2, PoolsReused
  <2> QED BY <1>b, <1>c, <2>2, <2>3, ManagersSame
<1>8. ASSUME NEW r \in QUICRequests, GetConnMiss(r) PROVE Goal
  <2> DEFINE p == h3Request[r].pool
  <2>1. /\ p \in DOMAIN hostPools /\ CloseIdle(p)
        /\ UNCHANGED <<managers, manager, swapping, poolClosing>>
    BY <1>8 DEF GetConnMiss, RequestInv, clientState
  <2>2. PoolsAfter({})
    BY <2>1, PoolsPruned
  <2> QED BY <1>b, <1>c, <2>1, <2>2, ManagersSame
<1>9. ASSUME NEW r \in QUICRequests, CreateFails(r) PROVE Goal
  BY <1>9, <1>a DEF CreateFails, clientState, poolState, background
<1>10. ASSUME NEW r \in QUICRequests, CreateConn(r) PROVE Goal
  <2> DEFINE p == h3Request[r].pool
  <2>1. PICK c \in QUICConns :
          /\ quicConn' = [quicConn EXCEPT ![c].stage = "open"]
          /\ hostPools' = [hostPools EXCEPT ![p] = Append(@, c)]
    BY <1>10 DEF CreateConn
  <2>2. p \in DOMAIN hostPools /\ UNCHANGED <<managers, manager, swapping, poolClosing>>
    BY <1>10 DEF CreateConn, RequestInv, clientState, background
  <2> HIDE DEF p
  <2>3. PoolsAfter({c})
    BY <2>1, <2>2, PoolsAdded
  <2>4. ListInv'
    BY <1>c, <2>2, <2>3, ManagersSame, ListsKept
  <2>a. DOMAIN hostPools \subseteq DOMAIN hostPools' /\ DOMAIN managers \subseteq DOMAIN managers'
    BY <2>2, <2>3 DEF PoolsAfter, ListInv
  <2>5. quicConn'[c].stage = "open"
    BY <1>c, <2>1 DEF Connection
  <2> QED BY <2>3, <2>4, <2>a, <2>5 DEF PoolsAfter, Goal
<1>11. ASSUME NEW r \in QUICRequests, QUICRoundTrip(r) PROVE Goal
  BY <1>11, <1>a DEF QUICRoundTrip, clientState, poolState, background
<1>12. ASSUME NEW r \in QUICRequests, Retry(r) PROVE Goal
  BY <1>12, <1>a DEF Retry, clientState, poolState, background
<1>13. ASSUME NEW r \in QUICRequests, Respond(r) PROVE Goal
  BY <1>13, <1>a DEF Respond, clientState, poolState, background
<1>14. ASSUME NEW r \in QUICRequests, ReadBody(r) PROVE Goal
  BY <1>14, <1>a DEF ReadBody, clientState, poolState, background
<1>15. ASSUME NEW r \in QUICRequests, EndBody(r) PROVE Goal
  BY <1>15, <1>a DEF EndBody, clientState, poolState, background
<1>16. ASSUME NEW m \in DOMAIN managers, QUICCleanup(m) PROVE Goal
  <2> DEFINE p == managers[m].pool
             y == IF ToSet(hostPools[p]) = PruneClosed(p) THEN 0 ELSE p
             x == [managers[m] EXCEPT !.pool = y]
  <2>1. /\ p \in DOMAIN hostPools /\ CloseIdle(p) /\ managers[m] \in Manager
        /\ UNCHANGED <<manager, swapping, poolClosing>>
    BY <1>16, ManagerPool DEF QUICCleanup, clientState
  <2>2. PoolsAfter({})
    BY <2>1, PoolsPruned
  <2>3. managers' = [managers EXCEPT ![m] = x]
    BY <1>16 DEF QUICCleanup
  <2>4. x \in Manager /\ x.pool <= Len(hostPools')
    <3>1. y \in 0..MaxPools /\ y <= Len(hostPools)
      BY <2>1 DEF Manager, QUICConstants, ListInv
    <3> HIDE DEF y
    <3>2. x \in Manager /\ x.pool = y
      BY <2>1, <3>1 DEF Manager
    <3> QED BY <2>2, <3>1, <3>2 DEF PoolsAfter, ListInv
  <2> HIDE DEF x
  <2>5. ManagersAfter
    BY <2>2, <2>3, <2>4, ManagersSet
  <2> QED BY <1>b, <1>c, <2>1, <2>2, <2>5
<1>17. ASSUME NEW p \in DOMAIN hostPools, RunPoolClose(p) PROVE Goal
  <2>1. /\ ShutPool(p) /\ UNCHANGED <<managers, manager, swapping>>
        /\ poolClosing' \subseteq poolClosing
    BY <1>17 DEF RunPoolClose, clientState
  <2>2. PoolsAfter({})
    BY <2>1, PoolsShut
  <2> QED BY <1>b, <1>c, <2>1, <2>2, ManagersSame
<1>18. ASSUME QUICSetPreset PROVE Goal
  <2> DEFINE x == [managers[manager] EXCEPT !.pool = 0]
  <2>1. /\ manager \in DOMAIN managers /\ managers[manager].pool # 0
        /\ UNCHANGED <<manager, swapping, hostPools>>
        /\ poolClosing' = poolClosing \cup {managers[manager].pool}
        /\ managers' = [managers EXCEPT ![manager] = x]
    BY <1>18, <1>c DEF QUICSetPreset, clientState
  <2>2. managers[manager] \in Manager /\ managers[manager].pool \in DOMAIN hostPools
    BY <2>1, ManagerPool
  <2>3. x \in Manager /\ x.pool = 0
    BY <2>2 DEF Manager, QUICConstants
  <2> HIDE DEF x
  <2>4. PoolsAfter({})
    BY <2>1, PoolsSame
  <2>5. x.pool <= Len(hostPools')
    BY <2>3, <2>4 DEF PoolsAfter
  <2>6. ManagersAfter
    BY <2>1, <2>3, <2>4, <2>5, ManagersSet
  <2> QED BY <1>b, <1>c, <2>1, <2>2, <2>4, <2>6
<1>19. ASSUME CloseConnections PROVE Goal
  <2>1. /\ manager \in DOMAIN managers /\ managers[manager].pool # 0
        /\ ShutPool(managers[manager].pool)
        /\ UNCHANGED <<managers, manager, swapping, poolClosing>>
    BY <1>19, <1>c DEF CloseConnections, clientState
  <2>2. managers[manager].pool \in DOMAIN hostPools
    BY <2>1, ManagerPool
  <2>3. PoolsAfter({})
    BY <2>1, <2>2, PoolsShut
  <2> QED BY <1>b, <1>c, <2>1, <2>3, ManagersSame
<1>20. ASSUME SetUDPProxyBegin PROVE Goal
  <2>1. /\ Len(managers) < MaxManagers /\ swapping' = TRUE /\ manager' = 0
        /\ UNCHANGED poolClosing
    BY <1>20 DEF SetUDPProxyBegin
  <2>2. PoolsAfter({}) /\ ManagersAfter
    <3>1. CASE manager = 0
      BY <1>20, <3>1, PoolsSame, ManagersSame DEF SetUDPProxyBegin, poolState
    <3>2. CASE manager # 0
      BY <1>20, <1>c, <3>2, ManagerCloses DEF SetUDPProxyBegin
    <3> QED BY <3>1, <3>2
  <2>3. DOMAIN hostPools \subseteq DOMAIN hostPools'
    BY <2>2 DEF ListInv, PoolsAfter
  <2>4. ListInv'
    BY <2>1, <2>2, <2>3 DEF ListInv, PoolsAfter, ManagersAfter
  <2> QED BY <2>2, <2>3, <2>4 DEF PoolsAfter, ManagersAfter, Goal
<1>21. ASSUME SetUDPProxyEnd PROVE Goal
  <2>1. swapping /\ swapping' = FALSE /\ UNCHANGED <<hostPools, poolClosing>>
    BY <1>21 DEF SetUDPProxyEnd, background
  <2>2. CASE UNCHANGED <<manager, managers>>
    BY <2>1, <2>2 DEF ListInv, AllPooled, Goal
  <2>3. CASE ~UNCHANGED <<manager, managers>>
    <3> DEFINE x == [closed |-> FALSE, pool |-> 0]
    <3>1. manager' = Len(managers) + 1 /\ managers' = Append(managers, x)
      BY <1>21, <2>3 DEF SetUDPProxyEnd
    <3>2. x \in Manager /\ x.pool = 0
      BY DEF Manager, QUICConstants
    <3> HIDE DEF x
    <3>3. /\ managers' \in Seq(Manager) /\ Len(managers') = Len(managers) + 1
          /\ managers'[Len(managers) + 1] = x
          /\ \A m \in 1..Len(managers) : managers'[m] = managers[m]
      BY <3>1, <3>2, AppendProperties DEF ListInv
    <3>4. ASSUME NEW m \in DOMAIN managers' PROVE managers'[m].pool <= Len(hostPools')
      <4>1. CASE m = Len(managers) + 1
        BY <2>1, <3>2, <3>3, <4>1 DEF ListInv
      <4>2. CASE m # Len(managers) + 1
        <5>1. m \in DOMAIN managers /\ m \in 1..Len(managers)
          BY <3>3, <4>2 DEF ListInv
        <5> QED BY <2>1, <3>3, <5>1 DEF ListInv
      <4> QED BY <4>1, <4>2
    <3>5. ListInv'
      <4>1. manager' \in 0..Len(managers') /\ Len(managers') <= MaxManagers
        BY <2>1, <3>1, <3>3 DEF ListInv, QUICConstants
      <4> QED BY <2>1, <3>3, <3>4, <4>1 DEF ListInv
    <3>6. DOMAIN managers \subseteq DOMAIN managers'
      BY <3>3 DEF ListInv
    <3> QED BY <2>1, <3>5, <3>6 DEF Goal, AllPooled
  <2> QED BY <2>2, <2>3
<1>22. ASSUME ClientClose PROVE Goal
  <2>1. /\ manager \in DOMAIN managers /\ CloseManager(manager)
        /\ UNCHANGED <<manager, swapping, poolClosing>>
    BY <1>22, <1>c DEF ClientClose, clientState
  <2> QED BY <1>b, <1>c, <2>1, ManagerCloses
<1>23. CASE UNCHANGED quicVars
  BY <1>a, <1>23 DEF quicVars, Goal
<1> QED BY <1>1, <1>2, <1>3, <1>4, <1>5, <1>6, <1>7, <1>8, <1>9, <1>10, <1>11, <1>12, <1>13,
    <1>14, <1>15, <1>16, <1>17, <1>18, <1>19, <1>20, <1>21, <1>22, <1>23 DEF QUICNext, Goal

-----------------------------------------------------------------------------
(* Connections and requests.                                               *)

\* Using a connection changes only what the pruning looks at.
LEMMA UsedConn ==
  ASSUME NEW x \in Connection
  PROVE  /\ Used(x) \in Connection /\ Used(x).stage = x.stage
         /\ Used(x).inFlight = x.inFlight /\ Used(x).closeRequested = x.closeRequested
BY DEF Used, Connection

\* conn.Close closes an open connection and keeps its counter and its mark.
LEMMA ClosedConn ==
  ASSUME NEW x \in Connection
  PROVE  /\ CloseNow(x) \in Connection
         /\ CloseNow(x).stage = IF x.stage = "none" THEN "none" ELSE "closed"
         /\ CloseNow(x).inFlight = x.inFlight /\ CloseNow(x).closeRequested = x.closeRequested
BY DEF CloseNow, Connection

\* release: one body less, and the end of a retired connection with the last.
LEMMA ReleasedConn ==
  ASSUME NEW x \in Connection, x.inFlight > 0
  PROVE  /\ Released(x) \in Connection /\ Released(x).inFlight = x.inFlight - 1
         /\ Released(x).closeRequested = x.closeRequested
         /\ Released(x).stage = IF x.closeRequested /\ x.inFlight = 1 /\ x.stage # "none"
                                THEN "closed" ELSE x.stage
<1> DEFINE left == [Used(x) EXCEPT !.inFlight = @ - 1]
<1>1. /\ Used(x) \in Connection /\ Used(x).stage = x.stage
      /\ Used(x).inFlight = x.inFlight /\ Used(x).closeRequested = x.closeRequested
  BY UsedConn
<1>2. x.inFlight \in Nat /\ x.inFlight - 1 \in Nat /\ x.stage \in {"none", "open", "closed"}
  BY DEF Connection
<1>3. /\ left \in Connection /\ left.stage = x.stage /\ left.inFlight = x.inFlight - 1
      /\ left.closeRequested = x.closeRequested
  BY <1>1, <1>2 DEF Connection
<1> HIDE DEF left
<1>4. Released(x) = IF left.closeRequested /\ left.inFlight = 0 THEN CloseNow(left) ELSE left
  BY DEF Released, left
<1>5. CASE x.closeRequested /\ x.inFlight = 1
  <2>1. Released(x) = CloseNow(left)
    BY <1>3, <1>4, <1>5
  <2> QED BY <1>2, <1>3, <1>5, <2>1, ClosedConn
<1>6. CASE ~(x.closeRequested /\ x.inFlight = 1)
  <2>1. Released(x) = left
    BY <1>2, <1>3, <1>4, <1>6
  <2> QED BY <1>3, <1>6, <2>1
<1> QED BY <1>5, <1>6

\* acquire: one body more.
LEMMA LentConn ==
  ASSUME NEW x \in Connection
  PROVE  /\ Lent(x) \in Connection /\ Lent(x).inFlight = x.inFlight + 1
         /\ Lent(x).closeRequested = x.closeRequested /\ Lent(x).stage = x.stage
<1>1. /\ Used(x) \in Connection /\ Used(x).stage = x.stage
      /\ Used(x).inFlight = x.inFlight /\ Used(x).closeRequested = x.closeRequested
  BY UsedConn
<1>2. x.inFlight \in Nat
  BY DEF Connection
<1> QED BY <1>1, <1>2 DEF Connection, Lent

\* A request moves.
LEMMA Moved ==
  ASSUME TypeInv, NEW r \in QUICRequests, NEW x \in Request, MoveRequest(r, x)
  PROVE  /\ h3Request' \in [QUICRequests -> Request] /\ h3Request'[r] = x
         /\ \A q \in QUICRequests : q # r => h3Request'[q] = h3Request[q]
BY DEF TypeInv, MoveRequest

\* A connection changes.
LEMMA Changed ==
  ASSUME TypeInv, NEW c \in QUICConns, NEW x \in Connection,
         quicConn' = [quicConn EXCEPT ![c] = x]
  PROVE  /\ quicConn' \in [QUICConns -> Connection] /\ quicConn'[c] = x
         /\ \A d \in QUICConns : d # c => quicConn'[d] = quicConn[d]
BY DEF TypeInv

\* Finitely many requests use a connection.
LEMMA UsersFinite ==
  ASSUME QUICConstants, NEW c
  PROVE  IsFiniteSet(Users(c))
BY FS_Subset DEF QUICConstants, Users

\* A request whose exchange or body is unfinished is counted.
LEMMA UserCounted ==
  ASSUME QUICConstants, TypeInv, RequestInv, CountExact, NEW r \in QUICRequests,
         h3Request[r].pc \in {"flight", "body"}
  PROVE  h3Request[r].conn \in QUICConns /\ quicConn[h3Request[r].conn].inFlight > 0
<1>1. h3Request[r].conn \in QUICConns
  BY DEF RequestInv
<1>2. r \in Users(h3Request[r].conn)
  BY DEF Users
<1> QED BY <1>1, <1>2, UsersFinite, FS_CardinalityType, FS_EmptySet DEF CountExact

\* What a step does to a request r and a connection c: the request moves to x, or
\* stays where it is, and the connection becomes y.
Steps(r, x, c, y) ==
    /\ x \in Request /\ MoveRequest(r, x)
    /\ y \in Connection /\ quicConn' = [quicConn EXCEPT ![c] = y]

\* The moves of the requests, by what they do to the request and its connection.
LEMMA FlightEnds ==
  ASSUME QUICConstants, TypeInv, RequestInv, CountExact, NEW r \in QUICRequests,
         h3Request[r].pc \in {"flight", "body"}, Finish(r),
         quicConn' = [quicConn EXCEPT ![h3Request[r].conn] = Released(@)]
  PROVE  LET c == h3Request[r].conn IN
         /\ c \in QUICConns /\ quicConn[c] \in Connection /\ quicConn[c].inFlight > 0
         /\ Steps(r, IdleRequest, c, Released(quicConn[c]))
<1>1. h3Request[r].conn \in QUICConns /\ quicConn[h3Request[r].conn].inFlight > 0
  BY UserCounted
<1>2. quicConn[h3Request[r].conn] \in Connection
  BY <1>1 DEF TypeInv
<1>3. Released(quicConn[h3Request[r].conn]) \in Connection
  BY <1>1, <1>2, ReleasedConn
<1>4. IdleRequest \in Request
  BY DEF IdleRequest, Request, Labels, QUICConstants
<1> QED BY <1>1, <1>2, <1>3, <1>4 DEF Steps, Finish

\* Every step keeps what requests have.
LEMMA RequestStep ==
  ASSUME QUICConstants, ListInv, TypeInv, RequestInv, [QUICNext]_quicVars
  PROVE  h3Request' \in [QUICRequests -> Request] /\ RequestInv'
<1> DEFINE Goal == h3Request' \in [QUICRequests -> Request] /\ RequestInv'
           Fits(x) == /\ x \in Request
                      /\ x.pc = "pool" => x.manager \in DOMAIN managers'
                      /\ x.pc \in {"look", "create"} => x.pool \in DOMAIN hostPools'
                      /\ x.pc \in {"have", "flight", "body"} => x.conn \in QUICConns
<1>a. DOMAIN managers \subseteq DOMAIN managers' /\ DOMAIN hostPools \subseteq DOMAIN hostPools'
  BY ListStep
<1>b. ASSUME UNCHANGED h3Request PROVE Goal
  BY <1>a, <1>b DEF TypeInv, RequestInv
<1>c. ASSUME NEW r \in QUICRequests, NEW x, Fits(x), MoveRequest(r, x) PROVE Goal
  <2>1. /\ h3Request' \in [QUICRequests -> Request] /\ h3Request'[r] = x
        /\ \A q \in QUICRequests : q # r => h3Request'[q] = h3Request[q]
    BY <1>c, Moved
  <2> QED BY <1>a, <1>c, <2>1 DEF RequestInv
<1>d. ASSUME NEW r \in QUICRequests, Finish(r) PROVE Goal
  <2>1. Fits(IdleRequest)
    BY DEF IdleRequest, Request, Labels, QUICConstants
  <2> HIDE DEF Goal, Fits
  <2> QED BY <1>c, <1>d, <2>1 DEF Finish
<1>e. \A r \in QUICRequests : h3Request[r] \in Request
  BY DEF TypeInv
<1>f. manager \in 0..MaxManagers /\ (manager # 0 => manager \in DOMAIN managers)
  BY DEF ListInv, QUICConstants
<1>g. 0 \in 0..MaxManagers /\ 0 \in 0..MaxPools
  BY DEF QUICConstants
<1> HIDE DEF Goal
<1>1. ASSUME NEW c \in QUICConns, RunRequestClose(c) PROVE Goal
  BY <1>1, <1>b DEF RunRequestClose, background
<1>2. ASSUME NEW c \in QUICConns, RunConnClose(c) PROVE Goal
  BY <1>2, <1>b DEF RunConnClose, background
<1>3. ASSUME NEW c \in QUICConns, Ages(c) PROVE Goal
  BY <1>3, <1>b DEF Ages, background
<1>4. ASSUME NEW c \in QUICConns, Stalls(c) PROVE Goal
  BY <1>4, <1>b DEF Stalls, background
<1>5. ASSUME NEW r \in QUICRequests, Snapshot(r) PROVE Goal
  <2> DEFINE x == [IdleRequest EXCEPT !.pc = IF manager = 0 THEN "idle" ELSE "pool",
                                  !.manager = manager]
  <2>1. IdleRequest \in Request
    BY <1>g DEF IdleRequest, Request, Labels
  <2>2. Fits(x)
    <3>1. CASE manager = 0
      BY <1>f, <2>1, <3>1 DEF Request, Labels
    <3>2. CASE manager # 0
      BY <1>a, <1>f, <2>1, <3>2 DEF Request, Labels
    <3> QED BY <3>1, <3>2
  <2> HIDE DEF Fits
  <2> QED BY <1>5, <1>c, <2>2 DEF Snapshot
<1>6. ASSUME NEW r \in QUICRequests, GetPool(r) PROVE Goal
  <2> DEFINE m == h3Request[r].manager
             x(p) == [h3Request[r] EXCEPT !.pc = "look", !.manager = 0, !.pool = p]
  <2>0. m \in DOMAIN managers
    BY <1>6 DEF GetPool, RequestInv
  <2>1. ASSUME NEW p \in DOMAIN hostPools', p \in 0..MaxPools PROVE Fits(x(p))
    BY <1>e, <1>g, <2>1 DEF Request, Labels
  <2>2. CASE Finish(r)
    BY <1>d, <2>2
  <2>3. CASE managers[m].pool # 0 /\ MoveRequest(r, x(managers[m].pool))
    <3>1. managers[m].pool \in DOMAIN hostPools' /\ managers[m].pool \in 0..MaxPools
      BY <1>a, <2>0, <2>3, ManagerPool DEF Manager
    <3> HIDE DEF Fits, x
    <3> QED BY <1>c, <2>1, <2>3, <3>1
  <2>4. CASE /\ Len(hostPools) < MaxPools /\ hostPools' = Append(hostPools, <<>>)
             /\ MoveRequest(r, x(Len(hostPools) + 1))
    <3>1. Len(hostPools) + 1 \in DOMAIN hostPools' /\ Len(hostPools) + 1 \in 0..MaxPools
      BY <2>4 DEF ListInv, QUICConstants
    <3> HIDE DEF Fits, x
    <3> QED BY <1>c, <2>1, <2>4, <3>1
  <2> QED BY <1>6, <2>2, <2>3, <2>4 DEF GetPool
<1>7. ASSUME NEW r \in QUICRequests, GetConnReuse(r) PROVE Goal
  <2> DEFINE p == h3Request[r].pool
  <2>1. PICK i \in DOMAIN hostPools[p] :
          /\ hostPools' = [hostPools EXCEPT ![p] = Append(RemoveAt(@, i), hostPools[p][i])]
          /\ MoveRequest(r, [h3Request[r] EXCEPT !.pc = "have", !.pool = 0,
                                                 !.conn = hostPools[p][i]])
    BY <1>7 DEF GetConnReuse
  <2>2. p \in DOMAIN hostPools
    BY <1>7 DEF GetConnReuse, RequestInv
  <2>3. hostPools[p][i] \in QUICConns
    BY <2>1, <2>2, PoolsReused
  <2> DEFINE x == [h3Request[r] EXCEPT !.pc = "have", !.pool = 0, !.conn = hostPools[p][i]]
  <2>4. Fits(x)
    BY <1>e, <1>g, <2>3 DEF Request, Labels
  <2> HIDE DEF Fits
  <2> QED BY <1>c, <2>1, <2>4
<1>8. ASSUME NEW r \in QUICRequests, GetConnMiss(r) PROVE Goal
  <2> DEFINE x == [h3Request[r] EXCEPT !.pc = "create"]
  <2>1. h3Request[r].pool \in DOMAIN hostPools /\ MoveRequest(r, x)
    BY <1>8 DEF GetConnMiss, RequestInv
  <2>2. Fits(x)
    BY <1>a, <1>e, <2>1 DEF Request, Labels
  <2> HIDE DEF Fits, x
  <2> QED BY <1>c, <2>1, <2>2
<1>9. ASSUME NEW r \in QUICRequests, CreateFails(r) PROVE Goal
  BY <1>9, <1>d DEF CreateFails
<1>10. ASSUME NEW r \in QUICRequests, CreateConn(r) PROVE Goal
  <2>1. PICK c \in QUICConns :
          MoveRequest(r, [h3Request[r] EXCEPT !.pc = "have", !.pool = 0, !.conn = c])
    BY <1>10 DEF CreateConn
  <2> DEFINE x == [h3Request[r] EXCEPT !.pc = "have", !.pool = 0, !.conn = c]
  <2>2. Fits(x)
    BY <1>e, <1>g DEF Request, Labels
  <2> HIDE DEF Fits
  <2> QED BY <1>c, <2>1, <2>2
<1>11. ASSUME NEW r \in QUICRequests, QUICRoundTrip(r) PROVE Goal
  <2> DEFINE x == [h3Request[r] EXCEPT !.pc = "again", !.conn = NoQUICConn, !.retried = TRUE]
             y == [h3Request[r] EXCEPT !.pc = "flight", !.retried = FALSE]
  <2>1. h3Request[r].conn \in QUICConns
    BY <1>11 DEF QUICRoundTrip, RequestInv
  <2>2. Fits(x) /\ Fits(y)
    BY <1>e, <2>1 DEF Request, Labels
  <2>3. MoveRequest(r, x) \/ Finish(r) \/ MoveRequest(r, y)
    BY <1>11 DEF QUICRoundTrip
  <2> HIDE DEF Fits, x, y
  <2> QED BY <1>c, <1>d, <2>2, <2>3
<1>12. ASSUME NEW r \in QUICRequests, Retry(r) PROVE Goal
  <2> DEFINE x == [h3Request[r] EXCEPT !.pc = "panic"]
             y == [h3Request[r] EXCEPT !.pc = "pool", !.manager = manager]
  <2>1. Fits(x)
    BY <1>e DEF Request, Labels
  <2>2. manager # 0 => Fits(y)
    BY <1>a, <1>e, <1>f DEF Request, Labels
  <2>3. MoveRequest(r, x) \/ (manager # 0 /\ MoveRequest(r, y))
    BY <1>12 DEF Retry
  <2> HIDE DEF Fits, x, y
  <2> QED BY <1>c, <2>1, <2>2, <2>3
<1>13. ASSUME NEW r \in QUICRequests, Respond(r) PROVE Goal
  <2> DEFINE x == [h3Request[r] EXCEPT !.pc = "body"]
  <2>1. Fits(x)
    BY <1>13, <1>e DEF Respond, RequestInv, Request, Labels
  <2>2. MoveRequest(r, x) \/ Finish(r)
    BY <1>13 DEF Respond
  <2> HIDE DEF Fits, x
  <2> QED BY <1>c, <1>d, <2>1, <2>2
<1>14. ASSUME NEW r \in QUICRequests, ReadBody(r) PROVE Goal
  BY <1>14, <1>b DEF ReadBody, background
<1>15. ASSUME NEW r \in QUICRequests, EndBody(r) PROVE Goal
  BY <1>15, <1>d DEF EndBody
<1>16. ASSUME NEW m \in DOMAIN managers, QUICCleanup(m) PROVE Goal
  BY <1>16, <1>b DEF QUICCleanup, background
<1>17. ASSUME NEW p \in DOMAIN hostPools, RunPoolClose(p) PROVE Goal
  BY <1>17, <1>b DEF RunPoolClose, background
<1>18. ASSUME QUICSetPreset PROVE Goal
  BY <1>18, <1>b DEF QUICSetPreset, background
<1>19. ASSUME CloseConnections PROVE Goal
  BY <1>19, <1>b DEF CloseConnections, background
<1>20. ASSUME SetUDPProxyBegin PROVE Goal
  BY <1>20, <1>b DEF SetUDPProxyBegin, background
<1>21. ASSUME SetUDPProxyEnd PROVE Goal
  BY <1>21, <1>b DEF SetUDPProxyEnd, background
<1>22. ASSUME ClientClose PROVE Goal
  BY <1>22, <1>b DEF ClientClose, background
<1>23. CASE UNCHANGED quicVars
  BY <1>b, <1>23 DEF quicVars, Goal
<1> QED BY <1>1, <1>2, <1>3, <1>4, <1>5, <1>6, <1>7, <1>8, <1>9, <1>10, <1>11, <1>12, <1>13,
    <1>14, <1>15, <1>16, <1>17, <1>18, <1>19, <1>20, <1>21, <1>22, <1>23 DEF QUICNext, Goal

\* What goroutines and shutdowns get to close was in a pool.
LEMMA SetsStep ==
  ASSUME QUICConstants, ListInv, TypeInv, RequestInv, [QUICNext]_quicVars
  PROVE  /\ closing' \subseteq closing \cup AllPooled \cup retiring
         /\ retiring' \subseteq retiring \cup AllPooled
         /\ orderedClosed' \subseteq orderedClosed \cup AllPooled
<1> DEFINE Goal == /\ closing' \subseteq closing \cup AllPooled \cup retiring
                   /\ retiring' \subseteq retiring \cup AllPooled
                   /\ orderedClosed' \subseteq orderedClosed \cup AllPooled
<1>a. manager # 0 => manager \in DOMAIN managers
  BY DEF ListInv
<1> USE DEF background
<1>1. ASSUME NEW c \in QUICConns, RunRequestClose(c) PROVE Goal
  BY <1>1 DEF RunRequestClose
<1>2. ASSUME NEW c \in QUICConns, RunConnClose(c) PROVE Goal
  BY <1>2 DEF RunConnClose
<1>3. ASSUME NEW c \in QUICConns, Ages(c) PROVE Goal
  BY <1>3 DEF Ages
<1>4. ASSUME NEW c \in QUICConns, Stalls(c) PROVE Goal
  BY <1>4 DEF Stalls
<1>5. ASSUME NEW r \in QUICRequests, Snapshot(r) PROVE Goal
  BY <1>5 DEF Snapshot
<1>6. ASSUME NEW r \in QUICRequests, GetPool(r) PROVE Goal
  BY <1>6 DEF GetPool
<1>7. ASSUME NEW r \in QUICRequests, GetConnReuse(r) PROVE Goal
  BY <1>7 DEF GetConnReuse
<1>8. ASSUME NEW r \in QUICRequests, GetConnMiss(r) PROVE Goal
  <2>1. /\ h3Request[r].pool \in DOMAIN hostPools /\ CloseIdle(h3Request[r].pool)
        /\ UNCHANGED orderedClosed
    BY <1>8 DEF GetConnMiss, RequestInv
  <2> QED BY <2>1, PoolsPruned DEF CloseIdle
<1>9. ASSUME NEW r \in QUICRequests, CreateFails(r) PROVE Goal
  BY <1>9 DEF CreateFails
<1>10. ASSUME NEW r \in QUICRequests, CreateConn(r) PROVE Goal
  BY <1>10 DEF CreateConn
<1>11. ASSUME NEW r \in QUICRequests, QUICRoundTrip(r) PROVE Goal
  BY <1>11 DEF QUICRoundTrip
<1>12. ASSUME NEW r \in QUICRequests, Retry(r) PROVE Goal
  BY <1>12 DEF Retry
<1>13. ASSUME NEW r \in QUICRequests, Respond(r) PROVE Goal
  BY <1>13 DEF Respond
<1>14. ASSUME NEW r \in QUICRequests, ReadBody(r) PROVE Goal
  BY <1>14 DEF ReadBody
<1>15. ASSUME NEW r \in QUICRequests, EndBody(r) PROVE Goal
  BY <1>15 DEF EndBody
<1>16. ASSUME NEW m \in DOMAIN managers, QUICCleanup(m) PROVE Goal
  <2>1. /\ managers[m].pool \in DOMAIN hostPools /\ CloseIdle(managers[m].pool)
        /\ UNCHANGED orderedClosed
    BY <1>16, ManagerPool DEF QUICCleanup
  <2> QED BY <2>1, PoolsPruned DEF CloseIdle
<1>17. ASSUME NEW p \in DOMAIN hostPools, RunPoolClose(p) PROVE Goal
  BY <1>17, PoolsShut DEF RunPoolClose, ShutPool
<1>18. ASSUME QUICSetPreset PROVE Goal
  BY <1>18 DEF QUICSetPreset
<1>19. ASSUME CloseConnections PROVE Goal
  <2>1. /\ managers[manager].pool \in DOMAIN hostPools /\ ShutPool(managers[manager].pool)
        /\ UNCHANGED retiring
    BY <1>19, <1>a, ManagerPool DEF CloseConnections
  <2> QED BY <2>1, PoolsShut DEF ShutPool
<1>20. ASSUME SetUDPProxyBegin PROVE Goal
  <2>1. CASE manager = 0
    BY <1>20, <2>1 DEF SetUDPProxyBegin
  <2>2. CASE manager # 0
    BY <1>20, <1>a, <2>2, ManagerCloses DEF SetUDPProxyBegin
  <2> QED BY <2>1, <2>2
<1>21. ASSUME SetUDPProxyEnd PROVE Goal
  BY <1>21 DEF SetUDPProxyEnd
<1>22. ASSUME ClientClose PROVE Goal
  BY <1>22, <1>a, ManagerCloses DEF ClientClose
<1>23. CASE UNCHANGED quicVars
  BY <1>23 DEF quicVars
<1> QED BY <1>1, <1>2, <1>3, <1>4, <1>5, <1>6, <1>7, <1>8, <1>9, <1>10, <1>11, <1>12, <1>13,
    <1>14, <1>15, <1>16, <1>17, <1>18, <1>19, <1>20, <1>21, <1>22, <1>23 DEF QUICNext

\* A connection in use, or in a pool, is a connection.
LEMMA ConnTypes ==
  ASSUME QUICConstants, ListInv, TypeInv, RequestInv
  PROVE  /\ \A c \in QUICConns : quicConn[c] \in Connection /\ Used(quicConn[c]) \in Connection
                                 /\ CloseNow(quicConn[c]) \in Connection
         /\ AllPooled \subseteq QUICConns
BY UsedConn, ClosedConn, PooledAreConns DEF TypeInv

\* Every step keeps the types.
LEMMA TypeStep ==
  ASSUME QUICConstants, ListInv, TypeInv, RequestInv, CountExact, [QUICNext]_quicVars
  PROVE  TypeInv'
<1>a. closing' \subseteq QUICConns /\ retiring' \subseteq QUICConns /\ orderedClosed' \subseteq QUICConns
  BY SetsStep, ConnTypes DEF TypeInv
<1>b. h3Request' \in [QUICRequests -> Request]
  BY RequestStep
<1> DEFINE Goal == quicConn' \in [QUICConns -> Connection]
<1>c. ASSUME UNCHANGED quicConn PROVE Goal
  BY <1>c DEF TypeInv
<1>d. ASSUME NEW c \in QUICConns, NEW x \in Connection, quicConn' = [quicConn EXCEPT ![c] = x]
      PROVE  Goal
  BY <1>d DEF TypeInv
<1> HIDE DEF Goal
<1>1. ASSUME NEW c \in QUICConns, RunRequestClose(c) PROVE Goal
  <2> DEFINE x == [quicConn[c] EXCEPT !.closeRequested = TRUE]
  <2>1. x \in Connection
    BY ConnTypes DEF Connection
  <2>2. quicConn' = [quicConn EXCEPT ![c] = x] \/ UNCHANGED quicConn
    BY <1>1 DEF RunRequestClose
  <2> QED BY <1>c, <1>d, <2>1, <2>2
<1>2. ASSUME NEW c \in QUICConns, RunConnClose(c) PROVE Goal
  BY <1>2, <1>d, ConnTypes DEF RunConnClose
<1>3. ASSUME NEW c \in QUICConns, Ages(c) PROVE Goal
  <2> DEFINE x == [quicConn[c] EXCEPT !.stale = "age"]  y == [quicConn[c] EXCEPT !.stale = "idle"]
  <2>1. x \in Connection /\ y \in Connection
    BY ConnTypes DEF Connection
  <2>2. quicConn' = [quicConn EXCEPT ![c] = x] \/ quicConn' = [quicConn EXCEPT ![c] = y]
    BY <1>3 DEF Ages
  <2> QED BY <1>d, <2>1, <2>2
<1>4. ASSUME NEW c \in QUICConns, Stalls(c) PROVE Goal
  <2> DEFINE x == [quicConn[c] EXCEPT !.stalled = TRUE]
  <2>1. x \in Connection
    BY ConnTypes DEF Connection
  <2>2. quicConn' = [quicConn EXCEPT ![c] = x]
    BY <1>4 DEF Stalls
  <2> QED BY <1>d, <2>1, <2>2
<1>5. ASSUME NEW r \in QUICRequests, Snapshot(r) PROVE Goal
  BY <1>5, <1>c DEF Snapshot
<1>6. ASSUME NEW r \in QUICRequests, GetPool(r) PROVE Goal
  BY <1>6, <1>c DEF GetPool
<1>7. ASSUME NEW r \in QUICRequests, GetConnReuse(r) PROVE Goal
  <2> DEFINE p == h3Request[r].pool
  <2>1. PICK i \in DOMAIN hostPools[p] :
          /\ hostPools' = [hostPools EXCEPT ![p] = Append(RemoveAt(@, i), hostPools[p][i])]
          /\ quicConn' = [quicConn EXCEPT ![hostPools[p][i]] = Used(@)]
    BY <1>7 DEF GetConnReuse
  <2>2. p \in DOMAIN hostPools
    BY <1>7 DEF GetConnReuse, RequestInv
  <2>3. hostPools[p][i] \in QUICConns
    BY <2>1, <2>2, PoolsReused
  <2> QED BY <1>d, <2>1, <2>3, ConnTypes
<1>8. ASSUME NEW r \in QUICRequests, GetConnMiss(r) PROVE Goal
  BY <1>8, <1>c DEF GetConnMiss
<1>9. ASSUME NEW r \in QUICRequests, CreateFails(r) PROVE Goal
  BY <1>9, <1>c DEF CreateFails
<1>10. ASSUME NEW r \in QUICRequests, CreateConn(r) PROVE Goal
  <2>1. PICK c \in QUICConns : quicConn' = [quicConn EXCEPT ![c].stage = "open"]
    BY <1>10 DEF CreateConn
  <2> DEFINE x == [quicConn[c] EXCEPT !.stage = "open"]
  <2>2. x \in Connection
    BY ConnTypes DEF Connection
  <2>3. quicConn' = [quicConn EXCEPT ![c] = x]
    BY <2>1
  <2> QED BY <1>d, <2>2, <2>3
<1>11. ASSUME NEW r \in QUICRequests, QUICRoundTrip(r) PROVE Goal
  <2>1. h3Request[r].conn \in QUICConns
    BY <1>11 DEF QUICRoundTrip, RequestInv
  <2>2. Lent(quicConn[h3Request[r].conn]) \in Connection
    BY <2>1, ConnTypes, LentConn
  <2> QED BY <1>11, <1>c, <1>d, <2>1, <2>2 DEF QUICRoundTrip
<1>12. ASSUME NEW r \in QUICRequests, Retry(r) PROVE Goal
  BY <1>12, <1>c DEF Retry
<1>13. ASSUME NEW r \in QUICRequests, Respond(r) PROVE Goal
  <2> DEFINE c == h3Request[r].conn
  <2>1. c \in QUICConns
    BY <1>13 DEF Respond, RequestInv
  <2>2. CASE quicConn' = [quicConn EXCEPT ![c] = Used(@)]
    BY <1>d, <2>1, <2>2, ConnTypes
  <2>3. CASE quicConn' = [quicConn EXCEPT ![c] = Released(@)] /\ Finish(r)
    BY <1>13, <1>d, <2>3, FlightEnds DEF Respond, Steps
  <2> QED BY <1>13, <2>2, <2>3 DEF Respond
<1>14. ASSUME NEW r \in QUICRequests, ReadBody(r) PROVE Goal
  <2> DEFINE c == h3Request[r].conn  x == [quicConn[c] EXCEPT !.stalled = FALSE]
  <2>1. c \in QUICConns
    BY <1>14 DEF ReadBody, RequestInv
  <2>2. x \in Connection
    BY <2>1, ConnTypes DEF Connection
  <2>3. quicConn' = [quicConn EXCEPT ![c] = x]
    BY <1>14 DEF ReadBody
  <2> QED BY <1>d, <2>1, <2>2, <2>3
<1>15. ASSUME NEW r \in QUICRequests, EndBody(r) PROVE Goal
  BY <1>15, <1>d, FlightEnds DEF EndBody, Steps
<1>16. ASSUME NEW m \in DOMAIN managers, QUICCleanup(m) PROVE Goal
  BY <1>16, <1>c DEF QUICCleanup
<1>17. ASSUME NEW p \in DOMAIN hostPools, RunPoolClose(p) PROVE Goal
  BY <1>17, <1>c DEF RunPoolClose
<1>18. ASSUME QUICSetPreset PROVE Goal
  BY <1>18, <1>c DEF QUICSetPreset
<1>19. ASSUME CloseConnections PROVE Goal
  BY <1>19, <1>c DEF CloseConnections
<1>20. ASSUME SetUDPProxyBegin PROVE Goal
  BY <1>20, <1>c DEF SetUDPProxyBegin
<1>21. ASSUME SetUDPProxyEnd PROVE Goal
  BY <1>21, <1>c DEF SetUDPProxyEnd
<1>22. ASSUME ClientClose PROVE Goal
  BY <1>22, <1>c DEF ClientClose
<1>23. ASSUME UNCHANGED quicVars PROVE Goal
  BY <1>c, <1>23 DEF quicVars
<1>24. Goal
  BY <1>1, <1>2, <1>3, <1>4, <1>5, <1>6, <1>7, <1>8, <1>9, <1>10, <1>11, <1>12, <1>13,
    <1>14, <1>15, <1>16, <1>17, <1>18, <1>19, <1>20, <1>21, <1>22, <1>23 DEF QUICNext
<1> QED BY <1>a, <1>b, <1>24 DEF TypeInv, Goal

-----------------------------------------------------------------------------
(* The in-flight counts.                                                   *)

\* A step that moves no request on or off a connection.
SameUsers ==
    /\ \A c \in QUICConns : quicConn'[c].inFlight = quicConn[c].inFlight
    /\ \A r \in QUICRequests :
         \/ h3Request'[r].pc = h3Request[r].pc /\ h3Request'[r].conn = h3Request[r].conn
         \/ h3Request[r].pc \notin {"flight", "body"} /\ h3Request'[r].pc \notin {"flight", "body"}
         \/ /\ h3Request[r].pc = "flight" /\ h3Request'[r].pc = "body"
            /\ h3Request'[r].conn = h3Request[r].conn

\* A step that neither acquires nor releases keeps the count exact.
LEMMA CountSame ==
  ASSUME CountExact, SameUsers
  PROVE  CountExact'
<1>1. ASSUME NEW c \in QUICConns PROVE Users(c)' = Users(c)
  BY DEF Users, SameUsers
<1> QED BY <1>1 DEF CountExact, SameUsers

\* RoundTrip counts a request in.
LEMMA CountLent ==
  ASSUME QUICConstants, TypeInv, RequestInv, CountExact, NEW r \in QUICRequests,
         h3Request[r].pc = "have", quicConn' = [quicConn EXCEPT ![h3Request[r].conn] = Lent(@)],
         MoveRequest(r, [h3Request[r] EXCEPT !.pc = "flight", !.retried = FALSE])
  PROVE  CountExact'
<1> DEFINE c == h3Request[r].conn  x == [h3Request[r] EXCEPT !.pc = "flight", !.retried = FALSE]
<1>1. c \in QUICConns /\ quicConn[c] \in Connection /\ h3Request[r] \in Request
  BY DEF RequestInv, TypeInv
<1>2. /\ Lent(quicConn[c]) \in Connection /\ Lent(quicConn[c]).inFlight = quicConn[c].inFlight + 1
  BY <1>1, LentConn
<1>3. \A d \in QUICConns : quicConn'[d].inFlight =
         IF d = c THEN quicConn[d].inFlight + 1 ELSE quicConn[d].inFlight
  BY <1>1, <1>2 DEF TypeInv
<1>4. x \in Request /\ x.pc = "flight" /\ x.conn = c
  BY <1>1 DEF Request, Labels
<1>5. /\ h3Request'[r] = x /\ \A q \in QUICRequests : q # r => h3Request'[q] = h3Request[q]
  BY <1>4, Moved
<1> HIDE DEF x
<1>6. ASSUME NEW d \in QUICConns
      PROVE  r \notin Users(d) /\ Users(d)' = IF d = c THEN Users(d) \cup {r} ELSE Users(d)
  BY <1>4, <1>5 DEF Users
<1>7. ASSUME NEW d \in QUICConns PROVE quicConn'[d].inFlight = Cardinality(Users(d)')
  BY <1>3, <1>6, UsersFinite, FS_AddElement DEF CountExact
<1> QED BY <1>7 DEF CountExact

\* release takes it from them.
LEMMA CountReleased ==
  ASSUME QUICConstants, TypeInv, RequestInv, CountExact, NEW r \in QUICRequests,
         h3Request[r].pc \in {"flight", "body"}, Finish(r),
         quicConn' = [quicConn EXCEPT ![h3Request[r].conn] = Released(@)]
  PROVE  CountExact'
<1> DEFINE c == h3Request[r].conn
<1>1. /\ c \in QUICConns /\ quicConn[c] \in Connection /\ quicConn[c].inFlight > 0
      /\ Steps(r, IdleRequest, c, Released(quicConn[c]))
  BY FlightEnds
<1>2. Released(quicConn[c]).inFlight = quicConn[c].inFlight - 1
  BY <1>1, ReleasedConn
<1>3. \A d \in QUICConns : quicConn'[d].inFlight =
         IF d = c THEN quicConn[d].inFlight - 1 ELSE quicConn[d].inFlight
  BY <1>1, <1>2 DEF TypeInv
<1>4. /\ h3Request'[r].pc = "idle"
      /\ \A q \in QUICRequests : q # r => h3Request'[q] = h3Request[q]
  BY <1>1, Moved DEF Steps, IdleRequest
<1>5. ASSUME NEW d \in QUICConns
      PROVE  Users(d)' = IF d = c THEN Users(d) \ {r} ELSE Users(d)
  BY <1>4 DEF Users
<1>6. r \in Users(c)
  BY DEF Users
<1>7. ASSUME NEW d \in QUICConns PROVE quicConn'[d].inFlight = Cardinality(Users(d)')
  BY <1>3, <1>5, <1>6, UsersFinite, FS_RemoveElement DEF CountExact
<1> QED BY <1>7 DEF CountExact

\* Every step keeps the counts exact.
LEMMA CountStep ==
  ASSUME QUICConstants, ListInv, TypeInv, RequestInv, CountExact, [QUICNext]_quicVars
  PROVE  CountExact'
<1>a. /\ quicConn \in [QUICConns -> Connection] /\ h3Request \in [QUICRequests -> Request]
  BY DEF TypeInv
<1>b. ASSUME UNCHANGED <<quicConn, h3Request>> PROVE CountExact'
  BY <1>b, CountSame DEF SameUsers
<1>c. ASSUME UNCHANGED h3Request, NEW c \in QUICConns, NEW x \in Connection,
             quicConn' = [quicConn EXCEPT ![c] = x], x.inFlight = quicConn[c].inFlight
      PROVE  CountExact'
  BY <1>a, <1>c, CountSame DEF SameUsers
<1>d. ASSUME UNCHANGED quicConn, NEW r \in QUICRequests, NEW x, MoveRequest(r, x),
             h3Request[r].pc \notin {"flight", "body"}, x.pc \notin {"flight", "body"}
      PROVE  CountExact'
  BY <1>a, <1>d, CountSame DEF SameUsers, MoveRequest
<1>e. ASSUME UNCHANGED quicConn, NEW r \in QUICRequests, Finish(r),
             h3Request[r].pc \notin {"flight", "body"}
      PROVE  CountExact'
  BY <1>d, <1>e DEF Finish, IdleRequest
<1>f. ASSUME NEW r \in QUICRequests, NEW x, MoveRequest(r, x),
             \/ h3Request[r].pc \notin {"flight", "body"} /\ x.pc \notin {"flight", "body"}
             \/ h3Request[r].pc = "flight" /\ x.pc = "body" /\ x.conn = h3Request[r].conn,
             NEW c \in QUICConns, NEW y \in Connection,
             quicConn' = [quicConn EXCEPT ![c] = y], y.inFlight = quicConn[c].inFlight
      PROVE  CountExact'
  <2>1. \A d \in QUICConns : quicConn'[d].inFlight = quicConn[d].inFlight
    BY <1>a, <1>f
  <2>2. h3Request'[r] = x /\ \A q \in QUICRequests : q # r => h3Request'[q] = h3Request[q]
    BY <1>a, <1>f DEF MoveRequest
  <2>3. SameUsers
    BY <1>f, <2>1, <2>2 DEF SameUsers
  <2> QED BY <2>3, CountSame
<1>1. ASSUME NEW c \in QUICConns, RunRequestClose(c) PROVE CountExact'
  <2> DEFINE x == [quicConn[c] EXCEPT !.closeRequested = TRUE]
  <2>1. x \in Connection /\ x.inFlight = quicConn[c].inFlight
    BY <1>a DEF Connection
  <2>2. UNCHANGED h3Request /\ (quicConn' = [quicConn EXCEPT ![c] = x] \/ UNCHANGED quicConn)
    BY <1>1 DEF RunRequestClose
  <2> QED BY <1>b, <1>c, <2>1, <2>2
<1>2. ASSUME NEW c \in QUICConns, RunConnClose(c) PROVE CountExact'
  <2>1. quicConn[c] \in Connection
    BY <1>a
  <2> QED BY <1>2, <1>c, <2>1, ClosedConn DEF RunConnClose
<1>3. ASSUME NEW c \in QUICConns, Ages(c) PROVE CountExact'
  <2> DEFINE x == [quicConn[c] EXCEPT !.stale = "age"]  y == [quicConn[c] EXCEPT !.stale = "idle"]
  <2>1. /\ x \in Connection /\ y \in Connection
        /\ x.inFlight = quicConn[c].inFlight /\ y.inFlight = quicConn[c].inFlight
    BY <1>a DEF Connection
  <2>2. /\ UNCHANGED h3Request
        /\ quicConn' = [quicConn EXCEPT ![c] = x] \/ quicConn' = [quicConn EXCEPT ![c] = y]
    BY <1>3 DEF Ages
  <2> QED BY <1>c, <2>1, <2>2
<1>4. ASSUME NEW c \in QUICConns, Stalls(c) PROVE CountExact'
  <2> DEFINE x == [quicConn[c] EXCEPT !.stalled = TRUE]
  <2>1. x \in Connection /\ x.inFlight = quicConn[c].inFlight
    BY <1>a DEF Connection
  <2>2. UNCHANGED h3Request /\ quicConn' = [quicConn EXCEPT ![c] = x]
    BY <1>4 DEF Stalls
  <2> QED BY <1>c, <2>1, <2>2
<1>5. ASSUME NEW r \in QUICRequests, Snapshot(r) PROVE CountExact'
  <2> DEFINE x == [IdleRequest EXCEPT !.pc = IF manager = 0 THEN "idle" ELSE "pool",
                                  !.manager = manager]
  <2>1. MoveRequest(r, x) /\ h3Request[r].pc = "idle" /\ UNCHANGED quicConn
    BY <1>5 DEF Snapshot
  <2>2. x.pc \notin {"flight", "body"}
    BY DEF IdleRequest
  <2> QED BY <1>d, <2>1, <2>2
<1>6. ASSUME NEW r \in QUICRequests, GetPool(r) PROVE CountExact'
  <2> DEFINE x(p) == [h3Request[r] EXCEPT !.pc = "look", !.manager = 0, !.pool = p]
  <2>1. /\ Finish(r) \/ \E p : MoveRequest(r, x(p))
        /\ h3Request[r].pc = "pool" /\ UNCHANGED quicConn
    BY <1>6 DEF GetPool
  <2>2. \A p : x(p).pc \notin {"flight", "body"}
    BY <1>a DEF Request
  <2> HIDE DEF x
  <2> QED BY <1>d, <1>e, <2>1, <2>2
<1>7. ASSUME NEW r \in QUICRequests, GetConnReuse(r) PROVE CountExact'
  <2> DEFINE p == h3Request[r].pool
  <2>1. PICK i \in DOMAIN hostPools[p] :
          /\ hostPools' = [hostPools EXCEPT ![p] = Append(RemoveAt(@, i), hostPools[p][i])]
          /\ quicConn' = [quicConn EXCEPT ![hostPools[p][i]] = Used(@)]
          /\ MoveRequest(r, [h3Request[r] EXCEPT !.pc = "have", !.pool = 0,
                                                 !.conn = hostPools[p][i]])
    BY <1>7 DEF GetConnReuse
  <2>2. p \in DOMAIN hostPools /\ h3Request[r].pc = "look"
    BY <1>7 DEF GetConnReuse, RequestInv
  <2> DEFINE c == hostPools[p][i]
             x == [h3Request[r] EXCEPT !.pc = "have", !.pool = 0, !.conn = c]
  <2>3. c \in QUICConns
    BY <2>1, <2>2, PoolsReused
  <2>4. Used(quicConn[c]) \in Connection /\ Used(quicConn[c]).inFlight = quicConn[c].inFlight
    BY <1>a, <2>3, UsedConn
  <2>5. x.pc = "have"
    BY <1>a DEF Request
  <2> HIDE DEF x, c
  <2> QED BY <1>f, <2>1, <2>2, <2>3, <2>4, <2>5 DEF x, c
<1>8. ASSUME NEW r \in QUICRequests, GetConnMiss(r) PROVE CountExact'
  <2> DEFINE x == [h3Request[r] EXCEPT !.pc = "create"]
  <2>1. MoveRequest(r, x) /\ h3Request[r].pc = "look" /\ UNCHANGED quicConn
    BY <1>8 DEF GetConnMiss
  <2>2. x.pc = "create"
    BY <1>a DEF Request
  <2> HIDE DEF x
  <2> QED BY <1>d, <2>1, <2>2
<1>9. ASSUME NEW r \in QUICRequests, CreateFails(r) PROVE CountExact'
  BY <1>9, <1>e DEF CreateFails
<1>10. ASSUME NEW r \in QUICRequests, CreateConn(r) PROVE CountExact'
  <2>1. PICK c \in QUICConns :
          /\ quicConn' = [quicConn EXCEPT ![c].stage = "open"]
          /\ MoveRequest(r, [h3Request[r] EXCEPT !.pc = "have", !.pool = 0, !.conn = c])
    BY <1>10 DEF CreateConn
  <2> DEFINE x == [h3Request[r] EXCEPT !.pc = "have", !.pool = 0, !.conn = c]
             y == [quicConn[c] EXCEPT !.stage = "open"]
  <2>2. y \in Connection /\ y.inFlight = quicConn[c].inFlight
    BY <1>a DEF Connection
  <2>3. x.pc = "have" /\ h3Request[r].pc = "create"
    BY <1>10, <1>a DEF Request, CreateConn
  <2>4. quicConn' = [quicConn EXCEPT ![c] = y] /\ MoveRequest(r, x)
    BY <2>1
  <2> HIDE DEF x, y
  <2> QED BY <1>f, <2>2, <2>3, <2>4
<1>11. ASSUME NEW r \in QUICRequests, QUICRoundTrip(r) PROVE CountExact'
  <2> DEFINE x == [h3Request[r] EXCEPT !.pc = "again", !.conn = NoQUICConn, !.retried = TRUE]
  <2>1. h3Request[r].pc = "have" /\ x.pc = "again"
    BY <1>11, <1>a DEF QUICRoundTrip, Request
  <2>2. CASE Retired(h3Request[r].conn)
    <3>1. UNCHANGED quicConn /\ (MoveRequest(r, x) \/ Finish(r))
      BY <1>11, <2>2 DEF QUICRoundTrip
    <3> HIDE DEF x
    <3> QED BY <1>d, <1>e, <2>1, <3>1
  <2>3. CASE ~Retired(h3Request[r].conn)
    BY <1>11, <2>1, <2>3, CountLent DEF QUICRoundTrip
  <2> QED BY <2>2, <2>3
<1>12. ASSUME NEW r \in QUICRequests, Retry(r) PROVE CountExact'
  <2> DEFINE x == [h3Request[r] EXCEPT !.pc = "panic"]
             y == [h3Request[r] EXCEPT !.pc = "pool", !.manager = manager]
  <2>1. x.pc = "panic" /\ y.pc = "pool"
    BY <1>a DEF Request
  <2>2. /\ MoveRequest(r, x) \/ MoveRequest(r, y)
        /\ UNCHANGED quicConn /\ h3Request[r].pc = "again"
    BY <1>12 DEF Retry
  <2> HIDE DEF x, y
  <2> QED BY <1>d, <2>1, <2>2
<1>13. ASSUME NEW r \in QUICRequests, Respond(r) PROVE CountExact'
  <2> DEFINE c == h3Request[r].conn  x == [h3Request[r] EXCEPT !.pc = "body"]
  <2>1. h3Request[r].pc = "flight" /\ c \in QUICConns
    BY <1>13 DEF Respond, RequestInv
  <2>2. CASE quicConn' = [quicConn EXCEPT ![c] = Used(@)] /\ MoveRequest(r, x)
    <3>1. Used(quicConn[c]) \in Connection /\ Used(quicConn[c]).inFlight = quicConn[c].inFlight
      BY <1>a, <2>1, UsedConn
    <3>2. x.pc = "body" /\ x.conn = c
      BY <1>a DEF Request
    <3> HIDE DEF x
    <3> QED BY <1>f, <2>1, <2>2, <3>1, <3>2
  <2>3. CASE quicConn' = [quicConn EXCEPT ![c] = Released(@)] /\ Finish(r)
    BY <2>1, <2>3, CountReleased
  <2> QED BY <1>13, <2>2, <2>3 DEF Respond
<1>14. ASSUME NEW r \in QUICRequests, ReadBody(r) PROVE CountExact'
  <2> DEFINE c == h3Request[r].conn  x == [quicConn[c] EXCEPT !.stalled = FALSE]
  <2>1. c \in QUICConns
    BY <1>14 DEF ReadBody, RequestInv
  <2>2. x \in Connection /\ x.inFlight = quicConn[c].inFlight
    BY ZenonT(60), <1>a, <2>1 DEF Connection
  <2>3. UNCHANGED h3Request /\ quicConn' = [quicConn EXCEPT ![c] = x]
    BY <1>14 DEF ReadBody
  <2> QED BY <1>c, <2>1, <2>2, <2>3
<1>15. ASSUME NEW r \in QUICRequests, EndBody(r) PROVE CountExact'
  BY <1>15, CountReleased DEF EndBody
<1>16. ASSUME NEW m \in DOMAIN managers, QUICCleanup(m) PROVE CountExact'
  BY <1>16, <1>b DEF QUICCleanup, background
<1>17. ASSUME NEW p \in DOMAIN hostPools, RunPoolClose(p) PROVE CountExact'
  BY <1>17, <1>b DEF RunPoolClose, background
<1>18. ASSUME QUICSetPreset PROVE CountExact'
  BY <1>18, <1>b DEF QUICSetPreset, background
<1>19. ASSUME CloseConnections PROVE CountExact'
  BY <1>19, <1>b DEF CloseConnections, background
<1>20. ASSUME SetUDPProxyBegin PROVE CountExact'
  BY <1>20, <1>b DEF SetUDPProxyBegin, background
<1>21. ASSUME SetUDPProxyEnd PROVE CountExact'
  BY <1>21, <1>b DEF SetUDPProxyEnd, background
<1>22. ASSUME ClientClose PROVE CountExact'
  BY <1>22, <1>b DEF ClientClose, background
<1>23. CASE UNCHANGED quicVars
  BY <1>b, <1>23 DEF quicVars
<1> QED BY <1>1, <1>2, <1>3, <1>4, <1>5, <1>6, <1>7, <1>8, <1>9, <1>10, <1>11, <1>12, <1>13,
    <1>14, <1>15, <1>16, <1>17, <1>18, <1>19, <1>20, <1>21, <1>22, <1>23 DEF QUICNext

-----------------------------------------------------------------------------
(* What a step does to a connection d.                                     *)

Keeps(d) ==
    /\ quicConn'[d].inFlight = quicConn[d].inFlight
    /\ quicConn'[d].closeRequested = quicConn[d].closeRequested

\* Nothing, except that a `go conn.Close()` may start, for a reason.
Left(d) ==
    /\ Keeps(d) /\ quicConn'[d].stage = quicConn[d].stage
    /\ d \in closing => d \in closing'
    /\ d \in closing' /\ d \notin closing =>
         \/ quicConn[d].inFlight = 0 \/ quicConn[d].stalled \/ quicConn[d].stage = "closed"
         \/ d \in orderedClosed'

Created(d) ==
    /\ Keeps(d) /\ quicConn[d].stage = "none" /\ quicConn'[d].stage = "open"
    /\ closing' = closing

LentTo(d) ==
    /\ ~Retired(d) /\ (\E r \in QUICRequests : h3Request[r].pc = "have" /\ h3Request[r].conn = d)
    /\ quicConn'[d].inFlight = quicConn[d].inFlight + 1
    /\ quicConn'[d].closeRequested = quicConn[d].closeRequested
    /\ quicConn'[d].stage = quicConn[d].stage /\ closing' = closing

GivenBack(d) ==
    /\ quicConn[d].inFlight > 0 /\ quicConn'[d].inFlight = quicConn[d].inFlight - 1
    /\ quicConn'[d].closeRequested = quicConn[d].closeRequested
    /\ quicConn'[d].stage = IF /\ quicConn[d].closeRequested /\ quicConn[d].inFlight = 1
                               /\ quicConn[d].stage # "none"
                            THEN "closed" ELSE quicConn[d].stage
    /\ closing' = closing

Retires(d) ==
    /\ d \in retiring /\ quicConn[d].inFlight > 0
    /\ quicConn'[d].inFlight = quicConn[d].inFlight
    /\ quicConn'[d].stage = quicConn[d].stage
    /\ quicConn'[d].closeRequested = TRUE /\ closing' = closing

Completes(d) ==
    /\ d \in closing /\ Keeps(d)
    /\ quicConn'[d].stage = IF quicConn[d].stage = "none" THEN "none" ELSE "closed"

Effect(d) == Left(d) \/ Created(d) \/ LentTo(d) \/ GivenBack(d) \/ Retires(d) \/ Completes(d)

\* CloseIdle closes what nobody uses, what was abandoned, and what is closed.
LEMMA PrunedLeft ==
  ASSUME TypeInv, NEW p, CloseIdle(p), UNCHANGED quicConn, NEW d \in QUICConns
  PROVE  Left(d)
<1>1. closing' = closing \cup PruneClosed(p)
  BY DEF CloseIdle
<1>2. d \in PruneClosed(p) =>
        quicConn[d].inFlight = 0 \/ quicConn[d].stalled \/ quicConn[d].stage = "closed"
  BY DEF PruneClosed, QUICDestroyable
<1> QED BY <1>1, <1>2 DEF Left, Keeps

\* QUICHostPool.Close closes by order.
LEMMA ShutLeft ==
  ASSUME NEW p, ShutPool(p), UNCHANGED quicConn, NEW d \in QUICConns
  PROVE  Left(d)
BY DEF Left, Keeps, ShutPool

\* QUICManager.Close starts closes only.
LEMMA ManagerLeft ==
  ASSUME NEW m, CloseManager(m), UNCHANGED quicConn, NEW d \in QUICConns
  PROVE  Left(d)
BY ShutLeft DEF CloseManager, Left, Keeps

\* Every step does one of these things to every connection.
LEMMA EffectStep ==
  ASSUME QUICConstants, ListInv, TypeInv, RequestInv, CountExact, [QUICNext]_quicVars,
         NEW d \in QUICConns
  PROVE  Effect(d)
<1>a. /\ quicConn \in [QUICConns -> Connection] /\ quicConn[d] \in Connection
  BY DEF TypeInv
<1>b. ASSUME UNCHANGED <<quicConn, closing>> PROVE Effect(d)
  BY <1>b DEF Effect, Left, Keeps
<1>c. ASSUME UNCHANGED closing, NEW c \in QUICConns, NEW x \in Connection,
             quicConn' = [quicConn EXCEPT ![c] = x], x.inFlight = quicConn[c].inFlight,
             x.closeRequested = quicConn[c].closeRequested, x.stage = quicConn[c].stage
      PROVE  Effect(d)
  BY <1>a, <1>c DEF Effect, Left, Keeps
<1>d. ASSUME NEW c \in QUICConns, NEW x \in Connection,
             quicConn' = [quicConn EXCEPT ![c] = x]
      PROVE  quicConn'[d] = IF d = c THEN x ELSE quicConn[d]
  BY <1>a, <1>d
<1>e. ASSUME quicConn'[d] = quicConn[d], closing' = closing \/ \E c : c # d /\ closing' = closing \ {c}
      PROVE  Effect(d)
  BY <1>e DEF Effect, Left, Keeps
<1>1. ASSUME NEW c \in QUICConns, RunRequestClose(c) PROVE Effect(d)
  <2> DEFINE x == [quicConn[c] EXCEPT !.closeRequested = TRUE]
  <2>1. /\ x \in Connection /\ x.inFlight = quicConn[c].inFlight /\ x.stage = quicConn[c].stage
        /\ x.closeRequested = TRUE /\ quicConn[c].inFlight \in Nat
    BY <1>a DEF Connection
  <2>2. CASE quicConn[c].inFlight > 0
    <3>1. quicConn' = [quicConn EXCEPT ![c] = x] /\ UNCHANGED closing /\ c \in retiring
      BY <1>1, <2>2 DEF RunRequestClose
    <3> HIDE DEF x
    <3>2. quicConn'[d] = IF d = c THEN x ELSE quicConn[d]
      BY <1>d, <2>1, <3>1
    <3>3. CASE d = c
      BY <2>1, <2>2, <3>1, <3>2, <3>3 DEF Effect, Retires
    <3>4. CASE d # c
      BY <1>e, <3>1, <3>2, <3>4
    <3> QED BY <3>3, <3>4
  <2>3. CASE ~(quicConn[c].inFlight > 0)
    <3>1. closing' = closing \cup {c} /\ UNCHANGED quicConn /\ quicConn[c].inFlight = 0
      BY <1>1, <2>1, <2>3 DEF RunRequestClose
    <3> QED BY <3>1 DEF Effect, Left, Keeps
  <2> QED BY <2>2, <2>3
<1>2. ASSUME NEW c \in QUICConns, RunConnClose(c) PROVE Effect(d)
  <2>1. /\ c \in closing /\ closing' = closing \ {c}
        /\ quicConn' = [quicConn EXCEPT ![c] = CloseNow(quicConn[c])]
    BY <1>2 DEF RunConnClose
  <2>2. /\ CloseNow(quicConn[c]) \in Connection
        /\ CloseNow(quicConn[c]).stage = IF quicConn[c].stage = "none" THEN "none" ELSE "closed"
        /\ CloseNow(quicConn[c]).inFlight = quicConn[c].inFlight
        /\ CloseNow(quicConn[c]).closeRequested = quicConn[c].closeRequested
    BY <1>a, ClosedConn
  <2>3. quicConn'[d] = IF d = c THEN CloseNow(quicConn[c]) ELSE quicConn[d]
    BY <1>d, <2>1, <2>2
  <2>4. CASE d = c
    BY <2>1, <2>2, <2>3, <2>4 DEF Effect, Completes, Keeps
  <2>5. CASE d # c
    BY <1>e, <2>1, <2>3, <2>5
  <2> QED BY <2>4, <2>5
<1>3. ASSUME NEW c \in QUICConns, Ages(c) PROVE Effect(d)
  <2> DEFINE x == [quicConn[c] EXCEPT !.stale = "age"]  y == [quicConn[c] EXCEPT !.stale = "idle"]
  <2>1. /\ x \in Connection /\ x.inFlight = quicConn[c].inFlight /\ x.stage = quicConn[c].stage
        /\ x.closeRequested = quicConn[c].closeRequested
    BY <1>a DEF Connection
  <2>2. /\ y \in Connection /\ y.inFlight = quicConn[c].inFlight /\ y.stage = quicConn[c].stage
        /\ y.closeRequested = quicConn[c].closeRequested
    BY <1>a DEF Connection
  <2>3. /\ UNCHANGED closing
        /\ quicConn' = [quicConn EXCEPT ![c] = x] \/ quicConn' = [quicConn EXCEPT ![c] = y]
    BY <1>3 DEF Ages, background
  <2> HIDE DEF x, y
  <2> QED BY <1>c, <2>1, <2>2, <2>3
<1>4. ASSUME NEW c \in QUICConns, Stalls(c) PROVE Effect(d)
  <2> DEFINE x == [quicConn[c] EXCEPT !.stalled = TRUE]
  <2>1. /\ x \in Connection /\ x.inFlight = quicConn[c].inFlight /\ x.stage = quicConn[c].stage
        /\ x.closeRequested = quicConn[c].closeRequested
    BY <1>a DEF Connection
  <2>2. UNCHANGED closing /\ quicConn' = [quicConn EXCEPT ![c] = x]
    BY <1>4 DEF Stalls, background
  <2> HIDE DEF x
  <2> QED BY <1>c, <2>1, <2>2
<1>5. ASSUME NEW r \in QUICRequests, Snapshot(r) PROVE Effect(d)
  BY <1>5, <1>b DEF Snapshot, background
<1>6. ASSUME NEW r \in QUICRequests, GetPool(r) PROVE Effect(d)
  BY <1>6, <1>b DEF GetPool, background
<1>7. ASSUME NEW r \in QUICRequests, GetConnReuse(r) PROVE Effect(d)
  <2> DEFINE p == h3Request[r].pool
  <2>1. PICK i \in DOMAIN hostPools[p] :
          /\ hostPools' = [hostPools EXCEPT ![p] = Append(RemoveAt(@, i), hostPools[p][i])]
          /\ quicConn' = [quicConn EXCEPT ![hostPools[p][i]] = Used(@)]
    BY <1>7 DEF GetConnReuse
  <2>2. p \in DOMAIN hostPools /\ UNCHANGED closing
    BY <1>7 DEF GetConnReuse, RequestInv, background
  <2>3. hostPools[p][i] \in QUICConns
    BY <2>1, <2>2, PoolsReused
  <2>4. quicConn[hostPools[p][i]] \in Connection
    BY <1>a, <2>3
  <2> QED BY <1>c, <2>1, <2>2, <2>3, <2>4, UsedConn
<1>8. ASSUME NEW r \in QUICRequests, GetConnMiss(r) PROVE Effect(d)
  BY <1>8, PrunedLeft DEF GetConnMiss, Effect
<1>9. ASSUME NEW r \in QUICRequests, CreateFails(r) PROVE Effect(d)
  BY <1>9, <1>b DEF CreateFails, background
<1>10. ASSUME NEW r \in QUICRequests, CreateConn(r) PROVE Effect(d)
  <2>1. PICK c \in QUICConns :
          /\ quicConn[c].stage = "none" /\ quicConn' = [quicConn EXCEPT ![c].stage = "open"]
    BY <1>10 DEF CreateConn
  <2>2. UNCHANGED closing
    BY <1>10 DEF CreateConn, background
  <2> DEFINE x == [quicConn[c] EXCEPT !.stage = "open"]
  <2>3. /\ x \in Connection /\ x.inFlight = quicConn[c].inFlight /\ x.stage = "open"
        /\ x.closeRequested = quicConn[c].closeRequested
    BY <1>a DEF Connection
  <2>4. quicConn' = [quicConn EXCEPT ![c] = x]
    BY <2>1
  <2> HIDE DEF x
  <2>5. quicConn'[d] = IF d = c THEN x ELSE quicConn[d]
    BY <1>d, <2>3, <2>4
  <2>6. CASE d = c
    BY <2>1, <2>2, <2>3, <2>5, <2>6 DEF Effect, Created, Keeps
  <2>7. CASE d # c
    BY <1>e, <2>2, <2>5, <2>7
  <2> QED BY <2>6, <2>7
<1>11. ASSUME NEW r \in QUICRequests, QUICRoundTrip(r) PROVE Effect(d)
  <2> DEFINE c == h3Request[r].conn
  <2>1. c \in QUICConns /\ h3Request[r].pc = "have" /\ UNCHANGED closing
    BY <1>11 DEF QUICRoundTrip, RequestInv, background
  <2>2. CASE Retired(c)
    BY <1>11, <1>b, <2>1, <2>2 DEF QUICRoundTrip
  <2>3. CASE ~Retired(c)
    <3>1. quicConn' = [quicConn EXCEPT ![c] = Lent(quicConn[c])]
      BY <1>11, <2>3 DEF QUICRoundTrip
    <3>2. /\ Lent(quicConn[c]) \in Connection
          /\ Lent(quicConn[c]).inFlight = quicConn[c].inFlight + 1
          /\ Lent(quicConn[c]).closeRequested = quicConn[c].closeRequested
          /\ Lent(quicConn[c]).stage = quicConn[c].stage
      BY <1>a, <2>1, LentConn
    <3>3. quicConn'[d] = IF d = c THEN Lent(quicConn[c]) ELSE quicConn[d]
      BY <1>d, <2>1, <3>1, <3>2
    <3>4. CASE d = c
      BY <2>1, <2>3, <3>2, <3>3, <3>4 DEF Effect, LentTo
    <3>5. CASE d # c
      BY <1>e, <2>1, <3>3, <3>5
    <3> QED BY <3>4, <3>5
  <2> QED BY <2>2, <2>3
<1>12. ASSUME NEW r \in QUICRequests, Retry(r) PROVE Effect(d)
  BY <1>12, <1>b DEF Retry, background
<1>13. ASSUME NEW r \in QUICRequests, Respond(r) PROVE Effect(d)
  <2> DEFINE c == h3Request[r].conn
  <2>1. c \in QUICConns /\ h3Request[r].pc \in {"flight", "body"} /\ UNCHANGED closing
    BY <1>13 DEF Respond, RequestInv, background
  <2>2. CASE quicConn' = [quicConn EXCEPT ![c] = Used(@)]
    BY <1>a, <1>c, <2>1, <2>2, UsedConn
  <2>3. CASE quicConn' = [quicConn EXCEPT ![c] = Released(@)] /\ Finish(r)
    <3>1. /\ quicConn[c] \in Connection /\ quicConn[c].inFlight > 0
          /\ Steps(r, IdleRequest, c, Released(quicConn[c]))
      BY <2>1, <2>3, FlightEnds
    <3>2. /\ Released(quicConn[c]) \in Connection
          /\ Released(quicConn[c]).inFlight = quicConn[c].inFlight - 1
          /\ Released(quicConn[c]).closeRequested = quicConn[c].closeRequested
          /\ Released(quicConn[c]).stage =
               IF quicConn[c].closeRequested /\ quicConn[c].inFlight = 1 /\ quicConn[c].stage # "none"
               THEN "closed" ELSE quicConn[c].stage
      BY <3>1, ReleasedConn
    <3>3. quicConn'[d] = IF d = c THEN Released(quicConn[c]) ELSE quicConn[d]
      BY <1>d, <2>1, <3>1, <3>2 DEF Steps
    <3>4. CASE d = c
      BY <2>1, <3>1, <3>2, <3>3, <3>4 DEF Effect, GivenBack
    <3>5. CASE d # c
      BY <1>e, <2>1, <3>3, <3>5
    <3> QED BY <3>4, <3>5
  <2> QED BY <1>13, <2>2, <2>3 DEF Respond
<1>14. ASSUME NEW r \in QUICRequests, ReadBody(r) PROVE Effect(d)
  <2> DEFINE c == h3Request[r].conn  x == [quicConn[c] EXCEPT !.stalled = FALSE]
  <2>1. c \in QUICConns /\ UNCHANGED closing
    BY <1>14 DEF ReadBody, RequestInv, background
  <2>2. /\ x \in Connection /\ x.inFlight = quicConn[c].inFlight /\ x.stage = quicConn[c].stage
        /\ x.closeRequested = quicConn[c].closeRequested
    BY <1>a, <2>1 DEF Connection
  <2>3. quicConn' = [quicConn EXCEPT ![c] = x]
    BY <1>14 DEF ReadBody
  <2> HIDE DEF x
  <2> QED BY <1>c, <2>1, <2>2, <2>3
<1>15. ASSUME NEW r \in QUICRequests, EndBody(r) PROVE Effect(d)
  <2> DEFINE c == h3Request[r].conn
  <2>1. c \in QUICConns /\ h3Request[r].pc \in {"flight", "body"} /\ UNCHANGED closing
    BY <1>15 DEF EndBody, RequestInv, background
  <2>3. quicConn' = [quicConn EXCEPT ![c] = Released(@)] /\ Finish(r)
    BY <1>15 DEF EndBody
  <2>4. Effect(d)
    <3>1. /\ quicConn[c] \in Connection /\ quicConn[c].inFlight > 0
          /\ Steps(r, IdleRequest, c, Released(quicConn[c]))
      BY <2>1, <2>3, FlightEnds
    <3>2. /\ Released(quicConn[c]) \in Connection
          /\ Released(quicConn[c]).inFlight = quicConn[c].inFlight - 1
          /\ Released(quicConn[c]).closeRequested = quicConn[c].closeRequested
          /\ Released(quicConn[c]).stage =
               IF quicConn[c].closeRequested /\ quicConn[c].inFlight = 1 /\ quicConn[c].stage # "none"
               THEN "closed" ELSE quicConn[c].stage
      BY <3>1, ReleasedConn
    <3>3. quicConn'[d] = IF d = c THEN Released(quicConn[c]) ELSE quicConn[d]
      BY <1>d, <2>1, <3>1, <3>2 DEF Steps
    <3>4. CASE d = c
      BY <2>1, <3>1, <3>2, <3>3, <3>4 DEF Effect, GivenBack
    <3>5. CASE d # c
      BY <1>e, <2>1, <3>3, <3>5
    <3> QED BY <3>4, <3>5
  <2> QED BY <2>4
<1>16. ASSUME NEW m \in DOMAIN managers, QUICCleanup(m) PROVE Effect(d)
  BY <1>16, PrunedLeft DEF QUICCleanup, Effect
<1>17. ASSUME NEW p \in DOMAIN hostPools, RunPoolClose(p) PROVE Effect(d)
  BY <1>17, ShutLeft DEF RunPoolClose, Effect
<1>18. ASSUME QUICSetPreset PROVE Effect(d)
  BY <1>18, <1>b DEF QUICSetPreset, background
<1>19. ASSUME CloseConnections PROVE Effect(d)
  BY <1>19, ShutLeft DEF CloseConnections, Effect
<1>20. ASSUME SetUDPProxyBegin PROVE Effect(d)
  <2>1. CASE manager = 0
    BY <1>20, <1>b, <2>1 DEF SetUDPProxyBegin
  <2>2. CASE manager # 0
    BY <1>20, <2>2, ManagerLeft DEF SetUDPProxyBegin, Effect
  <2> QED BY <2>1, <2>2
<1>21. ASSUME SetUDPProxyEnd PROVE Effect(d)
  BY <1>21, <1>b DEF SetUDPProxyEnd, background
<1>22. ASSUME ClientClose PROVE Effect(d)
  BY <1>22, ManagerLeft DEF ClientClose, Effect
<1>23. CASE UNCHANGED quicVars
  BY <1>b, <1>23 DEF quicVars
<1> QED BY <1>1, <1>2, <1>3, <1>4, <1>5, <1>6, <1>7, <1>8, <1>9, <1>10, <1>11, <1>12, <1>13,
    <1>14, <1>15, <1>16, <1>17, <1>18, <1>19, <1>20, <1>21, <1>22, <1>23 DEF QUICNext

\* A request gets a connection from a pool, or creates it.
LEMMA HolderStep ==
  ASSUME QUICConstants, ListInv, TypeInv, RequestInv, [QUICNext]_quicVars,
         NEW q \in QUICRequests, h3Request'[q].pc \in {"have", "flight", "body"}
  PROVE  \/ /\ h3Request[q].pc \in {"have", "flight", "body"}
            /\ h3Request'[q].conn = h3Request[q].conn
         \/ h3Request'[q].conn \in AllPooled
         \/ quicConn'[h3Request'[q].conn].stage # "none"
<1> DEFINE Goal == \/ /\ h3Request[q].pc \in {"have", "flight", "body"}
                      /\ h3Request'[q].conn = h3Request[q].conn
                   \/ h3Request'[q].conn \in AllPooled
                   \/ quicConn'[h3Request'[q].conn].stage # "none"
<1>a. h3Request \in [QUICRequests -> Request] /\ quicConn \in [QUICConns -> Connection]
  BY DEF TypeInv
<1>b. ASSUME UNCHANGED h3Request PROVE Goal
  BY <1>b
<1>c. ASSUME NEW r \in QUICRequests, NEW x, MoveRequest(r, x)
      PROVE  h3Request'[q] = IF q = r THEN x ELSE h3Request[q]
  BY <1>a, <1>c DEF MoveRequest
<1>d. ASSUME NEW r \in QUICRequests, NEW x, MoveRequest(r, x),
             \/ x.pc \notin {"have", "flight", "body"}
             \/ h3Request[r].pc \in {"have", "flight", "body"} /\ x.conn = h3Request[r].conn
             \/ x.conn \in AllPooled
             \/ quicConn'[x.conn].stage # "none"
      PROVE  Goal
  <2>1. h3Request'[q] = IF q = r THEN x ELSE h3Request[q]
    BY <1>c, <1>d
  <2> QED BY <1>d, <2>1
<1>e. ASSUME NEW r \in QUICRequests, Finish(r) PROVE Goal
  <2>1. IdleRequest.pc = "idle"
    BY DEF IdleRequest
  <2> HIDE DEF Goal
  <2> QED BY <1>d, <1>e, <2>1 DEF Finish
<1>f. \A r \in QUICRequests : h3Request[r] \in Request
  BY <1>a
<1> HIDE DEF Goal
<1>1. ASSUME NEW c \in QUICConns, RunRequestClose(c) PROVE Goal
  BY <1>1, <1>b DEF RunRequestClose, background
<1>2. ASSUME NEW c \in QUICConns, RunConnClose(c) PROVE Goal
  BY <1>2, <1>b DEF RunConnClose, background
<1>3. ASSUME NEW c \in QUICConns, Ages(c) PROVE Goal
  BY <1>3, <1>b DEF Ages, background
<1>4. ASSUME NEW c \in QUICConns, Stalls(c) PROVE Goal
  BY <1>4, <1>b DEF Stalls, background
<1>5. ASSUME NEW r \in QUICRequests, Snapshot(r) PROVE Goal
  <2> DEFINE x == [IdleRequest EXCEPT !.pc = IF manager = 0 THEN "idle" ELSE "pool",
                                  !.manager = manager]
  <2>1. MoveRequest(r, x)
    BY <1>5 DEF Snapshot
  <2>2. x.pc \notin {"have", "flight", "body"}
    BY DEF IdleRequest
  <2> HIDE DEF x
  <2> QED BY <1>d, <2>1, <2>2
<1>6. ASSUME NEW r \in QUICRequests, GetPool(r) PROVE Goal
  <2> DEFINE x(p) == [h3Request[r] EXCEPT !.pc = "look", !.manager = 0, !.pool = p]
  <2>1. Finish(r) \/ \E p : MoveRequest(r, x(p))
    BY <1>6 DEF GetPool
  <2>2. \A p : x(p).pc \notin {"have", "flight", "body"}
    BY <1>f DEF Request
  <2> HIDE DEF x
  <2> QED BY <1>d, <1>e, <2>1, <2>2
<1>7. ASSUME NEW r \in QUICRequests, GetConnReuse(r) PROVE Goal
  <2> DEFINE p == h3Request[r].pool
  <2>1. PICK i \in DOMAIN hostPools[p] :
          /\ hostPools' = [hostPools EXCEPT ![p] = Append(RemoveAt(@, i), hostPools[p][i])]
          /\ MoveRequest(r, [h3Request[r] EXCEPT !.pc = "have", !.pool = 0,
                                                 !.conn = hostPools[p][i]])
    BY <1>7 DEF GetConnReuse
  <2>2. p \in DOMAIN hostPools
    BY <1>7 DEF GetConnReuse, RequestInv
  <2> DEFINE c == hostPools[p][i]
             x == [h3Request[r] EXCEPT !.pc = "have", !.pool = 0, !.conn = c]
  <2>3. c \in AllPooled
    BY <2>1, <2>2, PoolsReused
  <2>4. x.conn = c /\ MoveRequest(r, x)
    BY <1>f, <2>1 DEF Request
  <2> HIDE DEF x, c
  <2> QED BY SMTT(40), <1>d, <2>3, <2>4
<1>8. ASSUME NEW r \in QUICRequests, GetConnMiss(r) PROVE Goal
  <2> DEFINE x == [h3Request[r] EXCEPT !.pc = "create"]
  <2>1. MoveRequest(r, x) /\ x.pc = "create"
    BY <1>8, <1>f DEF GetConnMiss, Request
  <2> HIDE DEF x
  <2> QED BY <1>d, <2>1
<1>9. ASSUME NEW r \in QUICRequests, CreateFails(r) PROVE Goal
  BY <1>9, <1>e DEF CreateFails
<1>10. ASSUME NEW r \in QUICRequests, CreateConn(r) PROVE Goal
  <2>1. PICK c \in QUICConns :
          /\ quicConn' = [quicConn EXCEPT ![c].stage = "open"]
          /\ MoveRequest(r, [h3Request[r] EXCEPT !.pc = "have", !.pool = 0, !.conn = c])
    BY <1>10 DEF CreateConn
  <2> DEFINE x == [h3Request[r] EXCEPT !.pc = "have", !.pool = 0, !.conn = c]
  <2>2. x.conn = c /\ MoveRequest(r, x)
    BY <1>f, <2>1 DEF Request
  <2>3. quicConn'[c].stage = "open"
    BY <1>a, <2>1 DEF Connection
  <2> HIDE DEF x
  <2> QED BY <1>d, <2>2, <2>3
<1>11. ASSUME NEW r \in QUICRequests, QUICRoundTrip(r) PROVE Goal
  <2> DEFINE x == [h3Request[r] EXCEPT !.pc = "again", !.conn = NoQUICConn, !.retried = TRUE]
             y == [h3Request[r] EXCEPT !.pc = "flight", !.retried = FALSE]
  <2>1. MoveRequest(r, x) \/ Finish(r) \/ MoveRequest(r, y)
    BY <1>11 DEF QUICRoundTrip
  <2>2. x.pc = "again" /\ y.conn = h3Request[r].conn /\ h3Request[r].pc = "have"
    BY <1>11, <1>f DEF Request, QUICRoundTrip
  <2> HIDE DEF x, y
  <2> QED BY <1>d, <1>e, <2>1, <2>2
<1>12. ASSUME NEW r \in QUICRequests, Retry(r) PROVE Goal
  <2> DEFINE x == [h3Request[r] EXCEPT !.pc = "panic"]
             y == [h3Request[r] EXCEPT !.pc = "pool", !.manager = manager]
  <2>1. x.pc = "panic" /\ y.pc = "pool"
    BY <1>f DEF Request
  <2>2. MoveRequest(r, x) \/ MoveRequest(r, y)
    BY <1>12 DEF Retry
  <2> HIDE DEF x, y
  <2> QED BY <1>d, <2>1, <2>2
<1>13. ASSUME NEW r \in QUICRequests, Respond(r) PROVE Goal
  <2> DEFINE x == [h3Request[r] EXCEPT !.pc = "body"]
  <2>1. MoveRequest(r, x) \/ Finish(r)
    BY <1>13 DEF Respond
  <2>2. x.conn = h3Request[r].conn /\ h3Request[r].pc = "flight"
    BY <1>13, <1>f DEF Request, Respond
  <2> HIDE DEF x
  <2> QED BY <1>d, <1>e, <2>1, <2>2
<1>14. ASSUME NEW r \in QUICRequests, ReadBody(r) PROVE Goal
  BY <1>14, <1>b DEF ReadBody, background
<1>15. ASSUME NEW r \in QUICRequests, EndBody(r) PROVE Goal
  BY <1>15, <1>e DEF EndBody
<1>16. ASSUME NEW m \in DOMAIN managers, QUICCleanup(m) PROVE Goal
  BY <1>16, <1>b DEF QUICCleanup, background
<1>17. ASSUME NEW p \in DOMAIN hostPools, RunPoolClose(p) PROVE Goal
  BY <1>17, <1>b DEF RunPoolClose, background
<1>18. ASSUME QUICSetPreset PROVE Goal
  BY <1>18, <1>b DEF QUICSetPreset, background
<1>19. ASSUME CloseConnections PROVE Goal
  BY <1>19, <1>b DEF CloseConnections, background
<1>20. ASSUME SetUDPProxyBegin PROVE Goal
  BY <1>20, <1>b DEF SetUDPProxyBegin, background
<1>21. ASSUME SetUDPProxyEnd PROVE Goal
  BY <1>21, <1>b DEF SetUDPProxyEnd, background
<1>22. ASSUME ClientClose PROVE Goal
  BY <1>22, <1>b DEF ClientClose, background
<1>23. CASE UNCHANGED quicVars
  BY <1>b, <1>23 DEF quicVars, Goal
<1> QED BY <1>1, <1>2, <1>3, <1>4, <1>5, <1>6, <1>7, <1>8, <1>9, <1>10, <1>11, <1>12, <1>13,
    <1>14, <1>15, <1>16, <1>17, <1>18, <1>19, <1>20, <1>21, <1>22, <1>23 DEF QUICNext, Goal

\* Every step keeps connections that were not created out of everything.
LEMMA KnownStep ==
  ASSUME QUICConstants, ListInv, TypeInv, RequestInv, CountExact, Known, [QUICNext]_quicVars
  PROVE  Known'
<1> SUFFICES ASSUME NEW c \in QUICConns, quicConn'[c].stage = "none" PROVE Unknown(c)'
  BY DEF Known
<1>1. Effect(c)
  BY EffectStep
<1>2. quicConn[c] \in Connection
  BY DEF TypeInv
<1>3. quicConn[c].stage = "none"
  BY <1>1, <1>2 DEF Effect, Left, Created, LentTo, GivenBack, Retires, Completes, Connection
<1>4. Unknown(c)
  BY <1>3 DEF Known
<1>5. c \notin AllPooled'
  BY <1>4, ListStep DEF Unknown
<1>6. c \notin closing' \cup retiring' \cup orderedClosed'
  BY <1>4, SetsStep DEF Unknown
<1>7. ~quicConn'[c].closeRequested
  BY <1>1, <1>4 DEF Effect, Left, Created, LentTo, GivenBack, Retires, Completes, Keeps, Unknown
<1>8. ASSUME NEW r \in QUICRequests, h3Request'[r].pc \in {"have", "flight", "body"}
      PROVE  h3Request'[r].conn # c
  BY <1>4, <1>8, HolderStep DEF Unknown
<1> QED BY <1>5, <1>6, <1>7, <1>8 DEF Unknown

-----------------------------------------------------------------------------
\* IInv holds initially.
LEMMA Initially ==
  ASSUME QUICConstants, QUICInit
  PROVE  IInv
<1>1. hostPools = <<>> /\ AllPooled = {}
  BY DEF QUICInit, AllPooled
<1>2. ListInv
  <2> DEFINE x == [closed |-> FALSE, pool |-> 0]
  <2>1. x \in Manager /\ x.pool = 0
    BY DEF Manager, QUICConstants
  <2>2. managers = <<x>>
    BY DEF QUICInit
  <2> HIDE DEF x
  <2>3. managers \in Seq(Manager) /\ Len(managers) = 1 /\ managers[1] = x /\ DOMAIN managers = {1}
    BY <2>1, <2>2
  <2>4. hostPools \in Seq(Seq(QUICConns)) /\ Len(hostPools) = 0 /\ DOMAIN hostPools = {}
    BY <1>1
  <2>5. Len(managers) <= MaxManagers /\ Len(hostPools) <= MaxPools
    BY <2>3, <2>4 DEF QUICConstants
  <2>6. manager \in 0..Len(managers) /\ swapping = FALSE /\ poolClosing = {}
    BY <2>3 DEF QUICInit
  <2>7. \A m \in DOMAIN managers : managers[m].pool <= Len(hostPools)
    BY <2>1, <2>3, <2>4
  <2> QED BY <2>3, <2>4, <2>5, <2>6, <2>7 DEF ListInv
<1>3. /\ \A c \in QUICConns : quicConn[c] = NewConn
      /\ \A r \in QUICRequests : h3Request[r] = IdleRequest
  BY DEF QUICInit
<1>4. NewConn \in Connection /\ NewConn.inFlight = 0 /\ ~NewConn.closeRequested
  BY DEF NewConn, Connection
<1>5. IdleRequest \in Request /\ IdleRequest.pc = "idle"
  BY DEF IdleRequest, Request, Labels, QUICConstants
<1>6. TypeInv
  BY <1>4, <1>5 DEF TypeInv, QUICInit
<1>7. RequestInv
  BY <1>3, <1>5 DEF RequestInv
<1>8. CountExact
  <2>1. ASSUME NEW c \in QUICConns PROVE Users(c) = {}
    BY <1>3, <1>5 DEF Users
  <2> QED BY <1>3, <1>4, <2>1, FS_EmptySet DEF CountExact
<1>9. Known
  BY <1>1, <1>3, <1>4, <1>5 DEF Known, Unknown, QUICInit
<1> QED BY <1>2, <1>6, <1>7, <1>8, <1>9 DEF IInv

\* Every step keeps IInv.
LEMMA QUICStep ==
  ASSUME IInv, [QUICNext]_quicVars
  PROVE  IInv'
<1>1. ListInv' /\ TypeInv' /\ RequestInv' /\ CountExact' /\ Known'
  BY ListStep, TypeStep, RequestStep, CountStep, KnownStep, QUICConstants DEF IInv
<1> QED BY <1>1 DEF IInv

\* IInv gives the type invariant: a connection is counted in use by no more requests
\* than there are.
LEMMA QUICTyped ==
  ASSUME QUICConstants, IInv
  PROVE  QUICTypeOK
<1> DEFINE n == Cardinality(QUICRequests)
<1>1. ASSUME NEW c \in QUICConns
      PROVE  quicConn[c].inFlight \in 0..n
  <2>1. Users(c) \subseteq QUICRequests
    BY DEF Users
  <2>2. /\ Cardinality(Users(c)) \in Nat /\ n \in Nat /\ Cardinality(Users(c)) <= n
    BY <2>1, FS_Subset, FS_CardinalityType DEF QUICConstants
  <2>3. quicConn[c].inFlight = Cardinality(Users(c))
    BY DEF IInv, CountExact
  <2> HIDE DEF n
  <2> QED BY <2>2, <2>3
<1> HIDE DEF n
<1>2. quicConn \in [QUICConns -> [stage : {"none", "open", "closed"}, inFlight : 0..n,
                                  closeRequested : BOOLEAN, stale : {"no", "idle", "age"},
                                  stalled : BOOLEAN]]
  <2>1. quicConn \in [QUICConns -> Connection]
    BY DEF IInv, TypeInv
  <2>2. ASSUME NEW c \in QUICConns
        PROVE  quicConn[c] \in [stage : {"none", "open", "closed"}, inFlight : 0..n,
                                closeRequested : BOOLEAN, stale : {"no", "idle", "age"},
                                stalled : BOOLEAN]
    <3>1. quicConn[c] \in Connection
      BY <2>1
    <3> QED BY <1>1, <3>1 DEF Connection
  <2> QED BY <2>1, <2>2
<1>3. ASSUME NEW m \in DOMAIN managers
      PROVE  managers[m].closed \in BOOLEAN /\ managers[m].pool \in 0..Len(hostPools)
  <2>1. managers \in Seq(Manager) /\ managers[m].pool <= Len(hostPools) /\ Len(hostPools) \in Nat
    BY DEF IInv, ListInv
  <2>2. managers[m] \in Manager
    BY <2>1, ElementOfSeq
  <2>3. managers[m].closed \in BOOLEAN
    BY <2>2 DEF Manager
  <2>4. managers[m].pool \in Nat
    BY <2>2 DEF Manager, QUICConstants
  <2> QED BY <2>1, <2>3, <2>4
<1>4. ASSUME NEW p \in DOMAIN hostPools PROVE ToSet(hostPools[p]) \subseteq QUICConns
  <2>1. hostPools[p] \in Seq(QUICConns)
    BY ElementOfSeq DEF IInv, ListInv
  <2> QED BY <2>1, SeqMembers
<1>5. poolClosing \subseteq 1..MaxPools
  <2>1. /\ poolClosing \subseteq DOMAIN hostPools /\ DOMAIN hostPools = 1..Len(hostPools)
        /\ Len(hostPools) \in Nat /\ Len(hostPools) <= MaxPools
    BY DEF IInv, ListInv
  <2> QED BY <2>1 DEF QUICConstants
<1>6. ASSUME NEW r \in QUICRequests
      PROVE  /\ h3Request[r].pc \in {"idle", "pool", "look", "create", "have", "flight", "body",
                                     "again", "panic"}
             /\ h3Request[r].manager \in 0..MaxManagers /\ h3Request[r].pool \in 0..MaxPools
             /\ h3Request[r].conn \in QUICConns \cup {NoQUICConn}
             /\ h3Request[r].retried \in BOOLEAN
  <2>1. h3Request[r] \in Request
    BY DEF IInv, TypeInv
  <2> QED BY <2>1 DEF Request, Labels
<1> QED BY <1>2, <1>3, <1>4, <1>5, <1>6 DEF QUICTypeOK, IInv, ListInv, TypeInv, n

\* IInv, and with it the type invariant, holds throughout.
THEOREM Inductive ==
  QUICSpec => [](IInv /\ QUICTypeOK)
<1>1. QUICInit => IInv
  BY Initially, QUICConstants
<1>2. IInv /\ [QUICNext]_quicVars => IInv'
  BY QUICStep
<1>3. IInv => QUICTypeOK
  BY QUICTyped, QUICConstants
<1> QED BY <1>1, <1>2, <1>3, PTL DEF QUICSpec

-----------------------------------------------------------------------------
(* The pools keep the promise of ConnLease.                                *)

\* The stage the mapping gives a connection, case by case.
LEMMA StageIs ==
  ASSUME NEW c \in QUICConns
  PROVE  /\ quicConn[c].stage \in {"none", "closed"} => LeaseStage(c) = quicConn[c].stage
         /\ quicConn[c].stage = "open" /\ c \in closing => LeaseStage(c) = "condemned"
         /\ quicConn[c].stage = "open" /\ c \notin closing /\ quicConn[c].closeRequested
               => LeaseStage(c) = "retired"
         /\ quicConn[c].stage = "open" /\ c \notin closing /\ ~quicConn[c].closeRequested
               => LeaseStage(c) = "open"
BY DEF LeaseStage

\* The same in the next state.
LEMMA StageBecomes ==
  ASSUME NEW c \in QUICConns
  PROVE  /\ quicConn'[c].stage \in {"none", "closed"} => LeaseStage(c)' = quicConn'[c].stage
         /\ quicConn'[c].stage = "open" /\ c \in closing' => LeaseStage(c)' = "condemned"
         /\ quicConn'[c].stage = "open" /\ c \notin closing' /\ quicConn'[c].closeRequested
               => LeaseStage(c)' = "retired"
         /\ quicConn'[c].stage = "open" /\ c \notin closing' /\ ~quicConn'[c].closeRequested
               => LeaseStage(c)' = "open"
BY DEF LeaseStage

\* The steps of ConnLease, in terms of the pool.
LEMMA LeaseSteps ==
  ASSUME NEW c \in QUICConns,
         \/ LeaseStage(c) = "none" /\ LeaseStage(c)' = "open" /\ quicConn'[c].inFlight = 0
         \/ /\ LeaseStage(c) \in {"open", "condemned"} /\ LeaseStage(c)' = LeaseStage(c)
            /\ quicConn'[c].inFlight = quicConn[c].inFlight + 1
         \/ /\ quicConn[c].inFlight > 0 /\ quicConn'[c].inFlight = quicConn[c].inFlight - 1
            /\ IF LeaseStage(c) \in {"retired", "condemned"} /\ quicConn[c].inFlight = 1
               THEN LeaseStage(c)' \in {"condemned", "closed"}
               ELSE LeaseStage(c)' = LeaseStage(c)
         \/ /\ LeaseStage(c) = "open" /\ LeaseStage(c)' = "retired"
            /\ quicConn[c].inFlight > 0 /\ quicConn'[c].inFlight = quicConn[c].inFlight
         \/ /\ LeaseStage(c) \in {"open", "retired"} /\ LeaseStage(c)' = "condemned"
            /\ quicConn'[c].inFlight = quicConn[c].inFlight
            /\ quicConn[c].inFlight = 0 \/ c \in orderedClosed' \/ quicConn[c].stalled
         \/ /\ LeaseStage(c) = "condemned" /\ LeaseStage(c)' = "closed"
            /\ quicConn'[c].inFlight = quicConn[c].inFlight
         \/ LeaseStage(c)' = LeaseStage(c) /\ quicConn'[c].inFlight = quicConn[c].inFlight
  PROVE  Lease!LeaseStep(c)
BY DEF Lease!LeaseStep, Lease!Open, Lease!Lend, Lease!GiveBack, Lease!Retire, Lease!Condemn,
       Lease!End, Lease!Moves, Lease!Holds

\* Every step is a step of ConnLease for each connection.
LEMMA LeaseStepEach ==
  ASSUME QUICConstants, IInv, [QUICNext]_quicVars, NEW c \in QUICConns
  PROVE  Lease!LeaseStep(c)
<1>a. /\ Effect(c) /\ quicConn[c] \in Connection
      /\ quicConn[c].inFlight \in Nat /\ quicConn[c].stage \in {"none", "open", "closed"}
      /\ quicConn[c].closeRequested \in BOOLEAN
  BY EffectStep DEF IInv, TypeInv, Connection
<1>b. c \in closing' => c \in closing \/ quicConn[c].stage # "none"
  BY SetsStep DEF IInv, Known, Unknown
<1> USE StageIs, StageBecomes, LeaseSteps
<1>1. CASE Left(c)
  <2>1. CASE c \in closing' /\ c \notin closing /\ quicConn[c].stage = "open"
    BY <1>1, <1>a, <2>1 DEF Left, Keeps
  <2>2. CASE ~(c \in closing' /\ c \notin closing /\ quicConn[c].stage = "open")
    <3>1. LeaseStage(c)' = LeaseStage(c)
      BY <1>1, <1>a, <1>b, <2>2 DEF Left, Keeps
    <3> QED BY <1>1, <3>1 DEF Left, Keeps
  <2> QED BY <2>1, <2>2
<1>2. CASE Created(c)
  <2>1. c \notin closing /\ ~quicConn[c].closeRequested /\ Users(c) = {}
    BY <1>2 DEF Created, IInv, Known, Unknown, Users
  <2>2. quicConn[c].inFlight = 0
    BY <2>1, FS_EmptySet DEF IInv, CountExact
  <2> QED BY <1>2, <2>1, <2>2 DEF Created, Keeps
<1>3. CASE LentTo(c)
  <2>1. quicConn[c].stage = "open" /\ ~quicConn[c].closeRequested
    BY <1>3, <1>a DEF LentTo, Retired, IInv, Known, Unknown
  <2> QED BY <1>3, <2>1 DEF LentTo
<1>4. CASE GivenBack(c)
  <2>1. IF LeaseStage(c) \in {"retired", "condemned"} /\ quicConn[c].inFlight = 1
        THEN LeaseStage(c)' \in {"condemned", "closed"}
        ELSE LeaseStage(c)' = LeaseStage(c)
    BY <1>4, <1>a DEF GivenBack
  <2> QED BY <1>4, <2>1 DEF GivenBack
<1>5. CASE Retires(c)
  <2>1. CASE LeaseStage(c) = "open"
    BY <1>5, <1>a, <2>1 DEF Retires
  <2>2. CASE LeaseStage(c) # "open"
    <3>1. LeaseStage(c)' = LeaseStage(c)
      BY <1>5, <1>a, <2>2 DEF Retires
    <3> QED BY <1>5, <3>1 DEF Retires
  <2> QED BY <2>1, <2>2
<1>6. CASE Completes(c)
  <2>1. quicConn[c].stage # "none"
    BY <1>6 DEF Completes, IInv, Known, Unknown
  <2> QED BY <1>6, <1>a, <2>1 DEF Completes, Keeps
<1> QED BY <1>1, <1>2, <1>3, <1>4, <1>5, <1>6, <1>a DEF Effect

\* The pools of a host keep the promise of ConnLease for every QUIC connection: what
\* response bodies hold is closed only by an ordered shutdown or past the
\* abandoned-body bound, and a retired connection goes with its last body
\* (isConnDestroyable, requestClose, release; issue #83).
THEOREM QUICPoolImplementsLease ==
  QUICSpec => QUICKeepsLease
<1>1. QUICInit => Lease!LeaseInit
  <2> SUFFICES ASSUME QUICInit PROVE Lease!LeaseInit
    OBVIOUS
  <2>1. \A c \in QUICConns : quicConn[c] = NewConn
    BY DEF QUICInit
  <2>2. NewConn.stage = "none" /\ NewConn.inFlight = 0 /\ NewConn.stalled = FALSE
    BY DEF NewConn
  <2>3. [c \in QUICConns |-> LeaseStage(c)] = [c \in QUICConns |-> "none"]
    BY <2>1, <2>2, StageIs
  <2>4. [c \in QUICConns |-> quicConn[c].inFlight] = [c \in QUICConns |-> 0]
    BY <2>1, <2>2
  <2>5. [c \in QUICConns |-> c \in orderedClosed] = [c \in QUICConns |-> FALSE]
    <3>1. \A c \in QUICConns : (c \in orderedClosed) = FALSE
      BY DEF QUICInit
    <3> QED BY <3>1, Zenon
  <2>6. [c \in QUICConns |-> quicConn[c].stalled] = [c \in QUICConns |-> FALSE]
    <3>1. \A c \in QUICConns : quicConn[c].stalled = FALSE
      BY <2>1, <2>2
    <3> QED BY <3>1, Zenon
  <2> QED BY <2>3, <2>4, <2>5, <2>6 DEF Lease!LeaseInit
<1>2. IInv /\ [QUICNext]_quicVars => [Lease!LeaseNext]_(Lease!leaseVars)
  BY QUICConstants, LeaseStepEach DEF Lease!LeaseNext
<1> QED BY <1>1, <1>2, Inductive, PTL DEF QUICSpec, QUICKeepsLease, Lease!LeaseSpec

=============================================================================
