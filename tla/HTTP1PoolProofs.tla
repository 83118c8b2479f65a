--------------------------- MODULE HTTP1PoolProofs ---------------------------
(***************************************************************************)
(* Theorems about HTTP1Pool, for any number of callers, connections and    *)
(* keys and any limit on idle connections.  The idle lists are sequences;  *)
(* the first half of the module says what each operation does to the set   *)
(* Idle of their members, and the second half needs that set only.  The    *)
(* inductive invariant IInv has five parts:                                *)
(*   ListInv    the lists: bounded, and no connection is in them twice;    *)
(*   TypeInv    types, and which callers have a connection;                *)
(*   PlaceInv   where a connection may be at once: not dialled, idle, with *)
(*              one caller, waiting for its close;                         *)
(*   CloseInv   what Close has done so far;                                *)
(*   SendInv    how often a request has been sent, by where its call is.   *)
(***************************************************************************)
EXTENDS HTTP1Pool, TLAPS, SequenceTheorems

-----------------------------------------------------------------------------
(* The inductive invariant.                                                *)

\* A connection is in at most one idle list, once.
ListInv ==
    /\ idleConns \in [Keys -> Seq(Conns)]
    /\ \A k \in Keys : Len(idleConns[k]) <= MaxIdle /\ IsInjective(idleConns[k])
    /\ \A j, k \in Keys : \A c \in Conns :
         c \in ToSet(idleConns[j]) /\ c \in ToSet(idleConns[k]) => j = k

TypeInv ==
    /\ TypeOK
    /\ \A r \in Requests : Holds(r) => rconn[r] \in Conns

\* A connection no one has dialled is nowhere.
Undialled ==
    \A c \in Conns : cstate[c] = "none" => c \notin Idle \cup closing \cup poisoned

\* An idle connection is open and whole, and no goroutine is about to close it.
IdleWhole == \A c \in Idle : cstate[c] = "open" /\ c \notin poisoned \cup closing

\* A held connection is held by one caller, and nobody else has it or closes it.
HeldAlone ==
    /\ \A r \in Requests : Holds(r) => rconn[r] \notin Idle
    /\ \A r1, r2 \in Requests : Holds(r1) /\ Holds(r2) /\ rconn[r1] = rconn[r2] => r1 = r2

\* A watchdog does not outlive its exchange, and fires for a cancelled one only.
WatchInv ==
    \A r \in Requests :
        /\ watch[r] # "off" => Holds(r)
        /\ watch[r] = "poisoning" => r \in cancelled

PlaceInv ==
    Undialled /\ IdleWhole /\ HeldAlone /\ InFlightSpared /\ WatchInv /\ ConnTracked

CloseInv == (swept => closed) /\ NothingPooledAfterClose

\* Not sent before a connection is found; sent once, on a connection from the
\* pool, when a new one is dialled for the second attempt.
SendInv ==
    /\ RepeatsBounded
    /\ \A r \in Requests :
         /\ pc[r] \in {"init", "lookup"} => sends[r] = 0
         /\ pc[r] \in {"init", "lookup", "dial", "dialling"} => r \notin fresh
         /\ pc[r] \in {"dial", "dialling"} => sends[r] <= IF r \in Replayable THEN 1 ELSE 0
         /\ pc[r] \in {"exchange", "failing"} /\ r \notin fresh => sends[r] <= 1

IInv == ListInv /\ TypeInv /\ PlaceInv /\ CloseInv /\ SendInv

-----------------------------------------------------------------------------
(* Sequences without repetition: what the list operations do to the set of *)
(* members.                                                                *)

\* Taking the last element.
LEMMA FrontMembers ==
  ASSUME NEW S, NEW s \in Seq(S), s # <<>>, IsInjective(s)
  PROVE  /\ Front(s) \in Seq(S) /\ IsInjective(Front(s)) /\ Len(Front(s)) < Len(s)
         /\ Last(s) \in ToSet(s) /\ Last(s) \in S
         /\ ToSet(Front(s)) = ToSet(s) \ {Last(s)}
<1> DEFINE n == Len(s)
<1>1. n \in Nat /\ n > 0 /\ DOMAIN s = 1..n
  OBVIOUS
<1>2. /\ Front(s) \in Seq(S) /\ Len(Front(s)) = n - 1 /\ DOMAIN Front(s) = 1..(n - 1)
      /\ \A i \in 1..(n - 1) : Front(s)[i] = s[i]
  BY <1>1 DEF Front
<1>3. IsInjective(Front(s))
  BY <1>1, <1>2 DEF IsInjective
<1>4. Last(s) \in ToSet(s) /\ Last(s) \in S
  BY <1>1 DEF Last, ToSet
<1>5. ToSet(Front(s)) = ToSet(s) \ {Last(s)}
  BY <1>1, <1>2 DEF ToSet, Last, IsInjective
<1> QED BY <1>1, <1>2, <1>3, <1>4, <1>5

\* Dropping the first element.
LEMMA TailMembers ==
  ASSUME NEW S, NEW s \in Seq(S), s # <<>>, IsInjective(s)
  PROVE  /\ Tail(s) \in Seq(S) /\ IsInjective(Tail(s)) /\ Len(Tail(s)) = Len(s) - 1
         /\ Head(s) \in ToSet(s) /\ Head(s) \in S
         /\ ToSet(Tail(s)) = ToSet(s) \ {Head(s)}
<1> DEFINE n == Len(s)
<1>1. n \in Nat /\ n > 0 /\ DOMAIN s = 1..n /\ Head(s) = s[1]
  OBVIOUS
<1>2. /\ Tail(s) \in Seq(S) /\ Len(Tail(s)) = n - 1 /\ DOMAIN Tail(s) = 1..(n - 1)
      /\ \A i \in 1..(n - 1) : Tail(s)[i] = s[i + 1]
  BY <1>1
<1>3. IsInjective(Tail(s))
  BY <1>1, <1>2 DEF IsInjective
<1>4. Head(s) \in ToSet(s) /\ Head(s) \in S
  BY <1>1 DEF ToSet
<1>5. ASSUME NEW x \in ToSet(s), x # Head(s) PROVE x \in ToSet(Tail(s))
  <2>1. PICK i \in 1..n : s[i] = x
    BY <1>1, <1>5 DEF ToSet
  <2>2. i - 1 \in 1..(n - 1) /\ Tail(s)[i - 1] = x
    BY <1>1, <1>2, <1>5, <2>1
  <2> QED BY <1>2, <2>2 DEF ToSet
<1>6. ASSUME NEW x \in ToSet(Tail(s)) PROVE x \in ToSet(s) /\ x # Head(s)
  BY <1>1, <1>2 DEF ToSet, IsInjective
<1> QED BY <1>1, <1>2, <1>3, <1>4, <1>5, <1>6

\* Adding a new last element.
LEMMA AppendMembers ==
  ASSUME NEW S, NEW s \in Seq(S), NEW c \in S, IsInjective(s), c \notin ToSet(s)
  PROVE  /\ Append(s, c) \in Seq(S) /\ IsInjective(Append(s, c))
         /\ Len(Append(s, c)) = Len(s) + 1
         /\ ToSet(Append(s, c)) = ToSet(s) \cup {c}
<1> DEFINE n == Len(s)  t == Append(s, c)
<1>1. n \in Nat /\ DOMAIN s = 1..n
  OBVIOUS
<1>2. /\ t \in Seq(S) /\ Len(t) = n + 1 /\ DOMAIN t = 1..(n + 1)
      /\ \A i \in 1..n : t[i] = s[i]
      /\ t[n + 1] = c
  BY <1>1
<1> HIDE DEF t
<1>3. IsInjective(t)
  <2> SUFFICES ASSUME NEW i \in 1..(n + 1), NEW j \in 1..(n + 1), t[i] = t[j] PROVE i = j
    BY <1>2 DEF IsInjective
  <2>1. \A m \in 1..n : t[m] # c
    BY <1>1, <1>2 DEF ToSet
  <2> QED BY <1>1, <1>2, <2>1 DEF IsInjective
<1>4. ASSUME NEW x \in ToSet(s) PROVE x \in ToSet(t)
  <2>1. PICK i \in 1..n : s[i] = x
    BY <1>1, <1>4 DEF ToSet
  <2> QED BY <1>1, <1>2, <2>1 DEF ToSet
<1>5. c \in ToSet(t)
  BY <1>1, <1>2 DEF ToSet
<1>6. ASSUME NEW x \in ToSet(t), x # c PROVE x \in ToSet(s)
  <2>1. PICK i \in 1..(n + 1) : t[i] = x
    BY <1>2, <1>6 DEF ToSet
  <2>2. i \in 1..n
    BY <1>1, <1>2, <1>6, <2>1
  <2> QED BY <1>1, <1>2, <2>1, <2>2 DEF ToSet
<1>7. ToSet(t) = ToSet(s) \cup {c}
  BY <1>4, <1>5, <1>6
<1> QED BY <1>2, <1>3, <1>7 DEF t

\* t is s without its members in E, in the same order: pos lists their places.
Filtered(t, s, pos, E) ==
    /\ pos \in SeqOf(1..MaxIdle, MaxIdle)
    /\ ToSet(pos) = {i \in DOMAIN s : s[i] \notin E}
    /\ \A i, j \in DOMAIN pos : i < j => pos[i] < pos[j]
    /\ t = [i \in DOMAIN pos |-> s[pos[i]]]

\* Keeping the elements at ascending positions: the filter of cleanup.
LEMMA FilterMembers ==
  ASSUME NEW S, NEW s \in Seq(S), IsInjective(s), NEW E, MaxIdle \in Nat,
         NEW pos, NEW t, Filtered(t, s, pos, E)
  PROVE  /\ t \in Seq(S) /\ IsInjective(t) /\ Len(t) <= MaxIdle
         /\ ToSet(t) = ToSet(s) \ E
<1>1. PICK n \in 0..MaxIdle : pos \in [1..n -> 1..MaxIdle]
  BY DEF SeqOf, Filtered
<1>2. \A i \in 1..n : pos[i] \in DOMAIN s /\ s[pos[i]] \notin E
  BY <1>1 DEF ToSet, Filtered
<1>3. DOMAIN t = 1..n /\ (\A i \in 1..n : t[i] = s[pos[i]]) /\ t = [i \in 1..n |-> t[i]]
  BY <1>1 DEF Filtered
<1>4. t \in Seq(S) /\ Len(t) = n
  <2>1. \A i \in 1..n : t[i] \in S
    BY <1>2, <1>3, ElementOfSeq
  <2>2. t = [i \in 1..n |-> t[i]]
    BY <1>3
  <2>3. t \in [1..n -> S]
    BY <2>1, <2>2
  <2> QED BY <2>3, <1>1
<1>5. IsInjective(t)
  <2> SUFFICES ASSUME NEW i \in 1..n, NEW j \in 1..n, t[i] = t[j] PROVE i = j
    BY <1>3 DEF IsInjective
  <2>1. pos[i] = pos[j]
    BY <1>2, <1>3 DEF IsInjective
  <2>2. ~(i < j) /\ ~(j < i)
    BY <1>1, <2>1 DEF Filtered
  <2> QED BY <1>1, <2>2
<1>6. ASSUME NEW x \in ToSet(t) PROVE x \in ToSet(s) /\ x \notin E
  BY <1>2, <1>3 DEF ToSet
<1>7. ASSUME NEW x \in ToSet(s), x \notin E PROVE x \in ToSet(t)
  <2>1. PICK i \in DOMAIN s : s[i] = x
    BY DEF ToSet
  <2>2. i \in ToSet(pos)
    BY <1>7, <2>1 DEF Filtered
  <2>3. PICK j \in 1..n : pos[j] = i
    BY <1>1, <2>2 DEF ToSet
  <2> QED BY <1>3, <2>1, <2>3 DEF ToSet
<1> QED BY <1>1, <1>4, <1>5, <1>6, <1>7

-----------------------------------------------------------------------------
(* The idle lists.                                                         *)

\* Idle is the set of the members of the lists.
LEMMA IdleMembers ==
  /\ \A c : c \in Idle <=> \E k \in Keys : c \in ToSet(idleConns[k])
  /\ \A c : c \in Idle' <=> \E k \in Keys : c \in ToSet(idleConns'[k])
BY DEF Idle

\* The idle lists hold connections only.
LEMMA IdleAreConns ==
  ASSUME ListInv
  PROVE  Idle \subseteq Conns /\ \A k \in Keys : ToSet(idleConns[k]) \subseteq Conns
<1>1. ASSUME NEW k \in Keys PROVE ToSet(idleConns[k]) \subseteq Conns
  <2>1. idleConns[k] \in Seq(Conns)
    BY DEF ListInv
  <2> QED BY <2>1, ElementOfSeq DEF ToSet
<1> QED BY <1>1, IdleMembers

\* Changing one list, where what comes in was in no list.
LEMMA OneList ==
  ASSUME ListInv, NEW k \in Keys, NEW t \in Seq(Conns), NEW new \in SUBSET Conns,
         idleConns' = [idleConns EXCEPT ![k] = t],
         Len(t) <= MaxIdle, IsInjective(t), new \cap Idle = {},
         NEW gone, gone \subseteq ToSet(idleConns[k]),
         ToSet(t) = (ToSet(idleConns[k]) \ gone) \cup new
  PROVE  ListInv' /\ Idle' = (Idle \ gone) \cup new
<1>1. idleConns' \in [Keys -> Seq(Conns)]
  BY DEF ListInv
<1>2. /\ idleConns'[k] = t
      /\ \A j \in Keys : j # k => idleConns'[j] = idleConns[j]
  BY DEF ListInv
<1>3. \A j \in Keys : Len(idleConns'[j]) <= MaxIdle /\ IsInjective(idleConns'[j])
  BY <1>2 DEF ListInv
<1>4. ASSUME NEW i \in Keys, NEW j \in Keys, NEW c \in Conns,
             c \in ToSet(idleConns'[i]), c \in ToSet(idleConns'[j])
      PROVE  i = j
  <2>1. CASE c \in new
    BY <1>2, <1>4, <2>1, IdleMembers
  <2>2. CASE c \notin new
    <3>1. c \in ToSet(idleConns[i]) /\ c \in ToSet(idleConns[j])
      BY <1>2, <1>4, <2>2
    <3> QED BY <3>1 DEF ListInv
  <2> QED BY <2>1, <2>2
<1>5. ListInv'
  BY <1>1, <1>3, <1>4 DEF ListInv
<1>6. ASSUME NEW c \in Idle' PROVE c \in (Idle \ gone) \cup new
  <2>1. PICK j \in Keys : c \in ToSet(idleConns'[j])
    BY IdleMembers
  <2>2. CASE j = k
    BY <1>2, <2>1, <2>2, IdleMembers
  <2>3. CASE j # k
    <3>1. c \in ToSet(idleConns[j])
      BY <1>2, <2>1, <2>3
    <3>2. c \notin gone
      BY <2>3, <3>1, IdleAreConns DEF ListInv
    <3> QED BY <3>1, <3>2, IdleMembers
  <2> QED BY <2>2, <2>3
<1>7. ASSUME NEW c \in (Idle \ gone) \cup new PROVE c \in Idle'
  <2>1. CASE c \in new
    BY <1>2, <2>1, IdleMembers
  <2>2. CASE c \in Idle \ gone
    <3>1. PICK j \in Keys : c \in ToSet(idleConns[j])
      BY <2>2, IdleMembers
    <3>2. c \in ToSet(idleConns'[j])
      BY <1>2, <2>2, <3>1
    <3> QED BY <3>2, IdleMembers
  <2> QED BY <1>7, <2>1, <2>2
<1> QED BY <1>5, <1>6, <1>7

\* getIdleConn takes the last connection of a list.
LEMMA TakeIdle ==
  ASSUME ConstantsAssumption, ListInv, NEW k \in Keys, idleConns[k] # <<>>,
         idleConns' = [idleConns EXCEPT ![k] = Front(@)]
  PROVE  /\ ListInv' /\ Idle' = Idle \ {Last(idleConns[k])}
         /\ Last(idleConns[k]) \in Idle /\ Last(idleConns[k]) \in Conns
<1> DEFINE s == idleConns[k]  c == Last(s)
<1>1. s \in Seq(Conns) /\ IsInjective(s) /\ Len(s) <= MaxIdle /\ MaxIdle \in Nat
  BY DEF ListInv, ConstantsAssumption
<1>2. /\ Front(s) \in Seq(Conns) /\ IsInjective(Front(s)) /\ Len(Front(s)) < Len(s)
      /\ c \in ToSet(s) /\ c \in Conns /\ ToSet(Front(s)) = ToSet(s) \ {c}
  BY <1>1, FrontMembers
<1>3. Len(Front(s)) <= MaxIdle
  BY <1>1, <1>2
<1>4. idleConns' = [idleConns EXCEPT ![k] = Front(s)]
  OBVIOUS
<1>5. /\ ToSet(Front(s)) = (ToSet(s) \ {c}) \cup {} /\ {c} \subseteq ToSet(s)
  BY <1>2
<1> DEFINE t == Front(s)  gone == {c}  new == {}
<1> HIDE DEF t, gone, new
<1>a. t \in Seq(Conns) /\ Len(t) <= MaxIdle /\ IsInjective(t)
  BY <1>2, <1>3 DEF t
<1>b. idleConns' = [idleConns EXCEPT ![k] = t]
  BY <1>4 DEF t
<1>c. new \in SUBSET Conns /\ new \cap Idle = {}
  BY DEF new
<1>d. ToSet(t) = (ToSet(idleConns[k]) \ gone) \cup new /\ gone \subseteq ToSet(idleConns[k])
  BY <1>5 DEF t, new, gone
<1>e. ListInv' /\ Idle' = (Idle \ gone) \cup new
  BY <1>a, <1>b, <1>c, <1>d, OneList
<1>6. ListInv' /\ Idle' = (Idle \ {c})
  BY <1>e DEF new, gone
<1>7. c \in Idle
  BY <1>2, IdleMembers
<1> QED BY <1>2, <1>6, <1>7

\* putIdleConn adds a connection, and the oldest one makes room for it.
LEMMA PutIdle ==
  ASSUME ConstantsAssumption, ListInv, NEW k \in Keys, NEW c \in Conns, c \notin Idle,
         idleConns' = [idleConns EXCEPT ![k] = Append(IF Full(k) THEN Tail(@) ELSE @, c)]
  PROVE  /\ ListInv' /\ Idle' = (Idle \ PushedOut(k)) \cup {c}
         /\ PushedOut(k) \subseteq Idle
<1> DEFINE s == idleConns[k]  u == IF Full(k) THEN Tail(s) ELSE s
<1>1. s \in Seq(Conns) /\ IsInjective(s) /\ Len(s) <= MaxIdle /\ MaxIdle \in Nat \ {0}
  BY DEF ListInv, ConstantsAssumption
<1>2. c \notin ToSet(s)
  BY IdleMembers
<1>3. /\ u \in Seq(Conns) /\ IsInjective(u) /\ Len(u) < MaxIdle
      /\ PushedOut(k) \subseteq ToSet(s) /\ ToSet(u) = ToSet(s) \ PushedOut(k)
  <2>1. CASE Full(k)
    <3>1. s # <<>>
      BY <1>1, <2>1 DEF Full
    <3>2. /\ Tail(s) \in Seq(Conns) /\ IsInjective(Tail(s)) /\ Len(Tail(s)) = Len(s) - 1
          /\ Head(s) \in ToSet(s) /\ ToSet(Tail(s)) = ToSet(s) \ {Head(s)}
      BY <1>1, <3>1, TailMembers
    <3>3. Len(Tail(s)) < MaxIdle
      BY <1>1, <3>2
    <3> QED BY <2>1, <3>2, <3>3 DEF PushedOut
  <2>2. CASE ~Full(k)
    BY <1>1, <2>2 DEF Full, PushedOut
  <2> QED BY <2>1, <2>2
<1> HIDE DEF u
<1>4. c \notin ToSet(u)
  BY <1>2, <1>3
<1>5. /\ Append(u, c) \in Seq(Conns) /\ IsInjective(Append(u, c))
      /\ Len(Append(u, c)) = Len(u) + 1 /\ ToSet(Append(u, c)) = ToSet(u) \cup {c}
  BY <1>3, <1>4, AppendMembers
<1>6. Len(Append(u, c)) <= MaxIdle
  BY <1>1, <1>3, <1>5
<1>7. ToSet(Append(u, c)) = (ToSet(s) \ PushedOut(k)) \cup {c}
  BY <1>3, <1>5
<1>8. idleConns' = [idleConns EXCEPT ![k] = Append(u, c)]
  BY DEF u
<1>9. {c} \cap Idle = {} /\ {c} \in SUBSET Conns
  OBVIOUS
<1> DEFINE t == Append(u, c)  new == {c}  gone == PushedOut(k)
<1> HIDE DEF t, new, gone
<1>10. ListInv' /\ Idle' = (Idle \ PushedOut(k)) \cup {c}
  <2>1. t \in Seq(Conns) /\ Len(t) <= MaxIdle /\ IsInjective(t)
    BY <1>5, <1>6 DEF t
  <2>2. idleConns' = [idleConns EXCEPT ![k] = t]
    BY <1>8 DEF t
  <2>3. new \in SUBSET Conns /\ new \cap Idle = {}
    BY <1>9 DEF new
  <2>4. ToSet(t) = (ToSet(idleConns[k]) \ gone) \cup new /\ gone \subseteq ToSet(idleConns[k])
    BY <1>3, <1>7 DEF t, new, gone
  <2>5. ListInv' /\ Idle' = (Idle \ gone) \cup new
    BY <2>1, <2>2, <2>3, <2>4, OneList
  <2> QED BY <2>5 DEF new, gone
<1>11. PushedOut(k) \subseteq Idle
  BY <1>3, IdleMembers DEF s
<1> QED BY <1>10, <1>11

\* Refresh, SetProxy and Close empty the lists.
LEMMA DropLists ==
  ASSUME ConstantsAssumption, ListInv, DropIdle
  PROVE  ListInv' /\ Idle' = {} /\ closing' = closing \cup Idle
<1>1. idleConns' = [k \in Keys |-> <<>>]
  BY DEF DropIdle
<1>2. \A k \in Keys : idleConns'[k] = <<>> /\ ToSet(idleConns'[k]) = {}
  BY <1>1 DEF ToSet
<1>3. ListInv'
  BY <1>1, <1>2 DEF ListInv, IsInjective, ConstantsAssumption
<1>4. Idle' = {}
  BY <1>2, IdleMembers
<1> QED BY <1>3, <1>4 DEF DropIdle

\* cleanup drops the expired connections from every list.
LEMMA CleanLists ==
  ASSUME ConstantsAssumption, ListInv, Cleanup
  PROVE  ListInv' /\ Idle' = Idle \ expired
<1>1. PICK pos \in [Keys -> SeqOf(1..MaxIdle, MaxIdle)] :
         /\ Unexpired(pos)
         /\ idleConns' = [k \in Keys |-> [i \in DOMAIN pos[k] |-> idleConns[k][pos[k][i]]]]
  BY DEF Cleanup
<1>2. ASSUME NEW k \in Keys
      PROVE  /\ idleConns'[k] \in Seq(Conns) /\ IsInjective(idleConns'[k])
             /\ Len(idleConns'[k]) <= MaxIdle
             /\ ToSet(idleConns'[k]) = ToSet(idleConns[k]) \ expired
  <2> DEFINE s == idleConns[k]  p == pos[k]  t == idleConns'[k]
  <2>1. s \in Seq(Conns) /\ IsInjective(s) /\ MaxIdle \in Nat
    BY DEF ListInv, ConstantsAssumption
  <2>2. Filtered(t, s, p, expired)
    BY <1>1 DEF Unexpired, Filtered
  <2> HIDE DEF s, p, t
  <2>3. t \in Seq(Conns) /\ IsInjective(t) /\ Len(t) <= MaxIdle /\ ToSet(t) = ToSet(s) \ expired
    BY <2>1, <2>2, FilterMembers
  <2> QED BY <2>3 DEF t, s
<1>3. idleConns' \in [Keys -> Seq(Conns)]
  <2>1. idleConns' = [k \in Keys |-> idleConns'[k]]
    BY <1>1
  <2> QED BY <1>2, <2>1
<1>4. \A j, k \in Keys : \A c \in Conns :
        c \in ToSet(idleConns'[j]) /\ c \in ToSet(idleConns'[k]) => j = k
  BY <1>2 DEF ListInv
<1>5. ListInv'
  BY <1>2, <1>3, <1>4 DEF ListInv
<1>6. ASSUME NEW c \in Idle' PROVE c \in Idle /\ c \notin expired
  <2>1. PICK k \in Keys : c \in ToSet(idleConns'[k])
    BY IdleMembers
  <2>2. c \in ToSet(idleConns[k]) /\ c \notin expired
    BY <1>2, <2>1
  <2> QED BY <2>2, IdleMembers
<1>7. ASSUME NEW c \in Idle, c \notin expired PROVE c \in Idle'
  <2>1. PICK k \in Keys : c \in ToSet(idleConns[k])
    BY IdleMembers
  <2>2. c \in ToSet(idleConns'[k])
    BY <1>2, <1>7, <2>1
  <2> QED BY <2>2, IdleMembers
<1> QED BY <1>5, <1>6, <1>7

\* A step that leaves the lists alone.
LEMMA ListFrame ==
  ASSUME ListInv, UNCHANGED idleConns
  PROVE  ListInv' /\ Idle' = Idle
BY DEF ListInv, Idle

\* A caller that ends its body has a connection that is in no list.
LEMMA PutIdleStep ==
  ASSUME ConstantsAssumption, ListInv, TypeInv, PlaceInv, NEW r \in Requests, PutIdleConn(r)
  PROVE  /\ ListInv' /\ Idle' = (Idle \ PushedOut(KeyOf[r])) \cup {rconn[r]}
         /\ PushedOut(KeyOf[r]) \subseteq Idle
<1>1. Holds(r) /\ KeyOf[r] \in Keys
  BY DEF PutIdleConn, Holds, ConstantsAssumption
<1>2. rconn[r] \in Conns /\ rconn[r] \notin Idle
  BY <1>1 DEF TypeInv, PlaceInv, HeldAlone
<1>3. idleConns' = [idleConns EXCEPT ![KeyOf[r]] =
                      Append(IF Full(KeyOf[r]) THEN Tail(@) ELSE @, rconn[r])]
  BY DEF PutIdleConn
<1> QED BY <1>1, <1>2, <1>3, PutIdle

\* Every step keeps the lists free of repetitions.
LEMMA ListStep ==
  ASSUME ConstantsAssumption, ListInv, TypeInv, PlaceInv, [Next]_vars
  PROVE  ListInv'
<1> USE ListFrame DEF transportVars, connVars, callVars
<1>1. ASSUME NEW r \in Requests, StartClosed(r) PROVE ListInv'
  BY <1>1 DEF StartClosed
<1>2. ASSUME NEW r \in Requests, Start(r) PROVE ListInv'
  BY <1>2 DEF Start
<1>3. ASSUME NEW r \in Requests, NEW c \in Conns, HandoffClosed(r, c) PROVE ListInv'
  BY <1>3 DEF HandoffClosed
<1>4. ASSUME NEW r \in Requests, NEW c \in Conns, Handoff(r, c) PROVE ListInv'
  BY <1>4 DEF Handoff
<1>5. ASSUME NEW r \in Requests, NEW c \in Conns, Dialled(r, c) PROVE ListInv'
  BY <1>5 DEF Dialled
<1>6. ASSUME NEW r \in Requests, GetIdleMiss(r) PROVE ListInv'
  BY <1>6 DEF GetIdleMiss
<1>7. ASSUME NEW r \in Requests, GetIdleExpired(r) PROVE ListInv'
  BY <1>7, TakeIdle DEF GetIdleExpired, ConstantsAssumption
<1>8. ASSUME NEW r \in Requests, GetIdleHit(r) PROVE ListInv'
  BY <1>8, TakeIdle DEF GetIdleHit, ConstantsAssumption
<1>9. ASSUME NEW r \in Requests, DialBegin(r) PROVE ListInv'
  BY <1>9 DEF DialBegin
<1>10. ASSUME NEW r \in Requests, DialFailed(r) PROVE ListInv'
  BY <1>10 DEF DialFailed
<1>11. ASSUME NEW r \in Requests, NEW reusable \in BOOLEAN, Respond(r, reusable) PROVE ListInv'
  BY <1>11 DEF Respond
<1>12. ASSUME NEW r \in Requests, ExchangeFails(r) PROVE ListInv'
  BY <1>12 DEF ExchangeFails
<1>13. ASSUME NEW r \in Requests, CloseFailed(r) PROVE ListInv'
  BY <1>13 DEF CloseFailed
<1>14. ASSUME NEW r \in Requests, EndBody(r) PROVE ListInv'
  BY <1>14 DEF EndBody
<1>15. ASSUME NEW r \in Requests, BodyCloseFails(r) PROVE ListInv'
  BY <1>15 DEF BodyCloseFails
<1>16. ASSUME NEW r \in Requests, Abandon(r) PROVE ListInv'
  BY <1>16 DEF Abandon
<1>17. ASSUME NEW r \in Requests, CloseAfterBody(r) PROVE ListInv'
  BY <1>17 DEF CloseAfterBody
<1>18. ASSUME NEW r \in Requests, PutIdleConn(r) PROVE ListInv'
  BY <1>18, PutIdleStep
<1>19. ASSUME NEW r \in Requests, Cancel(r) PROVE ListInv'
  BY <1>19 DEF Cancel
<1>20. ASSUME NEW r \in Requests, WatchdogFires(r) PROVE ListInv'
  BY <1>20 DEF WatchdogFires
<1>21. ASSUME NEW r \in Requests, Poison(r) PROVE ListInv'
  BY <1>21 DEF Poison
<1>22. ASSUME RefreshBegin PROVE ListInv'
  BY <1>22 DEF RefreshBegin
<1>23. ASSUME RefreshEnd PROVE ListInv'
  BY <1>23, DropLists DEF RefreshEnd
<1>24. ASSUME CloseBegin PROVE ListInv'
  BY <1>24 DEF CloseBegin
<1>25. ASSUME CloseEnd PROVE ListInv'
  BY <1>25, DropLists DEF CloseEnd
<1>26. ASSUME NEW new \in Presets, SetPreset(new) PROVE ListInv'
  BY <1>26 DEF SetPreset
<1>27. ASSUME NEW new \in Proxies, SetProxy(new) PROVE ListInv'
  BY <1>27, DropLists DEF SetProxy
<1>28. ASSUME Cleanup PROVE ListInv'
  BY <1>28, CleanLists
<1>29. ASSUME NEW c \in Conns, RunClose(c) PROVE ListInv'
  BY <1>29 DEF RunClose
<1>30. ASSUME NEW c \in Conns, Expire(c) PROVE ListInv'
  BY <1>30 DEF Expire
<1>31. CASE UNCHANGED vars
  BY <1>31 DEF vars
<1> QED BY <1>1, <1>2, <1>3, <1>4, <1>5, <1>6, <1>7, <1>8, <1>9, <1>10, <1>11, <1>12, <1>13,
    <1>14, <1>15, <1>16, <1>17, <1>18, <1>19, <1>20, <1>21, <1>22, <1>23, <1>24, <1>25,
    <1>26, <1>27, <1>28, <1>29, <1>30, <1>31 DEF Next, Connect, Exchange, Body, Watchdog,
    Operation, Background

-----------------------------------------------------------------------------
(* Types, callers and connections.                                         *)

\* The places of a caller.
Labels == {"init", "lookup", "dial", "dialling", "exchange", "failing", "body", "ending",
           "aborting", "abandoned", "done"}

\* The last connection of a list that is not empty.
LEMMA LastIdle ==
  ASSUME ListInv, NEW k \in Keys, idleConns[k] # <<>>
  PROVE  Last(idleConns[k]) \in Idle /\ Last(idleConns[k]) \in Conns
<1>1. idleConns[k] \in Seq(Conns) /\ IsInjective(idleConns[k])
  BY DEF ListInv
<1>2. Last(idleConns[k]) \in ToSet(idleConns[k]) /\ Last(idleConns[k]) \in Conns
  BY SMTT(40), <1>1, FrontMembers
<1> QED BY <1>2, IdleMembers

\* Every step keeps the types.
LEMMA TypeStep ==
  ASSUME ConstantsAssumption, ListInv, TypeInv, PlaceInv, [Next]_vars
  PROVE  TypeInv'
<1>a. \A k \in Keys : ToSet(idleConns'[k]) \subseteq Conns /\ Len(idleConns'[k]) <= MaxIdle
  <2>1. ListInv'
    BY ListStep
  <2>2. ASSUME NEW k \in Keys PROVE ToSet(idleConns'[k]) \subseteq Conns
    <3>1. idleConns'[k] \in Seq(Conns)
      BY <2>1 DEF ListInv
    <3> QED BY <3>1, ElementOfSeq DEF ToSet
  <2> QED BY <2>1, <2>2 DEF ListInv
<1>b. Idle \subseteq Conns
  BY IdleAreConns
<1> USE <1>a DEF TypeInv, TypeOK, Holds, Goto, Answer, Builds, transportVars, connVars, callVars
<1>1. ASSUME NEW r \in Requests, StartClosed(r) PROVE TypeInv'
  BY <1>1 DEF StartClosed
<1>2. ASSUME NEW r \in Requests, Start(r) PROVE TypeInv'
  BY <1>2 DEF Start
<1>3. ASSUME NEW r \in Requests, NEW c \in Conns, HandoffClosed(r, c) PROVE TypeInv'
  BY <1>3 DEF HandoffClosed, CloseConn
<1>4. ASSUME NEW r \in Requests, NEW c \in Conns, Handoff(r, c) PROVE TypeInv'
  BY <1>4 DEF Handoff, StartExchange
<1>5. ASSUME NEW r \in Requests, NEW c \in Conns, Dialled(r, c) PROVE TypeInv'
  BY <1>5 DEF Dialled, StartExchange
<1>6. ASSUME NEW r \in Requests, GetIdleMiss(r) PROVE TypeInv'
  BY <1>6 DEF GetIdleMiss
<1>7. ASSUME NEW r \in Requests, GetIdleExpired(r) PROVE TypeInv'
  BY <1>7, LastIdle DEF GetIdleExpired, CloseConn, ConstantsAssumption
<1>8. ASSUME NEW r \in Requests, GetIdleHit(r) PROVE TypeInv'
  BY <1>8, LastIdle DEF GetIdleHit, StartExchange, ConstantsAssumption
<1>9. ASSUME NEW r \in Requests, DialBegin(r) PROVE TypeInv'
  BY <1>9 DEF DialBegin
<1>10. ASSUME NEW r \in Requests, DialFailed(r) PROVE TypeInv'
  BY <1>10 DEF DialFailed
<1>11. ASSUME NEW r \in Requests, NEW reusable \in BOOLEAN, Respond(r, reusable) PROVE TypeInv'
  BY <1>11 DEF Respond
<1>12. ASSUME NEW r \in Requests, ExchangeFails(r) PROVE TypeInv'
  BY <1>12 DEF ExchangeFails, StopWatch
<1>13. ASSUME NEW r \in Requests, CloseFailed(r) PROVE TypeInv'
  BY ZenonT(60), <1>13 DEF CloseFailed, WatchdogGone, CloseConn, AfterFailure
<1>14. ASSUME NEW r \in Requests, EndBody(r) PROVE TypeInv'
  BY <1>14 DEF EndBody, StopWatch
<1>15. ASSUME NEW r \in Requests, BodyCloseFails(r) PROVE TypeInv'
  BY <1>15 DEF BodyCloseFails, StopWatch
<1>16. ASSUME NEW r \in Requests, Abandon(r) PROVE TypeInv'
  BY <1>16 DEF Abandon
<1>17. ASSUME NEW r \in Requests, CloseAfterBody(r) PROVE TypeInv'
  BY <1>17 DEF CloseAfterBody, WatchdogGone, CloseConn, BodyDone
<1>18. ASSUME NEW r \in Requests, PutIdleConn(r) PROVE TypeInv'
  BY <1>18, PutIdleStep, <1>b DEF PutIdleConn, BodyDone
<1>19. ASSUME NEW r \in Requests, Cancel(r) PROVE TypeInv'
  BY <1>19 DEF Cancel
<1>20. ASSUME NEW r \in Requests, WatchdogFires(r) PROVE TypeInv'
  BY <1>20 DEF WatchdogFires
<1>21. ASSUME NEW r \in Requests, Poison(r) PROVE TypeInv'
  BY <1>21 DEF Poison, PlaceInv, WatchInv
<1>22. ASSUME RefreshBegin PROVE TypeInv'
  BY <1>22 DEF RefreshBegin
<1>23. ASSUME RefreshEnd PROVE TypeInv'
  BY <1>23, <1>b DEF RefreshEnd, DropIdle
<1>24. ASSUME CloseBegin PROVE TypeInv'
  BY <1>24 DEF CloseBegin
<1>25. ASSUME CloseEnd PROVE TypeInv'
  BY <1>25, <1>b DEF CloseEnd, DropIdle
<1>26. ASSUME NEW new \in Presets, SetPreset(new) PROVE TypeInv'
  BY <1>26 DEF SetPreset
<1>27. ASSUME NEW new \in Proxies, SetProxy(new) PROVE TypeInv'
  BY <1>27, <1>b DEF SetProxy, DropIdle
<1>28. ASSUME Cleanup PROVE TypeInv'
  BY <1>28, <1>b DEF Cleanup
<1>29. ASSUME NEW c \in Conns, RunClose(c) PROVE TypeInv'
  BY <1>29 DEF RunClose, CloseConn
<1>30. ASSUME NEW c \in Conns, Expire(c) PROVE TypeInv'
  BY <1>30 DEF Expire
<1>31. CASE UNCHANGED vars
  BY <1>31 DEF vars
<1> QED BY <1>1, <1>2, <1>3, <1>4, <1>5, <1>6, <1>7, <1>8, <1>9, <1>10, <1>11, <1>12, <1>13,
    <1>14, <1>15, <1>16, <1>17, <1>18, <1>19, <1>20, <1>21, <1>22, <1>23, <1>24, <1>25,
    <1>26, <1>27, <1>28, <1>29, <1>30, <1>31 DEF Next, Connect, Exchange, Body, Watchdog,
    Operation, Background

\* Facts about the state the steps below use.
LEMMA Shape ==
  ASSUME ConstantsAssumption, ListInv, TypeInv
  PROVE  /\ pc \in [Requests -> Labels] /\ rconn \in [Requests -> Conns \cup {NoConn}]
         /\ cstate \in [Conns -> {"none", "open", "closed"}]
         /\ watch \in [Requests -> {"off", "armed", "poisoning"}]
         /\ Idle \subseteq Conns /\ closing \subseteq Conns
         /\ \A r \in Requests : KeyOf[r] \in Keys
         /\ \A r \in Requests : Holds(r) => rconn[r] \in Conns
BY IdleAreConns DEF TypeInv, TypeOK, Labels, ConstantsAssumption

\* The three operations on one list, by what they do to Idle: getIdleConn discards
\* an expired connection or hands one out, putIdleConn takes one back and lets
\* others go.
Discards(r, c) ==
    /\ c \in Conns /\ Idle' = Idle \ {c} /\ cstate' = [cstate EXCEPT ![c] = "closed"]
    /\ pc[r] = "lookup" /\ pc' = [pc EXCEPT ![r] = "dial"]
    /\ UNCHANGED <<closed, swept, poisoned, closing, rconn, cancelled, watch>>

HandsOut(r, c) ==
    /\ c \in Conns /\ Idle' = Idle \ {c} /\ rconn' = [rconn EXCEPT ![r] = c]
    /\ watch' = [watch EXCEPT ![r] = "armed"]
    /\ pc[r] = "lookup" /\ pc' = [pc EXCEPT ![r] = "exchange"]
    /\ UNCHANGED <<closed, swept, cstate, poisoned, closing, cancelled>>

TakesBack(r, out) ==
    /\ Idle' = (Idle \ out) \cup {rconn[r]} /\ closing' = closing \cup out
    /\ rconn[r] \in Conns /\ rconn[r] \notin Idle /\ rconn[r] \notin poisoned
    /\ pc[r] = "ending" /\ pc' = [pc EXCEPT ![r] = "done"]
    /\ watch[r] = "off" /\ ~closed
    /\ UNCHANGED <<closed, swept, cstate, poisoned, rconn, cancelled, watch>>

\* getIdleConn finds an expired connection, or one that can be used.
LEMMA TakeExpired ==
  ASSUME ConstantsAssumption, ListInv, TypeInv, NEW r \in Requests, GetIdleExpired(r)
  PROVE  \E c \in Idle : Discards(r, c)
<1> DEFINE k == KeyOf[r]
<1>1. /\ k \in Keys /\ idleConns[k] # <<>>
      /\ idleConns' = [idleConns EXCEPT ![k] = Front(@)]
  BY Shape DEF GetIdleExpired
<1>2. /\ Idle' = Idle \ {Last(idleConns[k])}
      /\ Last(idleConns[k]) \in Idle /\ Last(idleConns[k]) \in Conns
  BY <1>1, TakeIdle
<1> QED BY <1>2 DEF GetIdleExpired, CloseConn, Goto, Discards

\* getIdleConn hands out an idle connection, which leaves the lists.
LEMMA TakeHit ==
  ASSUME ConstantsAssumption, ListInv, TypeInv, NEW r \in Requests, GetIdleHit(r)
  PROVE  \E c \in Idle : HandsOut(r, c)
<1> DEFINE k == KeyOf[r]
<1>1. /\ k \in Keys /\ idleConns[k] # <<>>
      /\ idleConns' = [idleConns EXCEPT ![k] = Front(@)]
  BY Shape DEF GetIdleHit
<1>2. /\ Idle' = Idle \ {Last(idleConns[k])}
      /\ Last(idleConns[k]) \in Idle /\ Last(idleConns[k]) \in Conns
  BY <1>1, TakeIdle
<1> QED BY <1>2 DEF GetIdleHit, StartExchange, Goto, connVars, HandsOut

\* putIdleConn moves a whole connection from its caller to the pool.
LEMMA PutBack ==
  ASSUME ConstantsAssumption, ListInv, TypeInv, PlaceInv, NEW r \in Requests, PutIdleConn(r)
  PROVE  \E out \in SUBSET Idle : TakesBack(r, out)
<1>1. /\ Idle' = (Idle \ PushedOut(KeyOf[r])) \cup {rconn[r]}
      /\ PushedOut(KeyOf[r]) \in SUBSET Idle
  BY PutIdleStep
<1>2. /\ closing' = closing \cup PushedOut(KeyOf[r])
      /\ pc[r] = "ending" /\ pc' = [pc EXCEPT ![r] = "done"]
      /\ watch[r] = "off" /\ rconn[r] \notin poisoned /\ ~closed
      /\ UNCHANGED <<closed, swept, cstate, poisoned, rconn, cancelled, watch>>
  BY DEF PutIdleConn, Poolable, WatchdogGone, BodyDone, Goto
<1>3. rconn[r] \in Conns /\ rconn[r] \notin Idle
  BY <1>2 DEF TypeInv, PlaceInv, HeldAlone, Holds
<1> QED BY <1>1, <1>2, <1>3 DEF TakesBack

\* A watchdog ends before the exchange it watches.
LEMMA WatchStep ==
  ASSUME ConstantsAssumption, ListInv, TypeInv, PlaceInv, [Next]_vars
  PROVE  WatchInv'
<1> USE Shape, ListFrame DEF PlaceInv, WatchInv, Holds, Goto, transportVars, connVars,
    callVars, Labels
<1>1. ASSUME NEW r \in Requests, StartClosed(r) PROVE WatchInv'
  BY <1>1 DEF StartClosed
<1>2. ASSUME NEW r \in Requests, Start(r) PROVE WatchInv'
  BY <1>2 DEF Start
<1>3. ASSUME NEW r \in Requests, NEW c \in Conns, HandoffClosed(r, c) PROVE WatchInv'
  BY <1>3 DEF HandoffClosed, CloseConn
<1>4. ASSUME NEW r \in Requests, NEW c \in Conns, Handoff(r, c) PROVE WatchInv'
  BY <1>4 DEF Handoff, StartExchange
<1>5. ASSUME NEW r \in Requests, NEW c \in Conns, Dialled(r, c) PROVE WatchInv'
  BY <1>5 DEF Dialled, StartExchange
<1>6. ASSUME NEW r \in Requests, GetIdleMiss(r) PROVE WatchInv'
  BY <1>6 DEF GetIdleMiss
<1>7. ASSUME NEW r \in Requests, GetIdleExpired(r) PROVE WatchInv'
  <2>1. PICK c \in Idle : Discards(r, c)
    BY <1>7, TakeExpired
  <2> QED BY <2>1 DEF Discards
<1>8. ASSUME NEW r \in Requests, GetIdleHit(r) PROVE WatchInv'
  <2>1. PICK c \in Idle : HandsOut(r, c)
    BY <1>8, TakeHit
  <2> QED BY <2>1 DEF HandsOut
<1>9. ASSUME NEW r \in Requests, DialBegin(r) PROVE WatchInv'
  BY <1>9 DEF DialBegin
<1>10. ASSUME NEW r \in Requests, DialFailed(r) PROVE WatchInv'
  BY <1>10 DEF DialFailed
<1>11. ASSUME NEW r \in Requests, NEW reusable \in BOOLEAN, Respond(r, reusable) PROVE WatchInv'
  BY <1>11 DEF Respond
<1>12. ASSUME NEW r \in Requests, ExchangeFails(r) PROVE WatchInv'
  BY <1>12 DEF ExchangeFails, StopWatch
<1>13. ASSUME NEW r \in Requests, CloseFailed(r) PROVE WatchInv'
  BY <1>13 DEF CloseFailed, WatchdogGone, CloseConn
<1>14. ASSUME NEW r \in Requests, EndBody(r) PROVE WatchInv'
  BY <1>14 DEF EndBody, StopWatch
<1>15. ASSUME NEW r \in Requests, BodyCloseFails(r) PROVE WatchInv'
  BY <1>15 DEF BodyCloseFails, StopWatch
<1>16. ASSUME NEW r \in Requests, Abandon(r) PROVE WatchInv'
  BY <1>16 DEF Abandon
<1>17. ASSUME NEW r \in Requests, CloseAfterBody(r) PROVE WatchInv'
  BY <1>17 DEF CloseAfterBody, WatchdogGone, CloseConn, BodyDone
<1>18. ASSUME NEW r \in Requests, PutIdleConn(r) PROVE WatchInv'
  <2>1. PICK out \in SUBSET Idle : TakesBack(r, out)
    BY <1>18, PutBack
  <2> QED BY <2>1 DEF TakesBack
<1>19. ASSUME NEW r \in Requests, Cancel(r) PROVE WatchInv'
  BY <1>19 DEF Cancel
<1>20. ASSUME NEW r \in Requests, WatchdogFires(r) PROVE WatchInv'
  BY <1>20 DEF WatchdogFires
<1>21. ASSUME NEW r \in Requests, Poison(r) PROVE WatchInv'
  BY <1>21 DEF Poison
<1>22. ASSUME RefreshBegin PROVE WatchInv'
  BY <1>22 DEF RefreshBegin
<1>23. ASSUME RefreshEnd PROVE WatchInv'
  BY <1>23, DropLists DEF RefreshEnd
<1>24. ASSUME CloseBegin PROVE WatchInv'
  BY <1>24 DEF CloseBegin
<1>25. ASSUME CloseEnd PROVE WatchInv'
  BY <1>25, DropLists DEF CloseEnd
<1>26. ASSUME NEW new \in Presets, SetPreset(new) PROVE WatchInv'
  BY <1>26 DEF SetPreset
<1>27. ASSUME NEW new \in Proxies, SetProxy(new) PROVE WatchInv'
  BY <1>27, DropLists DEF SetProxy
<1>28. ASSUME Cleanup PROVE WatchInv'
  <2>1. /\ closing' = closing \cup (Idle \cap expired)
        /\ UNCHANGED <<closed, swept, cstate, poisoned, callVars>>
    BY <1>28 DEF Cleanup
  <2>2. Idle' = Idle \ expired
    BY <1>28, CleanLists
  <2> QED BY <2>1, <2>2
<1>29. ASSUME NEW c \in Conns, RunClose(c) PROVE WatchInv'
  BY <1>29 DEF RunClose, CloseConn
<1>30. ASSUME NEW c \in Conns, Expire(c) PROVE WatchInv'
  BY <1>30 DEF Expire
<1>31. CASE UNCHANGED vars
  BY <1>31 DEF vars
<1> QED BY <1>1, <1>2, <1>3, <1>4, <1>5, <1>6, <1>7, <1>8, <1>9, <1>10, <1>11, <1>12, <1>13,
    <1>14, <1>15, <1>16, <1>17, <1>18, <1>19, <1>20, <1>21, <1>22, <1>23, <1>24, <1>25,
    <1>26, <1>27, <1>28, <1>29, <1>30, <1>31 DEF Next, Connect, Exchange, Body, Watchdog,
    Operation, Background

\* A connection gets a second caller only after the first is done.
LEMMA HeldStep ==
  ASSUME ConstantsAssumption, ListInv, TypeInv, PlaceInv, [Next]_vars
  PROVE  HeldAlone'
<1> USE Shape, ListFrame DEF PlaceInv, HeldAlone, Undialled, InFlightSpared, IdleWhole, Holds,
    Goto, transportVars, connVars, callVars, Labels
<1>1. ASSUME NEW r \in Requests, StartClosed(r) PROVE HeldAlone'
  BY <1>1 DEF StartClosed
<1>2. ASSUME NEW r \in Requests, Start(r) PROVE HeldAlone'
  BY <1>2 DEF Start
<1>3. ASSUME NEW r \in Requests, NEW c \in Conns, HandoffClosed(r, c) PROVE HeldAlone'
  BY <1>3 DEF HandoffClosed, CloseConn
<1>4. ASSUME NEW r \in Requests, NEW c \in Conns, Handoff(r, c) PROVE HeldAlone'
  BY <1>4 DEF Handoff, StartExchange
<1>5. ASSUME NEW r \in Requests, NEW c \in Conns, Dialled(r, c) PROVE HeldAlone'
  BY <1>5 DEF Dialled, StartExchange
<1>6. ASSUME NEW r \in Requests, GetIdleMiss(r) PROVE HeldAlone'
  BY <1>6 DEF GetIdleMiss
<1>7. ASSUME NEW r \in Requests, GetIdleExpired(r) PROVE HeldAlone'
  <2>1. PICK c \in Idle : Discards(r, c)
    BY <1>7, TakeExpired
  <2> QED BY <2>1 DEF Discards
<1>8. ASSUME NEW r \in Requests, GetIdleHit(r) PROVE HeldAlone'
  <2>1. PICK c \in Idle : HandsOut(r, c)
    BY <1>8, TakeHit
  <2> QED BY <2>1 DEF HandsOut
<1>9. ASSUME NEW r \in Requests, DialBegin(r) PROVE HeldAlone'
  BY <1>9 DEF DialBegin
<1>10. ASSUME NEW r \in Requests, DialFailed(r) PROVE HeldAlone'
  BY <1>10 DEF DialFailed
<1>11. ASSUME NEW r \in Requests, NEW reusable \in BOOLEAN, Respond(r, reusable)
       PROVE  HeldAlone'
  BY <1>11 DEF Respond
<1>12. ASSUME NEW r \in Requests, ExchangeFails(r) PROVE HeldAlone'
  BY <1>12 DEF ExchangeFails, StopWatch
<1>13. ASSUME NEW r \in Requests, CloseFailed(r) PROVE HeldAlone'
  BY <1>13 DEF CloseFailed, WatchdogGone, CloseConn
<1>14. ASSUME NEW r \in Requests, EndBody(r) PROVE HeldAlone'
  BY <1>14 DEF EndBody, StopWatch
<1>15. ASSUME NEW r \in Requests, BodyCloseFails(r) PROVE HeldAlone'
  BY <1>15 DEF BodyCloseFails, StopWatch
<1>16. ASSUME NEW r \in Requests, Abandon(r) PROVE HeldAlone'
  BY <1>16 DEF Abandon
<1>17. ASSUME NEW r \in Requests, CloseAfterBody(r) PROVE HeldAlone'
  BY <1>17 DEF CloseAfterBody, WatchdogGone, CloseConn, BodyDone
<1>18. ASSUME NEW r \in Requests, PutIdleConn(r) PROVE HeldAlone'
  <2>1. PICK out \in SUBSET Idle : TakesBack(r, out)
    BY <1>18, PutBack
  <2> QED BY <2>1 DEF TakesBack
<1>19. ASSUME NEW r \in Requests, Cancel(r) PROVE HeldAlone'
  BY <1>19 DEF Cancel
<1>20. ASSUME NEW r \in Requests, WatchdogFires(r) PROVE HeldAlone'
  BY <1>20 DEF WatchdogFires
<1>21. ASSUME NEW r \in Requests, Poison(r) PROVE HeldAlone'
  BY <1>21 DEF Poison
<1>22. ASSUME RefreshBegin PROVE HeldAlone'
  BY <1>22 DEF RefreshBegin
<1>23. ASSUME RefreshEnd PROVE HeldAlone'
  BY <1>23, DropLists DEF RefreshEnd
<1>24. ASSUME CloseBegin PROVE HeldAlone'
  BY <1>24 DEF CloseBegin
<1>25. ASSUME CloseEnd PROVE HeldAlone'
  BY <1>25, DropLists DEF CloseEnd
<1>26. ASSUME NEW new \in Presets, SetPreset(new) PROVE HeldAlone'
  BY <1>26 DEF SetPreset
<1>27. ASSUME NEW new \in Proxies, SetProxy(new) PROVE HeldAlone'
  BY <1>27, DropLists DEF SetProxy
<1>28. ASSUME Cleanup PROVE HeldAlone'
  <2>1. /\ closing' = closing \cup (Idle \cap expired)
        /\ UNCHANGED <<closed, swept, cstate, poisoned, callVars>>
    BY <1>28 DEF Cleanup
  <2>2. Idle' = Idle \ expired
    BY <1>28, CleanLists
  <2> QED BY <2>1, <2>2
<1>29. ASSUME NEW c \in Conns, RunClose(c) PROVE HeldAlone'
  BY <1>29 DEF RunClose, CloseConn
<1>30. ASSUME NEW c \in Conns, Expire(c) PROVE HeldAlone'
  BY <1>30 DEF Expire
<1>31. CASE UNCHANGED vars
  BY <1>31 DEF vars
<1> QED BY <1>1, <1>2, <1>3, <1>4, <1>5, <1>6, <1>7, <1>8, <1>9, <1>10, <1>11, <1>12, <1>13,
    <1>14, <1>15, <1>16, <1>17, <1>18, <1>19, <1>20, <1>21, <1>22, <1>23, <1>24, <1>25,
    <1>26, <1>27, <1>28, <1>29, <1>30, <1>31 DEF Next, Connect, Exchange, Body, Watchdog,
    Operation, Background

\* A connection is used only after it is dialled.
LEMMA UndialledStep ==
  ASSUME ConstantsAssumption, ListInv, TypeInv, PlaceInv, [Next]_vars
  PROVE  Undialled'
<1> USE Shape, ListFrame DEF PlaceInv, Undialled, InFlightSpared, IdleWhole, HeldAlone,
    WatchInv, Holds, Goto, transportVars, connVars, callVars, Labels
<1>1. ASSUME NEW r \in Requests, StartClosed(r) PROVE Undialled'
  BY <1>1 DEF StartClosed
<1>2. ASSUME NEW r \in Requests, Start(r) PROVE Undialled'
  BY <1>2 DEF Start
<1>3. ASSUME NEW r \in Requests, NEW c \in Conns, HandoffClosed(r, c) PROVE Undialled'
  BY <1>3 DEF HandoffClosed, CloseConn
<1>4. ASSUME NEW r \in Requests, NEW c \in Conns, Handoff(r, c) PROVE Undialled'
  BY <1>4 DEF Handoff, StartExchange
<1>5. ASSUME NEW r \in Requests, NEW c \in Conns, Dialled(r, c) PROVE Undialled'
  BY <1>5 DEF Dialled, StartExchange
<1>6. ASSUME NEW r \in Requests, GetIdleMiss(r) PROVE Undialled'
  BY <1>6 DEF GetIdleMiss
<1>7. ASSUME NEW r \in Requests, GetIdleExpired(r) PROVE Undialled'
  <2>1. PICK c \in Idle : Discards(r, c)
    BY <1>7, TakeExpired
  <2> QED BY <2>1 DEF Discards
<1>8. ASSUME NEW r \in Requests, GetIdleHit(r) PROVE Undialled'
  <2>1. PICK c \in Idle : HandsOut(r, c)
    BY <1>8, TakeHit
  <2> QED BY <2>1 DEF HandsOut
<1>9. ASSUME NEW r \in Requests, DialBegin(r) PROVE Undialled'
  BY <1>9 DEF DialBegin
<1>10. ASSUME NEW r \in Requests, DialFailed(r) PROVE Undialled'
  BY <1>10 DEF DialFailed
<1>11. ASSUME NEW r \in Requests, NEW reusable \in BOOLEAN, Respond(r, reusable)
       PROVE  Undialled'
  BY <1>11 DEF Respond
<1>12. ASSUME NEW r \in Requests, ExchangeFails(r) PROVE Undialled'
  BY <1>12 DEF ExchangeFails, StopWatch
<1>13. ASSUME NEW r \in Requests, CloseFailed(r) PROVE Undialled'
  BY <1>13 DEF CloseFailed, WatchdogGone, CloseConn
<1>14. ASSUME NEW r \in Requests, EndBody(r) PROVE Undialled'
  BY <1>14 DEF EndBody, StopWatch
<1>15. ASSUME NEW r \in Requests, BodyCloseFails(r) PROVE Undialled'
  BY <1>15 DEF BodyCloseFails, StopWatch
<1>16. ASSUME NEW r \in Requests, Abandon(r) PROVE Undialled'
  BY <1>16 DEF Abandon
<1>17. ASSUME NEW r \in Requests, CloseAfterBody(r) PROVE Undialled'
  BY <1>17 DEF CloseAfterBody, WatchdogGone, CloseConn, BodyDone
<1>18. ASSUME NEW r \in Requests, PutIdleConn(r) PROVE Undialled'
  <2>1. PICK out \in SUBSET Idle : TakesBack(r, out)
    BY <1>18, PutBack
  <2> QED BY <2>1 DEF TakesBack
<1>19. ASSUME NEW r \in Requests, Cancel(r) PROVE Undialled'
  BY <1>19 DEF Cancel
<1>20. ASSUME NEW r \in Requests, WatchdogFires(r) PROVE Undialled'
  BY <1>20 DEF WatchdogFires
<1>21. ASSUME NEW r \in Requests, Poison(r) PROVE Undialled'
  BY <1>21 DEF Poison
<1>22. ASSUME RefreshBegin PROVE Undialled'
  BY <1>22 DEF RefreshBegin
<1>23. ASSUME RefreshEnd PROVE Undialled'
  BY <1>23, DropLists DEF RefreshEnd
<1>24. ASSUME CloseBegin PROVE Undialled'
  BY <1>24 DEF CloseBegin
<1>25. ASSUME CloseEnd PROVE Undialled'
  BY <1>25, DropLists DEF CloseEnd
<1>26. ASSUME NEW new \in Presets, SetPreset(new) PROVE Undialled'
  BY <1>26 DEF SetPreset
<1>27. ASSUME NEW new \in Proxies, SetProxy(new) PROVE Undialled'
  BY <1>27, DropLists DEF SetProxy
<1>28. ASSUME Cleanup PROVE Undialled'
  <2>1. /\ closing' = closing \cup (Idle \cap expired)
        /\ UNCHANGED <<closed, swept, cstate, poisoned, callVars>>
    BY <1>28 DEF Cleanup
  <2>2. Idle' = Idle \ expired
    BY <1>28, CleanLists
  <2> QED BY <2>1, <2>2
<1>29. ASSUME NEW c \in Conns, RunClose(c) PROVE Undialled'
  BY <1>29 DEF RunClose, CloseConn
<1>30. ASSUME NEW c \in Conns, Expire(c) PROVE Undialled'
  BY <1>30 DEF Expire
<1>31. CASE UNCHANGED vars
  BY <1>31 DEF vars
<1> QED BY <1>1, <1>2, <1>3, <1>4, <1>5, <1>6, <1>7, <1>8, <1>9, <1>10, <1>11, <1>12, <1>13,
    <1>14, <1>15, <1>16, <1>17, <1>18, <1>19, <1>20, <1>21, <1>22, <1>23, <1>24, <1>25,
    <1>26, <1>27, <1>28, <1>29, <1>30, <1>31 DEF Next, Connect, Exchange, Body, Watchdog,
    Operation, Background

\* What is put into the pool is whole, and stays so there.
LEMMA WholeStep ==
  ASSUME ConstantsAssumption, ListInv, TypeInv, PlaceInv, [Next]_vars
  PROVE  IdleWhole'
<1> USE Shape, ListFrame DEF PlaceInv, IdleWhole, HeldAlone, Undialled, InFlightSpared,
    WatchInv, Holds, Goto, transportVars, connVars, callVars, Labels
<1>1. ASSUME NEW r \in Requests, StartClosed(r) PROVE IdleWhole'
  BY <1>1 DEF StartClosed
<1>2. ASSUME NEW r \in Requests, Start(r) PROVE IdleWhole'
  BY <1>2 DEF Start
<1>3. ASSUME NEW r \in Requests, NEW c \in Conns, HandoffClosed(r, c) PROVE IdleWhole'
  BY <1>3 DEF HandoffClosed, CloseConn
<1>4. ASSUME NEW r \in Requests, NEW c \in Conns, Handoff(r, c) PROVE IdleWhole'
  BY <1>4 DEF Handoff, StartExchange
<1>5. ASSUME NEW r \in Requests, NEW c \in Conns, Dialled(r, c) PROVE IdleWhole'
  BY <1>5 DEF Dialled, StartExchange
<1>6. ASSUME NEW r \in Requests, GetIdleMiss(r) PROVE IdleWhole'
  BY <1>6 DEF GetIdleMiss
<1>7. ASSUME NEW r \in Requests, GetIdleExpired(r) PROVE IdleWhole'
  <2>1. PICK c \in Idle : Discards(r, c)
    BY <1>7, TakeExpired
  <2> QED BY <2>1 DEF Discards
<1>8. ASSUME NEW r \in Requests, GetIdleHit(r) PROVE IdleWhole'
  <2>1. PICK c \in Idle : HandsOut(r, c)
    BY <1>8, TakeHit
  <2> QED BY <2>1 DEF HandsOut
<1>9. ASSUME NEW r \in Requests, DialBegin(r) PROVE IdleWhole'
  BY <1>9 DEF DialBegin
<1>10. ASSUME NEW r \in Requests, DialFailed(r) PROVE IdleWhole'
  BY <1>10 DEF DialFailed
<1>11. ASSUME NEW r \in Requests, NEW reusable \in BOOLEAN, Respond(r, reusable)
       PROVE  IdleWhole'
  BY <1>11 DEF Respond
<1>12. ASSUME NEW r \in Requests, ExchangeFails(r) PROVE IdleWhole'
  BY <1>12 DEF ExchangeFails, StopWatch
<1>13. ASSUME NEW r \in Requests, CloseFailed(r) PROVE IdleWhole'
  BY <1>13 DEF CloseFailed, WatchdogGone, CloseConn
<1>14. ASSUME NEW r \in Requests, EndBody(r) PROVE IdleWhole'
  BY <1>14 DEF EndBody, StopWatch
<1>15. ASSUME NEW r \in Requests, BodyCloseFails(r) PROVE IdleWhole'
  BY <1>15 DEF BodyCloseFails, StopWatch
<1>16. ASSUME NEW r \in Requests, Abandon(r) PROVE IdleWhole'
  BY <1>16 DEF Abandon
<1>17. ASSUME NEW r \in Requests, CloseAfterBody(r) PROVE IdleWhole'
  BY <1>17 DEF CloseAfterBody, WatchdogGone, CloseConn, BodyDone
<1>18. ASSUME NEW r \in Requests, PutIdleConn(r) PROVE IdleWhole'
  <2>1. PICK out \in SUBSET Idle : TakesBack(r, out)
    BY <1>18, PutBack
  <2> QED BY <2>1 DEF TakesBack
<1>19. ASSUME NEW r \in Requests, Cancel(r) PROVE IdleWhole'
  BY <1>19 DEF Cancel
<1>20. ASSUME NEW r \in Requests, WatchdogFires(r) PROVE IdleWhole'
  BY <1>20 DEF WatchdogFires
<1>21. ASSUME NEW r \in Requests, Poison(r) PROVE IdleWhole'
  BY <1>21 DEF Poison
<1>22. ASSUME RefreshBegin PROVE IdleWhole'
  BY <1>22 DEF RefreshBegin
<1>23. ASSUME RefreshEnd PROVE IdleWhole'
  BY <1>23, DropLists DEF RefreshEnd
<1>24. ASSUME CloseBegin PROVE IdleWhole'
  BY <1>24 DEF CloseBegin
<1>25. ASSUME CloseEnd PROVE IdleWhole'
  BY <1>25, DropLists DEF CloseEnd
<1>26. ASSUME NEW new \in Presets, SetPreset(new) PROVE IdleWhole'
  BY <1>26 DEF SetPreset
<1>27. ASSUME NEW new \in Proxies, SetProxy(new) PROVE IdleWhole'
  BY <1>27, DropLists DEF SetProxy
<1>28. ASSUME Cleanup PROVE IdleWhole'
  <2>1. /\ closing' = closing \cup (Idle \cap expired)
        /\ UNCHANGED <<closed, swept, cstate, poisoned, callVars>>
    BY <1>28 DEF Cleanup
  <2>2. Idle' = Idle \ expired
    BY <1>28, CleanLists
  <2> QED BY <2>1, <2>2
<1>29. ASSUME NEW c \in Conns, RunClose(c) PROVE IdleWhole'
  BY <1>29 DEF RunClose, CloseConn
<1>30. ASSUME NEW c \in Conns, Expire(c) PROVE IdleWhole'
  BY <1>30 DEF Expire
<1>31. CASE UNCHANGED vars
  BY <1>31 DEF vars
<1> QED BY <1>1, <1>2, <1>3, <1>4, <1>5, <1>6, <1>7, <1>8, <1>9, <1>10, <1>11, <1>12, <1>13,
    <1>14, <1>15, <1>16, <1>17, <1>18, <1>19, <1>20, <1>21, <1>22, <1>23, <1>24, <1>25,
    <1>26, <1>27, <1>28, <1>29, <1>30, <1>31 DEF Next, Connect, Exchange, Body, Watchdog,
    Operation, Background

\* No step but the caller's own cancellation disturbs a held connection.
LEMMA SparedStep ==
  ASSUME ConstantsAssumption, ListInv, TypeInv, PlaceInv, [Next]_vars
  PROVE  InFlightSpared'
<1> USE Shape, ListFrame DEF PlaceInv, InFlightSpared, IdleWhole, HeldAlone, Undialled,
    WatchInv, Holds, Goto, transportVars, connVars, callVars, Labels
<1>1. ASSUME NEW r \in Requests, StartClosed(r) PROVE InFlightSpared'
  BY <1>1 DEF StartClosed
<1>2. ASSUME NEW r \in Requests, Start(r) PROVE InFlightSpared'
  BY <1>2 DEF Start
<1>3. ASSUME NEW r \in Requests, NEW c \in Conns, HandoffClosed(r, c) PROVE InFlightSpared'
  BY <1>3 DEF HandoffClosed, CloseConn
<1>4. ASSUME NEW r \in Requests, NEW c \in Conns, Handoff(r, c) PROVE InFlightSpared'
  BY <1>4 DEF Handoff, StartExchange
<1>5. ASSUME NEW r \in Requests, NEW c \in Conns, Dialled(r, c) PROVE InFlightSpared'
  BY <1>5 DEF Dialled, StartExchange
<1>6. ASSUME NEW r \in Requests, GetIdleMiss(r) PROVE InFlightSpared'
  BY <1>6 DEF GetIdleMiss
<1>7. ASSUME NEW r \in Requests, GetIdleExpired(r) PROVE InFlightSpared'
  <2>1. PICK c \in Idle : Discards(r, c)
    BY <1>7, TakeExpired
  <2> QED BY <2>1 DEF Discards
<1>8. ASSUME NEW r \in Requests, GetIdleHit(r) PROVE InFlightSpared'
  <2>1. PICK c \in Idle : HandsOut(r, c)
    BY <1>8, TakeHit
  <2> QED BY <2>1 DEF HandsOut
<1>9. ASSUME NEW r \in Requests, DialBegin(r) PROVE InFlightSpared'
  BY <1>9 DEF DialBegin
<1>10. ASSUME NEW r \in Requests, DialFailed(r) PROVE InFlightSpared'
  BY <1>10 DEF DialFailed
<1>11. ASSUME NEW r \in Requests, NEW reusable \in BOOLEAN, Respond(r, reusable)
       PROVE  InFlightSpared'
  BY <1>11 DEF Respond
<1>12. ASSUME NEW r \in Requests, ExchangeFails(r) PROVE InFlightSpared'
  BY <1>12 DEF ExchangeFails, StopWatch
<1>13. ASSUME NEW r \in Requests, CloseFailed(r) PROVE InFlightSpared'
  BY <1>13 DEF CloseFailed, WatchdogGone, CloseConn
<1>14. ASSUME NEW r \in Requests, EndBody(r) PROVE InFlightSpared'
  BY <1>14 DEF EndBody, StopWatch
<1>15. ASSUME NEW r \in Requests, BodyCloseFails(r) PROVE InFlightSpared'
  BY <1>15 DEF BodyCloseFails, StopWatch
<1>16. ASSUME NEW r \in Requests, Abandon(r) PROVE InFlightSpared'
  BY <1>16 DEF Abandon
<1>17. ASSUME NEW r \in Requests, CloseAfterBody(r) PROVE InFlightSpared'
  BY <1>17 DEF CloseAfterBody, WatchdogGone, CloseConn, BodyDone
<1>18. ASSUME NEW r \in Requests, PutIdleConn(r) PROVE InFlightSpared'
  <2>1. PICK out \in SUBSET Idle : TakesBack(r, out)
    BY <1>18, PutBack
  <2> QED BY <2>1 DEF TakesBack
<1>19. ASSUME NEW r \in Requests, Cancel(r) PROVE InFlightSpared'
  BY <1>19 DEF Cancel
<1>20. ASSUME NEW r \in Requests, WatchdogFires(r) PROVE InFlightSpared'
  BY <1>20 DEF WatchdogFires
<1>21. ASSUME NEW r \in Requests, Poison(r) PROVE InFlightSpared'
  BY <1>21 DEF Poison
<1>22. ASSUME RefreshBegin PROVE InFlightSpared'
  BY <1>22 DEF RefreshBegin
<1>23. ASSUME RefreshEnd PROVE InFlightSpared'
  BY <1>23, DropLists DEF RefreshEnd
<1>24. ASSUME CloseBegin PROVE InFlightSpared'
  BY <1>24 DEF CloseBegin
<1>25. ASSUME CloseEnd PROVE InFlightSpared'
  BY <1>25, DropLists DEF CloseEnd
<1>26. ASSUME NEW new \in Presets, SetPreset(new) PROVE InFlightSpared'
  BY <1>26 DEF SetPreset
<1>27. ASSUME NEW new \in Proxies, SetProxy(new) PROVE InFlightSpared'
  BY <1>27, DropLists DEF SetProxy
<1>28. ASSUME Cleanup PROVE InFlightSpared'
  <2>1. /\ closing' = closing \cup (Idle \cap expired)
        /\ UNCHANGED <<closed, swept, cstate, poisoned, callVars>>
    BY <1>28 DEF Cleanup
  <2>2. Idle' = Idle \ expired
    BY <1>28, CleanLists
  <2> QED BY <2>1, <2>2
<1>29. ASSUME NEW c \in Conns, RunClose(c) PROVE InFlightSpared'
  BY <1>29 DEF RunClose, CloseConn
<1>30. ASSUME NEW c \in Conns, Expire(c) PROVE InFlightSpared'
  BY <1>30 DEF Expire
<1>31. CASE UNCHANGED vars
  BY <1>31 DEF vars
<1> QED BY <1>1, <1>2, <1>3, <1>4, <1>5, <1>6, <1>7, <1>8, <1>9, <1>10, <1>11, <1>12, <1>13,
    <1>14, <1>15, <1>16, <1>17, <1>18, <1>19, <1>20, <1>21, <1>22, <1>23, <1>24, <1>25,
    <1>26, <1>27, <1>28, <1>29, <1>30, <1>31 DEF Next, Connect, Exchange, Body, Watchdog,
    Operation, Background

\* A connection that is given up is closed, pooled or waits for its close.
LEMMA TrackedStep ==
  ASSUME ConstantsAssumption, ListInv, TypeInv, PlaceInv, [Next]_vars
  PROVE  ConnTracked'
<1> USE Shape, ListFrame DEF PlaceInv, ConnTracked, InFlightSpared, IdleWhole, HeldAlone,
    Undialled, Holds, Goto, transportVars, connVars, callVars, Labels
<1>1. ASSUME NEW r \in Requests, StartClosed(r) PROVE ConnTracked'
  BY <1>1 DEF StartClosed
<1>2. ASSUME NEW r \in Requests, Start(r) PROVE ConnTracked'
  BY <1>2 DEF Start
<1>3. ASSUME NEW r \in Requests, NEW c \in Conns, HandoffClosed(r, c) PROVE ConnTracked'
  BY <1>3 DEF HandoffClosed, CloseConn
<1>4. ASSUME NEW r \in Requests, NEW c \in Conns, Handoff(r, c) PROVE ConnTracked'
  BY <1>4 DEF Handoff, StartExchange
<1>5. ASSUME NEW r \in Requests, NEW c \in Conns, Dialled(r, c) PROVE ConnTracked'
  BY <1>5 DEF Dialled, StartExchange
<1>6. ASSUME NEW r \in Requests, GetIdleMiss(r) PROVE ConnTracked'
  BY <1>6 DEF GetIdleMiss
<1>7. ASSUME NEW r \in Requests, GetIdleExpired(r) PROVE ConnTracked'
  <2>1. PICK c \in Idle : Discards(r, c)
    BY <1>7, TakeExpired
  <2> QED BY <2>1 DEF Discards
<1>8. ASSUME NEW r \in Requests, GetIdleHit(r) PROVE ConnTracked'
  <2>1. PICK c \in Idle : HandsOut(r, c)
    BY <1>8, TakeHit
  <2> QED BY <2>1 DEF HandsOut
<1>9. ASSUME NEW r \in Requests, DialBegin(r) PROVE ConnTracked'
  BY <1>9 DEF DialBegin
<1>10. ASSUME NEW r \in Requests, DialFailed(r) PROVE ConnTracked'
  BY <1>10 DEF DialFailed
<1>11. ASSUME NEW r \in Requests, NEW reusable \in BOOLEAN, Respond(r, reusable)
       PROVE  ConnTracked'
  BY <1>11 DEF Respond
<1>12. ASSUME NEW r \in Requests, ExchangeFails(r) PROVE ConnTracked'
  BY <1>12 DEF ExchangeFails, StopWatch
<1>13. ASSUME NEW r \in Requests, CloseFailed(r) PROVE ConnTracked'
  BY <1>13 DEF CloseFailed, WatchdogGone, CloseConn
<1>14. ASSUME NEW r \in Requests, EndBody(r) PROVE ConnTracked'
  BY <1>14 DEF EndBody, StopWatch
<1>15. ASSUME NEW r \in Requests, BodyCloseFails(r) PROVE ConnTracked'
  BY <1>15 DEF BodyCloseFails, StopWatch
<1>16. ASSUME NEW r \in Requests, Abandon(r) PROVE ConnTracked'
  BY <1>16 DEF Abandon
<1>17. ASSUME NEW r \in Requests, CloseAfterBody(r) PROVE ConnTracked'
  BY <1>17 DEF CloseAfterBody, WatchdogGone, CloseConn, BodyDone
<1>18. ASSUME NEW r \in Requests, PutIdleConn(r) PROVE ConnTracked'
  <2>1. PICK out \in SUBSET Idle : TakesBack(r, out)
    BY <1>18, PutBack
  <2> QED BY <2>1 DEF TakesBack
<1>19. ASSUME NEW r \in Requests, Cancel(r) PROVE ConnTracked'
  BY <1>19 DEF Cancel
<1>20. ASSUME NEW r \in Requests, WatchdogFires(r) PROVE ConnTracked'
  BY <1>20 DEF WatchdogFires
<1>21. ASSUME NEW r \in Requests, Poison(r) PROVE ConnTracked'
  BY <1>21 DEF Poison
<1>22. ASSUME RefreshBegin PROVE ConnTracked'
  BY <1>22 DEF RefreshBegin
<1>23. ASSUME RefreshEnd PROVE ConnTracked'
  BY <1>23, DropLists DEF RefreshEnd
<1>24. ASSUME CloseBegin PROVE ConnTracked'
  BY <1>24 DEF CloseBegin
<1>25. ASSUME CloseEnd PROVE ConnTracked'
  BY <1>25, DropLists DEF CloseEnd
<1>26. ASSUME NEW new \in Presets, SetPreset(new) PROVE ConnTracked'
  BY <1>26 DEF SetPreset
<1>27. ASSUME NEW new \in Proxies, SetProxy(new) PROVE ConnTracked'
  BY <1>27, DropLists DEF SetProxy
<1>28. ASSUME Cleanup PROVE ConnTracked'
  <2>1. /\ closing' = closing \cup (Idle \cap expired)
        /\ UNCHANGED <<closed, swept, cstate, poisoned, callVars>>
    BY <1>28 DEF Cleanup
  <2>2. Idle' = Idle \ expired
    BY <1>28, CleanLists
  <2> QED BY <2>1, <2>2
<1>29. ASSUME NEW c \in Conns, RunClose(c) PROVE ConnTracked'
  BY <1>29 DEF RunClose, CloseConn
<1>30. ASSUME NEW c \in Conns, Expire(c) PROVE ConnTracked'
  BY <1>30 DEF Expire
<1>31. CASE UNCHANGED vars
  BY <1>31 DEF vars
<1> QED BY <1>1, <1>2, <1>3, <1>4, <1>5, <1>6, <1>7, <1>8, <1>9, <1>10, <1>11, <1>12, <1>13,
    <1>14, <1>15, <1>16, <1>17, <1>18, <1>19, <1>20, <1>21, <1>22, <1>23, <1>24, <1>25,
    <1>26, <1>27, <1>28, <1>29, <1>30, <1>31 DEF Next, Connect, Exchange, Body, Watchdog,
    Operation, Background

\* Nothing enters the pool after the sweep of Close.
LEMMA CloseStep ==
  ASSUME ConstantsAssumption, ListInv, TypeInv, PlaceInv, CloseInv, [Next]_vars
  PROVE  CloseInv'
<1> USE Shape, ListFrame DEF CloseInv, NothingPooledAfterClose, Goto, transportVars, connVars,
    callVars, Labels
<1>1. ASSUME NEW r \in Requests, StartClosed(r) PROVE CloseInv'
  BY <1>1 DEF StartClosed
<1>2. ASSUME NEW r \in Requests, Start(r) PROVE CloseInv'
  BY <1>2 DEF Start
<1>3. ASSUME NEW r \in Requests, NEW c \in Conns, HandoffClosed(r, c) PROVE CloseInv'
  BY <1>3 DEF HandoffClosed, CloseConn
<1>4. ASSUME NEW r \in Requests, NEW c \in Conns, Handoff(r, c) PROVE CloseInv'
  BY <1>4 DEF Handoff, StartExchange
<1>5. ASSUME NEW r \in Requests, NEW c \in Conns, Dialled(r, c) PROVE CloseInv'
  BY <1>5 DEF Dialled, StartExchange
<1>6. ASSUME NEW r \in Requests, GetIdleMiss(r) PROVE CloseInv'
  BY <1>6 DEF GetIdleMiss
<1>7. ASSUME NEW r \in Requests, GetIdleExpired(r) PROVE CloseInv'
  <2>1. PICK c \in Idle : Discards(r, c)
    BY <1>7, TakeExpired
  <2> QED BY <2>1 DEF Discards
<1>8. ASSUME NEW r \in Requests, GetIdleHit(r) PROVE CloseInv'
  <2>1. PICK c \in Idle : HandsOut(r, c)
    BY <1>8, TakeHit
  <2> QED BY <2>1 DEF HandsOut
<1>9. ASSUME NEW r \in Requests, DialBegin(r) PROVE CloseInv'
  BY <1>9 DEF DialBegin
<1>10. ASSUME NEW r \in Requests, DialFailed(r) PROVE CloseInv'
  BY <1>10 DEF DialFailed
<1>11. ASSUME NEW r \in Requests, NEW reusable \in BOOLEAN, Respond(r, reusable) PROVE CloseInv'
  BY <1>11 DEF Respond
<1>12. ASSUME NEW r \in Requests, ExchangeFails(r) PROVE CloseInv'
  BY <1>12 DEF ExchangeFails, StopWatch
<1>13. ASSUME NEW r \in Requests, CloseFailed(r) PROVE CloseInv'
  BY <1>13 DEF CloseFailed, WatchdogGone, CloseConn
<1>14. ASSUME NEW r \in Requests, EndBody(r) PROVE CloseInv'
  BY <1>14 DEF EndBody, StopWatch
<1>15. ASSUME NEW r \in Requests, BodyCloseFails(r) PROVE CloseInv'
  BY <1>15 DEF BodyCloseFails, StopWatch
<1>16. ASSUME NEW r \in Requests, Abandon(r) PROVE CloseInv'
  BY <1>16 DEF Abandon
<1>17. ASSUME NEW r \in Requests, CloseAfterBody(r) PROVE CloseInv'
  BY <1>17 DEF CloseAfterBody, WatchdogGone, CloseConn, BodyDone
<1>18. ASSUME NEW r \in Requests, PutIdleConn(r) PROVE CloseInv'
  <2>1. PICK out \in SUBSET Idle : TakesBack(r, out)
    BY <1>18, PutBack
  <2> QED BY <2>1 DEF TakesBack
<1>19. ASSUME NEW r \in Requests, Cancel(r) PROVE CloseInv'
  BY <1>19 DEF Cancel
<1>20. ASSUME NEW r \in Requests, WatchdogFires(r) PROVE CloseInv'
  BY <1>20 DEF WatchdogFires
<1>21. ASSUME NEW r \in Requests, Poison(r) PROVE CloseInv'
  BY <1>21 DEF Poison
<1>22. ASSUME RefreshBegin PROVE CloseInv'
  BY <1>22 DEF RefreshBegin
<1>23. ASSUME RefreshEnd PROVE CloseInv'
  BY <1>23, DropLists DEF RefreshEnd
<1>24. ASSUME CloseBegin PROVE CloseInv'
  BY <1>24 DEF CloseBegin
<1>25. ASSUME CloseEnd PROVE CloseInv'
  BY <1>25, DropLists DEF CloseEnd
<1>26. ASSUME NEW new \in Presets, SetPreset(new) PROVE CloseInv'
  BY <1>26 DEF SetPreset
<1>27. ASSUME NEW new \in Proxies, SetProxy(new) PROVE CloseInv'
  BY <1>27, DropLists DEF SetProxy
<1>28. ASSUME Cleanup PROVE CloseInv'
  <2>1. /\ closing' = closing \cup (Idle \cap expired)
        /\ UNCHANGED <<closed, swept, cstate, poisoned, callVars>>
    BY <1>28 DEF Cleanup
  <2>2. Idle' = Idle \ expired
    BY <1>28, CleanLists
  <2> QED BY <2>1, <2>2
<1>29. ASSUME NEW c \in Conns, RunClose(c) PROVE CloseInv'
  BY <1>29 DEF RunClose, CloseConn
<1>30. ASSUME NEW c \in Conns, Expire(c) PROVE CloseInv'
  BY <1>30 DEF Expire
<1>31. CASE UNCHANGED vars
  BY <1>31 DEF vars
<1> QED BY <1>1, <1>2, <1>3, <1>4, <1>5, <1>6, <1>7, <1>8, <1>9, <1>10, <1>11, <1>12, <1>13,
    <1>14, <1>15, <1>16, <1>17, <1>18, <1>19, <1>20, <1>21, <1>22, <1>23, <1>24, <1>25,
    <1>26, <1>27, <1>28, <1>29, <1>30, <1>31 DEF Next, Connect, Exchange, Body, Watchdog,
    Operation, Background

\* A request goes back to dialling once, from a connection of the pool only.
LEMMA SendStep ==
  ASSUME ConstantsAssumption, ListInv, TypeInv, SendInv, [Next]_vars
  PROVE  SendInv'
<1>a. /\ outcome \in [Requests -> {"none", "response", "closed", "cancelled", "error"}]
      /\ pc \in [Requests -> Labels] /\ sends \in [Requests -> Nat]
  BY DEF TypeInv, TypeOK, Labels
<1> USE <1>a DEF SendInv, RepeatsBounded, Labels, Answer, Goto, transportVars, connVars, callVars
<1>1. ASSUME NEW r \in Requests, StartClosed(r) PROVE SendInv'
  BY <1>1 DEF StartClosed
<1>2. ASSUME NEW r \in Requests, Start(r) PROVE SendInv'
  BY <1>2 DEF Start
<1>3. ASSUME NEW r \in Requests, NEW c \in Conns, HandoffClosed(r, c) PROVE SendInv'
  BY <1>3 DEF HandoffClosed, CloseConn
<1>4. ASSUME NEW r \in Requests, NEW c \in Conns, Handoff(r, c) PROVE SendInv'
  BY <1>4 DEF Handoff, StartExchange
<1>5. ASSUME NEW r \in Requests, NEW c \in Conns, Dialled(r, c) PROVE SendInv'
  BY <1>5 DEF Dialled, StartExchange
<1>6. ASSUME NEW r \in Requests, GetIdleMiss(r) PROVE SendInv'
  BY <1>6 DEF GetIdleMiss
<1>7. ASSUME NEW r \in Requests, GetIdleExpired(r) PROVE SendInv'
  BY <1>7 DEF GetIdleExpired, CloseConn
<1>8. ASSUME NEW r \in Requests, GetIdleHit(r) PROVE SendInv'
  BY <1>8 DEF GetIdleHit, StartExchange
<1>9. ASSUME NEW r \in Requests, DialBegin(r) PROVE SendInv'
  BY <1>9 DEF DialBegin
<1>10. ASSUME NEW r \in Requests, DialFailed(r) PROVE SendInv'
  BY <1>10 DEF DialFailed
<1>11. ASSUME NEW r \in Requests, NEW reusable \in BOOLEAN, Respond(r, reusable)
       PROVE  SendInv'
  BY <1>11 DEF Respond
<1>12. ASSUME NEW r \in Requests, ExchangeFails(r) PROVE SendInv'
  BY <1>12 DEF ExchangeFails, StopWatch
<1>13. ASSUME NEW r \in Requests, CloseFailed(r) PROVE SendInv'
  BY <1>13 DEF CloseFailed, AfterFailure
<1>14. ASSUME NEW r \in Requests, EndBody(r) PROVE SendInv'
  BY <1>14 DEF EndBody, StopWatch
<1>15. ASSUME NEW r \in Requests, BodyCloseFails(r) PROVE SendInv'
  BY <1>15 DEF BodyCloseFails, StopWatch
<1>16. ASSUME NEW r \in Requests, Abandon(r) PROVE SendInv'
  BY <1>16 DEF Abandon
<1>17. ASSUME NEW r \in Requests, CloseAfterBody(r) PROVE SendInv'
  BY <1>17 DEF CloseAfterBody, WatchdogGone, CloseConn, BodyDone
<1>18. ASSUME NEW r \in Requests, PutIdleConn(r) PROVE SendInv'
  BY <1>18 DEF PutIdleConn, WatchdogGone, BodyDone, Poolable
<1>19. ASSUME NEW r \in Requests, Cancel(r) PROVE SendInv'
  BY <1>19 DEF Cancel
<1>20. ASSUME NEW r \in Requests, WatchdogFires(r) PROVE SendInv'
  BY <1>20 DEF WatchdogFires
<1>21. ASSUME NEW r \in Requests, Poison(r) PROVE SendInv'
  BY <1>21 DEF Poison
<1>22. ASSUME RefreshBegin PROVE SendInv'
  BY <1>22 DEF RefreshBegin
<1>23. ASSUME RefreshEnd PROVE SendInv'
  BY <1>23 DEF RefreshEnd
<1>24. ASSUME CloseBegin PROVE SendInv'
  BY <1>24 DEF CloseBegin
<1>25. ASSUME CloseEnd PROVE SendInv'
  BY <1>25 DEF CloseEnd
<1>26. ASSUME NEW new \in Presets, SetPreset(new) PROVE SendInv'
  BY <1>26 DEF SetPreset
<1>27. ASSUME NEW new \in Proxies, SetProxy(new) PROVE SendInv'
  BY <1>27 DEF SetProxy
<1>28. ASSUME Cleanup PROVE SendInv'
  BY <1>28 DEF Cleanup
<1>29. ASSUME NEW c \in Conns, RunClose(c) PROVE SendInv'
  BY <1>29 DEF RunClose, CloseConn
<1>30. ASSUME NEW c \in Conns, Expire(c) PROVE SendInv'
  BY <1>30 DEF Expire
<1>31. CASE UNCHANGED vars
  BY <1>31 DEF vars
<1> QED BY <1>1, <1>2, <1>3, <1>4, <1>5, <1>6, <1>7, <1>8, <1>9, <1>10, <1>11, <1>12, <1>13,
    <1>14, <1>15, <1>16, <1>17, <1>18, <1>19, <1>20, <1>21, <1>22, <1>23, <1>24, <1>25,
    <1>26, <1>27, <1>28, <1>29, <1>30, <1>31 DEF Next, Connect, Exchange, Body, Watchdog,
    Operation, Background

-----------------------------------------------------------------------------
\* IInv holds initially.
LEMMA Initially ==
  ASSUME ConstantsAssumption, Init
  PROVE  IInv
<1>1. \A k \in Keys : idleConns[k] = <<>> /\ ToSet(idleConns[k]) = {}
  BY DEF Init, ToSet
<1>2. ListInv
  BY <1>1 DEF ListInv, Init, IsInjective, ConstantsAssumption
<1>3. Idle = {}
  BY <1>1, IdleMembers
<1>4. TypeInv
  <2>1. \A k \in Keys : ToSet(idleConns[k]) \subseteq Conns /\ Len(idleConns[k]) <= MaxIdle
    BY <1>1, <1>2 DEF ListInv
  <2>2. builtWith \in [Conns -> Builds]
    BY DEF Init, Builds
  <2>3. \A r \in Requests : ~Holds(r)
    BY DEF Init, Holds
  <2> QED BY <2>1, <2>2, <2>3 DEF TypeInv, TypeOK, Init
<1>5. PlaceInv
  BY <1>3 DEF PlaceInv, Undialled, IdleWhole, HeldAlone, InFlightSpared, WatchInv, ConnTracked,
              Init, Holds
<1>6. CloseInv /\ SendInv
  BY DEF CloseInv, NothingPooledAfterClose, SendInv, RepeatsBounded, Init
<1> QED BY <1>2, <1>4, <1>5, <1>6 DEF IInv

\* IInv holds throughout.
THEOREM Inductive ==
  Spec => []IInv
<1>1. Init => IInv
  BY Initially, ConstantsAssumption
<1>2. IInv /\ [Next]_vars => IInv'
  <2> SUFFICES ASSUME IInv, [Next]_vars PROVE IInv'
    OBVIOUS
  <2>1. ListInv' /\ TypeInv'
    BY ListStep, TypeStep, ConstantsAssumption DEF IInv
  <2>2. PlaceInv'
    BY WatchStep, HeldStep, UndialledStep, WholeStep, SparedStep, TrackedStep,
       ConstantsAssumption DEF IInv, PlaceInv
  <2>3. CloseInv' /\ SendInv'
    BY CloseStep, SendStep, ConstantsAssumption DEF IInv
  <2> QED BY <2>1, <2>2, <2>3 DEF IInv
<1> QED BY <1>1, <1>2, PTL DEF Spec

\* For every instance: a connection serves one request at a time, nothing but its
\* own cancellation disturbs it, and no open connection is lost (RoundTrip,
\* handleClose, putIdleConn, cleanup, Close).
THEOREM OneUserSafe ==
  Spec => []OneUser
<1>1. IInv => OneUser
  BY DEF IInv, OneUser, ListInv, TypeInv, PlaceInv, HeldAlone, ExclusiveUse
<1> QED BY <1>1, Inductive, PTL

\* For every instance: what is in the pool can be used again, no late watchdog can
\* cut it, and nothing enters the pool after Close (watchContext, putIdleConn).
THEOREM PoolReusableSafe ==
  Spec => []PoolReusable
<1>1. IInv => PooledClean
  <2> SUFFICES ASSUME IInv, NEW c \in Idle
               PROVE  /\ cstate[c] = "open" /\ c \notin poisoned \cup closing
                      /\ \A r \in Requests : rconn[r] = c => watch[r] = "off"
    BY DEF PooledClean
  <2>1. cstate[c] = "open" /\ c \notin poisoned \cup closing
    BY DEF IInv, PlaceInv, IdleWhole
  <2>2. \A r \in Requests : rconn[r] = c => watch[r] = "off"
    BY DEF IInv, PlaceInv, HeldAlone, WatchInv
  <2> QED BY <2>1, <2>2
<1>2. IInv => NothingPooledAfterClose /\ ConnTracked /\ InFlightSpared
  BY DEF IInv, PlaceInv, CloseInv
<1> QED BY <1>1, <1>2, Inductive, PTL DEF PoolReusable

\* For every instance: a request is sent twice at most, once if its body cannot be
\* re-opened, and a repeatable one does not end with the error of a connection it
\* got from the pool (RoundTrip's retry).
THEOREM RepeatsSafe ==
  Spec => []RepeatsBounded
<1>1. IInv => RepeatsBounded
  BY DEF IInv, SendInv
<1> QED BY <1>1, Inductive, PTL
==============================================================================
